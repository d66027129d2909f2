---------------------------- MODULE WebmailProofs ----------------------------
(***************************************************************************)
(* Proofs about the folders of a mailbox under webmail and Dovecot and     *)
(* about the submission of a message, for any number of messages, requests *)
(* in flight, recipients, addresses of the MTA and broken connections; and *)
(* about content, for every request, text and listing rather than the      *)
(* samples that TLC looks at.                                              *)
(***************************************************************************)
EXTENDS MCWebmail, FiniteSetTheorems, SequenceTheorems, WellFoundedInduction, TLAPS

-----------------------------------------------------------------------------
(* The folders. *)

OpPCs == {"idle", "findCur", "findNew", "act", "failed", "listNew", "listCur", "parse", "listed"}
OpKinds == {"none", "get", "attachment", "mark", "move", "remove", "list", "count",
            "markThenReread", "reread"}

Ops ==
  [pc : OpPCs, kind : OpKinds, folder : Folders, dst : Folders, key : Messages \cup {None},
   read : BOOLEAN, found : Path \cup {None}, seen : SUBSET Path, out : SUBSET Path,
   still : SUBSET Path]

Keys(ps) == {p.key : p \in ps}
OneEach(ps) == \A p, q \in ps : p.key = q.key => p = q

(* A file per delivered message that is not gone and none of one that is,  *)
(* all in folders whose directories exist.                                 *)
FilesFit ==
  /\ files \subseteq Path /\ IsFiniteSet(files) /\ OneEach(files)
  /\ dirs \subseteq Folders /\ "inbox" \in dirs /\ \A p \in files : p.folder \in dirs
  /\ removed \subseteq Messages \X {"trash"} /\ expunged \subseteq Messages
  /\ Keys(files) \cap Gone = {} /\ delivered = Keys(files) \cup Gone

(* A request for one message: what it has found is the only one of the     *)
(* paths it may count on that can be its message; what it has missed is    *)
(* not among them.                                                         *)
FindFits(o) ==
  /\ o.kind = "remove" => o.folder = "trash"
  /\ o.pc = "act" => /\ o.found \in Path /\ o.found.folder = o.folder /\ o.found.key = o.key
                     /\ \A s \in o.still : s.key = o.key => s = o.found
  /\ o.pc = "findNew" => \A s \in o.still : s.key = o.key => s.sub # "cur"
  /\ o.pc = "failed" => \A s \in o.still : s.key # o.key

(* A listing of the files F: a path in new that was seen and is no longer  *)
(* there does not come back, for its message is one of the delivered ones  *)
(* D, so of two paths of one message at most the one in cur is opened.     *)
ListFits(o, F, D) ==
  /\ IsFiniteSet(o.seen) /\ IsFiniteSet(o.out)
  /\ o.pc \in {"listNew", "listCur"} => o.out = {}
  /\ o.pc = "listCur" => /\ \A p \in o.seen : p.sub = "new" /\ p.key \in D
                         /\ OneEach(o.seen)
                         /\ \A s \in o.still : s.sub = "new" => s \in o.seen
  /\ o.pc = "parse" => /\ Keys(o.seen \cup o.out) \subseteq D /\ o.still \subseteq o.seen \cup o.out
                       /\ \A p, q \in o.seen \cup o.out : p.key = q.key /\ p # q =>
                            \E r \in {p, q} : r.sub = "new" /\ r \notin F /\ r \notin o.out
  /\ o.pc = "listed" => o.still \subseteq o.out /\ (o.kind = "list" => OneEach(o.out))

(* What a request counts on is there and in its folder. *)
OpFits(o, F, D) ==
  /\ o \in Ops /\ o.still \subseteq F /\ \A s \in o.still : s.folder = o.folder
  /\ FindFits(o) /\ ListFits(o, F, D)

MaildirInv ==
  /\ FilesFit /\ op \in [Workers -> Ops]
  /\ \A w \in Workers : OpFits(op[w], files, delivered)

-----------------------------------------------------------------------------
LEMMA PathFields ==
  \A p \in Path : p.folder \in Folders /\ p.sub \in {"new", "cur"} /\ p.key \in Messages /\ p.info \in Infos
BY DEF Path

LEMMA DeliveredIs == MaildirInv => delivered = Keys(files) \cup Gone
BY DEF MaildirInv, FilesFit

(* The file under its new name: in cur, and still of the same message. *)
LEMMA MovedPath ==
  ASSUME NEW p \in Path, NEW f \in Folders
  PROVE  LET q == [p EXCEPT !.folder = f, !.sub = "cur"]
         IN  q \in Path /\ q.folder = f /\ q.sub = "cur" /\ q.key = p.key
BY DEF Path

LEMMA MarkedPath ==
  ASSUME NEW p \in Path, NEW i \in Infos
  PROVE  LET q == File(p.folder, "cur", p.key, i)
         IN  q \in Path /\ q.folder = p.folder /\ q.sub = "cur" /\ q.key = p.key
BY DEF Path, File

LEMMA FlaggedPath ==
  ASSUME NEW p \in Path, NEW i \in Infos
  PROVE  LET q == [p EXCEPT !.sub = "cur", !.info = i]
         IN  q \in Path /\ q.folder = p.folder /\ q.sub = "cur" /\ q.key = p.key
BY DEF Path

LEMMA IdleFits == IdleOp \in Ops /\ IdleOp.pc = "idle" /\ IdleOp.kind = "none" /\ IdleOp.still = {}
                  /\ IdleOp.seen = {} /\ IdleOp.out = {}
BY DEF IdleOp, Ops, OpPCs, OpKinds, Folders

(* An idle request counts on nothing. *)
LEMMA IdleOpFits ==
  ASSUME NEW o \in Ops, NEW F, NEW D, o.pc = "idle", o.kind # "remove", o.still = {},
         IsFiniteSet(o.seen), IsFiniteSet(o.out)
  PROVE  OpFits(o, F, D)
BY DEF OpFits, FindFits, ListFits

LEMMA InitMaildirInv == MaildirInit => MaildirInv
<1> SUFFICES ASSUME MaildirInit PROVE MaildirInv
  OBVIOUS
<1>1. FilesFit
  <2>1. Gone = {} /\ Keys(files) = {}
    BY DEF MaildirInit, Gone, Keys
  <2> QED
    BY <2>1, FS_EmptySet DEF MaildirInit, FilesFit, OneEach, Folders
<1>2. op \in [Workers -> Ops]
  BY IdleFits DEF MaildirInit
<1>3. ASSUME NEW w \in Workers PROVE OpFits(op[w], files, delivered)
  <2>1. op[w] = IdleOp
    BY DEF MaildirInit
  <2>2. IdleOp.kind # "remove"
    BY IdleFits
  <2>3. OpFits(IdleOp, files, delivered)
    BY <2>2, IdleFits, IdleOpFits, FS_EmptySet
  <2> QED
    BY <2>1, <2>3
<1> QED
  BY <1>1, <1>2, <1>3 DEF MaildirInv

-----------------------------------------------------------------------------
(* The files F become G, and the messages delivered so far D become E: a   *)
(* path that appears is in cur, or of a message that is new.               *)
Evolves(F, D, G, E) == D \subseteq E /\ \A p \in G \ F : p.sub = "cur" \/ p.key \notin D

(* A request that is told what is left of what it counts on. *)
LEMMA ToldFits ==
  ASSUME NEW F, NEW D, NEW G, NEW E, Evolves(F, D, G, E), NEW o, OpFits(o, F, D), NEW t \in Ops,
         t.pc = o.pc, t.kind = o.kind, t.folder = o.folder, t.key = o.key, t.found = o.found,
         t.seen = o.seen, t.out = o.out, t.still \subseteq o.still, t.still \subseteq G
  PROVE  OpFits(t, G, E)
<1>1. FindFits(t)
  BY DEF OpFits, FindFits
<1>2. ASSUME t.pc = "parse", NEW p \in t.seen \cup t.out, NEW q \in t.seen \cup t.out, p.key = q.key, p # q
      PROVE  \E r \in {p, q} : r.sub = "new" /\ r \notin G /\ r \notin t.out
  <2>1. o.pc = "parse" /\ p \in o.seen \cup o.out /\ q \in o.seen \cup o.out
    BY <1>2
  <2>2. PICK r \in {p, q} : r.sub = "new" /\ r \notin F /\ r \notin o.out
    BY <2>1, <1>2 DEF OpFits, ListFits
  <2>3. r.key \in D
    BY <2>1, <2>2 DEF OpFits, ListFits, Keys
  <2>4. r \notin G
    BY <2>2, <2>3 DEF Evolves
  <2> QED
    BY <2>2, <2>4
<1>3. t.pc = "parse" => Keys(t.seen \cup t.out) \subseteq E /\ t.still \subseteq t.seen \cup t.out
  BY DEF OpFits, ListFits, Evolves
<1>4. t.pc = "listCur" => /\ \A p \in t.seen : p.sub = "new" /\ p.key \in E
                          /\ OneEach(t.seen)
                          /\ \A s \in t.still : s.sub = "new" => s \in t.seen
  BY DEF OpFits, ListFits, Evolves
<1>5. t.pc = "listed" => t.still \subseteq t.out /\ (t.kind = "list" => OneEach(t.out))
  BY DEF OpFits, ListFits
<1>6. IsFiniteSet(t.seen) /\ IsFiniteSet(t.out) /\ (t.pc \in {"listNew", "listCur"} => t.out = {})
  BY DEF OpFits, ListFits
<1>7. ListFits(t, G, E)
  BY <1>2, <1>3, <1>4, <1>5, <1>6 DEF ListFits
<1>8. \A s \in t.still : s.folder = t.folder
  BY DEF OpFits
<1> QED
  BY <1>1, <1>7, <1>8 DEF OpFits

(* A step of one request that changes no file. *)
LEMMA OneOpStep ==
  ASSUME MaildirInv, NEW w \in Workers, NEW o, op' = [op EXCEPT ![w] = o],
         OpFits(o, files, delivered), UNCHANGED <<files, removed, expunged, delivered>>,
         dirs' = dirs \/ (dirs \subseteq dirs' /\ dirs' \subseteq Folders)
  PROVE  MaildirInv'
<1>1. delivered' = delivered /\ Gone' = Gone
  BY DEF Gone
<1>2. FilesFit'
  <2>1. dirs' \subseteq Folders /\ "inbox" \in dirs' /\ dirs \subseteq dirs'
    BY DEF MaildirInv, FilesFit, Folders
  <2> QED
    BY <1>1, <2>1 DEF MaildirInv, FilesFit
<1>3. o \in Ops
  BY DEF OpFits
<1>4. op' \in [Workers -> Ops]
  BY <1>3 DEF MaildirInv
<1>5. ASSUME NEW v \in Workers PROVE OpFits(op'[v], files', delivered')
  <2>1. op'[v] = IF v = w THEN o ELSE op[v]
    BY DEF MaildirInv
  <2>2. OpFits(op[v], files, delivered)
    BY DEF MaildirInv
  <2> QED
    BY <1>1, <2>1, <2>2, Zenon
<1> QED
  BY <1>2, <1>4, <1>5 DEF MaildirInv
-----------------------------------------------------------------------------
(* Requests begin. *)
LEMMA FolderNamesFit == \A n \in FolderNames : getFolderDir[n] \in Folders
BY DEF FolderNames, getFolderDir, Folders

LEMMA TrashIsTrash == "trash" \in FolderNames /\ getFolderDir["trash"] = "trash" /\ "trash" \in Folders
BY DEF FolderNames, getFolderDir, Folders

LEMMA BeginFindStep ==
  ASSUME MaildirInv, NEW w \in Workers, NEW kind \in OpKinds, NEW folder \in Folders,
         NEW key \in Messages, NEW read \in BOOLEAN, NEW dst \in Folders,
         kind = "remove" => folder = "trash", BeginFind(w, kind, folder, key, read, dst)
  PROVE  MaildirInv'
<1> DEFINE still == {p \in files : p.folder = folder}
           b == [IdleOp EXCEPT !.pc = "findCur", !.kind = kind, !.folder = folder,
                   !.key = key, !.read = read, !.dst = dst]
           o == [b EXCEPT !.still = {p \in files : p.folder = b.folder}]
<1>1. still \subseteq files /\ still \subseteq Path /\ \A p \in still : p.folder = folder
  BY DEF MaildirInv, FilesFit
<1> HIDE DEF still
<1>2. /\ b.pc = "findCur" /\ b.kind = kind /\ b.folder = folder /\ b.key = key /\ b.read = read
      /\ b.dst = dst /\ b.found = None /\ b.seen = {} /\ b.out = {} /\ b \in Ops
  BY DEF IdleOp, Ops, OpPCs
<1>3. {p \in files : p.folder = b.folder} = still
  BY <1>2, Zenon DEF still
<1> HIDE DEF b
<1>4. o = [b EXCEPT !.still = still]
  BY <1>3, Zenon
<1> HIDE DEF o
<1>5. o \in Ops /\ o.pc = "findCur" /\ o.kind = kind /\ o.folder = folder /\ o.still = still /\ o.seen = {} /\ o.out = {}
  BY <1>1, <1>2, <1>4 DEF Ops
<1>6. OpFits(o, files, delivered)
  BY <1>1, <1>5, FS_EmptySet DEF OpFits, FindFits, ListFits
<1>7. op' = [op EXCEPT ![w] = o] /\ UNCHANGED <<files, dirs, removed, expunged, delivered>>
  BY Zenon DEF BeginFind, Begin, o, b
<1> QED
  BY <1>6, <1>7, OneOpStep

LEMMA BeginListStep ==
  ASSUME MaildirInv, NEW w \in Workers, NEW kind \in OpKinds, NEW folder \in Folders,
         kind # "remove",
         Begin(w, [IdleOp EXCEPT !.pc = "listNew", !.kind = kind, !.folder = folder]),
         ensureFolders, UNCHANGED <<files, removed, expunged, delivered>>
  PROVE  MaildirInv'
<1> DEFINE still == {p \in files : p.folder = folder}
           b == [IdleOp EXCEPT !.pc = "listNew", !.kind = kind, !.folder = folder]
           o == [b EXCEPT !.still = {p \in files : p.folder = b.folder}]
<1>1. still \subseteq files /\ still \subseteq Path /\ \A p \in still : p.folder = folder
  BY DEF MaildirInv, FilesFit
<1> HIDE DEF still
<1>2. b.pc = "listNew" /\ b.kind = kind /\ b.folder = folder /\ b.seen = {} /\ b.out = {} /\ b \in Ops
  BY DEF IdleOp, Ops, OpPCs, Folders
<1>3. {p \in files : p.folder = b.folder} = still
  BY <1>2, Zenon DEF still
<1> HIDE DEF b
<1>4. o = [b EXCEPT !.still = still]
  BY <1>3, Zenon
<1> HIDE DEF o
<1>5. o \in Ops /\ o.pc = "listNew" /\ o.kind = kind /\ o.folder = folder /\ o.still = still /\ o.seen = {} /\ o.out = {}
  BY <1>1, <1>2, <1>4 DEF Ops
<1>6. OpFits(o, files, delivered)
  BY <1>1, <1>5, FS_EmptySet DEF OpFits, FindFits, ListFits
<1>7. op' = [op EXCEPT ![w] = o] /\ dirs' = Folders
  BY Zenon DEF Begin, ensureFolders, o, b
<1>8. dirs \subseteq Folders
  BY DEF MaildirInv, FilesFit
<1> QED
  BY <1>6, <1>7, <1>8, OneOpStep

LEMMA RequestSteps ==
  ASSUME MaildirInv, NEW w \in Workers,
         \/ GetMessage(w) \/ GetAttachment(w) \/ MarkRead(w) \/ MoveMessage(w) \/ DeleteMessage(w)
         \/ ListMessages(w) \/ ListFolders(w)
  PROVE  MaildirInv'
<1>1. CASE GetMessage(w) \/ GetAttachment(w)
  <2>1. PICK n \in FolderNames, k \in Messages, kind \in {"get", "attachment"} :
          BeginFind(w, kind, getFolderDir[n], k, TRUE, "trash")
    BY <1>1 DEF GetMessage, GetAttachment
  <2> QED
    BY <2>1, BeginFindStep, FolderNamesFit, TrashIsTrash DEF OpKinds
<1>2. CASE MarkRead(w)
  <2>1. PICK n \in FolderNames, k \in Messages, r \in BOOLEAN :
          BeginFind(w, "mark", getFolderDir[n], k, r, "trash")
    BY <1>2 DEF MarkRead
  <2> QED
    BY <2>1, BeginFindStep, FolderNamesFit, TrashIsTrash DEF OpKinds
<1>3. CASE MoveMessage(w)
  <2>1. PICK n, d \in FolderNames, k \in Messages :
          BeginFind(w, "move", getFolderDir[n], k, TRUE, getFolderDir[d])
    BY <1>3 DEF MoveMessage
  <2> QED
    BY <2>1, BeginFindStep, FolderNamesFit DEF OpKinds
<1>4. CASE DeleteMessage(w)
  <2>1. PICK n \in FolderNames, k \in Messages :
          BeginFind(w, IF n = "trash" THEN "remove" ELSE "move", getFolderDir[n], k, TRUE, "trash")
    BY <1>4 DEF DeleteMessage
  <2> DEFINE kind == IF n = "trash" THEN "remove" ELSE "move"
  <2>2. kind \in OpKinds /\ (kind = "remove" => getFolderDir[n] = "trash")
    BY TrashIsTrash DEF OpKinds
  <2> QED
    BY <2>1, <2>2, BeginFindStep, FolderNamesFit, TrashIsTrash
<1>5. CASE ListMessages(w)
  <2>1. PICK n \in FolderNames :
          Begin(w, [IdleOp EXCEPT !.pc = "listNew", !.kind = "list", !.folder = getFolderDir[n]])
    BY <1>5 DEF ListMessages
  <2>2. ensureFolders /\ UNCHANGED <<files, removed, expunged, delivered>>
    BY <1>5, Zenon DEF ListMessages
  <2>3. "list" \in OpKinds
    BY DEF OpKinds
  <2> QED
    BY <2>1, <2>2, <2>3, BeginListStep, FolderNamesFit
<1>6. CASE ListFolders(w)
  <2>1. PICK f \in Folders :
          Begin(w, [IdleOp EXCEPT !.pc = "listNew", !.kind = "count", !.folder = f])
    BY <1>6 DEF ListFolders
  <2>2. ensureFolders /\ UNCHANGED <<files, removed, expunged, delivered>>
    BY <1>6, Zenon DEF ListFolders
  <2>3. "count" \in OpKinds
    BY DEF OpKinds
  <2> QED
    BY <2>1, <2>2, <2>3, BeginListStep
<1> QED
  BY <1>1, <1>2, <1>3, <1>4, <1>5, <1>6
-----------------------------------------------------------------------------
(* Steps of a request that change no file. *)

(* A request that goes on with another pc, kind or found path, and keeps   *)
(* what it counts on.                                                      *)
LEMMA NextOp ==
  ASSUME MaildirInv, NEW w \in Workers, NEW o \in Ops, op' = [op EXCEPT ![w] = o],
         UNCHANGED <<files, dirs, removed, expunged, delivered>>,
         o.folder = op[w].folder, o.still \subseteq op[w].still, FindFits(o), ListFits(o, files, delivered)
  PROVE  MaildirInv'
<1>1. OpFits(op[w], files, delivered)
  BY DEF MaildirInv
<1>2. OpFits(o, files, delivered)
  BY <1>1 DEF OpFits
<1> QED
  BY <1>2, OneOpStep

LEMMA WorkerFacts ==
  ASSUME MaildirInv, NEW w \in Workers
  PROVE  /\ op[w] \in Ops /\ OpFits(op[w], files, delivered) /\ FindFits(op[w])
         /\ op[w].still \subseteq files /\ (\A s \in op[w].still : s.folder = op[w].folder)
         /\ IsFiniteSet(op[w].seen) /\ IsFiniteSet(op[w].out)
         /\ \A s \in op[w].still : s \in Path /\ s.sub \in {"new", "cur"}
<1>1. OpFits(op[w], files, delivered) /\ files \subseteq Path
  BY DEF MaildirInv, FilesFit
<1> QED
  BY <1>1, PathFields DEF OpFits, ListFits

LEMMA FoundStep ==
  ASSUME MaildirInv, NEW w \in Workers, NEW sub, FoundIn(w, sub), op[w].pc \in {"findCur", "findNew"},
         UNCHANGED <<files, dirs, removed, expunged, delivered>>
  PROVE  MaildirInv'
<1>1. PICK p \in InSub(w, sub) : op' = [op EXCEPT ![w].pc = "act", ![w].found = p]
  BY DEF FoundIn
<1>2. p \in files /\ p \in Path /\ p.folder = op[w].folder /\ p.key = op[w].key /\ OneEach(files)
  BY DEF InSub, MaildirInv, FilesFit
<1> DEFINE o == [op[w] EXCEPT !.pc = "act", !.found = p]
<1>3. op[w] \in Ops /\ op[w].still \subseteq files /\ FindFits(op[w]) /\ IsFiniteSet(op[w].seen) /\ IsFiniteSet(op[w].out)
  BY WorkerFacts
<1>4. op' = [op EXCEPT ![w] = o]
  BY <1>1 DEF MaildirInv
<1>5. /\ o \in Ops /\ o.pc = "act" /\ o.found = p /\ o.kind = op[w].kind /\ o.folder = op[w].folder
      /\ o.key = op[w].key /\ o.still = op[w].still /\ o.seen = op[w].seen /\ o.out = op[w].out
  BY <1>2, <1>3 DEF Ops, OpPCs
<1> HIDE DEF o
<1>6. \A s \in o.still : s.key = o.key => s = o.found
  BY <1>2, <1>3, <1>5 DEF OneEach
<1>7. FindFits(o)
  BY <1>2, <1>3, <1>5, <1>6 DEF FindFits
<1>8. ListFits(o, files, delivered)
  BY <1>3, <1>5 DEF ListFits
<1> QED
  BY <1>4, <1>5, <1>7, <1>8, NextOp

(* A request that gives up: nothing it counts on is its message. *)
LEMMA FailStep ==
  ASSUME MaildirInv, NEW w \in Workers, op' = Fail(w),
         \A s \in op[w].still : s.key # op[w].key,
         UNCHANGED <<files, dirs, removed, expunged, delivered>>
  PROVE  MaildirInv'
<1> DEFINE o == [op[w] EXCEPT !.pc = "failed"]
<1>1. op[w] \in Ops /\ FindFits(op[w]) /\ IsFiniteSet(op[w].seen) /\ IsFiniteSet(op[w].out)
  BY WorkerFacts
<1>2. op' = [op EXCEPT ![w] = o]
  BY DEF Fail, MaildirInv
<1>3. /\ o \in Ops /\ o.pc = "failed" /\ o.kind = op[w].kind /\ o.folder = op[w].folder
      /\ o.key = op[w].key /\ o.still = op[w].still /\ o.seen = op[w].seen /\ o.out = op[w].out
  BY <1>1 DEF Ops, OpPCs
<1> HIDE DEF o
<1>4. FindFits(o) /\ ListFits(o, files, delivered)
  BY <1>1, <1>3 DEF FindFits, ListFits
<1> QED
  BY <1>2, <1>3, <1>4, NextOp

(* A request that is done. *)
LEMMA DoneStep ==
  ASSUME MaildirInv, NEW w \in Workers, op' = Done(w), UNCHANGED <<files, dirs, removed, expunged, delivered>>
  PROVE  MaildirInv'
<1>1. OpFits(IdleOp, files, delivered)
  BY IdleFits, IdleOpFits, FS_EmptySet
<1> QED
  BY <1>1, OneOpStep DEF Done

(* A request that searches again, for another kind of access. *)
LEMMA SearchStep ==
  ASSUME MaildirInv, NEW w \in Workers, NEW kind \in OpKinds, kind # "remove",
         op' = [op EXCEPT ![w].pc = "findCur", ![w].kind = kind],
         UNCHANGED <<files, dirs, removed, expunged, delivered>>
  PROVE  MaildirInv'
<1> DEFINE o == [op[w] EXCEPT !.pc = "findCur", !.kind = kind]
<1>1. op[w] \in Ops /\ FindFits(op[w]) /\ IsFiniteSet(op[w].seen) /\ IsFiniteSet(op[w].out)
  BY WorkerFacts
<1>2. op' = [op EXCEPT ![w] = o]
  BY DEF MaildirInv
<1>3. /\ o \in Ops /\ o.pc = "findCur" /\ o.kind = kind /\ o.folder = op[w].folder
      /\ o.key = op[w].key /\ o.still = op[w].still /\ o.seen = op[w].seen /\ o.out = op[w].out
  BY <1>1 DEF Ops, OpPCs
<1> HIDE DEF o
<1>4. FindFits(o) /\ ListFits(o, files, delivered)
  BY <1>1, <1>3 DEF FindFits, ListFits
<1> QED
  BY <1>2, <1>3, <1>4, NextOp

LEMMA FindCurStep == ASSUME MaildirInv, NEW w \in Workers, FindCur(w) PROVE MaildirInv'
<1>1. CASE FoundIn(w, "cur")
  BY <1>1, FoundStep DEF FindCur
<1>2. CASE InSub(w, "cur") = {} /\ op' = [op EXCEPT ![w].pc = "findNew"]
  <2> DEFINE o == [op[w] EXCEPT !.pc = "findNew"]
  <2>1. op[w] \in Ops /\ FindFits(op[w]) /\ IsFiniteSet(op[w].seen) /\ IsFiniteSet(op[w].out)
    BY WorkerFacts
  <2>2. op' = [op EXCEPT ![w] = o]
    BY <1>2 DEF MaildirInv
  <2>3. /\ o \in Ops /\ o.pc = "findNew" /\ o.kind = op[w].kind /\ o.folder = op[w].folder
        /\ o.key = op[w].key /\ o.still = op[w].still /\ o.seen = op[w].seen /\ o.out = op[w].out
    BY <2>1 DEF Ops, OpPCs
  <2> HIDE DEF o
  <2>4. \A s \in op[w].still : s.key = op[w].key => s.sub # "cur"
    BY <1>2, WorkerFacts DEF InSub
  <2>5. FindFits(o) /\ ListFits(o, files, delivered)
    BY <2>1, <2>3, <2>4 DEF FindFits, ListFits
  <2> QED
    BY <2>2, <2>3, <2>5, NextOp DEF FindCur
<1> QED
  BY <1>1, <1>2 DEF FindCur

LEMMA FindNewStep == ASSUME MaildirInv, NEW w \in Workers, FindNew(w) PROVE MaildirInv'
<1>1. CASE FoundIn(w, "new")
  BY <1>1, FoundStep DEF FindNew
<1>2. CASE InSub(w, "new") = {} /\ op' = Fail(w)
  <2>1. ASSUME NEW s \in op[w].still, s.key = op[w].key PROVE FALSE
    <3>1. s \in files /\ s.folder = op[w].folder /\ s.sub \in {"new", "cur"} /\ FindFits(op[w])
      BY WorkerFacts
    <3>2. s.sub # "cur"
      BY <2>1, <3>1 DEF FindFits, FindNew
    <3> QED
      BY <1>2, <2>1, <3>1, <3>2 DEF InSub
  <2> QED
    BY <1>2, <2>1, FailStep DEF FindNew
<1> QED
  BY <1>1, <1>2 DEF FindNew

(* What is not found is not among what the request counts on. *)
LEMMA MissedIsGone ==
  ASSUME MaildirInv, NEW w \in Workers, op[w].pc = "act", op[w].found \notin files
  PROVE  \A s \in op[w].still : s.key # op[w].key
BY WorkerFacts DEF FindFits

LEMMA ReadStep == ASSUME MaildirInv, NEW w \in Workers, Read(w) PROVE MaildirInv'
<1> DEFINE p == op[w].found
           next == IF op[w].kind = "attachment" THEN "reread" ELSE "none"
           again == IF next = "none" THEN "mark" ELSE "markThenReread"
<1>1. op[w].pc = "act" /\ UNCHANGED <<files, dirs, removed, expunged, delivered>>
  BY DEF Read
<1>2. \/ p \notin files /\ op' = Fail(w)
      \/ op' = [op EXCEPT ![w].pc = "findCur", ![w].kind = again]
      \/ op' = Done(w)
      \/ next # "none" /\ op' = [op EXCEPT ![w].pc = "findCur", ![w].kind = next]
  BY Zenon DEF Read
<1>3. again \in OpKinds /\ again # "remove" /\ (next # "none" => next \in OpKinds /\ next # "remove")
  BY DEF OpKinds
<1> HIDE DEF next, again
<1>4. CASE p \notin files /\ op' = Fail(w)
  BY <1>1, <1>4, MissedIsGone, FailStep
<1>5. CASE op' = [op EXCEPT ![w].pc = "findCur", ![w].kind = again]
  BY <1>1, <1>3, <1>5, SearchStep
<1>6. CASE op' = Done(w)
  BY <1>1, <1>6, DoneStep
<1>7. CASE next # "none" /\ op' = [op EXCEPT ![w].pc = "findCur", ![w].kind = next]
  BY <1>1, <1>3, <1>7, SearchStep
<1> QED
  BY <1>2, <1>4, <1>5, <1>6, <1>7
-----------------------------------------------------------------------------
(* Listings. *)
LEMMA DirFacts ==
  ASSUME MaildirInv, NEW w \in Workers, NEW sub, NEW ps, ps = ReadDir(w, sub)
  PROVE  /\ ps \subseteq files /\ ps \subseteq Path /\ IsFiniteSet(ps) /\ OneEach(ps)
         /\ Keys(ps) \subseteq delivered
         /\ \A p \in ps : p.sub = sub
         /\ \A s \in op[w].still : s.sub = sub => s \in ps
<1>1. ps \subseteq files /\ files \subseteq Path /\ IsFiniteSet(files) /\ OneEach(files)
  BY DEF ReadDir, MaildirInv, FilesFit
<1>2. IsFiniteSet(ps)
  BY <1>1, FS_Subset
<1>3. Keys(ps) \subseteq delivered
  BY <1>1, DeliveredIs DEF Keys
<1>4. \A s \in op[w].still : s.sub = sub => s \in ps
  BY WorkerFacts DEF ReadDir
<1> QED
  BY <1>1, <1>2, <1>3, <1>4 DEF ReadDir, OneEach

LEMMA ListNewStep == ASSUME MaildirInv, NEW w \in Workers, ListNew(w) PROVE MaildirInv'
<1> DEFINE ps == ReadDir(w, "new")
           o == [op[w] EXCEPT !.pc = "listCur", !.seen = ps]
<1>1. op[w] \in Ops /\ FindFits(op[w]) /\ op[w].out = {} /\ IsFiniteSet(op[w].out)
  BY WorkerFacts DEF ListNew, OpFits, ListFits
<1>2. op' = [op EXCEPT ![w] = o] /\ UNCHANGED <<files, dirs, removed, expunged, delivered>>
  BY DEF ListNew, MaildirInv
<1>3. /\ ps \subseteq Path /\ IsFiniteSet(ps) /\ OneEach(ps) /\ Keys(ps) \subseteq delivered
      /\ \A p \in ps : p.sub = "new"
      /\ \A s \in op[w].still : s.sub = "new" => s \in ps
  BY DirFacts
<1> HIDE DEF ps
<1>4. /\ o \in Ops /\ o.pc = "listCur" /\ o.kind = op[w].kind /\ o.folder = op[w].folder
      /\ o.still = op[w].still /\ o.seen = ps /\ o.out = op[w].out
  BY <1>1, <1>3 DEF Ops, OpPCs
<1> HIDE DEF o
<1>5. FindFits(o)
  BY <1>1, <1>4 DEF FindFits
<1>6. \A p \in ps : p.key \in delivered
  BY <1>3 DEF Keys
<1>7. ListFits(o, files, delivered)
  BY <1>1, <1>3, <1>4, <1>6 DEF ListFits
<1> QED
  BY <1>2, <1>4, <1>5, <1>7, NextOp

LEMMA ListCurStep == ASSUME MaildirInv, NEW w \in Workers, ListCur(w) PROVE MaildirInv'
<1> DEFINE ps == ReadDir(w, "cur")
           all == op[w].seen \cup ps
<1>1. op[w] \in Ops /\ FindFits(op[w]) /\ IsFiniteSet(op[w].seen) /\ IsFiniteSet(op[w].out) /\ op[w].seen \subseteq Path
  BY WorkerFacts DEF Ops
<1>2. op[w].pc = "listCur" /\ UNCHANGED <<files, dirs, removed, expunged, delivered>>
  BY DEF ListCur
<1>3. /\ ps \subseteq files /\ ps \subseteq Path /\ IsFiniteSet(ps) /\ OneEach(ps) /\ Keys(ps) \subseteq delivered
      /\ \A p \in ps : p.sub = "cur"
      /\ \A s \in op[w].still : s.sub = "cur" => s \in ps
  BY DirFacts
<1>4. /\ \A p \in op[w].seen : p.sub = "new" /\ p.key \in delivered
      /\ OneEach(op[w].seen)
      /\ \A s \in op[w].still : s.sub = "new" => s \in op[w].seen
  BY <1>2, WorkerFacts DEF OpFits, ListFits
<1> HIDE DEF ps
<1>5. all \subseteq Path /\ IsFiniteSet(all)
  BY <1>1, <1>3, FS_Union
<1>6. op[w].still \subseteq all
  BY <1>3, <1>4, WorkerFacts
<1>7. \A p \in all : p.key \in delivered
  BY <1>3, <1>4 DEF Keys
<1>8. ASSUME NEW p \in all, NEW q \in all, p.key = q.key, p # q
      PROVE  \E r \in {p, q} : r.sub = "new" /\ r \notin files
  <2>1. OneEach(files)
    BY DEF MaildirInv, FilesFit
  <2>2. CASE p \in op[w].seen /\ q \in ps
    BY <1>3, <1>4, <1>8, <2>1, <2>2 DEF OneEach
  <2>3. CASE q \in op[w].seen /\ p \in ps
    BY <1>3, <1>4, <1>8, <2>1, <2>3 DEF OneEach
  <2> QED
    BY <1>3, <1>4, <1>8, <2>2, <2>3 DEF OneEach
<1>9. CASE op[w].kind = "list"
  <2> DEFINE o == [op[w] EXCEPT !.pc = "parse", !.seen = all]
  <2>1. op' = [op EXCEPT ![w] = o]
    BY <1>9 DEF ListCur, MaildirInv, ps
  <2> HIDE DEF all
  <2>2. /\ o \in Ops /\ o.pc = "parse" /\ o.kind = op[w].kind /\ o.folder = op[w].folder
        /\ o.still = op[w].still /\ o.seen = all /\ o.out = op[w].out
    BY <1>1, <1>5 DEF Ops, OpPCs
  <2> HIDE DEF o
  <2>3. FindFits(o)
    BY <1>1, <2>2 DEF FindFits
  <2>4. op[w].out = {}
    BY <1>2, WorkerFacts DEF OpFits, ListFits
  <2>5. ListFits(o, files, delivered)
    BY <1>1, <1>5, <1>6, <1>7, <1>8, <2>2, <2>4 DEF ListFits, Keys
  <2> QED
    BY <1>2, <2>1, <2>2, <2>3, <2>5, NextOp
<1>10. CASE op[w].kind # "list"
  <2> DEFINE o == [op[w] EXCEPT !.pc = "listed", !.seen = all, !.out = all]
  <2>1. op' = [op EXCEPT ![w] = o]
    BY <1>10 DEF ListCur, MaildirInv, ps
  <2> HIDE DEF all
  <2>2. /\ o \in Ops /\ o.pc = "listed" /\ o.kind = op[w].kind /\ o.folder = op[w].folder
        /\ o.still = op[w].still /\ o.seen = all /\ o.out = all
    BY <1>1, <1>5 DEF Ops, OpPCs
  <2> HIDE DEF o
  <2>3. FindFits(o) /\ ListFits(o, files, delivered)
    BY <1>1, <1>5, <1>6, <1>10, <2>2 DEF FindFits, ListFits
  <2> QED
    BY <1>2, <2>1, <2>2, <2>3, NextOp
<1> QED
  BY <1>9, <1>10

LEMMA ParseStep ==
  ASSUME MaildirInv, NEW w \in Workers, NEW p \in op[w].seen, ParseSummary(w, p)
  PROVE  MaildirInv'
<1> DEFINE seen == op[w].seen \ {p}
           out == IF p \in files THEN op[w].out \cup {p} ELSE op[w].out
           o == [op[w] EXCEPT !.seen = seen, !.out = out]
<1>1. /\ op[w] \in Ops /\ FindFits(op[w]) /\ IsFiniteSet(op[w].seen) /\ IsFiniteSet(op[w].out)
      /\ op[w].seen \subseteq Path /\ op[w].out \subseteq Path /\ op[w].still \subseteq files
  BY WorkerFacts DEF Ops
<1>2. op[w].pc = "parse" /\ op' = [op EXCEPT ![w] = o] /\ UNCHANGED <<files, dirs, removed, expunged, delivered>>
  BY DEF ParseSummary, MaildirInv
<1>3. /\ Keys(op[w].seen \cup op[w].out) \subseteq delivered /\ op[w].still \subseteq op[w].seen \cup op[w].out
      /\ \A x, y \in op[w].seen \cup op[w].out : x.key = y.key /\ x # y =>
           \E r \in {x, y} : r.sub = "new" /\ r \notin files /\ r \notin op[w].out
  BY <1>2, WorkerFacts DEF OpFits, ListFits
<1>4. seen \subseteq Path /\ out \subseteq Path /\ IsFiniteSet(seen) /\ IsFiniteSet(out)
  BY <1>1, FS_Subset, FS_AddElement
<1>5. /\ seen \cup out \subseteq op[w].seen \cup op[w].out /\ op[w].still \subseteq seen \cup out
      /\ \A r \in out : r \in op[w].out \/ r \in files
  BY <1>1, <1>3
<1> HIDE DEF seen, out
<1>6. /\ o \in Ops /\ o.pc = "parse" /\ o.kind = op[w].kind /\ o.folder = op[w].folder
      /\ o.still = op[w].still /\ o.seen = seen /\ o.out = out
  BY <1>1, <1>2, <1>4 DEF Ops
<1> HIDE DEF o
<1>7. FindFits(o)
  BY <1>1, <1>6 DEF FindFits
<1>8. Keys(seen \cup out) \subseteq delivered
  BY <1>3, <1>5 DEF Keys
<1>9. ASSUME NEW x \in seen \cup out, NEW y \in seen \cup out, x.key = y.key, x # y
      PROVE  \E r \in {x, y} : r.sub = "new" /\ r \notin files /\ r \notin out
  <2>1. PICK r \in {x, y} : r.sub = "new" /\ r \notin files /\ r \notin op[w].out
    BY <1>3, <1>5, <1>9
  <2> QED
    BY <2>1, <1>5
<1>10. ListFits(o, files, delivered)
  <2>1. \A x, y \in o.seen \cup o.out : x.key = y.key /\ x # y =>
          \E r \in {x, y} : r.sub = "new" /\ r \notin files /\ r \notin o.out
    <3> SUFFICES ASSUME NEW x \in o.seen \cup o.out, NEW y \in o.seen \cup o.out, x.key = y.key, x # y
                 PROVE  \E r \in {x, y} : r.sub = "new" /\ r \notin files /\ r \notin o.out
      OBVIOUS
    <3>1. x \in seen \cup out /\ y \in seen \cup out /\ o.out = out
      BY <1>6, Zenon
    <3>2. \E r \in {x, y} : r.sub = "new" /\ r \notin files /\ r \notin out
      BY <1>9, <3>1
    <3> QED
      BY <3>1, <3>2, Zenon
  <2>2. Keys(o.seen \cup o.out) \subseteq delivered /\ o.still \subseteq o.seen \cup o.out
    BY <1>5, <1>6, <1>8, Zenon
  <2>3. IsFiniteSet(o.seen) /\ IsFiniteSet(o.out)
    BY <1>4, <1>6, Zenon
  <2> QED
    BY <1>6, <2>1, <2>2, <2>3 DEF ListFits
<1> QED
  BY <1>2, <1>6, <1>7, <1>10, NextOp

LEMMA ListedStep == ASSUME MaildirInv, NEW w \in Workers, Listed(w) PROVE MaildirInv'
<1> DEFINE o == [op[w] EXCEPT !.pc = "listed"]
<1>1. op[w] \in Ops /\ FindFits(op[w]) /\ IsFiniteSet(op[w].seen) /\ IsFiniteSet(op[w].out)
  BY WorkerFacts
<1>2. /\ op[w].pc = "parse" /\ op[w].seen = {} /\ op' = [op EXCEPT ![w] = o]
      /\ UNCHANGED <<files, dirs, removed, expunged, delivered>>
  BY DEF Listed, MaildirInv
<1>3. op[w].still \subseteq op[w].out /\ OneEach(op[w].out)
  <2>1. /\ op[w].still \subseteq op[w].seen \cup op[w].out
        /\ \A x, y \in op[w].seen \cup op[w].out : x.key = y.key /\ x # y =>
             \E r \in {x, y} : r.sub = "new" /\ r \notin files /\ r \notin op[w].out
    BY <1>2, WorkerFacts DEF OpFits, ListFits
  <2> QED
    BY <1>2, <2>1 DEF OneEach
<1>4. /\ o \in Ops /\ o.pc = "listed" /\ o.kind = op[w].kind /\ o.folder = op[w].folder
      /\ o.still = op[w].still /\ o.seen = op[w].seen /\ o.out = op[w].out
  BY <1>1 DEF Ops, OpPCs
<1> HIDE DEF o
<1>5. FindFits(o) /\ ListFits(o, files, delivered)
  BY <1>1, <1>3, <1>4 DEF FindFits, ListFits
<1> QED
  BY <1>2, <1>4, <1>5, NextOp
-----------------------------------------------------------------------------
(* Steps that change the files. *)

(* Who renamed the file counts on the new name, the others on what is left *)
(* of theirs.                                                              *)
LEMMA FilesStep ==
  ASSUME MaildirInv, NEW f \in [Workers -> Ops],
         \A v \in Workers : OpFits(f[v], files, delivered),
         NEW w, NEW p, NEW q, op' = Told(f, files', w, p, q),
         FilesFit', Evolves(files, delivered, files', delivered'),
         w \in Workers /\ p \in f[w].still =>
           q \in Path /\ q \in files' /\ q.folder = f[w].folder /\ f[w].pc = "findCur"
  PROVE  MaildirInv'
<1>1. ASSUME NEW v \in Workers PROVE OpFits(op'[v], files', delivered') /\ op'[v] \in Ops
  <2> DEFINE kept == f[v].still \cap files'
             o == [f[v] EXCEPT !.still = kept]
  <2>1. f[v] \in Ops /\ OpFits(f[v], files, delivered) /\ f[v].still \subseteq Path
    BY DEF Ops
  <2>2. kept \subseteq Path /\ kept \subseteq f[v].still /\ kept \subseteq files'
    BY <2>1
  <2>3. CASE ~(v = w /\ p \in f[v].still)
    <3>1. op'[v] = o
      BY <2>3 DEF Told
    <3> HIDE DEF kept
    <3>2. /\ o \in Ops /\ o.pc = f[v].pc /\ o.kind = f[v].kind /\ o.folder = f[v].folder /\ o.key = f[v].key
          /\ o.found = f[v].found /\ o.seen = f[v].seen /\ o.out = f[v].out /\ o.still = kept
      BY <2>1, <2>2 DEF Ops
    <3> HIDE DEF o
    <3>3. OpFits(o, files', delivered')
      BY <2>1, <2>2, <3>2, ToldFits
    <3> QED
      BY <3>1, <3>2, <3>3
  <2>4. CASE v = w /\ p \in f[v].still
    <3> DEFINE s == kept \cup {q}
               u == [f[v] EXCEPT !.still = s]
    <3>1. op'[v] = u
      BY <2>4 DEF Told
    <3>2. q \in Path /\ q \in files' /\ q.folder = f[v].folder /\ f[v].pc = "findCur"
      BY <2>4
    <3>3. s \subseteq Path /\ s \subseteq files' /\ \A x \in s : x.folder = f[v].folder
      BY <2>1, <2>2, <3>2 DEF OpFits
    <3> HIDE DEF s
    <3>4. /\ u \in Ops /\ u.pc = "findCur" /\ u.kind = f[v].kind /\ u.folder = f[v].folder
          /\ u.seen = f[v].seen /\ u.out = f[v].out /\ u.still = s
      BY <2>1, <3>2, <3>3 DEF Ops
    <3> HIDE DEF u
    <3>5. FindFits(u) /\ ListFits(u, files', delivered')
      BY <2>1, <3>4 DEF OpFits, FindFits, ListFits
    <3>6. OpFits(u, files', delivered')
      BY <3>3, <3>4, <3>5 DEF OpFits
    <3> QED
      BY <3>1, <3>4, <3>6
  <2> QED
    BY <2>3, <2>4
<1>2. op' = [v \in Workers |-> op'[v]]
  BY DEF Told
<1>3. op' \in [Workers -> Ops]
  BY <1>1, <1>2
<1> QED
  BY <1>1, <1>3 DEF MaildirInv

LEMMA RenamedFits ==
  ASSUME MaildirInv, NEW p \in files, NEW q \in Path, q.sub = "cur", q.key = p.key, q.folder \in dirs',
         dirs \subseteq dirs', dirs' \subseteq Folders, files' = Renamed(p, q), UNCHANGED <<removed, expunged, delivered>>
  PROVE  FilesFit' /\ Evolves(files, delivered, files', delivered') /\ q \in files'
<1>1. files' = (files \ {p}) \cup {q}
  BY DEF Renamed
<1>2. FilesFit
  BY DEF MaildirInv
<1>3. Gone' = Gone
  BY DEF Gone
<1>4. Keys(files') = Keys(files)
  BY <1>1 DEF Keys
<1>5. IsFiniteSet(files')
  <2>1. IsFiniteSet(files \ {p})
    BY <1>2, FS_Subset DEF FilesFit
  <2> QED
    BY <1>1, <2>1, FS_AddElement
<1>6. files' \subseteq Path /\ OneEach(files') /\ \A x \in files' : x.folder \in dirs'
  BY <1>1, <1>2 DEF FilesFit, OneEach
<1>7. FilesFit'
  <2>1. "inbox" \in dirs' /\ removed \subseteq Messages \X {"trash"} /\ expunged \subseteq Messages
    BY <1>2 DEF FilesFit
  <2>2. /\ Keys(files') \cap Gone' = {}
        /\ delivered' = Keys(files') \cup Gone'
    BY <1>2, <1>3, <1>4 DEF FilesFit
  <2> QED
    BY <1>5, <1>6, <2>1, <2>2 DEF FilesFit, Keys
<1> QED
  BY <1>1, <1>7 DEF Evolves

LEMMA RemovedFits ==
  ASSUME MaildirInv, NEW p \in files, files' = files \ {p}, UNCHANGED <<dirs, delivered>>,
         \/ removed' = removed \cup {<<p.key, p.folder>>} /\ p.folder = "trash" /\ UNCHANGED expunged
         \/ expunged' = expunged \cup {p.key} /\ UNCHANGED removed
  PROVE  FilesFit' /\ Evolves(files, delivered, files', delivered')
<1>1. FilesFit /\ p \in Path /\ p.key \in Messages
  BY PathFields DEF MaildirInv, FilesFit
<1>2. Gone' = Gone \cup {p.key}
  <2>1. CASE removed' = removed \cup {<<p.key, p.folder>>} /\ UNCHANGED expunged
    <3> DEFINE t == <<p.key, p.folder>>
    <3>2. t[1] = p.key /\ removed' = removed \cup {t}
      BY <2>1
    <3> HIDE DEF t
    <3>1. {r[1] : r \in removed'} = {r[1] : r \in removed} \cup {p.key}
      BY <3>2
    <3> QED
      BY <2>1, <3>1 DEF Gone
  <2>2. CASE expunged' = expunged \cup {p.key} /\ UNCHANGED removed
    BY <2>2 DEF Gone
  <2> QED
    BY <2>1, <2>2
<1>3. Keys(files') = Keys(files) \ {p.key}
  BY <1>1 DEF Keys, FilesFit, OneEach
<1>4. IsFiniteSet(files')
  BY <1>1, <1>2, FS_Subset, FS_AddElement DEF FilesFit
<1>5. /\ files' \subseteq Path /\ OneEach(files') /\ \A x \in files' : x.folder \in dirs'
      /\ dirs' \subseteq Folders /\ "inbox" \in dirs'
  BY <1>1 DEF FilesFit, OneEach
<1>6. removed' \subseteq Messages \X {"trash"} /\ expunged' \subseteq Messages
  BY <1>1 DEF FilesFit
<1>7. Keys(files') \cap Gone' = {} /\ delivered' = Keys(files') \cup Gone'
  <2>1. p.key \in Keys(files)
    BY DEF Keys
  <2> QED
    BY <1>1, <1>2, <1>3, <2>1 DEF FilesFit
<1>8. FilesFit'
  BY <1>4, <1>5, <1>6, <1>7 DEF FilesFit, Keys
<1> QED
  BY <1>8 DEF Evolves

(* The requests once w is done. *)
LEMMA DoneFits ==
  ASSUME MaildirInv, NEW w \in Workers
  PROVE  /\ Done(w) \in [Workers -> Ops] /\ Done(w)[w].still = {}
         /\ \A v \in Workers : OpFits(Done(w)[v], files, delivered)
<1>1. Done(w) = [op EXCEPT ![w] = IdleOp] /\ op \in [Workers -> Ops]
  BY DEF Done, MaildirInv
<1>2. Done(w) \in [Workers -> Ops] /\ Done(w)[w] = IdleOp
  BY <1>1, IdleFits
<1>3. OpFits(IdleOp, files, delivered)
  BY IdleFits, IdleOpFits, FS_EmptySet
<1>4. ASSUME NEW v \in Workers PROVE OpFits(Done(w)[v], files, delivered)
  <2>1. Done(w)[v] = IF v = w THEN IdleOp ELSE op[v]
    BY <1>1
  <2>2. OpFits(op[v], files, delivered)
    BY DEF MaildirInv
  <2> QED
    BY <1>3, <2>1, <2>2, Zenon
<1> QED
  BY <1>2, <1>4, IdleFits

LEMMA SameFiles ==
  ASSUME MaildirInv, UNCHANGED <<files, dirs, removed, expunged, delivered>>
  PROVE  FilesFit' /\ Evolves(files, delivered, files', delivered')
<1>1. Gone' = Gone /\ delivered' = delivered
  BY DEF Gone
<1> QED
  BY <1>1 DEF MaildirInv, FilesFit, Evolves

LEMMA MarkStep == ASSUME MaildirInv, NEW w \in Workers, MarkMessageRead(w) PROVE MaildirInv'
<1> DEFINE p == op[w].found
           q == File(p.folder, "cur", p.key, IF op[w].read THEN "S" ELSE "")
           again == [op EXCEPT ![w].pc = "findCur", ![w].kind = "reread"]
           then == IF op[w].kind = "mark" THEN Done(w) ELSE again
<1>1. /\ op[w].pc = "act" /\ UNCHANGED <<dirs, removed, expunged, delivered>>
      /\ files' = (IF CanRename(p, q) THEN Renamed(p, q) ELSE files)
      /\ op' = Told(then, files', w, p, q)
  BY Zenon DEF MarkMessageRead
<1>2. /\ op[w] \in Ops /\ OpFits(op[w], files, delivered) /\ FindFits(op[w]) /\ op[w].still \subseteq files
      /\ p \in Path /\ p.folder = op[w].folder
  BY <1>1, WorkerFacts DEF FindFits
<1>3. q \in Path /\ q.folder = p.folder /\ q.sub = "cur" /\ q.key = p.key
  <2>1. (IF op[w].read THEN "S" ELSE "") \in Infos
    BY DEF Infos
  <2> QED
    BY <1>2, <2>1, MarkedPath
<1> HIDE DEF q
<1>4. /\ then \in [Workers -> Ops]
      /\ \A v \in Workers : OpFits(then[v], files, delivered)
      /\ p \in then[w].still => p \in files /\ then[w].folder = p.folder /\ then[w].pc = "findCur"
  <2>1. CASE op[w].kind = "mark"
    BY <2>1, DoneFits
  <2>2. CASE op[w].kind # "mark"
    <3> DEFINE o == [op[w] EXCEPT !.pc = "findCur", !.kind = "reread"]
    <3>1. op \in [Workers -> Ops] /\ again = [op EXCEPT ![w] = o]
      BY DEF MaildirInv
    <3>2. /\ o \in Ops /\ o.pc = "findCur" /\ o.kind = "reread" /\ o.folder = op[w].folder
          /\ o.key = op[w].key /\ o.still = op[w].still /\ o.seen = op[w].seen /\ o.out = op[w].out
      BY <1>2 DEF Ops, OpPCs, OpKinds
    <3> HIDE DEF o, again
    <3>3. OpFits(o, files, delivered)
      BY <1>2, <3>2 DEF OpFits, FindFits, ListFits
    <3>4. again \in [Workers -> Ops] /\ again[w] = o /\ \A v \in Workers : v # w => again[v] = op[v]
      BY <3>1, <3>2
    <3>5. ASSUME NEW v \in Workers PROVE OpFits(again[v], files, delivered)
      <4>1. OpFits(op[v], files, delivered)
        BY DEF MaildirInv
      <4> QED
        BY <3>3, <3>4, <4>1, Zenon
    <3>6. then = again
      BY <2>2, Zenon
    <3>7. p \in again[w].still => p \in files /\ again[w].folder = p.folder /\ again[w].pc = "findCur"
      BY <1>2, <3>2, <3>4
    <3> QED
      BY <3>4, <3>5, <3>6, <3>7, Zenon
  <2> QED
    BY <2>1, <2>2
<1> HIDE DEF then, p
<1>5. CASE CanRename(p, q)
  <2>1. p \in files /\ q.folder \in dirs' /\ dirs' \subseteq Folders /\ files' = Renamed(p, q)
    BY <1>1, <1>5 DEF CanRename, MaildirInv, FilesFit
  <2>2. FilesFit' /\ Evolves(files, delivered, files', delivered') /\ q \in files'
    BY <1>1, <1>3, <2>1, RenamedFits
  <2> QED
    BY <1>1, <1>3, <1>4, <2>2, FilesStep
<1>6. CASE ~CanRename(p, q)
  <2>1. p \notin files
    BY <1>2, <1>3, <1>6 DEF CanRename, MaildirInv, FilesFit
  <2>2. FilesFit' /\ Evolves(files, delivered, files', delivered')
    BY <1>1, <1>6, SameFiles
  <2> QED
    BY <1>1, <1>4, <2>1, <2>2, FilesStep
<1> QED
  BY <1>5, <1>6

LEMMA MoveStep == ASSUME MaildirInv, NEW w \in Workers, Move(w) PROVE MaildirInv'
<1> DEFINE p == op[w].found
           q == [p EXCEPT !.folder = op[w].dst, !.sub = "cur"]
<1>1. /\ op[w].pc = "act" /\ dirs' = dirs \cup {op[w].dst} /\ UNCHANGED <<removed, expunged, delivered>>
      /\ p \in files => files' = Renamed(p, q) /\ op' = Told(Done(w), files', w, p, q)
      /\ p \notin files => files' = files /\ op' = Fail(w)
  BY Zenon DEF Move
<1>2. op[w] \in Ops /\ p \in Path /\ op[w].dst \in Folders
  BY <1>1, WorkerFacts DEF FindFits, Ops
<1>3. q \in Path /\ q.folder = op[w].dst /\ q.sub = "cur" /\ q.key = p.key
  BY <1>2, MovedPath
<1>4. dirs \subseteq dirs' /\ dirs' \subseteq Folders /\ op[w].dst \in dirs'
  BY <1>1, <1>2 DEF MaildirInv, FilesFit
<1> HIDE DEF q
<1>5. CASE p \in files
  <2>1. FilesFit' /\ Evolves(files, delivered, files', delivered') /\ q \in files'
    BY <1>1, <1>3, <1>4, <1>5, RenamedFits
  <2>2. op' = Told(Done(w), files', w, p, q)
    BY <1>1, <1>5
  <2> HIDE DEF p
  <2> QED
    BY <2>1, <2>2, DoneFits, FilesStep
<1>6. CASE p \notin files
  <2> DEFINE o == [op[w] EXCEPT !.pc = "failed"]
  <2>1. op' = Fail(w) /\ files' = files
    BY <1>1, <1>6
  <2>2. \A s \in op[w].still : s.key # op[w].key
    BY <1>1, <1>6, MissedIsGone
  <2>3. /\ OpFits(op[w], files, delivered) /\ FindFits(op[w]) /\ IsFiniteSet(op[w].seen)
        /\ IsFiniteSet(op[w].out)
    BY WorkerFacts
  <2>4. op' = [op EXCEPT ![w] = o]
    BY <2>1 DEF Fail, MaildirInv
  <2>5. /\ o \in Ops /\ o.pc = "failed" /\ o.kind = op[w].kind /\ o.folder = op[w].folder
        /\ o.key = op[w].key /\ o.still = op[w].still /\ o.seen = op[w].seen /\ o.out = op[w].out
    BY <1>2 DEF Ops, OpPCs
  <2> HIDE DEF o
  <2>6. OpFits(o, files, delivered)
    BY <2>2, <2>3, <2>5 DEF OpFits, FindFits, ListFits
  <2> QED
    BY <1>1, <1>4, <2>1, <2>4, <2>6, OneOpStep
<1> QED
  BY <1>5, <1>6

LEMMA RemoveFileStep == ASSUME MaildirInv, NEW w \in Workers, RemoveFile(w) PROVE MaildirInv'
<1> DEFINE p == op[w].found
<1>1. /\ op[w].pc = "act" /\ op[w].kind = "remove" /\ UNCHANGED <<dirs, expunged, delivered>>
      /\ p \in files => /\ files' = files \ {p} /\ removed' = removed \cup {<<p.key, p.folder>>}
                        /\ op' = Told(Done(w), files', w, None, None)
      /\ p \notin files => op' = Fail(w) /\ UNCHANGED <<files, removed>>
  BY Zenon DEF RemoveFile
<1>2. p.folder = "trash"
  BY <1>1, WorkerFacts DEF FindFits
<1>3. CASE p \in files
  <2>1. FilesFit' /\ Evolves(files, delivered, files', delivered')
    BY <1>1, <1>2, <1>3, RemovedFits
  <2>2. op' = Told(Done(w), files', w, None, None)
    BY <1>1, <1>3
  <2> QED
    BY <2>1, <2>2, DoneFits, FilesStep
<1>4. CASE p \notin files
  BY <1>1, <1>4, MissedIsGone, FailStep
<1> QED
  BY <1>3, <1>4

LEMMA DeliverStep == ASSUME MaildirInv, NEW m \in Messages, Deliver(m) PROVE MaildirInv'
<1> DEFINE q == File("inbox", "new", m, "none")
<1>1. /\ files' = files \cup {q} /\ m \notin delivered /\ delivered' = delivered \cup {m}
      /\ UNCHANGED <<dirs, op, removed, expunged>>
  BY DEF Deliver
<1>2. q \in Path /\ q.key = m /\ q.folder = "inbox"
  BY DEF Path, File, Folders, Infos
<1> HIDE DEF q
<1>3. m \notin Keys(files) /\ m \notin Gone /\ Gone' = Gone
  BY <1>1, DeliveredIs DEF Gone
<1>4. FilesFit
  BY DEF MaildirInv
<1>5. Keys(files') = Keys(files) \cup {m}
  BY <1>1, <1>2 DEF Keys
<1>6. files' \subseteq Path /\ OneEach(files') /\ \A x \in files' : x.folder \in dirs'
  BY <1>1, <1>2, <1>3, <1>4 DEF FilesFit, OneEach, Keys
<1>7. IsFiniteSet(files')
  BY <1>1, <1>4, FS_AddElement DEF FilesFit
<1>8. Keys(files') \cap Gone' = {} /\ delivered' = Keys(files') \cup Gone'
  BY <1>1, <1>3, <1>4, <1>5 DEF FilesFit
<1>9. FilesFit'
  BY <1>1, <1>4, <1>6, <1>7, <1>8 DEF FilesFit, Keys
<1>10. m \notin delivered
  BY <1>1
<1>11. Evolves(files, delivered, files', delivered')
  BY <1>1, <1>2, <1>10 DEF Evolves
<1>12. ASSUME NEW v \in Workers PROVE OpFits(op[v], files', delivered')
  <2>1. OpFits(op[v], files, delivered) /\ op[v] \in Ops /\ op[v].still \subseteq files
    BY WorkerFacts
  <2>2. op[v].still \subseteq files'
    BY <1>1, <2>1
  <2> QED
    BY <1>11, <2>1, <2>2, ToldFits
<1>13. op' = op /\ op \in [Workers -> Ops]
  BY <1>1 DEF MaildirInv
<1> QED
  BY <1>9, <1>12, <1>13 DEF MaildirInv

LEMMA ImapSteps ==
  ASSUME MaildirInv, NEW p \in files, ImapFlags(p) \/ ImapExpunge(p)
  PROVE  MaildirInv'
<1>1. op \in [Workers -> Ops] /\ \A v \in Workers : OpFits(op[v], files, delivered)
  BY DEF MaildirInv
<1>2. None \notin Workers
  BY MaildirAssumption
<1>3. FilesFit /\ p \in Path /\ p.folder \in dirs /\ dirs \subseteq Folders
  BY DEF MaildirInv, FilesFit
<1>4. CASE ImapFlags(p)
  <2>1. PICK i \in Infos \ {"none"} :
          /\ files' = Renamed(p, [p EXCEPT !.sub = "cur", !.info = i])
          /\ op' = Told(op, files', None, None, None)
    BY <1>4, Zenon DEF ImapFlags
  <2>2. UNCHANGED <<dirs, removed, expunged, delivered>>
    BY <1>4 DEF ImapFlags
  <2> DEFINE q == [p EXCEPT !.sub = "cur", !.info = i]
  <2>3. q \in Path /\ q.folder = p.folder /\ q.sub = "cur" /\ q.key = p.key
    BY <1>3, FlaggedPath
  <2>4. files' = Renamed(p, q)
    BY <2>1
  <2> HIDE DEF q
  <2>5. FilesFit' /\ Evolves(files, delivered, files', delivered')
    BY <1>3, <2>2, <2>3, <2>4, RenamedFits
  <2> QED
    BY <1>1, <1>2, <2>1, <2>5, FilesStep
<1>5. CASE ImapExpunge(p)
  <2>1. FilesFit' /\ Evolves(files, delivered, files', delivered')
    BY <1>5, RemovedFits DEF ImapExpunge
  <2>2. op' = Told(op, files', None, None, None)
    BY <1>5 DEF ImapExpunge
  <2> QED
    BY <1>1, <1>2, <2>1, <2>2, FilesStep
<1> QED
  BY <1>4, <1>5

LEMMA RespondStep == ASSUME MaildirInv, NEW w \in Workers, Respond(w) PROVE MaildirInv'
BY DoneStep DEF Respond

LEMMA NextMaildirInv == MaildirInv /\ [MaildirNext]_mdvars => MaildirInv'
<1> SUFFICES ASSUME MaildirInv, [MaildirNext]_mdvars PROVE MaildirInv'
  OBVIOUS
<1>1. CASE UNCHANGED mdvars
  <2>1. op' = op /\ files' = files /\ UNCHANGED <<dirs, removed, expunged, delivered>>
    BY <1>1 DEF mdvars
  <2>2. FilesFit' /\ delivered' = delivered
    BY <2>1, SameFiles
  <2> QED
    BY <2>1, <2>2 DEF MaildirInv
<1>2. ASSUME NEW w \in Workers,
             \/ GetMessage(w) \/ GetAttachment(w) \/ MarkRead(w) \/ MoveMessage(w)
             \/ DeleteMessage(w) \/ ListMessages(w) \/ ListFolders(w)
      PROVE  MaildirInv'
  BY <1>2, RequestSteps, Zenon
<1>3. ASSUME NEW w \in Workers,
             \/ FindCur(w) \/ FindNew(w) \/ Read(w) \/ MarkMessageRead(w) \/ Move(w)
             \/ RemoveFile(w) \/ Respond(w)
      PROVE  MaildirInv'
  BY <1>3, FindCurStep, FindNewStep, ReadStep, MarkStep, MoveStep, RemoveFileStep, RespondStep, Zenon
<1>4. ASSUME NEW w \in Workers,
             ListNew(w) \/ ListCur(w) \/ Listed(w) \/ \E p \in op[w].seen : ParseSummary(w, p)
      PROVE  MaildirInv'
  BY <1>4, ListNewStep, ListCurStep, ListedStep, ParseStep, Zenon
<1> QED
  BY <1>1, <1>2, <1>3, <1>4, DeliverStep, ImapSteps, Zenon DEF MaildirNext

LEMMA MaildirInvariant == MaildirSpec => []MaildirInv
<1>1. MaildirInit => MaildirInv
  BY InitMaildirInv
<1>2. MaildirInv /\ [MaildirNext]_mdvars => MaildirInv'
  BY NextMaildirInv
<1> QED
  BY <1>1, <1>2, PTL DEF MaildirSpec

-----------------------------------------------------------------------------
(* The folders and the requests stay in their types, for any number of     *)
(* messages and of requests.                                               *)
THEOREM MaildirTypeCorrect == MaildirSpec => []MaildirTypeOK
<1>1. MaildirInv => MaildirTypeOK
  <2> SUFFICES ASSUME MaildirInv PROVE MaildirTypeOK
    OBVIOUS
  <2>1. Keys(files) \subseteq Messages /\ Gone \subseteq Messages
    BY PathFields DEF MaildirInv, FilesFit, Keys, Gone
  <2> QED
    BY <2>1 DEF MaildirInv, FilesFit, MaildirTypeOK, Ops
<1> QED
  BY <1>1, MaildirInvariant, PTL

(* Marking, moving, deleting, listing and Dovecot's renaming, in every     *)
(* order and for any number of requests: no message has two files, no      *)
(* request removes one outside the trash, and every message that was ever  *)
(* delivered has its file until it is removed there or expunged.           *)
THEOREM NoMessageLost == MaildirSpec => []NothingLost
<1>1. MaildirInv => NothingLost
  BY DEF MaildirInv, FilesFit, OneEach, Keys, NothingLost
<1> QED
  BY <1>1, MaildirInvariant, PTL

(* A request (GetMessage, GetAttachment, MarkRead, MoveMessage,            *)
(* DeleteMessage) whose message nobody else renames or removes does not    *)
(* fail.                                                                   *)
THEOREM FailuresHaveCause == MaildirSpec => []FailsForCause
<1>1. MaildirInv => FailsForCause
  BY DEF MaildirInv, OpFits, FindFits, FailsForCause
<1> QED
  BY <1>1, MaildirInvariant, PTL

(* ListMessages and ListFolders hold every message that stays where it is, *)
(* counted as unread if it is, and a list holds no message twice.          *)
THEOREM ListingsStayTrue == MaildirSpec => []ListingsAreTrue
<1>1. MaildirInv => ListingsAreTrue
  <2> SUFFICES ASSUME MaildirInv PROVE ListingsAreTrue
    OBVIOUS
  <2>1. ListsOnce
    BY DEF MaildirInv, OpFits, ListFits, ListsOnce, OneEach
  <2>2. ASSUME NEW w \in Workers, op[w].pc = "listed"
        PROVE  op[w].still \subseteq op[w].out /\ Unread(op[w].still) <= Unread(op[w].out)
    <3>1. op[w].still \subseteq op[w].out /\ IsFiniteSet(op[w].out)
      BY <2>2 DEF MaildirInv, OpFits, ListFits
    <3> DEFINE a == {p \in op[w].still : ~IsRead(p)}
               b == {p \in op[w].out : ~IsRead(p)}
    <3>2. a \subseteq b /\ b \subseteq op[w].out
      BY <3>1
    <3>3. Unread(op[w].still) = Cardinality(a) /\ Unread(op[w].out) = Cardinality(b)
      BY Zenon DEF Unread
    <3> HIDE DEF a, b
    <3>4. IsFiniteSet(b)
      BY <3>1, <3>2, FS_Subset
    <3>5. Cardinality(a) <= Cardinality(b)
      BY <3>2, <3>4, FS_Subset
    <3> QED
      BY <3>1, <3>3, <3>5
  <2> QED
    BY <2>1, <2>2 DEF ListsWhatStays, ListingsAreTrue
<1> QED
  BY <1>1, MaildirInvariant, PTL

-----------------------------------------------------------------------------
(* The files implement the mailbox of MailFolders: every step of a request *)
(* or of Dovecot is one of its steps or changes nothing it shows.          *)

Paths(m) == {p \in files : p.key = m}

Fate(m) == IF \E r \in removed : r[1] = m THEN "deleted"
           ELSE IF m \in expunged THEN "expunged"
           ELSE IF m \in delivered THEN "lost" ELSE "undelivered"

(* A message with its one file is where the file is. *)
LEMMA ShownHeld ==
  ASSUME NEW m, NEW p, Paths(m) = {p}
  PROVE  Presented(m) = [place |-> p.folder, flags |-> p.info]
<1>1. (CHOOSE x \in Paths(m) : TRUE) = p /\ Paths(m) # {}
  OBVIOUS
<1> QED
  BY <1>1, Zenon DEF Presented, Paths

LEMMA ShownGone ==
  ASSUME NEW m, Paths(m) = {}
  PROVE  Presented(m) = [place |-> Fate(m), flags |-> "none"]
BY Zenon DEF Presented, Paths, Fate

LEMMA OnePath ==
  ASSUME MaildirInv, NEW p \in files
  PROVE  p.key \in Messages /\ Paths(p.key) = {p}
<1>1. OneEach(files) /\ p \in Path
  BY DEF MaildirInv, FilesFit
<1> QED
  BY <1>1, PathFields DEF OneEach, Paths

(* The step of the mailbox in which one message changes. *)
LEMMA OneChanges ==
  ASSUME NEW m \in Messages, NEW place, NEW flags,
         \A k \in Messages : k # m => Presented(k)' = Presented(k),
         Presented(m)' = [place |-> place, flags |-> flags]
  PROVE  Mailbox!Set(m, place, flags)
<1> DEFINE old == [k \in Messages |-> Presented(k)]
           new == [k \in Messages |-> Presented(k)']
<1>1. new = [old EXCEPT ![m] = [place |-> place, flags |-> flags]]
  OBVIOUS
<1> QED
  BY <1>1, Zenon DEF Mailbox!Set, Mailbox!At

(* Nothing that is shown changes with the requests alone. *)
LEMMA OthersShown ==
  ASSUME NEW k, Paths(k)' = Paths(k), Fate(k)' = Fate(k)
  PROVE  Presented(k)' = Presented(k)
BY Zenon DEF Presented, Paths, Fate

LEMMA SameShown ==
  ASSUME UNCHANGED <<files, removed, expunged, delivered>>
  PROVE  UNCHANGED [m \in Messages |-> Presented(m)]
BY DEF Presented

(* A file is renamed within its folder, or with its flags into another. *)
LEMMA RenamedShown ==
  ASSUME MaildirInv, NEW p \in files, NEW q \in Path, q.key = p.key, files' = Renamed(p, q),
         UNCHANGED <<removed, expunged, delivered>>
  PROVE  /\ Presented(p.key) = [place |-> p.folder, flags |-> p.info]
         /\ p.key \in Messages /\ p.folder \in Folders /\ q.folder \in Folders /\ q.info \in Infos
         /\ Mailbox!Set(p.key, q.folder, q.info)
<1>1. p.key \in Messages /\ Paths(p.key) = {p} /\ p \in Path
  BY OnePath DEF MaildirInv, FilesFit
<1>2. files' = (files \ {p}) \cup {q}
  BY DEF Renamed
<1>3. Paths(p.key)' = {q}
  BY <1>1, <1>2 DEF Paths
<1>4. ASSUME NEW k \in Messages, k # p.key PROVE Presented(k)' = Presented(k)
  <2>1. Paths(k)' = Paths(k)
    BY <1>2, <1>4 DEF Paths
  <2>2. Fate(k)' = Fate(k)
    BY DEF Fate
  <2> QED
    BY <2>1, <2>2, OthersShown
<1>5. Presented(p.key)' = [place |-> q.folder, flags |-> q.info]
  <2>1. \A m, x : {y \in files' : y.key = m} = {x} =>
          LET paths == {y \in files' : y.key = m}
          IN  paths # {} /\ (CHOOSE y \in paths : TRUE) = x
    OBVIOUS
  <2> QED
    BY <1>3, <2>1, Zenon DEF Presented, Paths
<1> QED
  BY <1>1, <1>4, <1>5, ShownHeld, OneChanges, PathFields

(* A file is removed. *)
LEMMA RemovedShown ==
  ASSUME MaildirInv, NEW p \in files, files' = files \ {p},
         \A k \in Messages : k # p.key => Fate(k)' = Fate(k), NEW fate, Fate(p.key)' = fate
  PROVE  /\ Presented(p.key) = [place |-> p.folder, flags |-> p.info]
         /\ p.key \in Messages /\ p.folder \in Folders
         /\ Mailbox!Set(p.key, fate, "none")
<1>1. p.key \in Messages /\ Paths(p.key) = {p} /\ p \in Path
  BY OnePath DEF MaildirInv, FilesFit
<1>2. Paths(p.key)' = {}
  BY <1>1 DEF Paths
<1>3. ASSUME NEW k \in Messages, k # p.key PROVE Presented(k)' = Presented(k)
  <2>1. Paths(k)' = Paths(k)
    BY <1>3 DEF Paths
  <2> QED
    BY <1>3, <2>1, OthersShown
<1>4. Presented(p.key)' = [place |-> fate, flags |-> "none"]
  BY <1>2, Zenon DEF Presented, Paths, Fate
<1> QED
  BY <1>1, <1>3, <1>4, ShownHeld, OneChanges, PathFields

LEMMA NextIs ==
  ASSUME NEW m \in Messages,
         \/ Mailbox!Deliver(m) \/ Mailbox!Delete(m) \/ Mailbox!Expunge(m)
         \/ \E flags \in Infos : Mailbox!Mark(m, flags)
         \/ \E folder \in Folders : Mailbox!Move(m, folder)
  PROVE  Mailbox!FoldersNext
BY Zenon DEF Mailbox!FoldersNext

(* A file that stays in its folder is a mark. *)
LEMMA MarkShown ==
  ASSUME MaildirInv, NEW p \in files, NEW q \in Path, q.key = p.key, q.folder = p.folder,
         files' = Renamed(p, q), UNCHANGED <<removed, expunged, delivered>>
  PROVE  Mailbox!FoldersNext
<1>1. /\ Presented(p.key) = [place |-> p.folder, flags |-> p.info]
      /\ p.key \in Messages /\ p.folder \in Folders /\ q.info \in Infos
      /\ Mailbox!Set(p.key, p.folder, q.info)
  BY RenamedShown
<1>2. [m \in Messages |-> Presented(m)][p.key].place = p.folder
  BY <1>1
<1>3. Mailbox!Mark(p.key, q.info)
  BY <1>1, <1>2, Zenon DEF Mailbox!Mark
<1> QED
  BY <1>1, <1>3, NextIs

(* MarkMessageRead: a mark, or nothing when the file is no longer there. *)
LEMMA MarkRefines ==
  ASSUME MaildirInv, NEW w \in Workers, MarkMessageRead(w)
  PROVE  Mailbox!FoldersNext \/ UNCHANGED [m \in Messages |-> Presented(m)]
<1> DEFINE p == op[w].found
           q == File(p.folder, "cur", p.key, IF op[w].read THEN "S" ELSE "")
<1>1. /\ op[w].pc = "act" /\ UNCHANGED <<removed, expunged, delivered>>
      /\ files' = (IF CanRename(p, q) THEN Renamed(p, q) ELSE files)
  BY Zenon DEF MarkMessageRead
<1>2. (IF op[w].read THEN "S" ELSE "") \in Infos
  BY DEF Infos
<1>3. p \in Path
  BY <1>1, WorkerFacts DEF FindFits
<1>4. q \in Path /\ q.folder = p.folder /\ q.key = p.key
  BY <1>2, <1>3, MarkedPath
<1> HIDE DEF p, q
<1>5. CASE CanRename(p, q)
  BY <1>1, <1>4, <1>5, MarkShown DEF CanRename
<1>6. CASE ~CanRename(p, q)
  BY <1>1, <1>6, SameShown
<1> QED
  BY <1>5, <1>6

(* MoveMessage, and DeleteMessage outside the trash: a move, or nothing. *)
LEMMA MoveRefines ==
  ASSUME MaildirInv, NEW w \in Workers, Move(w)
  PROVE  Mailbox!FoldersNext \/ UNCHANGED [m \in Messages |-> Presented(m)]
<1> DEFINE p == op[w].found
           q == [p EXCEPT !.folder = op[w].dst, !.sub = "cur"]
<1>1. /\ op[w].pc = "act" /\ UNCHANGED <<removed, expunged, delivered>>
      /\ p \in files => files' = Renamed(p, q)
      /\ p \notin files => files' = files
  BY Zenon DEF Move
<1>2. op[w] \in Ops /\ p \in Path /\ op[w].dst \in Folders
  BY <1>1, WorkerFacts DEF FindFits, Ops
<1>3. q \in Path /\ q.folder = op[w].dst /\ q.key = p.key /\ q.info = p.info
  BY <1>2, MovedPath DEF Path
<1> HIDE DEF p, q
<1>4. CASE p \in files
  <2>1. /\ Presented(p.key) = [place |-> p.folder, flags |-> p.info]
        /\ p.key \in Messages /\ p.folder \in Folders
        /\ Mailbox!Set(p.key, op[w].dst, p.info)
    BY <1>1, <1>3, <1>4, RenamedShown
  <2>2. /\ [m \in Messages |-> Presented(m)][p.key].place = p.folder
        /\ [m \in Messages |-> Presented(m)][p.key].flags = p.info
    BY <2>1
  <2>3. Mailbox!Move(p.key, op[w].dst)
    BY <2>1, <2>2, Zenon DEF Mailbox!Move
  <2> QED
    BY <1>2, <2>1, <2>3, NextIs
<1>5. CASE p \notin files
  BY <1>1, <1>5, SameShown
<1> QED
  BY <1>4, <1>5

(* A file of the trash is removed. *)
LEMMA DeleteShown ==
  ASSUME MaildirInv, NEW p \in files, p.folder = "trash", files' = files \ {p},
         removed' = removed \cup {<<p.key, p.folder>>}, UNCHANGED <<expunged, delivered>>
  PROVE  Mailbox!FoldersNext
<1>1. <<p.key, p.folder>> \in removed' /\ <<p.key, p.folder>>[1] = p.key
  OBVIOUS
<1>2. \A k : k # p.key => ((\E r \in removed' : r[1] = k) <=> (\E r \in removed : r[1] = k))
  OBVIOUS
<1>3. \A k \in Messages : k # p.key => Fate(k)' = Fate(k)
  BY <1>2, Zenon DEF Fate
<1>4. Fate(p.key)' = "deleted"
  BY <1>1, Zenon DEF Fate
<1>5. /\ Presented(p.key) = [place |-> p.folder, flags |-> p.info]
      /\ p.key \in Messages /\ Mailbox!Set(p.key, "deleted", "none")
  BY <1>3, <1>4, RemovedShown
<1>6. [m \in Messages |-> Presented(m)][p.key].place = "trash"
  BY <1>5
<1>7. Mailbox!Delete(p.key)
  BY <1>5, <1>6, Zenon DEF Mailbox!Delete
<1> QED
  BY <1>5, <1>7, NextIs

(* DeleteMessage in the trash: the message is deleted, or nothing. *)
LEMMA RemoveRefines ==
  ASSUME MaildirInv, NEW w \in Workers, RemoveFile(w)
  PROVE  Mailbox!FoldersNext \/ UNCHANGED [m \in Messages |-> Presented(m)]
<1> DEFINE p == op[w].found
<1>1. /\ op[w].pc = "act" /\ op[w].kind = "remove" /\ UNCHANGED <<expunged, delivered>>
      /\ p \in files => files' = files \ {p} /\ removed' = removed \cup {<<p.key, p.folder>>}
      /\ p \notin files => UNCHANGED <<files, removed>>
  BY Zenon DEF RemoveFile
<1>2. p.folder = "trash"
  BY <1>1, WorkerFacts DEF FindFits
<1> HIDE DEF p
<1>3. CASE p \in files
  BY <1>1, <1>2, <1>3, DeleteShown
<1>4. CASE p \notin files
  BY <1>1, <1>4, SameShown
<1> QED
  BY <1>3, <1>4

(* A new message was never shown before. *)
LEMMA DeliverRefines ==
  ASSUME MaildirInv, NEW m \in Messages, Deliver(m)
  PROVE  Mailbox!FoldersNext
<1> DEFINE q == File("inbox", "new", m, "none")
<1>1. /\ files' = files \cup {q} /\ m \notin delivered /\ delivered' = delivered \cup {m}
      /\ UNCHANGED <<removed, expunged>>
  BY DEF Deliver
<1>2. q.key = m /\ q.folder = "inbox" /\ q.info = "none"
  BY DEF File
<1> HIDE DEF q
<1>3. m \notin Keys(files) /\ m \notin Gone
  BY <1>1, DeliveredIs
<1>4. Paths(m) = {} /\ Paths(m)' = {q}
  BY <1>1, <1>2, <1>3 DEF Paths, Keys
<1>5. ~(\E r \in removed : r[1] = m) /\ m \notin expunged
  BY <1>3 DEF Gone
<1>6. Presented(m) = [place |-> "undelivered", flags |-> "none"]
  BY <1>1, <1>4, <1>5, ShownGone, Zenon DEF Fate
<1>7. Presented(m)' = [place |-> "inbox", flags |-> "none"]
  <2>1. \A x : {y \in files' : y.key = m} = {x} =>
          LET paths == {y \in files' : y.key = m}
          IN  paths # {} /\ (CHOOSE y \in paths : TRUE) = x
    OBVIOUS
  <2> QED
    BY <1>2, <1>4, <2>1, Zenon DEF Presented, Paths
<1>8. ASSUME NEW k \in Messages, k # m PROVE Presented(k)' = Presented(k)
  <2>1. Paths(k)' = Paths(k) /\ Fate(k)' = Fate(k)
    BY <1>1, <1>2, <1>8 DEF Paths, Fate
  <2> QED
    BY <2>1, OthersShown
<1>9. Mailbox!Set(m, "inbox", "none")
  BY <1>7, <1>8, OneChanges
<1>10. [k \in Messages |-> Presented(k)][m].place = "undelivered"
  BY <1>6
<1>11. Mailbox!Deliver(m)
  BY <1>9, <1>10, Zenon DEF Mailbox!Deliver
<1> QED
  BY <1>11, NextIs

(* Dovecot marks and expunges. *)
LEMMA ImapRefines ==
  ASSUME MaildirInv, NEW p \in files, ImapFlags(p) \/ ImapExpunge(p)
  PROVE  Mailbox!FoldersNext
<1>1. p \in Path
  BY DEF MaildirInv, FilesFit
<1>2. CASE ImapFlags(p)
  <2>1. PICK i \in Infos \ {"none"} : files' = Renamed(p, [p EXCEPT !.sub = "cur", !.info = i])
    BY <1>2, Zenon DEF ImapFlags
  <2> DEFINE q == [p EXCEPT !.sub = "cur", !.info = i]
  <2>2. q \in Path /\ q.folder = p.folder /\ q.key = p.key
    BY <1>1, FlaggedPath
  <2>3. files' = Renamed(p, q) /\ UNCHANGED <<removed, expunged, delivered>>
    BY <1>2, <2>1 DEF ImapFlags
  <2> HIDE DEF q
  <2> QED
    BY <2>2, <2>3, MarkShown
<1>3. CASE ImapExpunge(p)
  <2>1. files' = files \ {p} /\ expunged' = expunged \cup {p.key} /\ UNCHANGED <<removed, delivered>>
    BY <1>3 DEF ImapExpunge
  <2>2. p.key \notin Gone
    BY DEF MaildirInv, FilesFit, Keys
  <2>3. \A k \in Messages : k # p.key => Fate(k)' = Fate(k)
    BY <2>1 DEF Fate
  <2>4. Fate(p.key)' = "expunged"
    <3>1. ~(\E r \in removed' : r[1] = p.key) /\ p.key \in expunged'
      BY <2>1, <2>2 DEF Gone
    <3> QED
      BY <3>1, Zenon DEF Fate
  <2>5. /\ Presented(p.key) = [place |-> p.folder, flags |-> p.info]
        /\ p.key \in Messages /\ p.folder \in Folders /\ Mailbox!Set(p.key, "expunged", "none")
    BY <2>1, <2>3, <2>4, RemovedShown
  <2>6. [m \in Messages |-> Presented(m)][p.key].place = p.folder
    BY <2>5
  <2>7. Mailbox!Expunge(p.key)
    BY <2>5, <2>6, Zenon DEF Mailbox!Expunge
  <2> QED
    BY <2>5, <2>7, NextIs
<1> QED
  BY <1>2, <1>3

LEMMA MaildirRefines ==
  ASSUME MaildirInv, [MaildirNext]_mdvars
  PROVE  Mailbox!FoldersNext \/ UNCHANGED [m \in Messages |-> Presented(m)]
<1>1. CASE UNCHANGED mdvars
  BY <1>1, SameShown DEF mdvars
<1>2. ASSUME NEW w \in Workers,
             \/ GetMessage(w) \/ GetAttachment(w) \/ MarkRead(w) \/ MoveMessage(w)
             \/ DeleteMessage(w) \/ ListMessages(w) \/ ListFolders(w)
             \/ FindCur(w) \/ FindNew(w) \/ Read(w) \/ Respond(w)
             \/ ListNew(w) \/ ListCur(w) \/ Listed(w) \/ \E p \in op[w].seen : ParseSummary(w, p)
      PROVE  UNCHANGED [m \in Messages |-> Presented(m)]
  <2>1. UNCHANGED <<files, removed, expunged, delivered>>
    BY <1>2 DEF GetMessage, GetAttachment, MarkRead, MoveMessage, DeleteMessage, BeginFind,
                ListMessages, ListFolders, FindCur, FindNew, Read, Respond, ListNew, ListCur,
                Listed, ParseSummary
  <2> QED
    BY <2>1, SameShown
<1> QED
  BY <1>1, <1>2, MarkRefines, MoveRefines, RemoveRefines, DeliverRefines, ImapRefines, Zenon
  DEF MaildirNext

(* The folders of a Maildir are a mailbox: each request, although it       *)
(* searches first and renames or removes later, and each step of Dovecot   *)
(* delivers, marks, moves, deletes or expunges one message in one step, or *)
(* changes nothing.                                                        *)
THEOREM FoldersAreAMailbox == MaildirSpec => ImplementsFolders
<1>1. MaildirInit => Mailbox!FoldersInit
  <2> SUFFICES ASSUME MaildirInit PROVE Mailbox!FoldersInit
    OBVIOUS
  <2>1. ASSUME NEW m \in Messages PROVE Presented(m) = [place |-> "undelivered", flags |-> "none"]
    <3>1. Paths(m) = {} /\ ~(\E r \in removed : r[1] = m) /\ m \notin expunged /\ m \notin delivered
      BY DEF MaildirInit, Paths
    <3> QED
      BY <3>1, ShownGone, Zenon DEF Fate
  <2> QED
    BY <2>1 DEF Mailbox!FoldersInit, Mailbox!At
<1>2. MaildirInv /\ [MaildirNext]_mdvars => [Mailbox!FoldersNext]_[m \in Messages |-> Presented(m)]
  BY MaildirRefines
<1> QED
  BY <1>1, <1>2, MaildirInvariant, PTL DEF MaildirSpec, ImplementsFolders, Mailbox!FoldersSpec

-----------------------------------------------------------------------------
(* The submission. *)

SendPCs == {"idle", "dial", "rcpt", "quit", "copy", "respond", "done"}

SendTypes ==
  /\ send \in [pc : SendPCs, target : 1..Targets, left : SUBSET Recipients,
               named : SUBSET Recipients, raw : SUBSET (Recipients \cup {""})]
  /\ accepted \in Seq(SUBSET Recipients)
  /\ lost \in 0..breaks /\ breaks \in 0..MaxLost
  /\ sentCopy \in {"none", "partial", "whole"}
  /\ answer \in {"none", "refused", "error", "ok"}

(* A dialogue has named what is no longer left of the envelope, and only a *)
(* request with an envelope gets that far.                                 *)
Dialogue ==
  /\ send.pc = "idle" => accepted = <<>>
  /\ send.pc \notin {"idle", "done"} => Envelope # {}
  /\ send.pc = "rcpt" => send.left \cup send.named = Envelope

(* How many copies the MTA has, by how far the request is. *)
Copies ==
  /\ send.pc \in {"idle", "dial", "rcpt"} => Len(accepted) = lost
  /\ send.pc \in {"quit", "copy", "respond"} => Len(accepted) = lost + 1
  /\ send.pc # "done" => answer = "none"
  /\ CopiesAreExplained

SendInv == SendTypes /\ Dialogue /\ Copies /\ WholeEnvelope /\ SentWasSubmitted

LEMMA CountsAreNumbers ==
  \A b \in 0..MaxLost : \A l \in 0..b : l \in Nat /\ b \in Nat
BY SendAssumption

LEMMA NoCopy == DOMAIN <<>> = {} /\ Len(<<>>) = 0 /\ 0 <= 0 + 1
<1>1. \A s \in Seq({}) : Len(s) = 0 => DOMAIN s = {}
  OBVIOUS
<1>2. <<>> \in Seq({}) /\ Len(<<>>) = 0
  OBVIOUS
<1>3. 0 <= 0 + 1
  OBVIOUS
<1> QED
  BY <1>1, <1>2, <1>3, Zenon

LEMMA InitSendInv == SendInit => SendInv
<1> SUFFICES ASSUME SendInit PROVE SendInv
  OBVIOUS
<1>1. 1 \in 1..Targets /\ 0 \in 0..MaxLost /\ 0 \in 0..0
  BY SendAssumption
<1>2. SendTypes
  BY <1>1 DEF SendInit, SendTypes, SendPCs
<1>3. Len(accepted) = 0 /\ DOMAIN accepted = {}
  BY DEF SendInit
<1>4. send.pc = "idle" /\ answer = "none" /\ sentCopy = "none" /\ lost = 0 /\ accepted = <<>>
  BY DEF SendInit
<1> QED
  BY <1>2, <1>3, <1>4 DEF SendInv, Dialogue, Copies, CopiesAreExplained, WholeEnvelope, SentWasSubmitted

(* The addresses that are tried. *)
LEMMA NextTargetStep ==
  ASSUME SendInv, send.pc \in {"dial", "rcpt", "quit"}, NextTarget
  PROVE  /\ send' \in [pc : SendPCs, target : 1..Targets, left : SUBSET Recipients,
                       named : SUBSET Recipients, raw : SUBSET (Recipients \cup {""})]
         /\ send'.raw = send.raw
         /\ \/ send'.pc = "done" /\ answer' = "error"
            \/ send'.pc = "dial" /\ answer' = "none"
<1>1. send.target \in 1..Targets /\ Targets \in Nat
  BY SendAssumption DEF SendInv, SendTypes
<1>2. CASE send.target = Targets
  BY <1>2 DEF NextTarget, SendInv, SendTypes, SendPCs
<1>3. CASE send.target # Targets
  <2>1. send.target + 1 \in 1..Targets
    BY <1>1, <1>3
  <2>2. answer' = "none"
    BY <1>3 DEF NextTarget, SendInv, Copies
  <2> QED
    BY <1>3, <2>1, <2>2 DEF NextTarget, SendInv, SendTypes, SendPCs
<1> QED
  BY <1>2, <1>3

LEMMA EnvelopeKept == send'.raw = send.raw => Envelope' = Envelope
BY DEF Envelope, Clean

(* The envelope holds recipients only. *)
LEMMA EnvelopeIsRecipients == SendInv => Envelope \subseteq Recipients
BY DEF Envelope, Clean, SendInv, SendTypes

(* Another address after n copies that were accepted, all lost. *)
LEMMA Retried ==
  ASSUME SendInv, send.pc \in {"dial", "rcpt", "quit"}, NextTarget,
         accepted' \in Seq(SUBSET Recipients), lost' \in 0..breaks', breaks' \in 0..MaxLost,
         UNCHANGED sentCopy, Len(accepted') = lost', WholeEnvelope',
         sentCopy # "none" => accepted' # <<>>
  PROVE  SendInv'
<1>1. /\ send' \in [pc : SendPCs, target : 1..Targets, left : SUBSET Recipients,
                    named : SUBSET Recipients, raw : SUBSET (Recipients \cup {""})]
      /\ send'.raw = send.raw
      /\ \/ send'.pc = "done" /\ answer' = "error"
         \/ send'.pc = "dial" /\ answer' = "none"
  BY NextTargetStep
<1>2. SendTypes'
  BY <1>1 DEF SendInv, SendTypes
<1>3. Envelope' = Envelope /\ Envelope # {}
  BY <1>1, EnvelopeKept DEF SendInv, Dialogue
<1>4. Dialogue'
  BY <1>1, <1>3 DEF Dialogue
<1>5. Copies'
  <2> DEFINE l == lost'
             a == Len(accepted')
  <2>1. lost' \in Nat
    BY CountsAreNumbers, Zenon
  <2>4. l \in Nat /\ a = l
    BY <2>1, Zenon
  <2>5. a <= l + 1
    <3> HIDE DEF l, a
    <3> QED
      BY <2>4
  <2>2. CASE send'.pc = "done" /\ answer' = "error"
    BY <2>5, <2>2 DEF Copies, CopiesAreExplained
  <2>3. CASE send'.pc = "dial" /\ answer' = "none"
    BY <2>5, <2>3 DEF Copies, CopiesAreExplained
  <2> QED
    BY <1>1, <2>2, <2>3
<1> QED
  BY <1>2, <1>4, <1>5 DEF SendInv, SentWasSubmitted

LEMMA SendRequestStep ==
  ASSUME SendInv, NEW to \in SUBSET (Recipients \cup {""}),
         NEW others \in SUBSET (Recipients \cup {""}), SendRequest(to, others)
  PROVE  SendInv'
<1> DEFINE raw == to \cup others
<1>1. send.pc = "idle" /\ accepted = <<>> /\ answer = "none" /\ Len(accepted) = lost
  BY DEF SendRequest, SendInv, Dialogue, Copies
<1>2. /\ Len(accepted') = lost' /\ DOMAIN accepted' = {} /\ accepted' = <<>> /\ lost' = lost
      /\ Len(accepted') <= lost' + 1
  <2>1. lost \in Nat /\ lost' = lost /\ accepted' = accepted
    BY CountsAreNumbers, Zenon DEF SendRequest, SendInv, SendTypes
  <2>2. DOMAIN <<>> = {} /\ Len(<<>>) = 0 /\ 0 <= 0 + 1
    BY NoCopy, Zenon
  <2>3. lost = 0
    BY <1>1, <2>2
  <2> QED
    BY <1>1, <2>1, <2>2, <2>3, Zenon
<1>3. CASE to = {} \/ Clean(raw) = {}
  <2>1. send' = [send EXCEPT !.pc = "done"] /\ answer' = "refused"
    BY <1>3 DEF SendRequest
  <2>2. SendTypes'
    BY <2>1 DEF SendInv, SendTypes, SendRequest, SendPCs
  <2>3. send'.pc = "done"
    BY <2>1 DEF SendInv, SendTypes
  <2>4. WholeEnvelope' /\ Dialogue' /\ SentWasSubmitted'
    BY <1>2, <2>3 DEF WholeEnvelope, Dialogue, SentWasSubmitted, SendInv, SendRequest
  <2> QED
    BY <1>2, <2>1, <2>2, <2>3, <2>4, Zenon DEF SendInv, Copies, CopiesAreExplained
<1>4. CASE ~(to = {} \/ Clean(raw) = {})
  <2>1. send' = [send EXCEPT !.pc = "dial", !.raw = raw] /\ answer' = answer
    BY <1>4 DEF SendRequest
  <2>2. SendTypes'
    BY <2>1 DEF SendInv, SendTypes, SendRequest, SendPCs
  <2>3. send'.pc = "dial" /\ send'.raw = raw
    BY <2>1 DEF SendInv, SendTypes
  <2>4. Envelope' # {}
    BY <1>4, <2>3 DEF Envelope
  <2>5. WholeEnvelope' /\ Dialogue' /\ SentWasSubmitted'
    BY <1>2, <2>3, <2>4 DEF WholeEnvelope, Dialogue, SentWasSubmitted, SendInv, SendRequest
  <2> QED
    BY <1>1, <1>2, <2>1, <2>2, <2>3, <2>5 DEF SendInv, Copies, CopiesAreExplained
<1> QED
  BY <1>3, <1>4

LEMMA DialStep == ASSUME SendInv, Dial PROVE SendInv'
<1>1. send.pc = "dial" /\ Len(accepted) = lost /\ answer = "none"
  BY DEF Dial, SendInv, Copies
<1>2. CASE NextTarget
  BY <1>1, <1>2, Retried, NextTargetStep, EnvelopeKept
     DEF Dial, SendInv, SendTypes, WholeEnvelope, SentWasSubmitted
<1>3. CASE send' = [send EXCEPT !.pc = "rcpt", !.left = Envelope, !.named = {}] /\ UNCHANGED answer
  <2>1. SendTypes'
    BY <1>3, EnvelopeIsRecipients DEF SendInv, SendTypes, Dial, SendPCs
  <2>2. send'.pc = "rcpt" /\ send'.left = Envelope /\ send'.named = {} /\ send'.raw = send.raw
    BY <1>3 DEF SendInv, SendTypes
  <2>3. Envelope' = Envelope /\ Envelope # {}
    BY <1>1, <2>2, EnvelopeKept DEF SendInv, Dialogue
  <2>4. Dialogue' /\ WholeEnvelope' /\ SentWasSubmitted'
    BY <2>2, <2>3 DEF Dialogue, WholeEnvelope, SentWasSubmitted, SendInv, Dial
  <2>5. Copies'
    BY <1>1, <1>3, <2>2 DEF Copies, CopiesAreExplained, Dial, SendInv
  <2> QED
    BY <2>1, <2>4, <2>5 DEF SendInv
<1> QED
  BY <1>2, <1>3 DEF Dial

LEMMA RcptStep == ASSUME SendInv, Rcpt PROVE SendInv'
<1>1. send.pc = "rcpt" /\ Len(accepted) = lost /\ answer = "none"
  BY DEF Rcpt, SendInv, Copies
<1>2. CASE NextTarget
  BY <1>1, <1>2, Retried, NextTargetStep, EnvelopeKept
     DEF Rcpt, SendInv, SendTypes, WholeEnvelope, SentWasSubmitted
<1>3. ASSUME NEW r \in send.left,
             send' = [send EXCEPT !.left = @ \ {r}, !.named = @ \cup {r}], UNCHANGED answer
      PROVE  SendInv'
  <2>1. send.left \subseteq Recipients /\ send.named \subseteq Recipients
    BY DEF SendInv, SendTypes
  <2>2. send.left \ {r} \subseteq Recipients /\ send.named \cup {r} \subseteq Recipients
    BY <2>1
  <2>3. SendTypes'
    BY <1>3, <2>2 DEF SendInv, SendTypes, Rcpt
  <2>4. /\ send'.pc = "rcpt" /\ send'.left = send.left \ {r} /\ send'.named = send.named \cup {r}
        /\ send'.raw = send.raw
    BY <1>1, <1>3 DEF SendInv, SendTypes
  <2>5. Envelope' = Envelope /\ Envelope # {} /\ send.left \cup send.named = Envelope
    BY <1>1, <2>4, EnvelopeKept DEF SendInv, Dialogue
  <2>6. send'.left \cup send'.named = send.left \cup send.named
    BY <2>4
  <2>7. Dialogue' /\ WholeEnvelope' /\ SentWasSubmitted'
    BY <2>4, <2>5, <2>6 DEF Dialogue, WholeEnvelope, SentWasSubmitted, SendInv, Rcpt
  <2>8. Copies'
    BY <1>1, <1>3, <2>4 DEF Copies, CopiesAreExplained, Rcpt, SendInv
  <2> QED
    BY <2>3, <2>7, <2>8 DEF SendInv
<1> QED
  BY <1>2, <1>3 DEF Rcpt

(* One copy more, with the whole envelope. *)
LEMMA Appended ==
  ASSUME SendInv, send.pc = "rcpt", send.left = {}, accepted' = Append(accepted, send.named),
         send'.raw = send.raw
  PROVE  /\ accepted' \in Seq(SUBSET Recipients) /\ Len(accepted') = Len(accepted) + 1
         /\ accepted' # <<>> /\ WholeEnvelope'
<1>1. accepted \in Seq(SUBSET Recipients) /\ send.named \in SUBSET Recipients
  BY DEF SendInv, SendTypes
<1>2. /\ accepted' \in Seq(SUBSET Recipients) /\ Len(accepted') = Len(accepted) + 1
      /\ \A k \in 1..Len(accepted) : accepted'[k] = accepted[k]
      /\ accepted'[Len(accepted) + 1] = send.named /\ Len(accepted) \in Nat
      /\ DOMAIN accepted' = 1..(Len(accepted) + 1)
  BY <1>1
<1>3. send.named = Envelope /\ Envelope # {} /\ Envelope' = Envelope
  BY EnvelopeKept DEF SendInv, Dialogue
<1>4. \A k \in 1..Len(accepted) : accepted[k] = Envelope
  BY <1>1 DEF SendInv, WholeEnvelope
<1>5. WholeEnvelope'
  <2> SUFFICES ASSUME NEW k \in DOMAIN accepted' PROVE accepted'[k] = Envelope
    BY <1>3 DEF WholeEnvelope
  <2>1. k \in 1..Len(accepted) \/ k = Len(accepted) + 1
    BY <1>2
  <2> QED
    BY <2>1, <1>2, <1>3, <1>4
<1>6. accepted' # <<>>
  BY <1>2
<1> QED
  BY <1>2, <1>5, <1>6

LEMMA DataStep == ASSUME SendInv, Data PROVE SendInv'
<1>1. send.pc = "rcpt" /\ send.left = {} /\ Len(accepted) = lost /\ answer = "none" /\ UNCHANGED sentCopy
  BY DEF Data, SendInv, Copies
<1>2. lost \in 0..breaks /\ breaks \in 0..MaxLost /\ MaxLost \in Nat /\ accepted \in Seq(SUBSET Recipients)
  BY SendAssumption DEF SendInv, SendTypes
<1>3. CASE /\ accepted' = Append(accepted, send.named) /\ send' = [send EXCEPT !.pc = "quit"]
           /\ UNCHANGED <<lost, breaks, answer>>
  <2>1. send'.pc = "quit" /\ send'.raw = send.raw
    BY <1>3 DEF SendInv, SendTypes
  <2>2. /\ accepted' \in Seq(SUBSET Recipients) /\ Len(accepted') = Len(accepted) + 1
        /\ accepted' # <<>> /\ WholeEnvelope'
    BY <1>1, <1>3, <2>1, Appended
  <2>3. SendTypes'
    BY <1>1, <1>3, <2>2 DEF SendInv, SendTypes, SendPCs
  <2>4. Dialogue' /\ SentWasSubmitted'
    BY <1>1, <2>1, <2>2, EnvelopeKept DEF SendInv, Dialogue, SentWasSubmitted
  <2>5. Copies'
    BY <1>1, <1>2, <1>3, <2>1, <2>2 DEF Copies, CopiesAreExplained
  <2> QED
    BY <2>2, <2>3, <2>4, <2>5 DEF SendInv
<1>4. CASE NextTarget /\ UNCHANGED <<accepted, lost>> /\ breaks' \in {breaks, breaks + 1} /\ breaks' \in 0..MaxLost
  <2>1. Envelope' = Envelope
    BY <1>1, <1>4, NextTargetStep, EnvelopeKept
  <2>2. lost' \in 0..breaks'
    BY <1>2, <1>4
  <2>3. WholeEnvelope' /\ (sentCopy # "none" => accepted' # <<>>)
    BY <1>4, <2>1 DEF SendInv, WholeEnvelope, SentWasSubmitted
  <2> QED
    BY <1>1, <1>2, <1>4, <2>2, <2>3, Retried
<1>5. CASE /\ NextTarget /\ accepted' = Append(accepted, send.named) /\ lost' = lost + 1
           /\ breaks < MaxLost /\ breaks' = breaks + 1
  <2>1. send'.raw = send.raw
    BY <1>1, <1>5, NextTargetStep
  <2>2. /\ accepted' \in Seq(SUBSET Recipients) /\ Len(accepted') = Len(accepted) + 1
        /\ accepted' # <<>> /\ WholeEnvelope'
    BY <1>1, <1>5, <2>1, Appended
  <2>3. lost' \in 0..breaks' /\ breaks' \in 0..MaxLost
    BY <1>2, <1>5
  <2> QED
    BY <1>1, <1>5, <2>2, <2>3, Retried
<1>6. breaks \in 0..MaxLost /\ (breaks < MaxLost => breaks + 1 \in 0..MaxLost)
  BY <1>2
<1> QED
  BY <1>3, <1>4, <1>5, <1>6 DEF Data

LEMMA QuitStep == ASSUME SendInv, Quit PROVE SendInv'
<1>1. send.pc = "quit" /\ Len(accepted) = lost + 1 /\ answer = "none" /\ UNCHANGED <<accepted, sentCopy>>
  BY DEF Quit, SendInv, Copies
<1>2. lost \in 0..breaks /\ breaks \in 0..MaxLost /\ MaxLost \in Nat /\ accepted \in Seq(SUBSET Recipients)
  BY SendAssumption DEF SendInv, SendTypes
<1>3. CASE send' = [send EXCEPT !.pc = "copy"] /\ UNCHANGED <<lost, breaks, answer>>
  <2>1. send'.pc = "copy" /\ send'.raw = send.raw
    BY <1>3 DEF SendInv, SendTypes
  <2>2. SendTypes'
    BY <1>1, <1>3 DEF SendInv, SendTypes, SendPCs
  <2>3. Dialogue' /\ SentWasSubmitted' /\ WholeEnvelope'
    BY <1>1, <2>1, EnvelopeKept DEF SendInv, Dialogue, SentWasSubmitted, WholeEnvelope
  <2>4. Copies'
    BY <1>1, <1>2, <1>3, <2>1 DEF Copies, CopiesAreExplained
  <2> QED
    BY <2>2, <2>3, <2>4 DEF SendInv
<1>4. CASE breaks < MaxLost /\ breaks' = breaks + 1 /\ lost' = lost + 1 /\ NextTarget
  <2>1. Envelope' = Envelope
    BY <1>1, <1>4, NextTargetStep, EnvelopeKept
  <2>2. lost' \in 0..breaks' /\ breaks' \in 0..MaxLost
    BY <1>2, <1>4
  <2>3. WholeEnvelope' /\ (sentCopy # "none" => accepted' # <<>>)
    BY <1>1, <2>1 DEF SendInv, WholeEnvelope, SentWasSubmitted
  <2> QED
    BY <1>1, <1>2, <1>4, <2>2, <2>3, Retried
<1> QED
  BY <1>3, <1>4 DEF Quit

LEMMA LastSteps == ASSUME SendInv, SaveCopy \/ Respond200 \/ Stop PROVE SendInv'
<1>1. UNCHANGED <<accepted, lost, breaks>> /\ lost \in Nat /\ accepted \in Seq(SUBSET Recipients)
  BY CountsAreNumbers, Zenon DEF SaveCopy, Respond200, Stop, SendInv, SendTypes
<1>2. CASE SaveCopy
  <2>1. send.pc = "copy" /\ send'.pc = "respond" /\ send'.raw = send.raw /\ answer' = answer
    BY <1>2 DEF SaveCopy, SendInv, SendTypes
  <2>2. SendTypes'
    BY <1>2 DEF SaveCopy, SendInv, SendTypes, SendPCs
  <2>3. Len(accepted) = lost + 1
    BY <2>1 DEF SendInv, Copies
  <2>4. accepted # <<>>
    BY <1>1, <2>3
  <2>5. Dialogue' /\ WholeEnvelope' /\ SentWasSubmitted'
    BY <1>1, <2>1, <2>4, EnvelopeKept DEF SendInv, Dialogue, WholeEnvelope, SentWasSubmitted
  <2>6. Copies'
    BY <1>1, <2>1 DEF SendInv, Copies, CopiesAreExplained
  <2> QED
    BY <2>2, <2>5, <2>6 DEF SendInv
<1>3. CASE Respond200
  <2>1. send.pc = "respond" /\ send'.pc = "done" /\ send'.raw = send.raw /\ answer' = "ok"
    BY <1>3 DEF Respond200, SendInv, SendTypes
  <2>2. SendTypes'
    BY <1>3 DEF Respond200, SendInv, SendTypes, SendPCs
  <2>3. Dialogue' /\ WholeEnvelope' /\ SentWasSubmitted'
    BY <1>1, <1>3, <2>1, EnvelopeKept DEF Respond200, SendInv, Dialogue, WholeEnvelope, SentWasSubmitted
  <2>4. Copies'
    BY <1>1, <2>1 DEF SendInv, Copies, CopiesAreExplained
  <2> QED
    BY <2>2, <2>3, <2>4 DEF SendInv
<1>4. CASE Stop
  <2>1. send'.pc = "done" /\ send'.raw = send.raw /\ answer' = answer
    BY <1>4 DEF Stop, SendInv, SendTypes
  <2>2. SendTypes'
    BY <1>4 DEF Stop, SendInv, SendTypes, SendPCs
  <2>3. Dialogue' /\ WholeEnvelope' /\ SentWasSubmitted'
    BY <1>1, <1>4, <2>1, EnvelopeKept DEF Stop, SendInv, Dialogue, WholeEnvelope, SentWasSubmitted
  <2>4. Copies'
    BY <1>1, <2>1 DEF SendInv, Copies, CopiesAreExplained
  <2> QED
    BY <2>2, <2>3, <2>4 DEF SendInv
<1> QED
  BY <1>2, <1>3, <1>4

LEMMA NextSendInv == SendInv /\ [SendNext]_sendvars => SendInv'
<1> SUFFICES ASSUME SendInv, [SendNext]_sendvars PROVE SendInv'
  OBVIOUS
<1>1. CASE UNCHANGED sendvars
  BY <1>1 DEF sendvars, SendInv, SendTypes, Dialogue, Copies, CopiesAreExplained, WholeEnvelope,
     SentWasSubmitted, Envelope
<1>2. CASE SendNext
  BY <1>2, SendRequestStep, DialStep, RcptStep, DataStep, QuitStep, LastSteps DEF SendNext
<1> QED
  BY <1>1, <1>2

LEMMA SendInvariant == SendSpec => []SendInv
<1>1. SendInit => SendInv
  BY InitSendInv
<1>2. SendInv /\ [SendNext]_sendvars => SendInv'
  BY NextSendInv
<1> QED
  BY <1>1, <1>2, PTL DEF SendSpec

(* A submission stays in its types, whatever the MTA answers and whenever  *)
(* the connection breaks.                                                  *)
THEOREM SendTypeCorrect == SendSpec => []SendTypeOK
<1>1. SendInv => SendTypeOK
  BY DEF SendInv, SendTypes, SendTypeOK
<1> QED
  BY <1>1, SendInvariant, PTL

(* SendMessage, for any number of addresses, recipients and broken         *)
(* connections: every copy that the MTA takes has the whole envelope,      *)
(* there are exactly as many as were lost, and one more for an "ok", and   *)
(* nothing stands in the Sent folder that was not submitted.               *)
THEOREM SubmissionsExplained == SendSpec => []SubmissionIsExplained
<1>1. SendInv => SubmissionIsExplained
  BY DEF SendInv, Copies, SubmissionIsExplained
<1> QED
  BY <1>1, SendInvariant, PTL

-----------------------------------------------------------------------------
(* The service. *)

LEMMA WebmailParts == WebmailSpec => MaildirSpec /\ SendSpec
<1>1. WebmailInit => MaildirInit /\ SendInit
  BY Zenon DEF WebmailInit
<1>2. [WebmailNext]_webmailvars => [MaildirNext]_mdvars /\ [SendNext]_sendvars
  BY Zenon DEF WebmailNext, webmailvars
<1> QED
  BY <1>1, <1>2, PTL DEF WebmailSpec, MaildirSpec, SendSpec

(* The folders, the requests and the submission stay in their types. *)
THEOREM WebmailTypes == WebmailSpec => []TypeOK
<1>1. MaildirTypeOK /\ SendTypeOK => TypeOK
  BY Zenon DEF TypeOK
<1> QED
  BY <1>1, WebmailParts, MaildirTypeCorrect, SendTypeCorrect, PTL

(* Nothing is lost, requests fail for a cause only, listings are true,     *)
(* submissions explained and the folders a mailbox, in the service.        *)
THEOREM WebmailIsSound ==
  WebmailSpec => /\ [](NothingLost /\ FailsForCause /\ ListingsAreTrue /\ SubmissionIsExplained)
                 /\ ImplementsFolders
BY WebmailParts, NoMessageLost, FailuresHaveCause, ListingsStayTrue, SubmissionsExplained,
   FoldersAreAMailbox, PTL

-----------------------------------------------------------------------------
(* Induction over the rounds of a loop. *)

Below == {ss \in Nat \X Nat : ss[1] < ss[2]}

(* Induction, for a set of numbers. *)
LEMMA Inductive ==
  ASSUME NEW P, 0 \in P, \A n \in Nat : n \in P => n + 1 \in P
  PROVE  Nat \subseteq P
<1> DEFINE S == Nat \ P
<1> SUFFICES ASSUME S # {} PROVE FALSE
  OBVIOUS
<1>1. IsWellFoundedOn(Below, Nat)
  BY NatLessThanWellFounded, Zenon DEF OpToRel, Below
<1>2. PICK k \in S : \A j \in S : ~(<<j, k>> \in Below)
  BY <1>1, WFMin
<1>3. k \in Nat \ {0} /\ k - 1 \in Nat /\ <<k - 1, k>> \in Nat \X Nat /\ k - 1 < k
  OBVIOUS
<1>4. <<k - 1, k>> \in Below
  BY <1>3 DEF Below
<1>5. k - 1 \in P
  BY <1>2, <1>3, <1>4
<1>6. (k - 1) + 1 \in P
  BY <1>3, <1>5
<1>7. (k - 1) + 1 = k
  BY <1>3
<1> QED
  BY <1>6, <1>7

-----------------------------------------------------------------------------
(* The recursions, round by round. *)

PartsLevel(Q) == [type : Text, disp : Text, name : Name, raw : Content, parts : Q]
NoReader == [none \in {<<>>} |-> NoBody]
ReadPart(acc, p, k, sub) == IF IsMultipart(p) THEN Nested(acc, sub[p.parts]) ELSE ReadLeaf(acc, p, k)

Reads(parts, sub) ==
  CHOOSE f : f = [k \in 0..Len(parts) |->
    IF k = 0 THEN NoBody
    ELSE IF IsMultipart(parts[k]) THEN Nested(f[k - 1], sub[parts[k].parts])
    ELSE ReadLeaf(f[k - 1], parts[k], k)]
Strips(s) ==
  CHOOSE f : f = [i \in 0..Len(s) |->
    IF i = 0 THEN [inTag |-> FALSE, out |-> <<>>] ELSE StripChar(f[i - 1], s[i])]
Joins(s) ==
  CHOOSE f : f = [i \in 0..Len(s) |->
    IF i = 0 THEN [gap |-> FALSE, out |-> <<>>] ELSE JoinChar(f[i - 1], s[i])]

LEMMA ReadPartsIsRead == \A parts, sub : ReadParts(parts, sub) = Reads(parts, sub)[Len(parts)]
BY Zenon DEF ReadParts, Reads

LEMMA StripIsStripped == \A s : stripHTML(s) = Strips(s)[Len(s)].out
BY Zenon DEF stripHTML, Strips

LEMMA JoinIsJoined == \A s : JoinWords(s) = Joins(s)[Len(s)].out
BY Zenon DEF JoinWords, Joins

LEMMA ReadsLoop ==
  ASSUME NEW parts, Len(parts) \in Nat, NEW sub
  PROVE  /\ Reads(parts, sub)[0] = NoBody
         /\ \A k \in 1..Len(parts) : Reads(parts, sub)[k] = ReadPart(Reads(parts, sub)[k - 1], parts[k], k, sub)
<1> DEFINE Body(f, m) == [k \in 0..m |-> IF k = 0 THEN NoBody ELSE ReadPart(f[k - 1], parts[k], k, sub)]
           P == {m \in Nat : \E f : f = Body(f, m)}
           C == Reads(parts, sub)
<1>1. 0 \in P
  <2>1. [k \in 0..0 |-> NoBody] = Body([k \in 0..0 |-> NoBody], 0)
    OBVIOUS
  <2> QED
    BY <2>1
<1>2. ASSUME NEW m \in Nat, m \in P PROVE m + 1 \in P
  <2>1. PICK f : f = Body(f, m)
    BY <1>2
  <2> DEFINE h(k) == IF k = 0 THEN NoBody ELSE ReadPart(f[k - 1], parts[k], k, sub)
             g == [k \in 0..(m + 1) |-> h(k)]
  <2>2. ASSUME NEW k \in 0..(m + 1) PROVE g[k] = IF k = 0 THEN NoBody ELSE ReadPart(g[k - 1], parts[k], k, sub)
    <3>1. CASE k = 0
      BY <3>1
    <3>2. CASE k # 0
      <4>1. k - 1 \in 0..m /\ k - 1 \in 0..(m + 1)
        BY <3>2
      <4>2. f[k - 1] = h(k - 1)
        BY <2>1, <4>1
      <4>3. g[k - 1] = h(k - 1)
        BY <4>1
      <4>4. g[k] = h(k)
        OBVIOUS
      <4> HIDE DEF g
      <4>5. g[k - 1] = f[k - 1]
        BY <4>2, <4>3
      <4> QED
        BY <3>2, <4>4, <4>5
    <3> QED
      BY <3>1, <3>2
  <2>3. g = [k \in 0..(m + 1) |-> g[k]]
    OBVIOUS
  <2>4. g = Body(g, m + 1)
    <3> HIDE DEF g
    <3> QED
      BY <2>2, <2>3
  <2> HIDE DEF g, Body
  <2> QED
    BY <2>4
<1>3. Nat \subseteq P
  <2> HIDE DEF P
  <2> QED
    BY <1>1, <1>2, Inductive
<1>4. C = Body(C, Len(parts))
  <2>1. \E f : f = Body(f, Len(parts))
    BY <1>3
  <2>2. C = CHOOSE f : f = Body(f, Len(parts))
    BY Zenon DEF Reads, ReadPart
  <2> HIDE DEF C, Body
  <2> QED
    BY <2>1, <2>2
<1> HIDE DEF C
<1>5. C[0] = NoBody
  BY <1>4
<1>6. ASSUME NEW k \in 1..Len(parts) PROVE C[k] = ReadPart(C[k - 1], parts[k], k, sub)
  <2>1. k \in 0..Len(parts) /\ k # 0
    OBVIOUS
  <2> QED
    BY <1>4, <2>1
<1> QED
  BY <1>5, <1>6 DEF C

LEMMA StripsLoop ==
  ASSUME NEW s, Len(s) \in Nat
  PROVE  /\ Strips(s)[0] = [inTag |-> FALSE, out |-> <<>>]
         /\ \A k \in 1..Len(s) : Strips(s)[k] = StripChar(Strips(s)[k - 1], s[k])
<1> DEFINE Body(f, m) == [k \in 0..m |-> IF k = 0 THEN [inTag |-> FALSE, out |-> <<>>] ELSE StripChar(f[k - 1], s[k])]
           P == {m \in Nat : \E f : f = Body(f, m)}
           C == Strips(s)
<1>1. 0 \in P
  <2>1. [k \in 0..0 |-> [inTag |-> FALSE, out |-> <<>>]] = Body([k \in 0..0 |-> [inTag |-> FALSE, out |-> <<>>]], 0)
    OBVIOUS
  <2> QED
    BY <2>1
<1>2. ASSUME NEW m \in Nat, m \in P PROVE m + 1 \in P
  <2>1. PICK f : f = Body(f, m)
    BY <1>2
  <2> DEFINE h(k) == IF k = 0 THEN [inTag |-> FALSE, out |-> <<>>] ELSE StripChar(f[k - 1], s[k])
             g == [k \in 0..(m + 1) |-> h(k)]
  <2>2. ASSUME NEW k \in 0..(m + 1) PROVE g[k] = IF k = 0 THEN [inTag |-> FALSE, out |-> <<>>] ELSE StripChar(g[k - 1], s[k])
    <3>1. CASE k = 0
      BY <3>1
    <3>2. CASE k # 0
      <4>1. k - 1 \in 0..m /\ k - 1 \in 0..(m + 1)
        BY <3>2
      <4>2. f[k - 1] = h(k - 1)
        BY <2>1, <4>1
      <4>3. g[k - 1] = h(k - 1)
        BY <4>1
      <4>4. g[k] = h(k)
        OBVIOUS
      <4> HIDE DEF g
      <4>5. g[k - 1] = f[k - 1]
        BY <4>2, <4>3
      <4> QED
        BY <3>2, <4>4, <4>5
    <3> QED
      BY <3>1, <3>2
  <2>3. g = [k \in 0..(m + 1) |-> g[k]]
    OBVIOUS
  <2>4. g = Body(g, m + 1)
    <3> HIDE DEF g
    <3> QED
      BY <2>2, <2>3
  <2> HIDE DEF g, Body
  <2> QED
    BY <2>4
<1>3. Nat \subseteq P
  <2> HIDE DEF P
  <2> QED
    BY <1>1, <1>2, Inductive
<1>4. C = Body(C, Len(s))
  <2>1. \E f : f = Body(f, Len(s))
    BY <1>3
  <2>2. C = CHOOSE f : f = Body(f, Len(s))
    BY Zenon DEF Strips
  <2> HIDE DEF C, Body
  <2> QED
    BY <2>1, <2>2
<1> HIDE DEF C
<1>5. C[0] = [inTag |-> FALSE, out |-> <<>>]
  BY <1>4
<1>6. ASSUME NEW k \in 1..Len(s) PROVE C[k] = StripChar(C[k - 1], s[k])
  <2>1. k \in 0..Len(s) /\ k # 0
    OBVIOUS
  <2> QED
    BY <1>4, <2>1
<1> QED
  BY <1>5, <1>6 DEF C

LEMMA JoinsLoop ==
  ASSUME NEW s, Len(s) \in Nat
  PROVE  /\ Joins(s)[0] = [gap |-> FALSE, out |-> <<>>]
         /\ \A k \in 1..Len(s) : Joins(s)[k] = JoinChar(Joins(s)[k - 1], s[k])
<1> DEFINE Body(f, m) == [k \in 0..m |-> IF k = 0 THEN [gap |-> FALSE, out |-> <<>>] ELSE JoinChar(f[k - 1], s[k])]
           P == {m \in Nat : \E f : f = Body(f, m)}
           C == Joins(s)
<1>1. 0 \in P
  <2>1. [k \in 0..0 |-> [gap |-> FALSE, out |-> <<>>]] = Body([k \in 0..0 |-> [gap |-> FALSE, out |-> <<>>]], 0)
    OBVIOUS
  <2> QED
    BY <2>1
<1>2. ASSUME NEW m \in Nat, m \in P PROVE m + 1 \in P
  <2>1. PICK f : f = Body(f, m)
    BY <1>2
  <2> DEFINE h(k) == IF k = 0 THEN [gap |-> FALSE, out |-> <<>>] ELSE JoinChar(f[k - 1], s[k])
             g == [k \in 0..(m + 1) |-> h(k)]
  <2>2. ASSUME NEW k \in 0..(m + 1) PROVE g[k] = IF k = 0 THEN [gap |-> FALSE, out |-> <<>>] ELSE JoinChar(g[k - 1], s[k])
    <3>1. CASE k = 0
      BY <3>1
    <3>2. CASE k # 0
      <4>1. k - 1 \in 0..m /\ k - 1 \in 0..(m + 1)
        BY <3>2
      <4>2. f[k - 1] = h(k - 1)
        BY <2>1, <4>1
      <4>3. g[k - 1] = h(k - 1)
        BY <4>1
      <4>4. g[k] = h(k)
        OBVIOUS
      <4> HIDE DEF g
      <4>5. g[k - 1] = f[k - 1]
        BY <4>2, <4>3
      <4> QED
        BY <3>2, <4>4, <4>5
    <3> QED
      BY <3>1, <3>2
  <2>3. g = [k \in 0..(m + 1) |-> g[k]]
    OBVIOUS
  <2>4. g = Body(g, m + 1)
    <3> HIDE DEF g
    <3> QED
      BY <2>2, <2>3
  <2> HIDE DEF g, Body
  <2> QED
    BY <2>4
<1>3. Nat \subseteq P
  <2> HIDE DEF P
  <2> QED
    BY <1>1, <1>2, Inductive
<1>4. C = Body(C, Len(s))
  <2>1. \E f : f = Body(f, Len(s))
    BY <1>3
  <2>2. C = CHOOSE f : f = Body(f, Len(s))
    BY Zenon DEF Joins
  <2> HIDE DEF C, Body
  <2> QED
    BY <2>1, <2>2
<1> HIDE DEF C
<1>5. C[0] = [gap |-> FALSE, out |-> <<>>]
  BY <1>4
<1>6. ASSUME NEW k \in 1..Len(s) PROVE C[k] = JoinChar(C[k - 1], s[k])
  <2>1. k \in 0..Len(s) /\ k # 0
    OBVIOUS
  <2> QED
    BY <1>4, <2>1
<1> QED
  BY <1>5, <1>6 DEF C

LEMMA PartsToIs ==
  \A k \in 0..MaxNesting : PartsTo[k] = IF k = 0 THEN PartsLevel({<<>>}) ELSE PartsLevel(Seq(PartsTo[k - 1]))
<1> DEFINE Body(f, m) == [k \in 0..m |-> IF k = 0 THEN PartsLevel({<<>>}) ELSE PartsLevel(Seq(f[k - 1]))]
           P == {m \in Nat : \E f : f = Body(f, m)}
           C == PartsTo
<1>1. 0 \in P
  <2>1. [k \in 0..0 |-> PartsLevel({<<>>})] = Body([k \in 0..0 |-> PartsLevel({<<>>})], 0)
    OBVIOUS
  <2> QED
    BY <2>1
<1>2. ASSUME NEW m \in Nat, m \in P PROVE m + 1 \in P
  <2>1. PICK f : f = Body(f, m)
    BY <1>2
  <2> DEFINE h(k) == IF k = 0 THEN PartsLevel({<<>>}) ELSE PartsLevel(Seq(f[k - 1]))
             g == [k \in 0..(m + 1) |-> h(k)]
  <2>2. ASSUME NEW k \in 0..(m + 1) PROVE g[k] = IF k = 0 THEN PartsLevel({<<>>}) ELSE PartsLevel(Seq(g[k - 1]))
    <3>1. CASE k = 0
      BY <3>1
    <3>2. CASE k # 0
      <4>1. k - 1 \in 0..m /\ k - 1 \in 0..(m + 1)
        BY <3>2
      <4>2. f[k - 1] = h(k - 1)
        BY <2>1, <4>1
      <4>3. g[k - 1] = h(k - 1)
        BY <4>1
      <4>4. g[k] = h(k)
        OBVIOUS
      <4> HIDE DEF g
      <4>5. g[k - 1] = f[k - 1]
        BY <4>2, <4>3
      <4> QED
        BY <3>2, <4>4, <4>5
    <3> QED
      BY <3>1, <3>2
  <2>3. g = [k \in 0..(m + 1) |-> g[k]]
    OBVIOUS
  <2>4. g = Body(g, m + 1)
    <3> HIDE DEF g
    <3> QED
      BY <2>2, <2>3
  <2> HIDE DEF g, Body
  <2> QED
    BY <2>4
<1>3. Nat \subseteq P
  <2> HIDE DEF P
  <2> QED
    BY <1>1, <1>2, Inductive
<1>4. C = Body(C, MaxNesting)
  <2>1. \E f : f = Body(f, MaxNesting)
    BY <1>3, ContentAssumption
  <2>2. C = CHOOSE f : f = Body(f, MaxNesting)
    BY Zenon DEF PartsTo, PartsLevel
  <2> HIDE DEF C, Body
  <2> QED
    BY <2>1, <2>2
<1> HIDE DEF C
<1>5. ASSUME NEW k \in 0..MaxNesting PROVE C[k] = IF k = 0 THEN PartsLevel({<<>>}) ELSE PartsLevel(Seq(C[k - 1]))
  BY <1>4
<1> QED
  BY <1>5 DEF C

LEMMA ReaderToIs ==
  \A k \in 0..MaxNesting : ReaderTo[k] = IF k = 0 THEN [parts \in Seq(PartsTo[k]) |-> ReadParts(parts, NoReader)] ELSE [parts \in Seq(PartsTo[k]) |-> ReadParts(parts, ReaderTo[k - 1])]
<1> DEFINE Body(f, m) == [k \in 0..m |-> IF k = 0 THEN [parts \in Seq(PartsTo[k]) |-> ReadParts(parts, NoReader)] ELSE [parts \in Seq(PartsTo[k]) |-> ReadParts(parts, f[k - 1])]]
           P == {m \in Nat : \E f : f = Body(f, m)}
           C == ReaderTo
<1>1. 0 \in P
  <2>1. [k \in 0..0 |-> [parts \in Seq(PartsTo[k]) |-> ReadParts(parts, NoReader)]] = Body([k \in 0..0 |-> [parts \in Seq(PartsTo[k]) |-> ReadParts(parts, NoReader)]], 0)
    OBVIOUS
  <2> QED
    BY <2>1
<1>2. ASSUME NEW m \in Nat, m \in P PROVE m + 1 \in P
  <2>1. PICK f : f = Body(f, m)
    BY <1>2
  <2> DEFINE h(k) == IF k = 0 THEN [parts \in Seq(PartsTo[k]) |-> ReadParts(parts, NoReader)] ELSE [parts \in Seq(PartsTo[k]) |-> ReadParts(parts, f[k - 1])]
             g == [k \in 0..(m + 1) |-> h(k)]
  <2>2. ASSUME NEW k \in 0..(m + 1) PROVE g[k] = IF k = 0 THEN [parts \in Seq(PartsTo[k]) |-> ReadParts(parts, NoReader)] ELSE [parts \in Seq(PartsTo[k]) |-> ReadParts(parts, g[k - 1])]
    <3>1. CASE k = 0
      BY <3>1
    <3>2. CASE k # 0
      <4>1. k - 1 \in 0..m /\ k - 1 \in 0..(m + 1)
        BY <3>2
      <4>2. f[k - 1] = h(k - 1)
        BY <2>1, <4>1
      <4>3. g[k - 1] = h(k - 1)
        BY <4>1
      <4>4. g[k] = h(k)
        OBVIOUS
      <4> HIDE DEF g
      <4>5. g[k - 1] = f[k - 1]
        BY <4>2, <4>3
      <4> QED
        BY <3>2, <4>4, <4>5
    <3> QED
      BY <3>1, <3>2
  <2>3. g = [k \in 0..(m + 1) |-> g[k]]
    OBVIOUS
  <2>4. g = Body(g, m + 1)
    <3> HIDE DEF g
    <3> QED
      BY <2>2, <2>3
  <2> HIDE DEF g, Body
  <2> QED
    BY <2>4
<1>3. Nat \subseteq P
  <2> HIDE DEF P
  <2> QED
    BY <1>1, <1>2, Inductive
<1>4. C = Body(C, MaxNesting)
  <2>1. \E f : f = Body(f, MaxNesting)
    BY <1>3, ContentAssumption
  <2>2. C = CHOOSE f : f = Body(f, MaxNesting)
    BY Zenon DEF ReaderTo, NoReader
  <2> HIDE DEF C, Body
  <2> QED
    BY <2>1, <2>2
<1> HIDE DEF C
<1>5. ASSUME NEW k \in 0..MaxNesting PROVE C[k] = IF k = 0 THEN [parts \in Seq(PartsTo[k]) |-> ReadParts(parts, NoReader)] ELSE [parts \in Seq(PartsTo[k]) |-> ReadParts(parts, C[k - 1])]
  BY <1>4
<1> QED
  BY <1>5 DEF C

-----------------------------------------------------------------------------
(* Lists that grow by one entry for each number of a set. *)

UpTo(K, i) == {j \in K : j <= i}
IsNumbered(out, K, F) == Len(out) = Cardinality(K) /\ \A i \in K : out[Cardinality(UpTo(K, i))] = F[i]

LEMMA UpToBounds ==
  ASSUME NEW K \in SUBSET Nat, IsFiniteSet(K), NEW i \in K
  PROVE  Cardinality(UpTo(K, i)) \in 1..Cardinality(K)
<1> DEFINE U == UpTo(K, i)
<1>1. U \subseteq K /\ i \in U
  BY DEF UpTo
<1> HIDE DEF U
<1>2. IsFiniteSet(U) /\ Cardinality(U) <= Cardinality(K)
  BY <1>1, FS_Subset
<1>3. Cardinality(U) \in Nat /\ Cardinality(U) # 0 /\ Cardinality(K) \in Nat
  BY <1>1, <1>2, FS_CardinalityType, FS_EmptySet
<1> QED
  BY <1>2, <1>3 DEF U

LEMMA NumberedAppend ==
  ASSUME NEW T, NEW out \in Seq(T), NEW x \in T, NEW F,
         NEW K \in SUBSET Nat, IsFiniteSet(K), IsNumbered(out, K, F),
         NEW e \in Nat, \A i \in K : i < e, F[e] = x
  PROVE  /\ IsFiniteSet(K \cup {e}) /\ K \cup {e} \in SUBSET Nat
         /\ IsNumbered(Append(out, x), K \cup {e}, F)
<1> DEFINE J == K \cup {e}
           y == Append(out, x)
<1>1. e \notin K
  OBVIOUS
<1>2. IsFiniteSet(J) /\ Cardinality(J) = Cardinality(K) + 1 /\ Cardinality(K) \in Nat
  BY <1>1, FS_AddElement, FS_CardinalityType
<1>3. Len(out) = Cardinality(K) /\ \A i \in K : out[Cardinality(UpTo(K, i))] = F[i]
  BY DEF IsNumbered
<1>4. /\ Len(y) = Len(out) + 1 /\ y[Len(out) + 1] = x /\ \A i \in 1..Len(out) : y[i] = out[i]
  OBVIOUS
<1> HIDE DEF y
<1>5. ASSUME NEW i \in J PROVE y[Cardinality(UpTo(J, i))] = F[i]
  <2>1. CASE i = e
    <3>1. \A j \in J : j <= i
      BY <2>1
    <3>2. UpTo(J, i) = J
      <4> HIDE DEF J
      <4> QED
        BY <3>1 DEF UpTo
    <3> HIDE DEF J
    <3> QED
      BY <2>1, <3>2, <1>2, <1>3, <1>4
  <2>2. CASE i # e
    <3>1. i \in K /\ UpTo(J, i) = UpTo(K, i)
      BY <2>2 DEF UpTo
    <3>2. Cardinality(UpTo(K, i)) \in 1..Len(out)
      BY <3>1, <1>3, UpToBounds
    <3> QED
      BY <3>1, <3>2, <1>3, <1>4
  <2> QED
    BY <2>1, <2>2
<1>6. J \in SUBSET Nat
  OBVIOUS
<1> HIDE DEF J
<1>7. IsNumbered(y, J, F)
  BY <1>2, <1>3, <1>4, <1>5 DEF IsNumbered
<1> QED
  BY <1>2, <1>6, <1>7 DEF J, y

-----------------------------------------------------------------------------
(* Requests, and the parts of the messages that are built from them. *)

AnyAttachment == [name : Name, type : Text, data : Text, valid : BOOLEAN]
AnyRequest == [text : Text, html : Text, atts : Seq(AnyAttachment)]

MixedParts(req) ==
  <<Multipart("multipart/alternative", Bodies(req))>>
    \o [k \in DOMAIN req.atts |-> AttachmentPart(req.atts[k])]

(* The names and types that occur are strings. *)
LEMMA TextHolds ==
  {"", "text/plain", "text/html", "application/octet-stream", "multipart/alternative", "multipart/mixed",
   "attachment", "quoted-printable", "base64", "att", "part"} \subseteq Text
BY ContentAssumption

LEMMA EncodeType ==
  \A enc, data \in Text : Encode(enc, data) \in Content /\ Plain(data) \in Content
BY TextHolds DEF Encode, Plain, Content

LEMMA NameType == NoName \in Name /\ \A k \in Nat : ID(k) \in Name
BY TextHolds DEF NoName, Name, ID

LEMMA LeafIn ==
  ASSUME NEW m \in 0..MaxNesting, NEW type \in Text, NEW disp \in Text, NEW name \in Name,
         NEW raw \in Content
  PROVE  Leaf(type, disp, name, raw) \in PartsTo[m]
<1>1. \E Q : <<>> \in Q /\ PartsTo[m] = PartsLevel(Q)
  <2>1. PartsTo[m] = IF m = 0 THEN PartsLevel({<<>>}) ELSE PartsLevel(Seq(PartsTo[m - 1]))
    BY PartsToIs
  <2>2. <<>> \in {<<>>} /\ <<>> \in Seq(PartsTo[m - 1])
    OBVIOUS
  <2> QED
    BY <2>1, <2>2
<1> QED
  BY <1>1 DEF PartsLevel, Leaf

LEMMA MultipartIn ==
  ASSUME NEW m \in 0..MaxNesting, m # 0, NEW type \in Text, NEW parts \in Seq(PartsTo[m - 1])
  PROVE  Multipart(type, parts) \in PartsTo[m]
<1>1. PartsTo[m] = PartsLevel(Seq(PartsTo[m - 1]))
  BY PartsToIs
<1>2. NoName \in Name /\ Plain("") \in Content /\ "" \in Text
  BY TextHolds, EncodeType, NameType
<1> QED
  BY <1>1, <1>2 DEF PartsLevel, Multipart

LEMMA BodyPartsIn ==
  ASSUME NEW m \in 0..MaxNesting, NEW s \in Text
  PROVE  TextPart(s) \in PartsTo[m] /\ HtmlPart(s) \in PartsTo[m]
<1>1. NoName \in Name /\ Encode("quoted-printable", s) \in Content
  BY EncodeType, NameType, TextHolds
<1> QED
  BY <1>1, TextHolds, LeafIn DEF TextPart, HtmlPart

LEMMA AttachmentPartIn ==
  ASSUME NEW m \in 0..MaxNesting, NEW att \in AnyAttachment
  PROVE  AttachmentPart(att) \in PartsTo[m]
<1> DEFINE type == IF att.type = "" THEN "application/octet-stream" ELSE att.type
           raw == Encode("base64", IF att.valid THEN att.data ELSE "")
<1>1. type \in Text /\ att.name \in Name
  BY TextHolds DEF AnyAttachment
<1>2. raw \in Content
  <2>1. (IF att.valid THEN att.data ELSE "") \in Text
    BY TextHolds DEF AnyAttachment
  <2> QED
    BY <2>1, TextHolds, EncodeType
<1> HIDE DEF type, raw
<1>3. Leaf(type, "attachment", att.name, raw) \in PartsTo[m]
  BY <1>1, <1>2, TextHolds, LeafIn
<1> QED
  BY <1>3 DEF AttachmentPart, type, raw

LEMMA BodiesIn ==
  ASSUME NEW m \in 0..MaxNesting, NEW req \in AnyRequest
  PROVE  Bodies(req) \in Seq(PartsTo[m])
<1> DEFINE S == PartsTo[m]
           t == IF req.text = "" THEN <<>> ELSE <<TextPart(req.text)>>
           h == IF req.html = "" THEN <<>> ELSE <<HtmlPart(req.html)>>
<1>1. req.text \in Text /\ req.html \in Text
  BY DEF AnyRequest
<1>2. TextPart(req.text) \in S /\ HtmlPart(req.html) \in S
  BY <1>1, BodyPartsIn
<1> HIDE DEF S
<1>3. t \in Seq(S) /\ h \in Seq(S)
  <2>1. \A x \in S : <<x>> \in Seq(S)
    OBVIOUS
  <2>2. <<>> \in Seq(S)
    OBVIOUS
  <2> QED
    BY <1>2, <2>1, <2>2
<1> HIDE DEF t, h
<1>4. t \o h \in Seq(S)
  BY <1>3
<1> QED
  BY <1>4 DEF Bodies, t, h, S

LEMMA NestingFits == MaxNesting \in Nat /\ MaxNesting # 0 /\ MaxSnippet \in Nat
<1>1. MaxNesting \in Nat \ {0} /\ MaxSnippet \in Nat
  BY ContentAssumption, Zenon
<1> QED
  BY <1>1

LEMMA MixedIs ==
  ASSUME NEW req \in AnyRequest
  PROVE  /\ MixedParts(req) \in Seq(PartsTo[MaxNesting]) /\ Len(MixedParts(req)) = Len(req.atts) + 1
         /\ MixedParts(req)[1] = Multipart("multipart/alternative", Bodies(req))
         /\ \A k \in 1..Len(req.atts) : MixedParts(req)[k + 1] = AttachmentPart(req.atts[k])
<1> DEFINE S == PartsTo[MaxNesting]
           a == Multipart("multipart/alternative", Bodies(req))
           n == Len(req.atts)
           b == [k \in DOMAIN req.atts |-> AttachmentPart(req.atts[k])]
<1>1. n \in Nat /\ DOMAIN req.atts = 1..n /\ \A k \in 1..n : req.atts[k] \in AnyAttachment
  BY DEF AnyRequest
<1>2. MaxNesting \in 0..MaxNesting /\ MaxNesting # 0 /\ MaxNesting - 1 \in 0..MaxNesting
  BY NestingFits
<1>3. a \in S
  <2>1. Bodies(req) \in Seq(PartsTo[MaxNesting - 1])
    BY <1>2, BodiesIn
  <2> QED
    BY <1>2, <2>1, TextHolds, MultipartIn
<1>4. \A k \in 1..n : AttachmentPart(req.atts[k]) \in S
  BY <1>1, <1>2, AttachmentPartIn
<1> HIDE DEF S, a
<1>5. b \in Seq(S) /\ Len(b) = n /\ \A k \in 1..n : b[k] = AttachmentPart(req.atts[k])
  <2>1. b \in [1..n -> S]
    BY <1>1, <1>4
  <2>2. \A k \in 1..n : b[k] = AttachmentPart(req.atts[k])
    BY <1>1
  <2> HIDE DEF b, n
  <2> QED
    BY <1>1, <2>1, <2>2
<1> HIDE DEF b, n
<1>6. <<a>> \in Seq(S) /\ Len(<<a>>) = 1 /\ <<a>>[1] = a
  BY <1>3
<1>7. /\ <<a>> \o b \in Seq(S) /\ Len(<<a>> \o b) = n + 1 /\ (<<a>> \o b)[1] = a
      /\ \A k \in 1..n : (<<a>> \o b)[k + 1] = b[k]
  BY <1>1, <1>3, <1>5
<1>8. MixedParts(req) = <<a>> \o b
  BY DEF MixedParts, a, b
<1> QED
  BY <1>5, <1>7, <1>8 DEF S, a, n

-----------------------------------------------------------------------------
(* What is read of the parts. *)

(* What has been read of a message. *)
Made(t, h, a) == [text |-> t, html |-> h, atts |-> a]

LEMMA BodyRead ==
  ASSUME NEW t, NEW h, NEW a, NEW s, NEW k, NEW sub
  PROVE  /\ ReadPart(Made(t, h, a), TextPart(s), k, sub) = Made(Plain(s), h, a)
         /\ ReadPart(Made(t, h, a), HtmlPart(s), k, sub) = Made(t, Plain(s), a)
<1> DEFINE acc == Made(t, h, a)
<1>1. ~IsMultipart(TextPart(s)) /\ ~IsMultipart(HtmlPart(s))
  <2>1. TextPart(s).type = "text/plain" /\ HtmlPart(s).type = "text/html"
    BY DEF TextPart, HtmlPart, Leaf
  <2>2. "text/plain" \notin Multiparts /\ "text/html" \notin Multiparts
    BY ContentAssumption, Zenon
  <2> QED
    BY <2>1, <2>2 DEF IsMultipart
<1>2. /\ TextPart(s).name = NoName /\ TextPart(s).disp = "" /\ TextPart(s).type = "text/plain"
      /\ TextPart(s).raw = Encode("quoted-printable", s)
  BY DEF TextPart, Leaf
<1>3. /\ HtmlPart(s).name = NoName /\ HtmlPart(s).disp = "" /\ HtmlPart(s).type = "text/html"
      /\ HtmlPart(s).raw = Encode("quoted-printable", s)
  BY DEF HtmlPart, Leaf
<1>4. LET raw == Encode("quoted-printable", s) IN decodeContent(raw, raw.enc) = Plain(s)
  BY DEF Encode, Plain, decodeContent
<1>5. ReadPart(acc, TextPart(s), k, sub) = ReadLeaf(acc, TextPart(s), k)
  BY <1>1 DEF ReadPart
<1>6. ReadPart(acc, HtmlPart(s), k, sub) = ReadLeaf(acc, HtmlPart(s), k)
  BY <1>1 DEF ReadPart
<1>7. ReadLeaf(acc, TextPart(s), k) = Made(Plain(s), h, a)
  BY <1>2, <1>4 DEF ReadLeaf, Made
<1>8. ReadLeaf(acc, HtmlPart(s), k) = Made(t, Plain(s), a)
  BY <1>3, <1>4 DEF ReadLeaf, Made
<1> QED
  BY <1>5, <1>6, <1>7, <1>8

LEMMA NothingRead == \A sub : ReadParts(<<>>, sub) = NoBody
<1> TAKE sub
<1>1. Len(<<>>) = 0
  OBVIOUS
<1>2. Reads(<<>>, sub)[0] = NoBody
  BY <1>1, ReadsLoop
<1> QED
  BY <1>1, <1>2, ReadPartsIsRead

BodyOf(req) == Made(Plain(req.text), Plain(req.html), <<>>)

LEMMA BodiesAre ==
  ASSUME NEW req
  PROVE  /\ req.text = "" /\ req.html = "" => Bodies(req) = <<>>
         /\ req.text # "" /\ req.html = "" => Bodies(req) = <<TextPart(req.text)>>
         /\ req.text = "" /\ req.html # "" => Bodies(req) = <<HtmlPart(req.html)>>
         /\ req.text # "" /\ req.html # "" => Bodies(req) = <<TextPart(req.text), HtmlPart(req.html)>>
<1>1. ASSUME NEW a, NEW b
      PROVE  /\ <<>> \o <<>> = <<>> /\ <<a>> \o <<>> = <<a>> /\ <<>> \o <<b>> = <<b>>
             /\ <<a>> \o <<b>> = <<a, b>>
  <2> DEFINE S == {a, b}
  <2>1. <<a>> \in Seq(S) /\ <<b>> \in Seq(S) /\ <<>> \in Seq(S)
    OBVIOUS
  <2>2. <<>> \o <<>> = <<>> /\ <<a>> \o <<>> = <<a>> /\ <<>> \o <<b>> = <<b>>
    BY <2>1, ConcatEmptySeq
  <2>3. <<a>> \o <<b>> = <<a, b>>
    <3> DEFINE u == <<a>> \o <<b>>
    <3>1. u \in Seq(S) /\ Len(u) = 2 /\ u[1] = a /\ u[2] = b
      BY <2>1
    <3>2. <<a, b>> \in Seq(S) /\ Len(<<a, b>>) = 2 /\ <<a, b>>[1] = a /\ <<a, b>>[2] = b
      OBVIOUS
    <3> HIDE DEF u
    <3>3. u = <<a, b>>
      BY <3>1, <3>2, SeqEqual
    <3> QED
      BY <3>3 DEF u
  <2> QED
    BY <2>2, <2>3
<1> DEFINE a == TextPart(req.text)
           b == HtmlPart(req.html)
<1>2. Bodies(req) = (IF req.text = "" THEN <<>> ELSE <<a>>) \o (IF req.html = "" THEN <<>> ELSE <<b>>)
  BY DEF Bodies
<1> HIDE DEF a, b
<1>3. CASE req.text = ""
  BY <1>1, <1>2, <1>3, Zenon DEF a, b
<1>4. CASE req.text # ""
  BY <1>1, <1>2, <1>4, Zenon DEF a, b
<1> QED
  BY <1>3, <1>4

LEMMA BodiesRead ==
  ASSUME NEW req \in AnyRequest, NEW sub
  PROVE  ReadParts(Bodies(req), sub) = BodyOf(req)
<1> DEFINE R == Reads(Bodies(req), sub)
           x == TextPart(req.text)
           y == HtmlPart(req.html)
           e == Plain("")
           none == <<>>
<1>1. NoBody = Made(e, e, none)
  BY DEF NoBody, Made
<1> HIDE DEF e, none
<1>6. ASSUME NEW t, NEW h, NEW a, NEW k
      PROVE  /\ ReadPart(Made(t, h, a), x, k, sub) = Made(Plain(req.text), h, a)
             /\ ReadPart(Made(t, h, a), y, k, sub) = Made(t, Plain(req.html), a)
  BY BodyRead
<1> HIDE DEF x, y, R
<1>2. CASE req.text = "" /\ req.html = ""
  <2>1. Bodies(req) = <<>>
    BY <1>2, BodiesAre
  <2> QED
    BY <1>2, <2>1, NothingRead DEF BodyOf, NoBody, Made
<1>3. CASE req.text # "" /\ req.html = ""
  <2>1. Bodies(req) = <<x>>
    BY <1>3, BodiesAre DEF x, y
  <2>2. Bodies(req) = <<x>> /\ Len(<<x>>) = 1 /\ <<x>>[1] = x
    BY <2>1
  <2>3. R[0] = NoBody /\ \A k \in 1..1 : R[k] = ReadPart(R[k - 1], <<x>>[k], k, sub)
    BY <2>2, ReadsLoop DEF R
  <2>4. R[1] = ReadPart(NoBody, x, 1, sub)
    BY <2>2, <2>3
  <2>5. R[1] = Made(Plain(req.text), e, none)
    BY <2>4, <1>1, <1>6
  <2> QED
    BY <1>3, <2>2, <2>5, ReadPartsIsRead DEF R, BodyOf, e, none
<1>4. CASE req.text = "" /\ req.html # ""
  <2>1. Bodies(req) = <<y>>
    BY <1>4, BodiesAre DEF x, y
  <2>2. Bodies(req) = <<y>> /\ Len(<<y>>) = 1 /\ <<y>>[1] = y
    BY <2>1
  <2>3. R[0] = NoBody /\ \A k \in 1..1 : R[k] = ReadPart(R[k - 1], <<y>>[k], k, sub)
    BY <2>2, ReadsLoop DEF R
  <2>4. R[1] = ReadPart(NoBody, y, 1, sub)
    BY <2>2, <2>3
  <2>5. R[1] = Made(e, Plain(req.html), none)
    BY <2>4, <1>1, <1>6
  <2> QED
    BY <1>4, <2>2, <2>5, ReadPartsIsRead DEF R, BodyOf, e, none
<1>5. CASE req.text # "" /\ req.html # ""
  <2>1. Bodies(req) = <<x, y>>
    BY <1>5, BodiesAre DEF x, y
  <2>2. Bodies(req) = <<x, y>> /\ Len(<<x, y>>) = 2 /\ <<x, y>>[1] = x /\ <<x, y>>[2] = y
    BY <2>1
  <2>3. R[0] = NoBody /\ \A k \in 1..2 : R[k] = ReadPart(R[k - 1], <<x, y>>[k], k, sub)
    BY <2>2, ReadsLoop DEF R
  <2>4. R[1] = ReadPart(NoBody, x, 1, sub) /\ R[2] = ReadPart(R[1], y, 2, sub)
    BY <2>2, <2>3
  <2>5. R[1] = Made(Plain(req.text), e, none)
    BY <2>4, <1>1, <1>6
  <2>6. R[2] = BodyOf(req)
    BY <2>4, <2>5, <1>6 DEF BodyOf, none
  <2> QED
    BY <2>2, <2>6, ReadPartsIsRead DEF R
<1> QED
  BY <1>2, <1>3, <1>4, <1>5

LEMMA ReaderIs ==
  ASSUME NEW m \in 0..MaxNesting, NEW parts \in Seq(PartsTo[m])
  PROVE  ReaderTo[m][parts] = ReadParts(parts, IF m = 0 THEN NoReader ELSE ReaderTo[m - 1])
<1>1. CASE m = 0
  BY <1>1, ReaderToIs
<1>2. CASE m # 0
  BY <1>2, ReaderToIs
<1> QED
  BY <1>1, <1>2

(* The parts of a message and of what is nested in it. *)
LEMMA TopReads ==
  /\ \A parts \in Seq(PartsTo[MaxNesting]) :
       parseMultipart(parts) = ReadParts(parts, ReaderTo[MaxNesting - 1])
  /\ ReaderTo[MaxNesting - 1][<<>>] = NoBody
  /\ \A req \in AnyRequest : ReaderTo[MaxNesting - 1][Bodies(req)] = BodyOf(req)
<1>1. MaxNesting \in 0..MaxNesting /\ MaxNesting # 0 /\ MaxNesting - 1 \in 0..MaxNesting
  BY NestingFits
<1>2. ASSUME NEW parts \in Seq(PartsTo[MaxNesting])
      PROVE  parseMultipart(parts) = ReadParts(parts, ReaderTo[MaxNesting - 1])
  BY <1>1, ReaderIs DEF parseMultipart
<1>3. ReaderTo[MaxNesting - 1][<<>>] = NoBody
  <2>1. <<>> \in Seq(PartsTo[MaxNesting - 1])
    OBVIOUS
  <2> QED
    BY <1>1, <2>1, ReaderIs, NothingRead
<1>4. ASSUME NEW req \in AnyRequest PROVE ReaderTo[MaxNesting - 1][Bodies(req)] = BodyOf(req)
  <2>1. Bodies(req) \in Seq(PartsTo[MaxNesting - 1])
    BY <1>1, BodiesIn
  <2> QED
    BY <1>1, <2>1, ReaderIs, BodiesRead
<1> QED
  BY <1>2, <1>3, <1>4

-----------------------------------------------------------------------------
(* The attachments of a message. *)

AnyEntry == [id : Name, name : Name, type : Text, data : Content]

Kept(req, n) == {k \in 1..n : ~IsMultipart(AttachmentPart(req.atts[k]))}
Shown(req, k) ==
  [id |-> ID(k + 1), name |-> NameOf(AttachmentPart(req.atts[k]), k + 1),
   type |-> AttachmentPart(req.atts[k]).type,
   data |-> Plain(IF req.atts[k].valid THEN req.atts[k].data ELSE "")]
ShownOf(req) == [k \in 1..Len(req.atts) |-> Shown(req, k)]

(* What has been read after n of the attachments. *)
MixedFits(x, req, n) ==
  \E a \in Seq(AnyEntry) :
    /\ x = Made(Plain(req.text), Plain(req.html), a)
    /\ IsNumbered(a, Kept(req, n), ShownOf(req))

LEMMA AttachmentFacts ==
  ASSUME NEW req \in AnyRequest, NEW k \in 1..Len(req.atts)
  PROVE  /\ req.atts[k] \in AnyAttachment
         /\ AttachmentPart(req.atts[k]).disp = "attachment"
         /\ AttachmentPart(req.atts[k]).parts = <<>>
         /\ AttachmentPart(req.atts[k]).name = req.atts[k].name
         /\ AttachmentPart(req.atts[k]).raw.enc = "base64"
         /\ decodeContent(AttachmentPart(req.atts[k]).raw, "base64")
              = Plain(IF req.atts[k].valid THEN req.atts[k].data ELSE "")
         /\ Shown(req, k) \in AnyEntry
<1> DEFINE att == req.atts[k]
           p == AttachmentPart(att)
           raw == Encode("base64", IF att.valid THEN att.data ELSE "")
           type == IF att.type = "" THEN "application/octet-stream" ELSE att.type
<1>1. att \in AnyAttachment
  BY DEF AnyRequest
<1>2. p = Leaf(type, "attachment", att.name, raw)
  BY DEF AttachmentPart
<1> HIDE DEF p, raw, type
<1>3. /\ p.disp = "attachment" /\ p.parts = <<>> /\ p.name = att.name /\ p.raw = raw
      /\ p.type = type
  BY <1>2 DEF Leaf
<1>4. raw.enc = "base64" /\ decodeContent(raw, "base64") = Plain(IF att.valid THEN att.data ELSE "")
  BY DEF Encode, decodeContent, Plain, raw
<1>5. type \in Text /\ att.name \in Name
  BY <1>1, TextHolds DEF AnyAttachment, type
<1>6. NameOf(p, k + 1) \in Name
  <2>1. [stem |-> "attachment", n |-> k + 1] \in Name
    <3>1. k + 1 \in Nat
      OBVIOUS
    <3>2. "attachment" \in Text
      BY TextHolds
    <3> QED
      BY <3>1, <3>2 DEF Name
  <2> QED
    BY <2>1, <1>3, <1>5 DEF NameOf
<1>7. Plain(IF att.valid THEN att.data ELSE "") \in Content
  <2>1. (IF att.valid THEN att.data ELSE "") \in Text
    BY <1>1, TextHolds DEF AnyAttachment
  <2> QED
    BY <2>1, TextHolds, EncodeType
<1>8. ID(k + 1) \in Name
  <2>1. k + 1 \in Nat
    BY DEF AnyRequest
  <2> QED
    BY <2>1, NameType
<1>9. Shown(req, k) \in AnyEntry
  BY <1>3, <1>5, <1>6, <1>7, <1>8 DEF Shown, AnyEntry, p
<1> QED
  BY <1>1, <1>3, <1>4, <1>9 DEF p

LEMMA AttachmentRead ==
  ASSUME NEW req \in AnyRequest, NEW k \in 1..Len(req.atts), NEW t, NEW h, NEW a \in Seq(AnyEntry),
         t.data = "" => t = Plain(""), h.data = "" => h = Plain("")
  PROVE  ReadPart(Made(t, h, a), AttachmentPart(req.atts[k]), k + 1, ReaderTo[MaxNesting - 1]) =
           Made(t, h, IF IsMultipart(AttachmentPart(req.atts[k])) THEN a ELSE Append(a, Shown(req, k)))
<1> DEFINE p == AttachmentPart(req.atts[k])
           sub == ReaderTo[MaxNesting - 1]
           x == ReadPart(Made(t, h, a), p, k + 1, sub)
<1>1. /\ p.disp = "attachment" /\ p.parts = <<>> /\ p.name = req.atts[k].name
      /\ p.raw.enc = "base64"
      /\ decodeContent(p.raw, "base64") = Plain(IF req.atts[k].valid THEN req.atts[k].data ELSE "")
  BY AttachmentFacts
<1>2. Made(t, h, a).text = t /\ Made(t, h, a).html = h /\ Made(t, h, a).atts = a
  BY DEF Made
<1>3. ASSUME IsMultipart(p) PROVE x = Made(t, h, a)
  <2>1. x = Nested(Made(t, h, a), sub[<<>>]) /\ sub[<<>>] = NoBody
    BY <1>1, <1>3, TopReads DEF ReadPart
  <2>2. a \o NoBody.atts = a
    BY ConcatEmptySeq DEF NoBody
  <2>3. NoBody.text = Plain("") /\ NoBody.html = Plain("")
    BY DEF NoBody
  <2>4. Nested(Made(t, h, a), NoBody) = Made(t, h, a)
    <3>1. (IF t.data = "" THEN NoBody.text ELSE t) = t /\ (IF h.data = "" THEN NoBody.html ELSE h) = h
      BY <2>3
    <3> QED
      BY <3>1, <2>2, <1>2 DEF Nested, Made
  <2> QED
    BY <2>1, <2>4
<1>4. ASSUME ~IsMultipart(p) PROVE x = Made(t, h, Append(a, Shown(req, k)))
  <2>1. x = ReadLeaf(Made(t, h, a), p, k + 1)
    BY <1>4 DEF ReadPart
  <2>2. x = [Made(t, h, a) EXCEPT !.atts = Append(a, Shown(req, k))]
    BY <2>1, <1>1, <1>2 DEF ReadLeaf, Shown
  <2> QED
    BY <2>2 DEF Made
<1> QED
  BY <1>3, <1>4

LEMMA KeptFacts ==
  ASSUME NEW req, NEW n \in Nat
  PROVE  /\ IsFiniteSet(Kept(req, n)) /\ Kept(req, n) \in SUBSET Nat /\ Kept(req, 0) = {}
         /\ \A i \in Kept(req, n) : i < n + 1
         /\ Kept(req, n + 1) = IF IsMultipart(AttachmentPart(req.atts[n + 1])) THEN Kept(req, n)
                                 ELSE Kept(req, n) \cup {n + 1}
<1>1. IsFiniteSet(1..n) /\ Kept(req, n) \subseteq 1..n
  BY FS_Interval DEF Kept
<1>2. IsFiniteSet(Kept(req, n))
  BY <1>1, FS_Subset
<1>3. Kept(req, n) \in SUBSET Nat /\ Kept(req, 0) = {} /\ \A i \in Kept(req, n) : i < n + 1
  BY DEF Kept
<1>4. Kept(req, n + 1) = IF IsMultipart(AttachmentPart(req.atts[n + 1])) THEN Kept(req, n)
                           ELSE Kept(req, n) \cup {n + 1}
  BY DEF Kept
<1> QED
  BY <1>2, <1>3, <1>4

LEMMA MixedStep ==
  ASSUME NEW req \in AnyRequest, NEW n \in Nat, n + 1 <= Len(req.atts), NEW x, MixedFits(x, req, n)
  PROVE  MixedFits(ReadPart(x, AttachmentPart(req.atts[n + 1]), n + 2, ReaderTo[MaxNesting - 1]), req, n + 1)
<1> DEFINE k == n + 1
           p == AttachmentPart(req.atts[k])
           t == Plain(req.text)
           h == Plain(req.html)
           y == ReadPart(x, p, n + 2, ReaderTo[MaxNesting - 1])
           s == Shown(req, k)
<1>1. PICK a \in Seq(AnyEntry) : x = Made(t, h, a) /\ IsNumbered(a, Kept(req, n), ShownOf(req))
  BY DEF MixedFits
<1>2. k \in 1..Len(req.atts) /\ n + 2 = k + 1
  BY DEF AnyRequest
<1>3. (t.data = "" => t = Plain("")) /\ (h.data = "" => h = Plain(""))
  BY DEF Plain, Encode
<1>4. s \in AnyEntry /\ ShownOf(req)[k] = s
  BY <1>2, AttachmentFacts DEF ShownOf
<1> HIDE DEF k, t, h
<1>5. y = Made(t, h, IF IsMultipart(p) THEN a ELSE Append(a, s))
  <2>1. ReadPart(Made(t, h, a), p, k + 1, ReaderTo[MaxNesting - 1]) =
          Made(t, h, IF IsMultipart(p) THEN a ELSE Append(a, s))
    BY <1>2, <1>3, AttachmentRead
  <2> QED
    BY <2>1, <1>1, <1>2
<1> HIDE DEF p, s, y
<1>6. CASE IsMultipart(p)
  <2>1. Kept(req, n + 1) = Kept(req, n)
    BY <1>6, KeptFacts DEF p, k
  <2> QED
    BY <1>1, <1>5, <1>6, <2>1 DEF MixedFits, y, p, k
<1>7. CASE ~IsMultipart(p)
  <2>1. Kept(req, n + 1) = Kept(req, n) \cup {k}
    BY <1>7, KeptFacts DEF p, k
  <2>2. IsNumbered(Append(a, s), Kept(req, n) \cup {k}, ShownOf(req))
    <3>1. IsFiniteSet(Kept(req, n)) /\ Kept(req, n) \in SUBSET Nat
      BY KeptFacts
    <3>2. k \in Nat /\ \A i \in Kept(req, n) : i < k
      <4>1. \A i \in Kept(req, n) : i < n + 1
        BY KeptFacts
      <4> QED
        BY <4>1 DEF k
    <3> QED
      BY <3>1, <3>2, <1>1, <1>4, NumberedAppend
  <2>3. Append(a, s) \in Seq(AnyEntry)
    BY <1>4
  <2>4. y = Made(t, h, Append(a, s))
    BY <1>5, <1>7
  <2> QED
    BY <2>1, <2>2, <2>3, <2>4 DEF MixedFits, y, p, k, t, h
<1> QED
  BY <1>6, <1>7

(* What is read of the parts of a message with attachments. *)
LEMMA MixedRead ==
  ASSUME NEW req \in AnyRequest
  PROVE  MixedFits(parseMultipart(MixedParts(req)), req, Len(req.atts))
<1> DEFINE parts == MixedParts(req)
           sub == ReaderTo[MaxNesting - 1]
           n == Len(req.atts)
           R == Reads(parts, sub)
           P == {k \in Nat : k <= n => MixedFits(R[k + 1], req, k)}
<1>1. /\ parts \in Seq(PartsTo[MaxNesting]) /\ Len(parts) = n + 1 /\ n \in Nat
      /\ parts[1] = Multipart("multipart/alternative", Bodies(req))
      /\ \A k \in 1..n : parts[k + 1] = AttachmentPart(req.atts[k])
  BY MixedIs DEF AnyRequest
<1> HIDE DEF parts
<1>2. R[0] = NoBody /\ \A k \in 1..(n + 1) : R[k] = ReadPart(R[k - 1], parts[k], k, sub)
  BY <1>1, ReadsLoop
<1>3. parseMultipart(parts) = R[n + 1]
  BY <1>1, TopReads, ReadPartsIsRead
<1> HIDE DEF R
<1>4. 0 \in P
  <2>1. 1 \in 1..(n + 1) /\ 1 - 1 = 0
    BY <1>1
  <2>2. R[1] = ReadPart(NoBody, Multipart("multipart/alternative", Bodies(req)), 1, sub)
    BY <1>1, <1>2, <2>1
  <2>3. R[1] = Nested(NoBody, sub[Bodies(req)])
    <3>1. "multipart/alternative" \in Multiparts
      BY ContentAssumption, Zenon
    <3> QED
      BY <2>2, <3>1 DEF ReadPart, IsMultipart, Multipart
  <2>4. sub[Bodies(req)] = BodyOf(req)
    BY TopReads
  <2>5. Nested(NoBody, BodyOf(req)) = BodyOf(req)
    <3>1. NoBody.text.data = "" /\ NoBody.html.data = "" /\ NoBody.atts = <<>>
      BY DEF NoBody, Plain, Encode
    <3>2. /\ BodyOf(req).text = Plain(req.text) /\ BodyOf(req).html = Plain(req.html)
          /\ BodyOf(req).atts = <<>>
      BY DEF BodyOf, Made
    <3>3. NoBody.atts \o BodyOf(req).atts = <<>>
      <4>1. <<>> \in Seq(Nat)
        OBVIOUS
      <4> QED
        BY <3>1, <3>2, <4>1, ConcatEmptySeq
    <3> QED
      BY <3>1, <3>2, <3>3 DEF Nested, BodyOf, Made
  <2>6. IsNumbered(<<>>, Kept(req, 0), ShownOf(req))
    <3>1. Kept(req, 0) = {} /\ Cardinality({}) = 0 /\ Len(<<>>) = 0
      BY KeptFacts, FS_EmptySet
    <3> QED
      BY <3>1 DEF IsNumbered
  <2>7. <<>> \in Seq(AnyEntry)
    OBVIOUS
  <2>8. R[1] = BodyOf(req)
    BY <2>3, <2>4, <2>5
  <2>9. MixedFits(R[1], req, 0)
    BY <2>6, <2>7, <2>8 DEF MixedFits, BodyOf
  <2> QED
    BY <2>9
<1>5. ASSUME NEW k \in Nat, k \in P PROVE k + 1 \in P
  <2> SUFFICES ASSUME k + 1 <= n PROVE MixedFits(R[k + 2], req, k + 1)
    OBVIOUS
  <2>1. MixedFits(R[k + 1], req, k)
    BY <1>1, <1>5
  <2>2. k + 2 \in 1..(n + 1) /\ (k + 2) - 1 = k + 1 /\ k + 1 \in 1..n /\ (k + 1) + 1 = k + 2
    BY <1>1
  <2>3. R[k + 2] = ReadPart(R[k + 1], AttachmentPart(req.atts[k + 1]), k + 2, sub)
    BY <1>1, <1>2, <2>2
  <2> QED
    BY <2>1, <2>3, MixedStep
<1>6. MixedFits(R[n + 1], req, n)
  <2>1. Nat \subseteq P
    <3> HIDE DEF P
    <3> QED
      BY <1>4, <1>5, Inductive
  <2> QED
    BY <2>1, <1>1
<1> QED
  BY <1>3, <1>6 DEF parts

(* Of some numbers one is the least. *)
LEMMA LeastOf ==
  ASSUME NEW K \in SUBSET Nat, K # {}
  PROVE  \E j \in K : \A i \in K : j <= i
<1> DEFINE Q == {m \in Nat : \A l \in 0..m : l \notin K}
<1> SUFFICES ASSUME \A j \in K : \E i \in K : ~(j <= i) PROVE FALSE
  OBVIOUS
<1>1. 0 \in Q
  <2>1. 0 \notin K
    OBVIOUS
  <2>2. \A l \in 0..0 : l = 0
    OBVIOUS
  <2> QED
    BY <2>1, <2>2
<1>2. ASSUME NEW m \in Nat, m \in Q PROVE m + 1 \in Q
  <2>1. \A l \in 0..m : l \notin K
    BY <1>2
  <2>2. m + 1 \notin K
    <3>1. ASSUME m + 1 \in K PROVE FALSE
      <4>1. PICK i \in K : ~(m + 1 <= i)
        BY <3>1
      <4>2. i \in 0..m
        BY <4>1
      <4> QED
        BY <4>2, <2>1
    <3> QED
      BY <3>1
  <2>3. \A l \in 0..(m + 1) : l \in 0..m \/ l = m + 1
    OBVIOUS
  <2> QED
    BY <2>1, <2>2, <2>3
<1>3. Nat \subseteq Q
  <2> HIDE DEF Q
  <2> QED
    BY <1>1, <1>2, Inductive
<1>4. \A m \in Nat : m \in 0..m
  OBVIOUS
<1> QED
  BY <1>3, <1>4

LEMMA MultipartFields ==
  ASSUME NEW type, NEW parts
  PROVE  LET p == Multipart(type, parts)
         IN  /\ p.type = type /\ p.parts = parts /\ p.name = NoName
             /\ type \in Multiparts => parseMIMEBody(p) = parseMultipart(parts)
BY DEF Multipart, parseMIMEBody, IsMultipart

(* SendMessage and GetMessage, for every request: the text and the HTML    *)
(* come back, and of the attachments those whose type is not that of a     *)
(* multipart, in their order, under their numbers.                         *)
THEOREM BodiesComeBack ==
  ASSUME NEW req \in AnyRequest
  PROVE  BodyRoundTrip(req)
<1> DEFINE got == parseMIMEBody(Build(req))
           part(k) == AttachmentPart(req.atts[k])
           kept == {k \in DOMAIN req.atts : ~IsMultipart(part(k))}
           shows(a, k) == a = [id |-> ID(k + 1), name |-> NameOf(part(k), k + 1), type |-> part(k).type,
                               data |-> Plain(IF req.atts[k].valid THEN req.atts[k].data ELSE "")]
           n == Len(req.atts)
<1>1. n \in Nat /\ DOMAIN req.atts = 1..n
  BY DEF AnyRequest
<1>2. kept = Kept(req, n)
  BY <1>1 DEF Kept
<1>3. "multipart/mixed" \in Multiparts /\ "multipart/alternative" \in Multiparts
  BY ContentAssumption, Zenon
<1>4. "text/plain" \notin Multiparts /\ "text/html" \notin Multiparts
  BY ContentAssumption, Zenon
<1>5. MixedFits(got, req, n)
  <2>1. CASE req.atts # <<>>
    <3>1. Build(req) = Multipart("multipart/mixed", MixedParts(req))
      BY <2>1 DEF Build, MixedParts
    <3>2. got = parseMultipart(MixedParts(req))
      BY <3>1, <1>3, MultipartFields
    <3> QED
      BY <3>2, MixedRead
  <2>2. CASE req.atts = <<>>
    <3>1. got = BodyOf(req)
      <4>1. CASE req.text # "" /\ req.html # ""
        <5>1. Build(req) = Multipart("multipart/alternative", Bodies(req))
          BY <2>2, <4>1 DEF Build
        <5>2. got = parseMultipart(Bodies(req))
          BY <5>1, <1>3, MultipartFields
        <5>3. Bodies(req) \in Seq(PartsTo[MaxNesting])
          BY NestingFits, BodiesIn
        <5> QED
          BY <5>2, <5>3, TopReads, BodiesRead
      <4>2. CASE req.text = "" /\ req.html # ""
        <5>1. Build(req) = HtmlPart(req.html)
          BY <2>2, <4>2 DEF Build
        <5>2. /\ HtmlPart(req.html).type = "text/html"
              /\ HtmlPart(req.html).raw = Encode("quoted-printable", req.html)
          BY DEF HtmlPart, Leaf
        <5>3. decodeContent(Encode("quoted-printable", req.html), Encode("quoted-printable", req.html).enc)
                = Plain(req.html)
          BY DEF decodeContent, Encode, Plain
        <5>4. got = [NoBody EXCEPT !.html = Plain(req.html)]
          BY <5>1, <5>2, <5>3, <1>4 DEF parseMIMEBody, IsMultipart
        <5> QED
          BY <5>4, <4>2 DEF BodyOf, Made, NoBody
      <4>3. CASE req.html = ""
        <5>1. Build(req) = TextPart(req.text)
          BY <2>2, <4>3 DEF Build
        <5>2. /\ TextPart(req.text).type = "text/plain"
              /\ TextPart(req.text).raw = Encode("quoted-printable", req.text)
          BY DEF TextPart, Leaf
        <5>3. decodeContent(Encode("quoted-printable", req.text), Encode("quoted-printable", req.text).enc)
                = Plain(req.text)
          BY DEF decodeContent, Encode, Plain
        <5>4. got = [NoBody EXCEPT !.text = Plain(req.text)]
          BY <5>1, <5>2, <5>3, <1>4 DEF parseMIMEBody, IsMultipart
        <5> QED
          BY <5>4, <4>3 DEF BodyOf, Made, NoBody
      <4> QED
        BY <4>1, <4>2, <4>3
    <3>2. n = 0 /\ Kept(req, 0) = {} /\ Cardinality({}) = 0 /\ Len(<<>>) = 0
      BY <2>2, KeptFacts, FS_EmptySet
    <3>3. IsNumbered(<<>>, Kept(req, n), ShownOf(req))
      BY <3>2 DEF IsNumbered
    <3>4. <<>> \in Seq(AnyEntry)
      OBVIOUS
    <3> QED
      BY <3>1, <3>3, <3>4 DEF MixedFits, BodyOf
  <2> QED
    BY <2>1, <2>2
<1> HIDE DEF got
<1>6. PICK a \in Seq(AnyEntry) : /\ got = Made(Plain(req.text), Plain(req.html), a)
                                 /\ IsNumbered(a, Kept(req, n), ShownOf(req))
  BY <1>5 DEF MixedFits
<1>7. got.text = Plain(req.text) /\ got.html = Plain(req.html) /\ got.atts = a
  BY <1>6 DEF Made
<1>8. Len(got.atts) = Cardinality(kept)
  BY <1>2, <1>6, <1>7 DEF IsNumbered
<1>9. ASSUME NEW k \in kept PROVE shows(got.atts[Cardinality({j \in kept : j <= k})], k)
  <2>1. k \in Kept(req, n) /\ k \in 1..n
    BY <1>1, <1>2
  <2>2. UpTo(Kept(req, n), k) = {j \in kept : j <= k}
    BY <1>2 DEF UpTo
  <2>3. a[Cardinality(UpTo(Kept(req, n), k))] = Shown(req, k)
    BY <1>6, <2>1 DEF IsNumbered, ShownOf
  <2> QED
    BY <1>7, <2>2, <2>3 DEF Shown
<1> QED
  BY <1>7, <1>8, <1>9 DEF BodyRoundTrip, got

(* GetAttachment, for every request: the number of an attachment leads to  *)
(* that attachment, unless an attachment before it has been given this     *)
(* number as its name; then to one of those before it.                     *)
THEOREM NumbersLead ==
  ASSUME NEW req \in AnyRequest
  PROVE  AttachmentByNumber(req)
<1> DEFINE n == Len(req.atts)
           msg == Build(req)
<1>1. n \in Nat /\ DOMAIN req.atts = 1..n
  BY DEF AnyRequest
<1> SUFFICES ASSUME NEW k \in 1..n
             PROVE  LET got == AttachmentOf(msg, ID(k + 1))
                    IN  IF \E j \in 1..(k - 1) : req.atts[j].name = ID(k + 1)
                          THEN got.part \in 2..k
                          ELSE got.part = k + 1 /\ got.content = AttachmentPart(req.atts[k]).raw
  BY <1>1, Zenon DEF AttachmentByNumber
<1> DEFINE parts == MixedParts(req)
           id == ID(k + 1)
           hits == {j \in DOMAIN parts : id \in {ID(j), NameOf(parts[j], j)}}
           first == CHOOSE j \in hits : \A i \in hits : j <= i
<1>2. req.atts # <<>>
  BY <1>1
<1>3. msg.parts = parts
  BY <1>2 DEF Build, MixedParts, Multipart
<1>4. /\ DOMAIN parts = 1..(n + 1)
      /\ parts[1] = Multipart("multipart/alternative", Bodies(req))
      /\ \A j \in 1..n : parts[j + 1] = AttachmentPart(req.atts[j])
  BY MixedIs
<1> HIDE DEF parts, msg
<1>5. AttachmentOf(msg, id) =
        IF hits = {} THEN NotFound
        ELSE [part |-> first, content |-> IF parts[first].raw.enc = "quoted-printable"
                                            THEN Plain(parts[first].raw.data) ELSE parts[first].raw]
  BY <1>3 DEF AttachmentOf
<1>6. \A i, j \in Nat : (ID(i) = ID(j) <=> i = j) /\ ID(i) # [stem |-> "attachment", n |-> j]
  BY DEF ID
<1>7. 1 \notin hits
  <2>1. parts[1].name = NoName
    BY <1>4, MultipartFields
  <2>2. NameOf(parts[1], 1) = [stem |-> "attachment", n |-> 1]
    BY <2>1 DEF NameOf
  <2>3. ID(k + 1) # ID(1) /\ ID(k + 1) # NameOf(parts[1], 1)
    <3>1. k + 1 \in Nat /\ 1 \in Nat /\ k + 1 # 1
      BY <1>1
    <3> QED
      BY <3>1, <2>2, <1>6
  <2> QED
    BY <2>3
<1>8. ASSUME NEW j \in 1..n
      PROVE  j + 1 \in hits <=> j = k \/ req.atts[j].name = ID(k + 1)
  <2>1. j + 1 \in DOMAIN parts /\ parts[j + 1].name = req.atts[j].name
    <3>1. j + 1 \in DOMAIN parts /\ parts[j + 1] = AttachmentPart(req.atts[j])
      BY <1>1, <1>4
    <3> QED
      BY <3>1, AttachmentFacts
  <2>2. k + 1 \in Nat /\ j + 1 \in Nat /\ (j + 1 = k + 1 <=> j = k)
    BY <1>1
  <2>3. NameOf(parts[j + 1], j + 1) = IF req.atts[j].name = NoName THEN [stem |-> "attachment", n |-> j + 1]
                                      ELSE req.atts[j].name
    BY <2>1 DEF NameOf
  <2>4. NoName # ID(k + 1)
    BY DEF NoName, ID
  <2>5. ID(k + 1) = NameOf(parts[j + 1], j + 1) <=> req.atts[j].name = ID(k + 1)
    BY <2>2, <2>3, <2>4, <1>6
  <2>6. ID(k + 1) = ID(j + 1) <=> j = k
    BY <2>2, <1>6
  <2> QED
    BY <2>1, <2>5, <2>6
<1>9. k + 1 \in hits /\ hits \subseteq 2..(n + 1)
  <2>1. k + 1 \in hits
    BY <1>8
  <2>2. \A j \in hits : j \in 1..(n + 1) /\ j # 1
    BY <1>4, <1>7
  <2> QED
    BY <1>1, <2>1, <2>2
<1>10. \A j \in hits : j - 1 \in 1..n /\ (j - 1) + 1 = j /\ (j - 1 = k \/ req.atts[j - 1].name = ID(k + 1))
  <2>1. ASSUME NEW j \in hits PROVE j - 1 \in 1..n /\ (j - 1) + 1 = j
    BY <1>1, <1>9
  <2> HIDE DEF hits
  <2> QED
    BY <2>1, <1>8
<1> HIDE DEF hits
<1>11. first \in hits /\ \A i \in hits : first <= i
  <2>1. \E j \in hits : \A i \in hits : j <= i
    <3>1. hits \subseteq Nat
      BY <1>1, <1>9
    <3> QED
      BY <3>1, <1>9, LeastOf
  <2> QED
    BY <2>1
<1> HIDE DEF first
<1>12. hits # {} /\ AttachmentOf(msg, id).part = first
  BY <1>5, <1>9
<1>13. CASE \E j \in 1..(k - 1) : req.atts[j].name = ID(k + 1)
  <2>1. PICK j \in 1..(k - 1) : req.atts[j].name = ID(k + 1)
    BY <1>13
  <2>2. j \in 1..n /\ j + 1 \in hits /\ j + 1 <= k
    BY <1>1, <2>1, <1>8
  <2>3. first \in 2..k
    BY <1>9, <1>11, <2>2
  <2> QED
    BY <1>12, <1>13, <2>3
<1>14. CASE ~\E j \in 1..(k - 1) : req.atts[j].name = ID(k + 1)
  <2>1. first = k + 1
    <3>1. first - 1 \in 1..n /\ (first - 1 = k \/ req.atts[first - 1].name = ID(k + 1)) /\ first <= k + 1
      BY <1>9, <1>10, <1>11
    <3>2. first \in Nat
      BY <1>9, <1>11, <1>1
    <3>3. first - 1 # k => first - 1 \in 1..(k - 1)
      BY <3>1, <3>2
    <3>4. first - 1 = k
      BY <3>1, <3>3, <1>14
    <3> QED
      BY <3>2, <3>4
  <2>2. parts[first] = AttachmentPart(req.atts[k])
    BY <2>1, <1>4
  <2>3. AttachmentPart(req.atts[k]).raw.enc # "quoted-printable"
    BY AttachmentFacts
  <2>4. AttachmentOf(msg, id).content = AttachmentPart(req.atts[k]).raw
    BY <1>5, <1>12, <2>2, <2>3
  <2> QED
    BY <1>12, <1>14, <2>1, <2>4
<1> QED
  BY <1>13, <1>14

-----------------------------------------------------------------------------
(* The text of an HTML body. *)

InTag(s, k) == \E i \in 1..(k - 1) : s[i] = "<" /\ \A j \in (i + 1)..(k - 1) : s[j] # ">"
Stays(s, k) == s[k] = ">" \/ (s[k] # "<" /\ ~InTag(s, k))
Staying(s, n) == {k \in 1..n : Stays(s, k)}
Stripped(s) == [k \in 1..Len(s) |-> IF s[k] = ">" THEN Blank ELSE s[k]]

LEMMA InTagStep ==
  ASSUME NEW s, NEW k \in Nat \ {0}
  PROVE  InTag(s, k + 1) <=> s[k] = "<" \/ (s[k] # ">" /\ InTag(s, k))
<1>1. ASSUME NEW i \in 1..k
      PROVE  (\A j \in (i + 1)..k : s[j] # ">") <=>
               i = k \/ (s[k] # ">" /\ i \in 1..(k - 1) /\ \A j \in (i + 1)..(k - 1) : s[j] # ">")
  <2>1. CASE i = k
    BY <2>1
  <2>2. CASE i # k
    <3>1. i \in 1..(k - 1) /\ k \in (i + 1)..k
      BY <2>2
    <3>2. \A j \in (i + 1)..k : j = k \/ j \in (i + 1)..(k - 1)
      OBVIOUS
    <3>3. \A j \in (i + 1)..(k - 1) : j \in (i + 1)..k
      OBVIOUS
    <3> QED
      BY <2>2, <3>1, <3>2, <3>3
  <2> QED
    BY <2>1, <2>2
<1>2. (k + 1) - 1 = k /\ k \in 1..k /\ \A i \in 1..(k - 1) : i \in 1..k /\ i # k
  OBVIOUS
<1>3. InTag(s, k + 1) <=> \E i \in 1..k : s[i] = "<" /\ \A j \in (i + 1)..k : s[j] # ">"
  BY <1>2 DEF InTag
<1>4. ASSUME NEW i \in 1..k, s[i] = "<", \A j \in (i + 1)..k : s[j] # ">"
      PROVE  s[k] = "<" \/ (s[k] # ">" /\ InTag(s, k))
  BY <1>1, <1>4 DEF InTag
<1>5. ASSUME s[k] = "<"
      PROVE  \E i \in 1..k : s[i] = "<" /\ \A j \in (i + 1)..k : s[j] # ">"
  BY <1>1, <1>2, <1>5
<1>6. ASSUME s[k] # ">", InTag(s, k)
      PROVE  \E i \in 1..k : s[i] = "<" /\ \A j \in (i + 1)..k : s[j] # ">"
  <2>1. PICK i \in 1..(k - 1) : s[i] = "<" /\ \A j \in (i + 1)..(k - 1) : s[j] # ">"
    BY <1>6 DEF InTag
  <2> QED
    BY <2>1, <1>1, <1>2, <1>6
<1> QED
  BY <1>3, <1>4, <1>5, <1>6

(* The state of the loop in front of character n + 1. *)
StripFits(x, T, s, n) ==
  \E out \in Seq(T) :
    /\ x = [inTag |-> InTag(s, n + 1), out |-> out]
    /\ IsNumbered(out, Staying(s, n), Stripped(s))

LEMMA StayingFacts ==
  ASSUME NEW s, NEW n \in Nat
  PROVE  /\ IsFiniteSet(Staying(s, n)) /\ Staying(s, n) \in SUBSET Nat /\ Staying(s, 0) = {}
         /\ \A i \in Staying(s, n) : i < n + 1
         /\ Stays(s, n + 1) => Staying(s, n + 1) = Staying(s, n) \cup {n + 1}
         /\ ~Stays(s, n + 1) => Staying(s, n + 1) = Staying(s, n)
<1>1. IsFiniteSet(1..n) /\ Staying(s, n) \subseteq 1..n
  BY FS_Interval DEF Staying
<1>2. IsFiniteSet(Staying(s, n))
  BY <1>1, FS_Subset
<1>3. /\ Staying(s, n) \in SUBSET Nat /\ Staying(s, 0) = {} /\ \A i \in Staying(s, n) : i < n + 1
      /\ Stays(s, n + 1) => Staying(s, n + 1) = Staying(s, n) \cup {n + 1}
      /\ ~Stays(s, n + 1) => Staying(s, n + 1) = Staying(s, n)
  BY DEF Staying
<1> QED
  BY <1>2, <1>3

LEMMA StripStep ==
  ASSUME NEW T, Blank \in T, NEW s \in Seq(T), NEW n \in Nat, n + 1 <= Len(s), NEW x, StripFits(x, T, s, n)
  PROVE  StripFits(StripChar(x, s[n + 1]), T, s, n + 1)
<1> DEFINE c == s[n + 1]
           in == InTag(s, n + 1)
           e == IF c = ">" THEN Blank ELSE c
           y == StripChar(x, c)
<1>1. PICK out \in Seq(T) : x = [inTag |-> in, out |-> out] /\ IsNumbered(out, Staying(s, n), Stripped(s))
  BY DEF StripFits
<1>2. n + 1 \in 1..Len(s) /\ n + 1 \in Nat \ {0} /\ c \in T /\ e \in T /\ in \in BOOLEAN
  BY DEF InTag
<1>3. Stripped(s)[n + 1] = e
  BY <1>2 DEF Stripped
<1>4. InTag(s, n + 2) <=> c = "<" \/ (c # ">" /\ in)
  <2>1. (n + 1) + 1 = n + 2
    OBVIOUS
  <2>2. InTag(s, (n + 1) + 1) <=> c = "<" \/ (c # ">" /\ in)
    BY <1>2, InTagStep
  <2> QED
    BY <2>1, <2>2
<1>5. Stays(s, n + 1) <=> c = ">" \/ (c # "<" /\ ~in)
  BY DEF Stays
<1>6. InTag(s, n + 2) \in BOOLEAN
  BY DEF InTag
<1> HIDE DEF c, in
<1>7. y = [inTag |-> InTag(s, n + 2), out |-> IF Stays(s, n + 1) THEN Append(out, e) ELSE out]
  <2>1. CASE c = "<"
    <3>1. InTag(s, n + 2) = TRUE /\ ~Stays(s, n + 1)
      BY <2>1, <1>4, <1>5, <1>6
    <3>2. y = [inTag |-> TRUE, out |-> out]
      BY <2>1, <1>1 DEF StripChar
    <3> QED
      BY <3>1, <3>2
  <2>2. CASE c = ">"
    <3>1. InTag(s, n + 2) = FALSE /\ Stays(s, n + 1)
      BY <2>2, <1>4, <1>5, <1>6
    <3>2. y = [inTag |-> FALSE, out |-> Append(out, Blank)]
      BY <2>2, <1>1 DEF StripChar
    <3> QED
      BY <3>1, <3>2, <2>2
  <2>3. CASE c # "<" /\ c # ">" /\ in
    <3>1. InTag(s, n + 2) = in /\ ~Stays(s, n + 1)
      BY <2>3, <1>2, <1>4, <1>5, <1>6
    <3>2. y = x
      BY <2>3, <1>1 DEF StripChar
    <3> QED
      BY <3>1, <3>2, <1>1
  <2>4. CASE c # "<" /\ c # ">" /\ ~in
    <3>1. InTag(s, n + 2) = in /\ Stays(s, n + 1)
      BY <2>4, <1>2, <1>4, <1>5, <1>6
    <3>2. y = [inTag |-> in, out |-> Append(out, c)]
      BY <2>4, <1>1 DEF StripChar
    <3> QED
      BY <3>1, <3>2, <2>4
  <2> QED
    BY <2>1, <2>2, <2>3, <2>4
<1> HIDE DEF y
<1>8. (n + 1) + 1 = n + 2
  OBVIOUS
<1>9. CASE ~Stays(s, n + 1)
  <2>1. Staying(s, n + 1) = Staying(s, n)
    BY <1>9, StayingFacts
  <2> QED
    BY <1>1, <1>7, <1>8, <1>9, <2>1 DEF StripFits, y, c
<1>10. CASE Stays(s, n + 1)
  <2>1. Staying(s, n + 1) = Staying(s, n) \cup {n + 1}
    BY <1>10, StayingFacts
  <2>2. IsFiniteSet(Staying(s, n)) /\ Staying(s, n) \in SUBSET Nat /\ \A i \in Staying(s, n) : i < n + 1
    BY StayingFacts
  <2> HIDE DEF e
  <2>3. IsNumbered(Append(out, e), Staying(s, n) \cup {n + 1}, Stripped(s))
    BY <1>1, <1>2, <1>3, <2>2, NumberedAppend
  <2>4. Append(out, e) \in Seq(T)
    BY <1>2
  <2> QED
    BY <1>7, <1>8, <1>10, <2>1, <2>3, <2>4 DEF StripFits, y, c
<1> QED
  BY <1>9, <1>10

(* The loop, for every text. *)
LEMMA StripEnds ==
  ASSUME NEW T, Blank \in T, NEW s \in Seq(T)
  PROVE  StripFits(Strips(s)[Len(s)], T, s, Len(s))
<1> DEFINE n == Len(s)
           C == Strips(s)
           P == {k \in Nat : k <= n => StripFits(C[k], T, s, k)}
<1>1. n \in Nat
  OBVIOUS
<1>2. C[0] = [inTag |-> FALSE, out |-> <<>>] /\ \A k \in 1..n : C[k] = StripChar(C[k - 1], s[k])
  BY <1>1, StripsLoop
<1> HIDE DEF C
<1>3. 0 \in P
  <2>1. InTag(s, 0 + 1) = FALSE
    BY DEF InTag
  <2>2. Staying(s, 0) = {} /\ Cardinality({}) = 0 /\ Len(<<>>) = 0
    BY StayingFacts, FS_EmptySet
  <2>3. IsNumbered(<<>>, Staying(s, 0), Stripped(s))
    BY <2>2 DEF IsNumbered
  <2>4. <<>> \in Seq(T)
    OBVIOUS
  <2>5. StripFits(C[0], T, s, 0)
    BY <1>2, <2>1, <2>3, <2>4 DEF StripFits
  <2> QED
    BY <2>5
<1>4. ASSUME NEW k \in Nat, k \in P PROVE k + 1 \in P
  <2> SUFFICES ASSUME k + 1 <= n PROVE StripFits(C[k + 1], T, s, k + 1)
    OBVIOUS
  <2>1. StripFits(C[k], T, s, k) /\ k + 1 \in 1..n /\ (k + 1) - 1 = k
    BY <1>1, <1>4
  <2>2. C[k + 1] = StripChar(C[k], s[k + 1])
    BY <1>2, <2>1
  <2> QED
    BY <2>1, <2>2, StripStep
<1>5. Nat \subseteq P
  <2> HIDE DEF P
  <2> QED
    BY <1>3, <1>4, Inductive
<1> QED
  BY <1>1, <1>5 DEF C

(* stripHTML, for every text: a character stays exactly if no bracket that *)
(* is open stands before it, each ">" becomes a blank, and the order is    *)
(* kept.                                                                   *)
THEOREM TagsGo ==
  ASSUME NEW T, Blank \in T, NEW s \in Seq(T)
  PROVE  TagsAreStripped(s) /\ stripHTML(s) \in Seq(T)
<1> DEFINE n == Len(s)
           text == stripHTML(s)
           inTag(k) == \E i \in 1..(k - 1) : s[i] = "<" /\ \A j \in (i + 1)..(k - 1) : s[j] # ">"
           kept == {k \in DOMAIN s : s[k] = ">" \/ (s[k] # "<" /\ ~inTag(k))}
<1>1. n \in Nat /\ DOMAIN s = 1..n
  OBVIOUS
<1>2. kept = Staying(s, n)
  BY <1>1 DEF Staying, Stays, InTag
<1>3. text = Strips(s)[n].out
  BY StripIsStripped
<1>4. PICK out \in Seq(T) : text = out /\ IsNumbered(out, Staying(s, n), Stripped(s))
  <2>1. StripFits(Strips(s)[n], T, s, n)
    BY StripEnds
  <2>2. PICK out \in Seq(T) : /\ Strips(s)[n] = [inTag |-> InTag(s, n + 1), out |-> out]
                             /\ IsNumbered(out, Staying(s, n), Stripped(s))
    BY <2>1, Zenon DEF StripFits
  <2>3. Strips(s)[n].out = out
    BY <2>2
  <2> HIDE DEF text
  <2> QED
    BY <2>2, <2>3, <1>3
<1> HIDE DEF text, kept
<1>5. Len(text) = Cardinality(kept)
  BY <1>2, <1>4 DEF IsNumbered
<1>6. ASSUME NEW k \in kept
      PROVE  text[Cardinality({j \in kept : j <= k})] = IF s[k] = ">" THEN Blank ELSE s[k]
  <2>1. k \in Staying(s, n) /\ k \in 1..n
    BY <1>2 DEF Staying
  <2>2. UpTo(Staying(s, n), k) = {j \in kept : j <= k}
    BY <1>2 DEF UpTo
  <2> QED
    BY <1>4, <2>1, <2>2 DEF IsNumbered, Stripped
<1> QED
  BY <1>4, <1>5, <1>6, Zenon DEF TagsAreStripped, text, kept

-----------------------------------------------------------------------------
(* The words of a text: character k, if it is no blank, has the number 2k  *)
(* and the blank in front of it, if it begins a word that is not the       *)
(* first, the number before.                                               *)

Solid(s, n) == {k \in 1..n : s[k] # Blank}
Gap(s, n) == n # 0 /\ s[n] = Blank /\ Solid(s, n) # {}
Begins(s, n) == {k \in 1..n : s[k] # Blank /\ Gap(s, k - 1)}
IsMark(m, S, B) == (\E k \in S : m = 2 * k) \/ (\E k \in B : m = 2 * k - 1)
Marks(s, n) == {m \in 1..(2 * n) : IsMark(m, Solid(s, n), Begins(s, n))}
Marked(s) == [m \in 1..(2 * Len(s)) |->
  IF \E k \in 1..Len(s) : m = 2 * k THEN s[CHOOSE k \in 1..Len(s) : m = 2 * k] ELSE Blank]

LEMMA MarkedIs ==
  ASSUME NEW s, Len(s) \in Nat, NEW k \in 1..Len(s)
  PROVE  Marked(s)[2 * k] = s[k] /\ Marked(s)[2 * k - 1] = Blank
<1> DEFINE n == Len(s)
<1>1. 2 * k \in 1..(2 * n) /\ 2 * k - 1 \in 1..(2 * n)
  OBVIOUS
<1>2. \A j \in 1..n : (2 * k = 2 * j <=> j = k) /\ 2 * k - 1 # 2 * j
  OBVIOUS
<1>3. (CHOOSE j \in 1..n : 2 * k = 2 * j) = k
  BY <1>2
<1>4. Marked(s)[2 * k] = s[k]
  BY <1>1, <1>3 DEF Marked
<1>5. Marked(s)[2 * k - 1] = Blank
  BY <1>1, <1>2 DEF Marked
<1> QED
  BY <1>4, <1>5

LEMMA SolidFacts ==
  ASSUME NEW s, NEW n \in Nat
  PROVE  /\ IsFiniteSet(Solid(s, n)) /\ IsFiniteSet(Begins(s, n)) /\ IsFiniteSet(Marks(s, n))
         /\ Marks(s, n) \in SUBSET Nat /\ \A m \in Marks(s, n) : m < 2 * n + 1
         /\ Marks(s, n) = {} <=> Solid(s, n) = {}
         /\ n + 1 \notin Solid(s, n) /\ n + 1 \notin Begins(s, n)
<1>1. IsFiniteSet(1..n) /\ IsFiniteSet(1..(2 * n))
  BY FS_Interval
<1>2. Solid(s, n) \subseteq 1..n /\ Begins(s, n) \subseteq 1..n /\ Marks(s, n) \subseteq 1..(2 * n)
  BY DEF Solid, Begins, Marks
<1>3. IsFiniteSet(Solid(s, n)) /\ IsFiniteSet(Begins(s, n)) /\ IsFiniteSet(Marks(s, n))
  BY <1>1, <1>2, FS_Subset
<1>4. Marks(s, n) \in SUBSET Nat /\ \A m \in Marks(s, n) : m < 2 * n + 1
  BY <1>2
<1>5. ASSUME NEW k \in Solid(s, n) PROVE Marks(s, n) # {}
  <2>1. 2 * k \in Marks(s, n)
    BY <1>2 DEF Marks, IsMark
  <2> QED
    BY <2>1
<1>6. ASSUME NEW m \in Marks(s, n) PROVE Solid(s, n) # {}
  <2>1. Begins(s, n) \subseteq Solid(s, n)
    BY DEF Begins, Solid
  <2> QED
    BY <2>1 DEF Marks, IsMark
<1>7. n + 1 \notin Solid(s, n) /\ n + 1 \notin Begins(s, n)
  BY <1>2
<1> QED
  BY <1>3, <1>4, <1>5, <1>6, <1>7

LEMMA MarksAre ==
  ASSUME NEW s, NEW n \in Nat, NEW m
  PROVE  m \in Marks(s, n) <=> IsMark(m, Solid(s, n), Begins(s, n))
<1>1. Solid(s, n) \subseteq 1..n /\ Begins(s, n) \subseteq 1..n
  BY DEF Solid, Begins
<1>2. ASSUME NEW k \in Solid(s, n), m = 2 * k PROVE m \in 1..(2 * n)
  BY <1>1, <1>2
<1>3. ASSUME NEW k \in Begins(s, n), m = 2 * k - 1 PROVE m \in 1..(2 * n)
  BY <1>1, <1>3
<1> QED
  BY <1>2, <1>3 DEF Marks, IsMark

LEMMA MarksStep ==
  ASSUME NEW s, NEW n \in Nat
  PROVE  /\ s[n + 1] = Blank =>
              /\ Solid(s, n + 1) = Solid(s, n) /\ Begins(s, n + 1) = Begins(s, n)
              /\ Marks(s, n + 1) = Marks(s, n)
         /\ s[n + 1] # Blank /\ ~Gap(s, n) =>
              /\ Solid(s, n + 1) = Solid(s, n) \cup {n + 1} /\ Begins(s, n + 1) = Begins(s, n)
              /\ Marks(s, n + 1) = Marks(s, n) \cup {2 * n + 2}
         /\ s[n + 1] # Blank /\ Gap(s, n) =>
              /\ Solid(s, n + 1) = Solid(s, n) \cup {n + 1}
              /\ Begins(s, n + 1) = Begins(s, n) \cup {n + 1}
              /\ Marks(s, n + 1) = (Marks(s, n) \cup {2 * n + 1}) \cup {2 * n + 2}
<1>1. /\ s[n + 1] = Blank => Solid(s, n + 1) = Solid(s, n)
      /\ s[n + 1] # Blank => Solid(s, n + 1) = Solid(s, n) \cup {n + 1}
  BY DEF Solid
<1>2. /\ s[n + 1] = Blank \/ ~Gap(s, n) => Begins(s, n + 1) = Begins(s, n)
      /\ s[n + 1] # Blank /\ Gap(s, n) => Begins(s, n + 1) = Begins(s, n) \cup {n + 1}
  <2>1. (n + 1) - 1 = n /\ \A k \in 1..(n + 1) : k \in 1..n \/ k = n + 1
    OBVIOUS
  <2>2. n + 1 \in 1..(n + 1) /\ n + 1 \notin 1..n /\ \A k \in 1..n : k \in 1..(n + 1)
    OBVIOUS
  <2> QED
    BY <2>1, <2>2, Zenon DEF Begins
<1>3. 2 * (n + 1) = 2 * n + 2 /\ 2 * (n + 1) - 1 = 2 * n + 1
  OBVIOUS
<1>6. \A m : m \in Marks(s, n) <=> IsMark(m, Solid(s, n), Begins(s, n))
  BY MarksAre
<1>7. \A m : m \in Marks(s, n + 1) <=> IsMark(m, Solid(s, n + 1), Begins(s, n + 1))
  <2>1. n + 1 \in Nat
    OBVIOUS
  <2> QED
    BY <2>1, MarksAre
<1>5. ASSUME NEW m, NEW S, NEW B
      PROVE  /\ IsMark(m, S \cup {n + 1}, B) <=> m = 2 * n + 2 \/ IsMark(m, S, B)
             /\ IsMark(m, S, B \cup {n + 1}) <=> m = 2 * n + 1 \/ IsMark(m, S, B)
  BY <1>3 DEF IsMark
<1>8. CASE s[n + 1] = Blank
  BY <1>1, <1>2, <1>6, <1>7, <1>8
<1>9. CASE s[n + 1] # Blank /\ ~Gap(s, n)
  <2>1. Solid(s, n + 1) = Solid(s, n) \cup {n + 1} /\ Begins(s, n + 1) = Begins(s, n)
    BY <1>1, <1>2, <1>9
  <2>2. \A m : m \in Marks(s, n + 1) <=> m \in Marks(s, n) \/ m = 2 * n + 2
    BY <2>1, <1>5, <1>6, <1>7
  <2> QED
    BY <1>9, <2>1, <2>2
<1>10. CASE s[n + 1] # Blank /\ Gap(s, n)
  <2>1. Solid(s, n + 1) = Solid(s, n) \cup {n + 1} /\ Begins(s, n + 1) = Begins(s, n) \cup {n + 1}
    BY <1>1, <1>2, <1>10
  <2>2. \A m : m \in Marks(s, n + 1) <=> m \in Marks(s, n) \/ m = 2 * n + 1 \/ m = 2 * n + 2
    <3> TAKE m
    <3> DEFINE S == Solid(s, n)
               B == Begins(s, n)
    <3>1. IsMark(m, S \cup {n + 1}, B \cup {n + 1}) <=> m = 2 * n + 2 \/ IsMark(m, S, B \cup {n + 1})
      BY <1>5
    <3>2. IsMark(m, S, B \cup {n + 1}) <=> m = 2 * n + 1 \/ IsMark(m, S, B)
      BY <1>5
    <3>3. m \in Marks(s, n + 1) <=> IsMark(m, S \cup {n + 1}, B \cup {n + 1})
      BY <2>1, <1>7
    <3> QED
      BY <3>1, <3>2, <3>3, <1>6
  <2> QED
    BY <1>10, <2>1, <2>2
<1> QED
  BY <1>8, <1>9, <1>10

(* There are as many numbers as characters and blanks. *)
LEMMA MarksCount ==
  ASSUME NEW s
  PROVE  \A n \in Nat :
           /\ Cardinality(Marks(s, n)) = Cardinality(Solid(s, n)) + Cardinality(Begins(s, n))
           /\ Cardinality(Solid(s, n)) \in Nat /\ Cardinality(Begins(s, n)) \in Nat
<1> DEFINE P == {n \in Nat : Cardinality(Marks(s, n)) = Cardinality(Solid(s, n)) + Cardinality(Begins(s, n))}
<1>1. \A n \in Nat : Cardinality(Solid(s, n)) \in Nat /\ Cardinality(Begins(s, n)) \in Nat
  BY SolidFacts, FS_CardinalityType
<1>2. 0 \in P
  <2>1. Solid(s, 0) = {} /\ Begins(s, 0) = {} /\ Marks(s, 0) = {}
    BY DEF Solid, Begins, Marks
  <2> QED
    BY <2>1, FS_EmptySet
<1>3. ASSUME NEW n \in Nat, n \in P PROVE n + 1 \in P
  <2> DEFINE S == Solid(s, n)
             B == Begins(s, n)
             M == Marks(s, n)
             a == 2 * n + 1
             b == 2 * n + 2
  <2>1. /\ IsFiniteSet(S) /\ IsFiniteSet(B) /\ IsFiniteSet(M)
        /\ n + 1 \notin S /\ n + 1 \notin B
    BY SolidFacts
  <2>2. a \notin M /\ b \notin M \cup {a} /\ b \notin M
    <3>1. \A m \in M : m < 2 * n + 1
      BY SolidFacts
    <3> QED
      BY <3>1
  <2>3. Cardinality(M) = Cardinality(S) + Cardinality(B) /\ Cardinality(S) \in Nat /\ Cardinality(B) \in Nat
    BY <1>1, <1>3
  <2>4. /\ Cardinality(S \cup {n + 1}) = Cardinality(S) + 1
        /\ Cardinality(B \cup {n + 1}) = Cardinality(B) + 1
        /\ Cardinality(M \cup {b}) = Cardinality(M) + 1
        /\ Cardinality(M \cup {a}) = Cardinality(M) + 1 /\ IsFiniteSet(M \cup {a})
    BY <2>1, <2>2, FS_AddElement
  <2> HIDE DEF S, B, M, a, b
  <2>5. Cardinality((M \cup {a}) \cup {b}) = Cardinality(M) + 2
    <3>1. Cardinality((M \cup {a}) \cup {b}) = Cardinality(M \cup {a}) + 1
      BY <2>2, <2>4, FS_AddElement
    <3> QED
      BY <3>1, <2>3, <2>4
  <2>6. CASE s[n + 1] = Blank
    BY <2>3, <2>6, MarksStep DEF S, B, M, a, b
  <2>7. CASE s[n + 1] # Blank /\ ~Gap(s, n)
    <3>1. Solid(s, n + 1) = S \cup {n + 1} /\ Begins(s, n + 1) = B /\ Marks(s, n + 1) = M \cup {b}
      BY <2>7, MarksStep DEF S, B, M, a, b
    <3> QED
      BY <3>1, <2>3, <2>4
  <2>8. CASE s[n + 1] # Blank /\ Gap(s, n)
    <3>1. /\ Solid(s, n + 1) = S \cup {n + 1} /\ Begins(s, n + 1) = B \cup {n + 1}
          /\ Marks(s, n + 1) = (M \cup {a}) \cup {b}
      BY <2>8, MarksStep DEF S, B, M, a, b
    <3> QED
      <4>1. Cardinality(Marks(s, n + 1)) = Cardinality(M) + 2
        BY <3>1, <2>5
      <4>2. /\ Cardinality(Solid(s, n + 1)) = Cardinality(S) + 1
            /\ Cardinality(Begins(s, n + 1)) = Cardinality(B) + 1
        BY <3>1, <2>4
      <4>3. Cardinality(Marks(s, n + 1)) = Cardinality(Solid(s, n + 1)) + Cardinality(Begins(s, n + 1))
        BY <4>1, <4>2, <2>3
      <4> QED
        BY <4>3
  <2> QED
    BY <2>6, <2>7, <2>8
<1>4. Nat \subseteq P
  <2> HIDE DEF P
  <2> QED
    BY <1>2, <1>3, Inductive
<1> QED
  BY <1>1, <1>4

(* The state of the loop after n characters. *)
JoinFits(x, T, s, n) ==
  \E out \in Seq(T) :
    /\ x = [gap |-> Gap(s, n), out |-> out]
    /\ IsNumbered(out, Marks(s, n), Marked(s))

LEMMA JoinStep ==
  ASSUME NEW T, Blank \in T, NEW s \in Seq(T), NEW n \in Nat, n + 1 <= Len(s), NEW x, JoinFits(x, T, s, n)
  PROVE  JoinFits(JoinChar(x, s[n + 1]), T, s, n + 1)
<1> DEFINE c == s[n + 1]
           M == Marks(s, n)
           F == Marked(s)
           y == JoinChar(x, c)
           a == 2 * n + 1
           b == 2 * n + 2
<1>1. PICK out \in Seq(T) : x = [gap |-> Gap(s, n), out |-> out] /\ IsNumbered(out, M, F)
  BY DEF JoinFits
<1>2. n + 1 \in 1..Len(s) /\ c \in T
  OBVIOUS
<1>3. F[b] = c /\ F[a] = Blank /\ a \in Nat /\ b \in Nat /\ a < b
  <2>1. 2 * (n + 1) = b /\ 2 * (n + 1) - 1 = a
    OBVIOUS
  <2>2. Marked(s)[2 * (n + 1)] = s[n + 1] /\ Marked(s)[2 * (n + 1) - 1] = Blank
    <3>1. Len(s) \in Nat
      OBVIOUS
    <3> QED
      BY <3>1, <1>2, MarkedIs
  <2> QED
    BY <2>1, <2>2
<1>4. IsFiniteSet(M) /\ M \in SUBSET Nat /\ (M = {} <=> Solid(s, n) = {})
  BY SolidFacts
<1>5. (\A m \in M : m < a) /\ (\A m \in M : m < b)
  <2>1. \A m \in M : m < 2 * n + 1
    BY SolidFacts
  <2> QED
    BY <2>1, <1>4
<1> HIDE DEF F, a, b
<1>6. CASE c = Blank
  <2>1. Marks(s, n + 1) = M /\ Solid(s, n + 1) = Solid(s, n)
    BY <1>6, MarksStep
  <2>2. out # <<>> <=> Solid(s, n) # {}
    <3>1. Len(out) = Cardinality(M)
      BY <1>1 DEF IsNumbered
    <3>2. out = <<>> <=> Len(out) = 0
      BY EmptySeq
    <3>3. M = {} <=> Cardinality(M) = 0
      BY <1>4, FS_EmptySet
    <3> QED
      BY <3>1, <3>2, <3>3, <1>4
  <2>3. Gap(s, n + 1) = (out # <<>>)
    <3>1. n + 1 # 0
      OBVIOUS
    <3>2. Gap(s, n + 1) <=> out # <<>>
      BY <3>1, <2>1, <2>2, <1>6 DEF Gap
    <3> QED
      BY <3>2 DEF Gap
  <2>4. y = [gap |-> out # <<>>, out |-> out]
    BY <1>1, <1>6 DEF JoinChar
  <2> HIDE DEF y
  <2>5. y = [gap |-> Gap(s, n + 1), out |-> out]
    BY <2>3, <2>4
  <2> QED
    BY <2>1, <2>5, <1>1 DEF JoinFits, y, F
<1>7. CASE c # Blank
  <2> DEFINE o == IF Gap(s, n) THEN Append(out, Blank) ELSE out
             K == IF Gap(s, n) THEN M \cup {a} ELSE M
  <2>1. Gap(s, n + 1) = FALSE
    BY <1>7 DEF Gap
  <2>2. y = [gap |-> Gap(s, n + 1), out |-> Append(o, c)]
    BY <1>1, <1>7, <2>1 DEF JoinChar
  <2>3. /\ IsFiniteSet(K) /\ K \in SUBSET Nat /\ IsNumbered(o, K, F) /\ o \in Seq(T)
        /\ \A m \in K : m < b
    <3>1. CASE Gap(s, n)
      <4>1. /\ IsFiniteSet(M \cup {a}) /\ M \cup {a} \in SUBSET Nat
            /\ IsNumbered(Append(out, Blank), M \cup {a}, F)
        BY <1>1, <1>3, <1>4, <1>5, NumberedAppend
      <4> QED
        BY <3>1, <4>1, <1>3, <1>5
    <3>2. CASE ~Gap(s, n)
      BY <3>2, <1>1, <1>4, <1>5
    <3> QED
      BY <3>1, <3>2
  <2>4. Marks(s, n + 1) = K \cup {b}
    <3>1. CASE Gap(s, n)
      BY <1>7, <3>1, MarksStep DEF a, b
    <3>2. CASE ~Gap(s, n)
      BY <1>7, <3>2, MarksStep DEF b
    <3> QED
      BY <3>1, <3>2
  <2> HIDE DEF o, K, M, c
  <2>5. IsNumbered(Append(o, c), K \cup {b}, F)
    BY <1>2, <1>3, <2>3, NumberedAppend
  <2>6. Append(o, c) \in Seq(T)
    BY <1>2, <2>3
  <2> HIDE DEF y
  <2> QED
    BY <2>2, <2>4, <2>5, <2>6 DEF JoinFits, y, F, c
<1> QED
  BY <1>6, <1>7

LEMMA JoinEnds ==
  ASSUME NEW T, Blank \in T, NEW s \in Seq(T)
  PROVE  JoinWords(s) \in Seq(T) /\ IsNumbered(JoinWords(s), Marks(s, Len(s)), Marked(s))
<1> DEFINE n == Len(s)
           C == Joins(s)
           P == {k \in Nat : k <= n => JoinFits(C[k], T, s, k)}
<1>1. n \in Nat
  OBVIOUS
<1>2. C[0] = [gap |-> FALSE, out |-> <<>>] /\ \A k \in 1..n : C[k] = JoinChar(C[k - 1], s[k])
  BY <1>1, JoinsLoop
<1> HIDE DEF C
<1>3. 0 \in P
  <2>1. Gap(s, 0) = FALSE
    BY DEF Gap
  <2>2. Marks(s, 0) = {} /\ Cardinality({}) = 0 /\ Len(<<>>) = 0
    <3>1. Solid(s, 0) = {}
      BY DEF Solid
    <3> QED
      BY <3>1, SolidFacts, FS_EmptySet
  <2>3. IsNumbered(<<>>, Marks(s, 0), Marked(s))
    BY <2>2 DEF IsNumbered
  <2>4. <<>> \in Seq(T)
    OBVIOUS
  <2>5. JoinFits(C[0], T, s, 0)
    BY <1>2, <2>1, <2>3, <2>4 DEF JoinFits
  <2> QED
    BY <2>5
<1>4. ASSUME NEW k \in Nat, k \in P PROVE k + 1 \in P
  <2> SUFFICES ASSUME k + 1 <= n PROVE JoinFits(C[k + 1], T, s, k + 1)
    OBVIOUS
  <2>1. JoinFits(C[k], T, s, k) /\ k + 1 \in 1..n /\ (k + 1) - 1 = k
    BY <1>1, <1>4
  <2>2. C[k + 1] = JoinChar(C[k], s[k + 1])
    BY <1>2, <2>1
  <2> QED
    BY <2>1, <2>2, JoinStep
<1>5. Nat \subseteq P
  <2> HIDE DEF P
  <2> QED
    BY <1>3, <1>4, Inductive
<1>6. JoinFits(C[n], T, s, n)
  BY <1>1, <1>5
<1>7. PICK out \in Seq(T) : C[n] = [gap |-> Gap(s, n), out |-> out] /\ IsNumbered(out, Marks(s, n), Marked(s))
  BY <1>6, Zenon DEF JoinFits
<1>8. C[n].out = out
  BY <1>7
<1>9. JoinWords(s) = C[n].out
  BY JoinIsJoined DEF C
<1> QED
  BY <1>7, <1>8, <1>9

(* The numbers up to that of a character. *)
LEMMA PlaceOf ==
  ASSUME NEW s, NEW n \in Nat, NEW k \in 1..n
  PROVE  LET place == Cardinality({j \in Solid(s, n) : j <= k}) + Cardinality({j \in Begins(s, n) : j <= k})
         IN  /\ k \in Solid(s, n) => Cardinality(UpTo(Marks(s, n), 2 * k)) = place
             /\ k \in Begins(s, n) => Cardinality(UpTo(Marks(s, n), 2 * k - 1)) = place - 1
<1> DEFINE U == Marks(s, k)
<1>1. {j \in Solid(s, n) : j <= k} = Solid(s, k) /\ {j \in Begins(s, n) : j <= k} = Begins(s, k)
  <2>1. \A j : j \in 1..n /\ j <= k <=> j \in 1..k
    OBVIOUS
  <2> QED
    BY <2>1 DEF Solid, Begins
<1>2. k \in Nat
  OBVIOUS
<1>3. UpTo(Marks(s, n), 2 * k) = U
  <2>1. ASSUME NEW m \in Marks(s, n), m <= 2 * k PROVE m \in U
    <3>1. CASE \E j \in Solid(s, n) : m = 2 * j
      <4>1. PICK j \in Solid(s, n) : m = 2 * j
        BY <3>1
      <4>2. j \in 1..n
        BY DEF Solid
      <4>3. j <= k
        BY <4>1, <4>2, <2>1
      <4>4. j \in Solid(s, k)
        BY <4>3, <1>1
      <4> QED
        BY <4>1, <4>4, <1>2, MarksAre DEF IsMark
    <3>2. CASE \E j \in Begins(s, n) : m = 2 * j - 1
      <4>1. PICK j \in Begins(s, n) : m = 2 * j - 1
        BY <3>2
      <4>2. j \in 1..n
        BY DEF Begins
      <4>3. j <= k
        BY <4>1, <4>2, <2>1
      <4>4. j \in Begins(s, k)
        BY <4>3, <1>1
      <4> QED
        BY <4>1, <4>4, <1>2, MarksAre DEF IsMark
    <3> QED
      BY <3>1, <3>2, MarksAre DEF IsMark
  <2>2. ASSUME NEW m \in U PROVE m \in Marks(s, n) /\ m <= 2 * k
    <3>1. Solid(s, k) \subseteq Solid(s, n) /\ Begins(s, k) \subseteq Begins(s, n)
      BY <1>1
    <3>2. IsMark(m, Solid(s, n), Begins(s, n))
      BY <3>1, <1>2, MarksAre DEF IsMark
    <3>3. m < 2 * k + 1 /\ m \in Nat
      BY <1>2, SolidFacts
    <3>4. m <= 2 * k
      BY <3>3
    <3> QED
      BY <3>2, <3>4, MarksAre
  <2> QED
    BY <2>1, <2>2 DEF UpTo
<1>4. /\ Cardinality(U) = Cardinality(Solid(s, k)) + Cardinality(Begins(s, k))
      /\ Cardinality(Solid(s, k)) \in Nat /\ Cardinality(Begins(s, k)) \in Nat
  BY <1>2, MarksCount
<1>5. ASSUME k \in Begins(s, n) PROVE Cardinality(UpTo(Marks(s, n), 2 * k - 1)) = Cardinality(U) - 1
  <2>1. 2 * k \in U
    <3>1. k \in Solid(s, k)
      BY <1>5 DEF Begins, Solid
    <3> QED
      BY <3>1, <1>2, MarksAre DEF IsMark
  <2>2. UpTo(Marks(s, n), 2 * k - 1) = U \ {2 * k}
    <3>1. Marks(s, n) \subseteq Nat
      BY SolidFacts
    <3>2. \A m \in Nat : m <= 2 * k - 1 <=> m <= 2 * k /\ m # 2 * k
      OBVIOUS
    <3> QED
      BY <3>1, <3>2, <1>3 DEF UpTo
  <2>3. IsFiniteSet(U)
    BY <1>2, SolidFacts
  <2> QED
    BY <2>1, <2>2, <2>3, FS_RemoveElement
<1> QED
  BY <1>1, <1>3, <1>4, <1>5

(* cleanSnippet, for every text: the characters that are no blanks in      *)
(* their order, one blank between two words and none in front, cut off     *)
(* with an ellipsis after MaxSnippet characters.                           *)
THEOREM SnippetsAreClean ==
  ASSUME NEW T, Blank \in T, NEW s \in Seq(T)
  PROVE  SnippetIsClean(s)
<1> DEFINE n == Len(s)
           solid == {k \in DOMAIN s : s[k] # Blank}
           begins == {k \in solid : k - 1 \in DOMAIN s \ solid /\ \E j \in solid : j < k}
           place(k) == Cardinality({j \in solid : j <= k}) + Cardinality({j \in begins : j <= k})
           length == Cardinality(solid) + Cardinality(begins)
           snip == cleanSnippet(s)
           out == JoinWords(s)
<1>1. n \in Nat /\ DOMAIN s = 1..n
  OBVIOUS
<1>2. solid = Solid(s, n)
  BY <1>1 DEF Solid
<1>3. begins = Begins(s, n)
  <2>1. ASSUME NEW k \in 1..n, s[k] # Blank
        PROVE  (k - 1 \in DOMAIN s \ solid /\ \E j \in solid : j < k) <=> Gap(s, k - 1)
    <3>1. k - 1 \in DOMAIN s \ solid <=> k - 1 # 0 /\ s[k - 1] = Blank
      BY <1>1
    <3>2. ASSUME s[k - 1] = Blank PROVE (\E j \in solid : j < k) <=> Solid(s, k - 1) # {}
      <4>1. \A j : j \in solid /\ j < k <=> j \in Solid(s, k - 1)
        BY <1>1 DEF Solid
      <4> HIDE DEF solid
      <4> QED
        BY <4>1
    <3> QED
      BY <3>1, <3>2 DEF Gap
  <2> QED
    BY <1>1, <2>1 DEF Begins
<1>4. out \in Seq(T) /\ IsNumbered(out, Marks(s, n), Marked(s))
  BY JoinEnds
<1>5. Len(out) = length
  <2>1. Len(out) = Cardinality(Marks(s, n))
    BY <1>4 DEF IsNumbered
  <2>2. Cardinality(Marks(s, n)) = Cardinality(Solid(s, n)) + Cardinality(Begins(s, n))
    BY <1>1, MarksCount
  <2> QED
    BY <2>1, <2>2, <1>2, <1>3
<1>6. ASSUME NEW k \in solid
      PROVE  place(k) \in 1..length /\ out[place(k)] = s[k]
  <2>1. k \in Solid(s, n) /\ k \in 1..n
    BY <1>1, <1>2
  <2>2. 2 * k \in Marks(s, n)
    BY <1>1, <2>1, MarksAre DEF IsMark
  <2>3. Cardinality(UpTo(Marks(s, n), 2 * k)) = place(k)
    BY <1>1, <1>2, <1>3, <2>1, PlaceOf
  <2>4. out[Cardinality(UpTo(Marks(s, n), 2 * k))] = Marked(s)[2 * k]
    BY <1>4, <2>2 DEF IsNumbered
  <2>5. Marked(s)[2 * k] = s[k]
    BY <1>1, <2>1, MarkedIs
  <2>6. Cardinality(UpTo(Marks(s, n), 2 * k)) \in 1..Cardinality(Marks(s, n))
    BY <1>1, <2>2, SolidFacts, UpToBounds
  <2>7. Cardinality(Marks(s, n)) = length
    BY <1>4, <1>5 DEF IsNumbered
  <2> HIDE DEF place, out, length
  <2> QED
    BY <2>3, <2>4, <2>5, <2>6, <2>7
<1>7. ASSUME NEW k \in begins
      PROVE  place(k) - 1 \in 1..length /\ out[place(k) - 1] = Blank
  <2>1. k \in Begins(s, n) /\ k \in 1..n
    BY <1>1, <1>2, <1>3
  <2>2. 2 * k - 1 \in Marks(s, n)
    BY <1>1, <2>1, MarksAre DEF IsMark
  <2>3. Cardinality(UpTo(Marks(s, n), 2 * k - 1)) = place(k) - 1
    <3>1. Cardinality(UpTo(Marks(s, n), 2 * k - 1)) =
            (Cardinality({j \in Solid(s, n) : j <= k}) + Cardinality({j \in Begins(s, n) : j <= k})) - 1
      BY <1>1, <2>1, PlaceOf
    <3> HIDE DEF solid, begins
    <3> QED
      BY <3>1, <1>2, <1>3
  <2>4. out[Cardinality(UpTo(Marks(s, n), 2 * k - 1))] = Marked(s)[2 * k - 1]
    BY <1>4, <2>2 DEF IsNumbered
  <2>5. Marked(s)[2 * k - 1] = Blank
    BY <1>1, <2>1, MarkedIs
  <2>6. Cardinality(UpTo(Marks(s, n), 2 * k - 1)) \in 1..Cardinality(Marks(s, n))
    BY <1>1, <2>2, SolidFacts, UpToBounds
  <2>7. Cardinality(Marks(s, n)) = length
    BY <1>4, <1>5 DEF IsNumbered
  <2> HIDE DEF place, out, length
  <2> QED
    BY <2>3, <2>4, <2>5, <2>6, <2>7
<1>8. length \in Nat /\ MaxSnippet \in Nat
  BY <1>4, <1>5, NestingFits
<1>9. snip = IF length > MaxSnippet THEN Append(SubSeq(out, 1, MaxSnippet), "...") ELSE out
  BY <1>5 DEF cleanSnippet
<1> HIDE DEF snip, out, length, place, solid, begins
<1>10. CASE length > MaxSnippet
  <2> DEFINE cut == SubSeq(out, 1, MaxSnippet)
  <2>1. /\ cut \in Seq(T) /\ Len(cut) = MaxSnippet /\ \A i \in 1..MaxSnippet : cut[i] = out[i]
    BY <1>4, <1>5, <1>8, <1>10 DEF out
  <2> HIDE DEF cut
  <2>2. snip = Append(cut, "...")
    BY <1>9, <1>10 DEF cut
  <2>3. /\ Len(snip) = MaxSnippet + 1 /\ snip[MaxSnippet + 1] = "..."
        /\ \A i \in 1..MaxSnippet : snip[i] = out[i]
    BY <2>1, <2>2, <1>8
  <2>4. \A k \in solid : place(k) <= MaxSnippet => snip[place(k)] = s[k]
    BY <1>6, <1>8, <2>3
  <2>5. \A k \in begins : place(k) - 1 <= MaxSnippet => snip[place(k) - 1] = Blank
    BY <1>7, <1>8, <2>3
  <2> QED
    BY <1>10, <2>3, <2>4, <2>5, Zenon DEF SnippetIsClean, snip, length, place, solid, begins
<1>11. CASE ~(length > MaxSnippet)
  <2>1. snip = out
    BY <1>9, <1>11
  <2>2. Len(snip) = length
    BY <1>5, <2>1 DEF out
  <2>3. \A k \in solid : place(k) <= MaxSnippet => snip[place(k)] = s[k]
    BY <1>6, <2>1
  <2>4. \A k \in begins : place(k) - 1 <= MaxSnippet => snip[place(k) - 1] = Blank
    BY <1>7, <2>1
  <2> QED
    BY <1>11, <2>2, <2>3, <2>4, Zenon DEF SnippetIsClean, snip, length, place, solid, begins
<1> QED
  BY <1>10, <1>11

-----------------------------------------------------------------------------
(* The pages of a listing. *)

Flattens(seqs) ==
  CHOOSE f : f = [i \in 1..Len(seqs) |-> IF i = 1 THEN seqs[i] ELSE f[i - 1] \o seqs[i]]

LEMMA FlattenIs == \A seqs : FlattenSeq(seqs) = IF Len(seqs) = 0 THEN seqs ELSE Flattens(seqs)[Len(seqs)]
BY Zenon DEF FlattenSeq, Flattens

LEMMA FlattensLoop ==
  ASSUME NEW s, Len(s) \in Nat
  PROVE  \A k \in 1..Len(s) : Flattens(s)[k] = IF k = 1 THEN s[k] ELSE Flattens(s)[k - 1] \o s[k]
<1> DEFINE Body(f, m) == [k \in 1..m |-> IF k = 1 THEN s[k] ELSE f[k - 1] \o s[k]]
           P == {m \in Nat : \E f : f = Body(f, m)}
           C == Flattens(s)
<1>1. 0 \in P
  <2>1. [k \in 1..0 |-> s] = Body([k \in 1..0 |-> s], 0)
    OBVIOUS
  <2> QED
    BY <2>1
<1>2. ASSUME NEW m \in Nat, m \in P PROVE m + 1 \in P
  <2>1. PICK f : f = Body(f, m)
    BY <1>2
  <2> DEFINE h(k) == IF k = 1 THEN s[k] ELSE f[k - 1] \o s[k]
             g == [k \in 1..(m + 1) |-> h(k)]
  <2>2. ASSUME NEW k \in 1..(m + 1) PROVE g[k] = IF k = 1 THEN s[k] ELSE g[k - 1] \o s[k]
    <3>1. CASE k = 1
      BY <3>1
    <3>2. CASE k # 1
      <4>1. k - 1 \in 1..m /\ k - 1 \in 1..(m + 1)
        BY <3>2
      <4>2. f[k - 1] = h(k - 1)
        BY <2>1, <4>1
      <4>3. g[k - 1] = h(k - 1)
        BY <4>1
      <4>4. g[k] = h(k)
        OBVIOUS
      <4> HIDE DEF g
      <4>5. g[k - 1] = f[k - 1]
        BY <4>2, <4>3
      <4> QED
        BY <3>2, <4>4, <4>5
    <3> QED
      BY <3>1, <3>2
  <2>3. g = [k \in 1..(m + 1) |-> g[k]]
    OBVIOUS
  <2>4. g = Body(g, m + 1)
    <3> HIDE DEF g
    <3> QED
      BY <2>2, <2>3
  <2> HIDE DEF g, Body
  <2> QED
    BY <2>4
<1>3. Nat \subseteq P
  <2> HIDE DEF P
  <2> QED
    BY <1>1, <1>2, Inductive
<1>4. C = Body(C, Len(s))
  <2>1. \E f : f = Body(f, Len(s))
    BY <1>3
  <2>2. C = CHOOSE f : f = Body(f, Len(s))
    BY Zenon DEF Flattens
  <2> HIDE DEF C, Body
  <2> QED
    BY <2>1, <2>2
<1> HIDE DEF C
<1>5. ASSUME NEW k \in 1..Len(s) PROVE C[k] = IF k = 1 THEN s[k] ELSE C[k - 1] \o s[k]
  BY <1>4
<1> QED
  BY <1>5 DEF C

(* The first k pages are the first k * Limit messages. *)
UpToPage(list, k, limit) ==
  SubSeq(list, 1, IF k * Limit(limit) > Len(list) THEN Len(list) ELSE k * Limit(limit))

LEMMA LimitFits == \A limit \in Int : Limit(limit) \in Nat /\ Limit(limit) >= 1
<1>1. DefaultLimit \in 1..MaxLimit /\ MaxLimit \in Nat
  BY ContentAssumption, Zenon
<1> QED
  BY <1>1 DEF Limit

LEMMA PageIs ==
  ASSUME NEW T, NEW list \in Seq(T), NEW limit \in Int, NEW k \in Nat \ {0}
  PROVE  /\ UpToPage(list, k, limit) = UpToPage(list, k - 1, limit) \o Page(list, k, limit)
         /\ UpToPage(list, 0, limit) = <<>> /\ Page(list, k, limit) \in Seq(T)
<1> DEFINE L == Limit(limit)
           n == Len(list)
           start == (k - 1) * L
           end == IF start + L > n THEN n ELSE start + L
<1>1. n \in Nat /\ L \in Nat /\ L >= 1
  BY LimitFits
<1> HIDE DEF L
<1>2. start \in Nat /\ k * L = start + L /\ 0 * L = 0
  <2>1. k - 1 \in Nat /\ k = (k - 1) + 1
    OBVIOUS
  <2>2. \A i \in Nat : i * L \in Nat /\ (i + 1) * L = i * L + L
    BY <1>1
  <2> QED
    BY <2>1, <2>2, <1>1
<1>3. Page(list, k, limit) = IF start > n THEN <<>> ELSE SubSeq(list, start + 1, end)
  BY DEF Page, L
<1>4. UpToPage(list, k, limit) = SubSeq(list, 1, end)
  BY <1>2 DEF UpToPage, L
<1>5. UpToPage(list, k - 1, limit) = SubSeq(list, 1, IF start > n THEN n ELSE start)
  BY DEF UpToPage, L
<1>6. UpToPage(list, 0, limit) = <<>>
  <2>1. UpToPage(list, 0, limit) = SubSeq(list, 1, 0)
    BY <1>1, <1>2 DEF UpToPage, L
  <2> QED
    BY <2>1
<1> HIDE DEF start
<1>7. CASE start > n
  <2>1. end = n /\ SubSeq(list, 1, n) = list
    BY <1>1, <1>2, <1>7
  <2>2. list \o <<>> = list
    BY ConcatEmptySeq
  <2> QED
    BY <1>3, <1>4, <1>5, <1>6, <1>7, <2>1, <2>2
<1>8. CASE ~(start > n)
  <2>1. end \in Nat /\ start <= end /\ end <= n
    BY <1>1, <1>2, <1>8
  <2> HIDE DEF end
  <2>2. SubSeq(list, 1, start) \o SubSeq(list, start + 1, end) = SubSeq(list, 1, end)
    <3>1. 1 \in 1..(Len(list) + 1) /\ start \in (1 - 1)..Len(list) /\ end \in start..Len(list)
      BY <1>1, <1>2, <2>1
    <3> QED
      BY <3>1, ConcatAdjacentSubSeq
  <2>3. SubSeq(list, start + 1, end) \in Seq(T)
    BY <2>1, <1>2
  <2> QED
    BY <1>3, <1>4, <1>5, <1>6, <1>8, <2>2, <2>3
<1> QED
  BY <1>7, <1>8

(* ListMessages, for every listing and every limit: the pages one after    *)
(* the other are the listing.                                              *)
THEOREM PagesAreTheList ==
  ASSUME NEW T, NEW list \in Seq(T), NEW limit \in Int
  PROVE  PagesPartition(list, limit)
<1> DEFINE n == Len(list)
           pages == [k \in 1..(n + 1) |-> Page(list, k, limit)]
           C == Flattens(pages)
           P == {k \in Nat : k + 1 <= n + 1 => C[k + 1] = UpToPage(list, k + 1, limit)}
<1>1. n \in Nat
  OBVIOUS
<1>2. Len(pages) = n + 1 /\ \A k \in 1..(n + 1) : pages[k] = Page(list, k, limit)
  BY <1>1
<1> HIDE DEF pages
<1>3. \A k \in 1..(n + 1) : C[k] = IF k = 1 THEN pages[k] ELSE C[k - 1] \o pages[k]
  <2>1. Len(pages) \in Nat
    BY <1>1, <1>2
  <2> QED
    BY <1>2, <2>1, FlattensLoop
<1>4. FlattenSeq(pages) = C[n + 1]
  BY <1>1, <1>2, FlattenIs
<1> HIDE DEF C
<1>5. 0 \in P
  <2>1. 1 \in 1..(n + 1) /\ 0 + 1 = 1 /\ 1 - 1 = 0 /\ 1 \in Nat \ {0}
    BY <1>1
  <2>2. C[1] = Page(list, 1, limit)
    BY <1>2, <1>3, <2>1
  <2>3. UpToPage(list, 1, limit) = <<>> \o Page(list, 1, limit)
    BY <2>1, PageIs
  <2>4. <<>> \o Page(list, 1, limit) = Page(list, 1, limit)
    <3>1. Page(list, 1, limit) \in Seq(T)
      BY <2>1, PageIs
    <3> QED
      BY <3>1, ConcatEmptySeq
  <2> QED
    BY <2>1, <2>2, <2>3, <2>4
<1>6. ASSUME NEW k \in Nat, k \in P PROVE k + 1 \in P
  <2> SUFFICES ASSUME k + 2 <= n + 1 PROVE C[k + 2] = UpToPage(list, k + 2, limit)
    OBVIOUS
  <2>1. C[k + 1] = UpToPage(list, k + 1, limit)
    BY <1>1, <1>6
  <2>2. k + 2 \in 1..(n + 1) /\ k + 2 # 1 /\ (k + 2) - 1 = k + 1 /\ k + 2 \in Nat \ {0}
    BY <1>1
  <2>3. C[k + 2] = C[k + 1] \o Page(list, k + 2, limit)
    BY <1>2, <1>3, <2>2
  <2>4. UpToPage(list, k + 2, limit) = UpToPage(list, k + 1, limit) \o Page(list, k + 2, limit)
    BY <2>2, PageIs
  <2> QED
    BY <2>1, <2>3, <2>4
<1>7. C[n + 1] = UpToPage(list, n + 1, limit)
  <2>1. Nat \subseteq P
    <3> HIDE DEF P
    <3> QED
      BY <1>5, <1>6, Inductive
  <2> QED
    BY <2>1, <1>1
<1>8. UpToPage(list, n + 1, limit) = list
  <2>1. (n + 1) * Limit(limit) > n
    <3>1. Limit(limit) \in Nat /\ Limit(limit) >= 1
      BY LimitFits
    <3>2. \A i, j \in Nat : j >= 1 => (i + 1) * j > i
      <4> TAKE i, j \in Nat
      <4> HAVE j >= 1
      <4>1. (i + 1) * j = (i + 1) + (i + 1) * (j - 1)
        OBVIOUS
      <4>2. (i + 1) * (j - 1) >= 0
        OBVIOUS
      <4>3. (i + 1) * (j - 1) \in Int
        OBVIOUS
      <4> QED
        BY <4>1, <4>2, <4>3
    <3> QED
      BY <1>1, <3>1, <3>2
  <2>2. UpToPage(list, n + 1, limit) = SubSeq(list, 1, n)
    BY <2>1 DEF UpToPage
  <2> QED
    BY <2>2
<1> QED
  BY <1>4, <1>7, <1>8, Zenon DEF PagesPartition, pages

-----------------------------------------------------------------------------
(* The samples that a run looks at are among them. *)

SampleFits ==
  /\ sample.kind = "mime" => sample.req \in AnyRequest
  /\ sample.kind = "snippet" => \E T : Blank \in T /\ sample.chars \in Seq(T)
  /\ sample.kind = "page" => sample.limit \in Int /\ \E T : sample.list \in Seq(T)

LEMMA BoundedIsSeq == \A S : \A n \in Nat : BoundedSeq(S, n) \subseteq Seq(S)
<1> TAKE S
<1> TAKE n \in Nat
<1> SUFFICES ASSUME NEW s \in BoundedSeq(S, n) PROVE s \in Seq(S)
  OBVIOUS
<1>1. PICK m \in 0..n : s \in [1..m -> S]
  BY DEF BoundedSeq, SeqOf
<1> QED
  BY <1>1

LEMMA RequestsFit == Requests \subseteq AnyRequest
<1> SUFFICES ASSUME NEW r \in Requests PROVE r \in AnyRequest
  OBVIOUS
<1>1. /\ "t" \in Text /\ "h" \in Text /\ "a" \in Text /\ "d1" \in Text /\ "image/png" \in Text
      /\ "" \in Text /\ "multipart/mixed" \in Text
  BY SampleAssumption, TextHolds
<1>2. Attachments \subseteq AnyAttachment
  <2>1. {NoName, [stem |-> "a", n |-> 0], ID(3)} \subseteq Name
    <3>1. [stem |-> "a", n |-> 0] \in Name
      BY <1>1 DEF Name
    <3> QED
      BY <3>1, NameType
  <2>2. {"", "image/png", "multipart/mixed"} \subseteq Text /\ {"d1"} \subseteq Text
    BY <1>1
  <2> QED
    BY <2>1, <2>2 DEF Attachments, AnyAttachment
<1>3. r.atts \in Seq(AnyAttachment)
  <2>1. r.atts \in Seq(Attachments)
    BY BoundedIsSeq DEF Requests
  <2> QED
    BY <2>1, <1>2
<1> QED
  BY <1>1, <1>3 DEF Requests, AnyRequest

LEMMA InitSampleFits == Init => SampleFits
<1> SUFFICES ASSUME Init PROVE SampleFits
  OBVIOUS
<1>1. CASE sample = NoSample
  <2>1. sample.kind = "none"
    BY <1>1 DEF NoSample
  <2> QED
    BY <2>1 DEF SampleFits
<1>2. CASE \E r \in Requests : sample = [kind |-> "mime", req |-> r]
  <2>1. PICK r \in Requests : sample = [kind |-> "mime", req |-> r]
    BY <1>2
  <2>2. sample.kind = "mime" /\ sample.req = r
    BY <2>1
  <2>3. r \in AnyRequest
    BY RequestsFit
  <2> QED
    BY <2>2, <2>3 DEF SampleFits
<1>3. CASE \E s \in Snippets : sample = [kind |-> "snippet", chars |-> s]
  <2>1. PICK s \in Snippets : sample = [kind |-> "snippet", chars |-> s]
    BY <1>3
  <2>2. sample.kind = "snippet" /\ sample.chars = s
    BY <2>1
  <2> DEFINE T == {"<", ">", Blank, "a"}
  <2>3. s \in Seq(T) /\ Blank \in T
    BY BoundedIsSeq DEF Snippets
  <2> QED
    BY <2>2, <2>3 DEF SampleFits
<1>4. CASE \E l \in Listings : sample = [kind |-> "page", list |-> l.list, limit |-> l.limit]
  <2>1. PICK l \in Listings : sample = [kind |-> "page", list |-> l.list, limit |-> l.limit]
    BY <1>4
  <2>2. sample.kind = "page" /\ sample.list = l.list /\ sample.limit = l.limit
    BY <2>1
  <2>3. l.limit \in 0..4 /\ l.list \in {[k \in 1..n |-> k] : n \in 0..4}
    BY DEF Listings
  <2>4. PICK n \in 0..4 : l.list = [k \in 1..n |-> k]
    BY <2>3
  <2>5. l.list \in Seq(Nat)
    BY <2>4
  <2> QED
    BY <2>2, <2>3, <2>5 DEF SampleFits
<1> QED
  <2>1. sample \in Samples \/ sample = NoSample
    BY DEF Init
  <2> QED
    BY <2>1, <1>1, <1>2, <1>3, <1>4 DEF Samples

(* What a sample is taken of is not what its properties depend on: they    *)
(* hold of everything that fits.                                           *)
LEMMA FitsComesBack == SampleFits => ContentComesBack
<1> SUFFICES ASSUME SampleFits PROVE ContentComesBack
  OBVIOUS
<1>1. ASSUME sample.kind = "mime" PROVE BodyRoundTrip(sample.req) /\ AttachmentByNumber(sample.req)
  <2>1. sample.req \in AnyRequest
    BY <1>1 DEF SampleFits
  <2> QED
    BY <2>1, BodiesComeBack, NumbersLead
<1>2. ASSUME sample.kind = "snippet"
      PROVE  TagsAreStripped(sample.chars) /\ SnippetIsClean(stripHTML(sample.chars))
  <2>1. PICK T : Blank \in T /\ sample.chars \in Seq(T)
    BY <1>2 DEF SampleFits
  <2>2. TagsAreStripped(sample.chars) /\ stripHTML(sample.chars) \in Seq(T)
    BY <2>1, TagsGo
  <2>3. SnippetIsClean(stripHTML(sample.chars))
    BY <2>1, <2>2, SnippetsAreClean
  <2> QED
    BY <2>2, <2>3
<1>3. ASSUME sample.kind = "page" PROVE PagesPartition(sample.list, sample.limit)
  <2>1. PICK T : sample.list \in Seq(T)
    BY <1>3 DEF SampleFits
  <2>2. sample.limit \in Int
    BY <1>3 DEF SampleFits
  <2> QED
    BY <2>1, <2>2, PagesAreTheList
<1> QED
  BY <1>1, <1>2, <1>3 DEF ContentComesBack

(* What is sent is what is read, snippets are clean and the pages are the  *)
(* listing, in every sample.                                               *)
THEOREM ContentIsSound == Spec => []ContentComesBack
<1>1. Init => SampleFits
  BY InitSampleFits
<1>2. SampleFits /\ [Next]_<<webmailvars, sample>> => SampleFits'
  <2> SUFFICES ASSUME SampleFits, [Next]_<<webmailvars, sample>> PROVE SampleFits'
    OBVIOUS
  <2>1. sample' = sample
    BY Zenon DEF Next
  <2> QED
    BY <2>1, Zenon DEF SampleFits
<1>3. Spec => []SampleFits
  BY <1>1, <1>2, PTL DEF Spec
<1> QED
  BY <1>3, FitsComesBack, PTL
=============================================================================
