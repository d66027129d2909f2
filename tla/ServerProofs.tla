---------------------------- MODULE ServerProofs ----------------------------
(***************************************************************************)
(* Proofs about ServerConfig, TLSStore and MailRouting, and about the      *)
(* specification that is composed of them, for any number of writers,      *)
(* options, installers, daemons, certificates, domains, addresses,         *)
(* requests and failures.                                                  *)
(***************************************************************************)
EXTENDS MCServer, TLAPS

-----------------------------------------------------------------------------
(* The configuration files of Postfix and Dovecot *)

Jobs ==
  [pc : {"idle", "write", "validate", "status", "reload"}, svc : Services \cup {None},
   kind : {"generate", "apply", None}, opts : Options \cup {None}, next : Nat,
   alone : BOOLEAN]

DaemonStates ==
  [state : {"not installed", "stopped", "running"},
   how : {"none", "apply", "shared", "command", "start"}, accepted : BOOLEAN]

ConfTypes ==
  /\ DOMAIN disk = Services
  /\ \A s \in Services : disk[s] = [f \in ToSet(Files(s)) |-> disk[s][f]]
  /\ job \in [Writers -> Jobs]
  /\ \A w \in Writers : job[w].pc # "idle" => /\ job[w].svc \in Services
                                              /\ job[w].opts \in Options
                                              /\ job[w].next \in 1..Len(Files(job[w].svc))
  /\ daemon \in [Services -> DaemonStates]
  /\ whole \in [Services -> Options \cup {None}]
  /\ faults \in 0..MaxFaults

(* File number i of a service. *)
Stands(s, i) == disk[s][Files(s)[i]] # None

(* The files of a directory appear in the order in which they are written, *)
(* and a writer leaves none out.                                           *)
InOrder ==
  /\ \A s \in Services : \A j \in 1..Len(Files(s)) : Stands(s, j) => \A i \in 1..(j - 1) : Stands(s, i)
  /\ \A w \in Writers : job[w].pc = "write" => \A i \in 1..(job[w].next - 1) : Stands(job[w].svc, i)

(* A writer that is still alone met no other: the files behind it are its  *)
(* own, and those that passed Validate stay accepted until the reload.     *)
OwnFiles(w) ==
  LET s == job[w].svc
  IN  /\ \A v \in Writers : v # w /\ job[v].pc # "idle" => job[v].svc # s
      /\ job[w].pc = "write" =>
           \A i \in 1..(job[w].next - 1) :
             disk[s][Files(s)[i]] = Generate(s, Files(s)[i], job[w].opts)
      /\ job[w].pc \in {"validate", "status", "reload"} => disk[s] = Made(s, job[w].opts)
      /\ job[w].pc \in {"status", "reload"} /\ Installed(s) => ~Refuses(disk[s])
      
LeftAlone ==
  /\ \A w \in Writers : job[w].pc # "idle" /\ job[w].alone => OwnFiles(w)
  /\ \A w \in Writers : job[w].pc = "reload" => Installed(job[w].svc)

ConfInv == ConfTypes /\ InOrder /\ LeftAlone /\ OneMaking /\ AppliedIsAccepted

LEMMA FilesFacts ==
  ASSUME NEW s \in Services
  PROVE  /\ Len(Files(s)) \in Nat /\ Len(Files(s)) > 0
         /\ ToSet(Files(s)) = {Files(s)[i] : i \in 1..Len(Files(s))}
         /\ \A i, j \in 1..Len(Files(s)) : Files(s)[i] = Files(s)[j] => i = j
<1>1. CASE s = "postfix"
  <2>1. Len(PostfixFiles) = 6 /\ DOMAIN PostfixFiles = 1..6
    BY DEF PostfixFiles
  <2>5. \A i, j \in 1..6 : PostfixFiles[i] = PostfixFiles[j] => i = j
    BY DEF PostfixFiles
  <2>2. Len(Files(s)) = 6 /\ DOMAIN Files(s) = 1..6
    BY <1>1, <2>1, Zenon DEF Files
  <2>3. Len(Files(s)) \in Nat /\ Len(Files(s)) > 0
    BY <2>2
  <2>4. DOMAIN Files(s) = 1..Len(Files(s))
    BY <2>2, Zenon
  <2> QED
    BY <1>1, <2>2, <2>3, <2>4, <2>5, Zenon DEF ToSet, Files
<1>2. CASE s = "dovecot"
  <2>1. Len(DovecotFiles) = 7 /\ DOMAIN DovecotFiles = 1..7
    BY DEF DovecotFiles
  <2>5. \A i, j \in 1..7 : DovecotFiles[i] = DovecotFiles[j] => i = j
    BY DEF DovecotFiles
  <2>2. Len(Files(s)) = 7 /\ DOMAIN Files(s) = 1..7
    BY <1>2, <2>1, Zenon DEF Files
  <2>3. Len(Files(s)) \in Nat /\ Len(Files(s)) > 0
    BY <2>2
  <2>4. DOMAIN Files(s) = 1..Len(Files(s))
    BY <2>2, Zenon
  <2> QED
    BY <1>2, <2>2, <2>3, <2>4, <2>5, Zenon DEF ToSet, Files
<1> QED
  BY <1>1, <1>2 DEF Services

LEMMA IdleJob == Idle \in Jobs /\ Idle.pc = "idle"
BY DEF Idle, Jobs

LEMMA AtRestState ==
  ASSUME NEW state \in {"not installed", "stopped"}
  PROVE  AtRest(state) \in DaemonStates /\ AtRest(state).how = "none" /\ AtRest(state).state = state
BY DEF AtRest, DaemonStates

LEMMA MadeFiles ==
  ASSUME NEW s \in Services, NEW o \in Options
  PROVE  \A i \in 1..Len(Files(s)) : Made(s, o)[Files(s)[i]] # None
                                     /\ Made(s, o)[Files(s)[i]] = Generate(s, Files(s)[i], o)
BY FilesFacts, ServerAssumption DEF Made

LEMMA InitConf == ConfInit => ConfInv
<1> SUFFICES ASSUME ConfInit PROVE ConfInv
  OBVIOUS
<1>1. \A w \in Writers : job[w] = Idle /\ job[w].pc = "idle"
  BY IdleJob DEF ConfInit
<1>2. ASSUME NEW s \in Services
      PROVE  /\ disk[s] = [f \in ToSet(Files(s)) |-> disk[s][f]]
             /\ \/ \A f \in ToSet(Files(s)) : disk[s][f] = None
                \/ \E o \in Options : disk[s] = Made(s, o)
  <2>1. disk[s] \in Directories(s)
    BY Zenon DEF ConfInit
  <2>2. CASE disk[s] = [f \in ToSet(Files(s)) |-> None]
    BY <2>2
  <2>3. ASSUME NEW o \in Options, disk[s] = Made(s, o)
        PROVE  disk[s] = [f \in ToSet(Files(s)) |-> disk[s][f]]
    BY <2>3 DEF Made
  <2> QED
    BY <2>1, <2>2, <2>3 DEF Directories
<1>3. InOrder
  <2>1. ASSUME NEW s \in Services, NEW j \in 1..Len(Files(s)), Stands(s, j), NEW i \in 1..(j - 1)
        PROVE  Stands(s, i)
    <3>1. i \in 1..Len(Files(s))
      BY FilesFacts
    <3>2. Files(s)[j] \in ToSet(Files(s))
      BY FilesFacts
    <3>3. PICK o \in Options : disk[s] = Made(s, o)
      BY <1>2, <2>1, <3>2 DEF Stands
    <3> QED
      BY <3>1, <3>3, MadeFiles DEF Stands
  <2> QED
    BY <1>1, <2>1 DEF InOrder
<1>4. ConfTypes
  <2>1. 0 \in 0..MaxFaults
    BY ServerAssumption
  <2>2. whole \in [Services -> Options \cup {None}]
    <3>1. \A s \in Services : whole[s] \in Options \cup {None}
      BY DEF ConfInit
    <3> QED
      BY <3>1 DEF ConfInit
  <2>3. daemon \in [Services -> DaemonStates]
    <3>1. daemon \in [Services -> {AtRest("not installed"), AtRest("stopped")}]
      BY Zenon DEF ConfInit
    <3> QED
      BY <3>1, AtRestState
  <2>4. DOMAIN disk = Services
    <3>1. disk \in [Services -> UNION {Directories(s) : s \in Services}]
      BY Zenon DEF ConfInit
    <3> QED
      BY <3>1
  <2> QED
    BY <1>1, <1>2, <2>1, <2>2, <2>3, <2>4, IdleJob DEF ConfInit, ConfTypes
<1>5. OneMaking
  BY DEF ConfInit, OneMaking
<1>6. AppliedIsAccepted
  <2>1. daemon \in [Services -> {AtRest("not installed"), AtRest("stopped")}]
    BY Zenon DEF ConfInit
  <2> QED
    BY <2>1, AtRestState DEF AppliedIsAccepted
<1> QED
  BY <1>1, <1>3, <1>4, <1>5, <1>6 DEF ConfInv, LeftAlone

LEMMA StartStep ==
  ASSUME ConfInv, NEW w \in Writers, NEW s \in Services, NEW kind \in {"generate", "apply"},
         NEW o \in Options, Start(w, s, kind, o)
  PROVE  ConfInv'
<1> DEFINE k == [Idle EXCEPT !.pc = "write", !.svc = s, !.kind = kind, !.opts = o,
                             !.alone = Writing(s) = {}]
<1>1. /\ k \in Jobs /\ k.pc = "write" /\ k.svc = s /\ k.opts = o /\ k.next = 1
      /\ k.alone <=> Writing(s) = {}
  BY DEF Idle, Jobs
<1>2. UNCHANGED <<disk, daemon, whole, faults>> /\ job \in [Writers -> Jobs]
  BY DEF Start, ConfInv, ConfTypes
<1>3. /\ job'[w] = k
      /\ \A v \in Writers : v # w =>
           job'[v] = IF v \in Writing(s) THEN [job[v] EXCEPT !.alone = FALSE] ELSE job[v]
      /\ job' = [v \in Writers |-> job'[v]]
  BY DEF Start
<1> HIDE DEF k
<1>4. ASSUME NEW v \in Writers, v # w
      PROVE  /\ job'[v] \in Jobs /\ job'[v].pc = job[v].pc /\ job'[v].svc = job[v].svc
             /\ job'[v].opts = job[v].opts /\ job'[v].next = job[v].next
             /\ job'[v].alone => job[v].alone /\ v \notin Writing(s)
  <2>1. job[v] \in Jobs
    BY <1>2
  <2>2. CASE v \in Writing(s)
    BY <1>3, <1>4, <2>1, <2>2 DEF Jobs
  <2>3. CASE v \notin Writing(s)
    BY <1>3, <1>4, <2>1, <2>3
  <2> QED
    BY <2>2, <2>3
<1>5. ConfTypes'
  <2>1. job' \in [Writers -> Jobs]
    BY <1>1, <1>3, <1>4
  <2>2. \A v \in Writers : job'[v].pc # "idle" => /\ job'[v].svc \in Services
                                                 /\ job'[v].opts \in Options
                                                 /\ job'[v].next \in 1..Len(Files(job'[v].svc))
    BY <1>1, <1>3, <1>4, FilesFacts DEF ConfInv, ConfTypes
  <2> QED
    BY <1>2, <2>1, <2>2 DEF ConfInv, ConfTypes
<1>6. InOrder'
  BY <1>1, <1>2, <1>3, <1>4 DEF ConfInv, InOrder, Stands
<1>7. ASSUME NEW v \in Writers, job'[v].pc # "idle", job'[v].alone
      PROVE  OwnFiles(v)'
  <2>1. CASE v = w
    <3>1. \A u \in Writers : u # w /\ job'[u].pc # "idle" => job'[u].svc # s
      BY <1>1, <1>3, <1>4, <1>7, <2>1 DEF Writing
    <3> QED
      BY <1>1, <1>3, <2>1, <3>1 DEF OwnFiles
  <2>2. CASE v # w
    <3>1. OwnFiles(v)
      BY <1>4, <1>7, <2>2 DEF ConfInv, LeftAlone
    <3>2. job[v].svc # s
      BY <1>4, <1>7, <2>2 DEF Writing
    <3>3. \A u \in Writers : u # v /\ job'[u].pc # "idle" => job'[u].svc # job'[v].svc
      BY <1>1, <1>3, <1>4, <2>2, <3>1, <3>2 DEF OwnFiles
    <3>4. /\ job'[v].pc = job[v].pc /\ job'[v].svc = job[v].svc /\ job'[v].opts = job[v].opts
          /\ job'[v].next = job[v].next
      BY <1>4, <2>2
    <3> QED
      BY <1>2, <3>1, <3>3, <3>4 DEF OwnFiles, Installed
  <2> QED
    BY <2>1, <2>2
<1>8. LeftAlone'
  BY <1>1, <1>2, <1>3, <1>4, <1>7 DEF ConfInv, LeftAlone, Installed
<1> QED
  BY <1>2, <1>5, <1>6, <1>8 DEF ConfInv, OneMaking, AppliedIsAccepted

(* Whatever a step makes of the daemons, none is installed or removed. *)
SameInstalled ==
  /\ daemon' \in [Services -> DaemonStates]
  /\ \A s \in Services : (daemon'[s].state = "not installed") <=> (daemon[s].state = "not installed")

(* A command ends, or goes on after a check of its files. *)
LEMMA JobStep ==
  ASSUME ConfInv, NEW w \in Writers, NEW k \in Jobs, job' = [job EXCEPT ![w] = k],
         UNCHANGED <<disk, whole>>, SameInstalled, AppliedIsAccepted', faults' \in 0..MaxFaults,
         \/ k.pc = "idle"
         \/ /\ k.pc \in {"status", "reload"} /\ job[w].pc \in {"validate", "status"}
            /\ k.svc = job[w].svc /\ k.opts = job[w].opts /\ k.next = job[w].next
            /\ k.alone = job[w].alone
            /\ k.pc = "reload" => Installed(k.svc)
            /\ Installed(k.svc) /\ k.alone => ~Refuses(disk[k.svc])
  PROVE  ConfInv'
<1>1. job'[w] = k /\ \A v \in Writers : v # w => job'[v] = job[v]
  BY DEF ConfInv, ConfTypes
<1>2. ConfTypes'
  <2>1. job' \in [Writers -> Jobs]
    BY DEF ConfInv, ConfTypes
  <2>2. \A v \in Writers : job'[v].pc # "idle" => /\ job'[v].svc \in Services
                                                 /\ job'[v].opts \in Options
                                                 /\ job'[v].next \in 1..Len(Files(job'[v].svc))
    BY <1>1 DEF ConfInv, ConfTypes
  <2> QED
    BY <2>1, <2>2 DEF ConfInv, ConfTypes, SameInstalled
<1>3. InOrder'
  BY <1>1 DEF ConfInv, InOrder, Stands
<1>4. /\ \A v \in Writers : job'[v].pc # "idle" => job'[v].svc \in Services
      /\ \A s \in Services : Installed(s)' <=> Installed(s)
  BY <1>2 DEF ConfTypes, SameInstalled, Installed
<1>5. ASSUME NEW v \in Writers, job'[v].pc # "idle", job'[v].alone
      PROVE  OwnFiles(v)'
  <2>1. /\ job[v].pc # "idle" /\ job[v].alone /\ job'[v].svc = job[v].svc
        /\ job'[v].opts = job[v].opts /\ job'[v].next = job[v].next
    BY <1>1, <1>5
  <2>2. OwnFiles(v)
    BY <2>1 DEF ConfInv, LeftAlone
  <2>3. \A u \in Writers : u # v /\ job'[u].pc # "idle" => job'[u].svc # job'[v].svc
    BY <1>1, <2>1, <2>2 DEF OwnFiles
  <2>4. job'[v].pc = job[v].pc \/ (v = w /\ job[v].pc \in {"validate", "status"}
                                        /\ job'[v].pc \in {"status", "reload"})
    BY <1>1, <1>5
  <2>5. job'[v].pc \in {"status", "reload"} /\ Installed(job'[v].svc) => ~Refuses(disk[job'[v].svc])
    BY <1>1, <1>5, <2>1, <2>2, <2>4 DEF OwnFiles
  <2> QED
    BY <1>4, <1>5, <2>1, <2>2, <2>3, <2>4, <2>5 DEF OwnFiles
<1>6. LeftAlone'
  BY <1>1, <1>4, <1>5 DEF ConfInv, LeftAlone
<1> QED
  BY <1>2, <1>3, <1>6 DEF ConfInv, OneMaking

(* The daemon starts, stops or reads its files. *)
LEMMA DaemonStep ==
  ASSUME ConfInv, UNCHANGED <<disk, job, whole, faults>>, SameInstalled, AppliedIsAccepted'
  PROVE  ConfInv'
<1>1. ConfTypes'
  BY DEF ConfInv, ConfTypes, SameInstalled
<1>2. \A v \in Writers : job[v].pc # "idle" => (Installed(job[v].svc)' <=> Installed(job[v].svc))
  BY DEF ConfInv, ConfTypes, SameInstalled, Installed
<1>3. \A v \in Writers : job[v].pc # "idle" /\ job[v].alone => OwnFiles(v)'
  BY <1>2 DEF ConfInv, LeftAlone, OwnFiles
<1> QED
  BY <1>1, <1>2, <1>3 DEF ConfInv, InOrder, Stands, LeftAlone, OneMaking

LEMMA LoadedKeeps ==
  ASSUME ConfInv, NEW s \in Services, Installed(s),
         NEW how \in {"apply", "shared", "command", "start"}, daemon' = Loaded(s, how),
         how = "apply" => ~Refuses(disk[s]) /\ \E o \in Options : disk[s] = Made(s, o)
  PROVE  SameInstalled /\ AppliedIsAccepted'
<1> DEFINE ok == ~Refuses(disk[s]) /\ \E o \in Options : disk[s] = Made(s, o)
           r == [state |-> "running", how |-> how, accepted |-> ok]
<1>1. ok \in BOOLEAN /\ (how = "apply" => ok)
  OBVIOUS
<1>2. daemon' = [daemon EXCEPT ![s] = r]
  BY DEF Loaded
<1> HIDE DEF ok
<1>3. r \in DaemonStates /\ r.state = "running" /\ r.how = how /\ r.accepted = ok
  BY <1>1 DEF DaemonStates
<1> HIDE DEF r
<1>4. daemon \in [Services -> DaemonStates] /\ AppliedIsAccepted
  BY DEF ConfInv, ConfTypes
<1>5. \A t \in Services : daemon'[t] = IF t = s THEN r ELSE daemon[t]
  BY <1>2, <1>4
<1>6. AppliedIsAccepted'
  BY <1>1, <1>3, <1>4, <1>5 DEF AppliedIsAccepted
<1> QED
  BY <1>2, <1>3, <1>4, <1>5, <1>6 DEF SameInstalled, Installed

LEMMA WriteStep ==
  ASSUME ConfInv, NEW w \in Writers, NEW s \in Services, WriteNext(w, s)
  PROVE  ConfInv'
<1> DEFINE n == job[w].next
           o == job[w].opts
           f == Files(s)[n]
           last == n = Len(Files(s))
           k == IF ~last THEN [job[w] EXCEPT !.next = n + 1]
                ELSE IF job[w].kind = "generate" THEN Idle ELSE [job[w] EXCEPT !.pc = "validate"]
<1>1. /\ job[w] \in Jobs /\ job[w].pc = "write" /\ job[w].svc = s
      /\ o \in Options /\ n \in 1..Len(Files(s))
      /\ UNCHANGED <<daemon, faults>>
  BY DEF WriteNext, ConfInv, ConfTypes
<1>2. /\ disk' = [disk EXCEPT ![s] = [disk[s] EXCEPT ![f] = Generate(s, f, o)]]
      /\ whole' = [whole EXCEPT ![s] = IF last /\ job[w].alone THEN o ELSE None]
      /\ job' = [job EXCEPT ![w] = k]
  <2>1. disk' = [disk EXCEPT ![s][f] = Generate(s, f, o)]
    BY DEF WriteNext
  <2>2. whole' = [whole EXCEPT ![s] = IF last /\ job[w].alone THEN o ELSE None]
    BY DEF WriteNext
  <2>3. job' = [job EXCEPT ![w] = k]
    BY DEF WriteNext
  <2> QED
    BY <2>1, <2>2, <2>3
<1>3. /\ k \in Jobs /\ (k.pc # "idle" => k.svc = s /\ k.opts = o /\ k.alone = job[w].alone)
      /\ ~last => k.pc = "write" /\ k.next = n + 1
      /\ last => k.pc = "idle" \/ (k.pc = "validate" /\ k.next = n)
  <2>1. CASE ~last
    BY <1>1, <2>1 DEF Jobs
  <2>2. CASE last /\ job[w].kind = "generate"
    BY <2>2, IdleJob
  <2>3. CASE last /\ job[w].kind # "generate"
    BY <1>1, <2>3 DEF Jobs
  <2> QED
    BY <2>1, <2>2, <2>3
<1> HIDE DEF k
<1>4. job'[w] = k /\ \A v \in Writers : v # w => job'[v] = job[v]
  BY <1>2 DEF ConfInv, ConfTypes
<1>5. f \in ToSet(Files(s)) /\ Generate(s, f, o) # None
  BY <1>1, FilesFacts, ServerAssumption
<1>6. /\ DOMAIN disk' = Services /\ \A t \in Services : t # s => disk'[t] = disk[t]
      /\ disk'[s] = [g \in ToSet(Files(s)) |-> IF g = f THEN Generate(s, f, o) ELSE disk[s][g]]
  <2>1. DOMAIN disk = Services /\ disk[s] = [g \in ToSet(Files(s)) |-> disk[s][g]]
    BY DEF ConfInv, ConfTypes
  <2>2. [disk[s] EXCEPT ![f] = Generate(s, f, o)]
          = [g \in ToSet(Files(s)) |-> IF g = f THEN Generate(s, f, o) ELSE disk[s][g]]
    BY <2>1
  <2> QED
    BY <1>2, <2>1, <2>2
<1>7. \A i \in 1..Len(Files(s)) : Files(s)[i] \in ToSet(Files(s))
  BY FilesFacts
<1>8. /\ disk'[s][f] = Generate(s, f, o)
      /\ \A i \in 1..Len(Files(s)) : i # n => disk'[s][Files(s)[i]] = disk[s][Files(s)[i]]
  BY <1>1, <1>5, <1>6, <1>7, FilesFacts
<1>9. ConfTypes'
  <2>1. \A t \in Services : disk'[t] = [g \in ToSet(Files(t)) |-> disk'[t][g]]
    BY <1>6 DEF ConfInv, ConfTypes
  <2>2. job' \in [Writers -> Jobs] /\ whole' \in [Services -> Options \cup {None}]
    BY <1>1, <1>2, <1>3 DEF ConfInv, ConfTypes
  <2>3. \A v \in Writers : job'[v].pc # "idle" => /\ job'[v].svc \in Services
                                                 /\ job'[v].opts \in Options
                                                 /\ job'[v].next \in 1..Len(Files(job'[v].svc))
    <3>1. k.pc # "idle" => k.next \in 1..Len(Files(s))
      BY <1>1, <1>3, FilesFacts
    <3> QED
      BY <1>1, <1>3, <1>4, <3>1 DEF ConfInv, ConfTypes
  <2> QED
    BY <1>1, <1>6, <2>1, <2>2, <2>3 DEF ConfInv, ConfTypes
<1>10. InOrder'
  <2>1. \A t \in Services, i \in Nat : t # s => (Stands(t, i)' <=> Stands(t, i))
    BY <1>6 DEF Stands
  <2>2. \A i \in 1..Len(Files(s)) : Stands(s, i)' <=> (Stands(s, i) \/ i = n)
    BY <1>5, <1>8 DEF Stands
  <2>3. \A i \in 1..(n - 1) : Stands(s, i)
    BY <1>1 DEF ConfInv, InOrder
  <2>4. ASSUME NEW t \in Services, NEW j \in 1..Len(Files(t)), Stands(t, j)', NEW i \in 1..(j - 1)
        PROVE  Stands(t, i)'
    <3>1. Len(Files(t)) \in Nat /\ i \in 1..Len(Files(t)) /\ i \in Nat /\ j \in Nat
      BY FilesFacts
    <3>2. CASE t # s
      BY <2>1, <2>4, <3>1, <3>2 DEF ConfInv, InOrder
    <3>3. CASE t = s /\ Stands(s, j)
      BY <2>2, <3>1, <3>3 DEF ConfInv, InOrder
    <3>4. CASE t = s /\ j = n
      BY <2>2, <2>3, <3>1, <3>4
    <3> QED
      BY <2>2, <2>4, <3>2, <3>3, <3>4
  <2>5. ASSUME NEW v \in Writers, job'[v].pc = "write", NEW i \in 1..(job'[v].next - 1)
        PROVE  disk'[job'[v].svc][Files(job'[v].svc)[i]] # None
    <3>1. CASE v = w
      <4>1. k.next = n + 1 /\ k.svc = s
        BY <1>3, <1>4, <2>5, <3>1
      <4>2. i \in 1..Len(Files(s)) /\ (i = n \/ i \in 1..(n - 1))
        BY <1>1, <1>4, <2>5, <3>1, <4>1, FilesFacts
      <4> QED
        BY <1>4, <2>2, <2>3, <3>1, <4>1, <4>2 DEF Stands
    <3>2. CASE v # w
      <4>1. job[v].pc = "write" /\ job'[v] = job[v] /\ Stands(job[v].svc, i)
        BY <1>4, <2>5, <3>2 DEF ConfInv, InOrder
      <4>2. job[v].svc \in Services /\ job[v].next \in 1..Len(Files(job[v].svc))
        BY <4>1 DEF ConfInv, ConfTypes
      <4>3. i \in 1..Len(Files(job[v].svc)) /\ i \in Nat
        BY <2>5, <4>1, <4>2, FilesFacts
      <4> QED
        BY <2>1, <2>2, <4>1, <4>2, <4>3 DEF Stands
    <3> QED
      BY <3>1, <3>2
  <2> QED
    BY <2>4, <2>5 DEF InOrder, Stands
<1>11. job[w].alone => /\ \A i \in 1..n : disk'[s][Files(s)[i]] = Generate(s, Files(s)[i], o)
                       /\ last => disk'[s] = Made(s, o)
  <2> SUFFICES ASSUME job[w].alone
               PROVE  /\ \A i \in 1..n : disk'[s][Files(s)[i]] = Generate(s, Files(s)[i], o)
                      /\ last => disk'[s] = Made(s, o)
    OBVIOUS
  <2>1. \A i \in 1..(n - 1) : disk[s][Files(s)[i]] = Generate(s, Files(s)[i], o)
    BY <1>1 DEF ConfInv, LeftAlone, OwnFiles
  <2>2. \A i \in 1..n : /\ i \in 1..Len(Files(s))
                         /\ disk'[s][Files(s)[i]] = Generate(s, Files(s)[i], o)
    BY <1>1, <1>8, <2>1, FilesFacts
  <2>3. ASSUME last
        PROVE  disk'[s] = Made(s, o)
    <3>1. \A g \in ToSet(Files(s)) : disk'[s][g] = Generate(s, g, o)
      BY <2>2, <2>3, FilesFacts
    <3> QED
      BY <1>6, <3>1 DEF Made
  <2> QED
    BY <2>2, <2>3
<1>12. ASSUME NEW v \in Writers, job'[v].pc # "idle", job'[v].alone
       PROVE  OwnFiles(v)'
  <2>1. CASE v = w
    <3>1. k.svc = s /\ k.opts = o /\ job[w].alone
      BY <1>3, <1>4, <1>12, <2>1
    <3>2. \A u \in Writers : u # w /\ job'[u].pc # "idle" => job'[u].svc # s
      BY <1>1, <1>4, <3>1 DEF ConfInv, LeftAlone, OwnFiles
    <3>3. k.pc = "write" => k.next - 1 = n
      BY <1>1, <1>3
    <3>4. k.pc # "write" => k.pc = "validate" /\ disk'[s] = Made(s, o)
      BY <1>3, <1>4, <1>11, <1>12, <2>1, <3>1
    <3> QED
      BY <1>4, <1>11, <2>1, <3>1, <3>2, <3>3, <3>4 DEF OwnFiles
  <2>2. CASE v # w
    <3>1. job'[v] = job[v] /\ OwnFiles(v) /\ job[v].svc \in Services
      BY <1>4, <1>12, <2>2 DEF ConfInv, LeftAlone, ConfTypes
    <3>2. job[v].svc # s
      BY <1>1, <2>2, <3>1 DEF OwnFiles
    <3>3. \A u \in Writers : u # v /\ job'[u].pc # "idle" => job'[u].svc # job[v].svc
      BY <1>3, <1>4, <3>1, <3>2 DEF OwnFiles
    <3>4. disk'[job[v].svc] = disk[job[v].svc]
      BY <1>6, <3>1, <3>2
    <3> QED
      BY <1>1, <3>1, <3>3, <3>4 DEF OwnFiles, Installed
  <2> QED
    BY <2>1, <2>2
<1>13. LeftAlone'
  BY <1>1, <1>3, <1>4, <1>12 DEF ConfInv, LeftAlone, Installed
<1>14. OneMaking'
  <2>1. \A t \in Services : whole'[t] = IF t = s THEN IF last /\ job[w].alone THEN o ELSE None
                                         ELSE whole[t]
    BY <1>2 DEF ConfInv, ConfTypes
  <2> QED
    BY <1>6, <1>11, <2>1 DEF ConfInv, OneMaking
<1> QED
  BY <1>1, <1>9, <1>10, <1>13, <1>14 DEF ConfInv, AppliedIsAccepted

(* The steps of ApplyConfig after the last file, and a failure. *)
LEMMA ApplyStep ==
  ASSUME ConfInv, NEW w \in Writers,
         \/ ApplyValidate(w) \/ ApplyStatus(w) \/ ApplyReload(w)
         \/ \E s \in Services : WriteFails(w, s)
  PROVE  ConfInv'
<1>1. /\ job[w] \in Jobs /\ UNCHANGED <<disk, whole>> /\ job \in [Writers -> Jobs]
      /\ job[w].pc # "idle" => job[w].svc \in Services
      /\ daemon \in [Services -> DaemonStates] /\ AppliedIsAccepted
  BY DEF ConfInv, ConfTypes, ApplyValidate, ApplyStatus, ApplyReload, WriteFails
<1>2. faults' \in 0..MaxFaults
  BY ServerAssumption DEF ConfInv, ConfTypes, ApplyValidate, ApplyStatus, ApplyReload, WriteFails
<1>3. UNCHANGED daemon => SameInstalled /\ AppliedIsAccepted'
  BY <1>1 DEF SameInstalled, AppliedIsAccepted
<1>4. CASE Fail(w) /\ UNCHANGED daemon
  BY <1>1, <1>2, <1>3, <1>4, IdleJob, JobStep DEF Fail
<1>5. CASE ApplyValidate(w) /\ ~Fail(w)
  <2> DEFINE k == [job[w] EXCEPT !.pc = "status"]
             s == job[w].svc
  <2>1. job[w].pc = "validate" /\ Validate(s, disk[s], Installed(s)) /\ UNCHANGED daemon
        /\ job' = [job EXCEPT ![w] = k]
    BY <1>5 DEF ApplyValidate
  <2>2. Installed(s) => ~Refuses(disk[s])
    BY <2>1 DEF Validate, PostfixValidate, DovecotValidate
  <2>3. /\ k \in Jobs /\ k.pc = "status" /\ k.svc = s /\ k.opts = job[w].opts
        /\ k.next = job[w].next /\ k.alone = job[w].alone
    BY <1>1 DEF Jobs
  <2> HIDE DEF k
  <2> QED
    BY <1>1, <1>2, <1>3, <2>1, <2>2, <2>3, JobStep
<1>6. CASE ApplyStatus(w) /\ ~Fail(w)
  <2> DEFINE k == [job[w] EXCEPT !.pc = "reload"]
             s == job[w].svc
  <2>1. job[w].pc = "status" /\ daemon[s].state = "running" /\ UNCHANGED daemon
        /\ job' = [job EXCEPT ![w] = k]
    BY <1>6 DEF ApplyStatus
  <2>2. Installed(s) /\ (job[w].alone => ~Refuses(disk[s]))
    BY <2>1 DEF Installed, ConfInv, LeftAlone, OwnFiles
  <2>3. /\ k \in Jobs /\ k.pc = "reload" /\ k.svc = s /\ k.opts = job[w].opts
        /\ k.next = job[w].next /\ k.alone = job[w].alone
    BY <1>1 DEF Jobs
  <2> HIDE DEF k
  <2> QED
    BY <1>1, <1>2, <1>3, <2>1, <2>2, <2>3, JobStep
<1>7. CASE ApplyReload(w)
  <2> DEFINE s == job[w].svc
             how == IF job[w].alone THEN "apply" ELSE "shared"
  <2>1. /\ job[w].pc = "reload" /\ s \in Services /\ Installed(s) /\ Fail(w)
        /\ job[w].opts \in Options
    BY <1>7 DEF ApplyReload, Fail, ConfInv, ConfTypes, LeftAlone
  <2>2. UNCHANGED daemon \/ daemon' = Loaded(s, how)
    BY <1>7 DEF ApplyReload
  <2>3. how \in {"apply", "shared"} /\ (how = "apply" => job[w].alone)
    OBVIOUS
  <2>4. job[w].alone => ~Refuses(disk[s]) /\ \E o \in Options : disk[s] = Made(s, o)
    BY <2>1 DEF ConfInv, LeftAlone, OwnFiles
  <2> HIDE DEF how
  <2>5. SameInstalled /\ AppliedIsAccepted'
    BY <1>3, <2>1, <2>2, <2>3, <2>4, LoadedKeeps
  <2> QED
    BY <1>1, <1>2, <2>1, <2>5, IdleJob, JobStep DEF Fail
<1> QED
  BY <1>4, <1>5, <1>6, <1>7 DEF ApplyValidate, ApplyStatus, WriteFails

LEMMA NextConf == ConfInv /\ [ConfNext]_confvars => ConfInv'
<1> SUFFICES ASSUME ConfInv, [ConfNext]_confvars PROVE ConfInv'
  OBVIOUS
<1>0. "postfix" \in Services /\ "dovecot" \in Services
  BY DEF Services
<1>1. ASSUME NEW w \in Writers, \/ PostfixGenerateCommand(w) \/ PostfixApplyConfig(w)
                                 \/ DovecotGenerateCommand(w) \/ DovecotApplyConfig(w)
      PROVE  ConfInv'
  BY <1>0, <1>1, StartStep
  DEF PostfixGenerateCommand, PostfixApplyConfig, DovecotGenerateCommand, DovecotApplyConfig
<1>2. ASSUME NEW w \in Writers, PostfixWriteConfigs(w) \/ DovecotWriteConfigs(w)
      PROVE  ConfInv'
  BY <1>0, <1>2, WriteStep DEF PostfixWriteConfigs, DovecotWriteConfigs
<1>3. ASSUME NEW w \in Writers, \/ PostfixAtomicWrite(w) \/ DovecotAtomicWrite(w)
                                 \/ ApplyValidate(w) \/ ApplyStatus(w) \/ ApplyReload(w)
      PROVE  ConfInv'
  BY <1>0, <1>3, ApplyStep DEF PostfixAtomicWrite, DovecotAtomicWrite
<1>4. ASSUME NEW s \in Services, NEW how \in {"command", "start"}, Installed(s),
             daemon' = Loaded(s, how), UNCHANGED <<disk, job, whole, faults>>
      PROVE  ConfInv'
  BY <1>4, LoadedKeeps, DaemonStep
<1>5. CASE PostfixReload \/ PostfixStart \/ DovecotReload \/ DovecotStart
  BY <1>0, <1>4, <1>5 DEF PostfixReload, PostfixStart, DovecotReload, DovecotStart, Installed
<1>6. ASSUME NEW s \in Services, Stopped(s)
      PROVE  ConfInv'
  <2>1. daemon \in [Services -> DaemonStates] /\ AppliedIsAccepted /\ daemon[s].state = "running"
        /\ daemon' = [daemon EXCEPT ![s] = AtRest("stopped")]
    BY <1>6 DEF Stopped, ConfInv, ConfTypes
  <2>2. SameInstalled /\ AppliedIsAccepted'
    BY <2>1, AtRestState DEF SameInstalled, AppliedIsAccepted
  <2> QED
    BY <1>6, <2>2, DaemonStep DEF Stopped
<1>7. CASE UNCHANGED confvars
  BY <1>7 DEF confvars, ConfInv, ConfTypes, InOrder, Stands, LeftAlone, OwnFiles, Installed,
              OneMaking, AppliedIsAccepted
<1> QED
  BY <1>0, <1>1, <1>2, <1>3, <1>5, <1>6, <1>7
  DEF ConfNext, PostfixNext, DovecotNext, PostfixStop, DovecotStop

(* The inductive invariant of the configuration files. *)
THEOREM ConfInvariant == ConfSpec => []ConfInv
BY InitConf, NextConf, PTL DEF ConfSpec

(* Files, commands and daemons stay in their types. *)
THEOREM ConfTypeCorrect == ConfSpec => []ConfTypeOK
<1>1. ConfInv => ConfTypeOK
  BY DEF ConfInv, ConfTypes, ConfTypeOK, DaemonStates
<1> QED
  BY <1>1, ConfInvariant, PTL

(* What stands after file j, stands before it. *)
LEMMA StandsBefore ==
  ASSUME ConfInv, NEW s \in Services, NEW j \in 1..Len(Files(s)), Stands(s, j)
  PROVE  \A i \in 1..j : Stands(s, i)
<1>1. Len(Files(s)) \in Nat
  BY FilesFacts
<1>2. \A i \in 1..j : i = j \/ i \in 1..(j - 1)
  BY <1>1
<1> QED
  BY <1>2 DEF ConfInv, InOrder

LEMMA DovecotIsComplete ==
  ASSUME ConfInv, disk["dovecot"]["pgsql.conf"] # None
  PROVE  Missing("dovecot", disk["dovecot"]) = {}
<1>1. Files("dovecot") = DovecotFiles /\ "dovecot" \in Services
  BY DEF Files, Services
<1>2. Len(DovecotFiles) = 7 /\ DovecotFiles[7] = "pgsql.conf"
  BY DEF DovecotFiles
<1>3. Len(Files("dovecot")) = 7 /\ Stands("dovecot", 7)
  BY <1>1, <1>2, Zenon DEF Stands
<1>4. \A i \in 1..7 : Stands("dovecot", i)
  <2>0. 7 \in 1..7
    OBVIOUS
  <2>1. 7 \in 1..Len(Files("dovecot"))
    BY <1>3, <2>0, Zenon
  <2> QED
    BY <1>1, <1>3, <2>1, StandsBefore, Zenon
<1> QED
  BY <1>1, <1>3, <1>4, FilesFacts DEF Missing, Stands

LEMMA PostfixIsComplete ==
  ASSUME ConfInv
  PROVE  /\ disk["postfix"]["alias.cf"] # None =>
              Missing("postfix", disk["postfix"]) \subseteq {"sender.cf"}
         /\ disk["postfix"]["master.cf"] # None => disk["postfix"]["main.cf"] # None
<1>1. Files("postfix") = PostfixFiles /\ "postfix" \in Services
  BY DEF Files, Services
<1>2. /\ Len(PostfixFiles) = 6 /\ PostfixFiles[1] = "main.cf" /\ PostfixFiles[2] = "master.cf"
      /\ PostfixFiles[5] = "alias.cf" /\ PostfixFiles[6] = "sender.cf"
  BY DEF PostfixFiles
<1>3. /\ Len(Files("postfix")) = 6 /\ Files("postfix")[1] = "main.cf"
      /\ Files("postfix")[2] = "master.cf" /\ Files("postfix")[5] = "alias.cf"
      /\ Files("postfix")[6] = "sender.cf"
  BY <1>1, <1>2, Zenon
<1>4. ASSUME disk["postfix"]["alias.cf"] # None
      PROVE  Missing("postfix", disk["postfix"]) \subseteq {"sender.cf"}
  <2>1. Stands("postfix", 5)
    BY <1>3, <1>4, Zenon DEF Stands
  <2>2. \A i \in 1..5 : Stands("postfix", i)
    BY <1>1, <1>3, <2>1, StandsBefore
  <2>3. ASSUME NEW f \in Missing("postfix", disk["postfix"])
        PROVE  f = "sender.cf"
    <3>1. PICK i \in 1..6 : f = Files("postfix")[i]
      BY <1>1, <1>3, FilesFacts DEF Missing
    <3>2. ~Stands("postfix", i)
      BY <3>1 DEF Missing, Stands
    <3>3. i = 6
      BY <2>2, <3>2
    <3> QED
      BY <1>3, <3>1, <3>3
  <2> QED
    BY <2>3
<1>5. ASSUME disk["postfix"]["master.cf"] # None
      PROVE  disk["postfix"]["main.cf"] # None
  <2>1. Stands("postfix", 2)
    BY <1>3, <1>5, Zenon DEF Stands
  <2>2. \A i \in 1..2 : Stands("postfix", i)
    BY <1>1, <1>3, <2>1, StandsBefore
  <2>3. Stands("postfix", 1)
    BY <2>2
  <2> QED
    BY <1>3, <2>3, Zenon DEF Stands
<1> QED
  BY <1>4, <1>5

(* Each file is replaced by a rename, the directory is not: still, what    *)
(* one writer left alone makes is one whole set, what ApplyConfig left     *)
(* alone makes a daemon load is a set that the daemon accepts, and neither *)
(* Validate nor a doctor is content with a part of the first set, however  *)
(* many commands cross each other, fail or die between two files.          *)
THEOREM ConfigurationStaysWhole == ConfSpec => []ConfigurationIsWhole
<1>1. ConfInv => ValidMeansComplete
  <2>1. DovecotValidateCommand(disk["dovecot"], Env("dovecot")) = "VALID" =>
          disk["dovecot"]["pgsql.conf"] # None
    BY DEF DovecotValidateCommand, DovecotValidate, DovecotChecked
  <2>2. PostfixValidateCommand(disk["postfix"], Env("postfix")) = "VALID" =>
          disk["postfix"]["alias.cf"] # None
    BY DEF PostfixValidateCommand, PostfixValidate, PostfixChecked
  <2> QED
    BY <2>1, <2>2, DovecotIsComplete, PostfixIsComplete DEF ValidMeansComplete
<1>2. ConfInv => HealthyMeansComplete
  <2>1. DovecotDoctorCommand(disk["dovecot"], Env("dovecot")) = "HEALTHY" =>
          disk["dovecot"]["pgsql.conf"] # None
    BY DEF DovecotDoctorCommand, Result, DovecotDoctor
  <2>2. PostfixDoctorCommand(disk["postfix"], Env("postfix")) = "HEALTHY" =>
          disk["postfix"]["alias.cf"] # None
    BY DEF PostfixDoctorCommand, Result, PostfixDoctor
  <2>3. SubmissionDoctorCommand(disk["postfix"], Env("postfix")) = "HEALTHY" =>
          disk["postfix"]["master.cf"] # None
    BY DEF SubmissionDoctorCommand, Result, SubmissionDoctor
  <2> QED
    BY <2>1, <2>2, <2>3, DovecotIsComplete, PostfixIsComplete DEF HealthyMeansComplete
<1>3. ConfInv => ConfigurationIsWhole
  BY <1>1, <1>2 DEF ConfInv, ConfigurationIsWhole
<1> QED
  BY <1>3, ConfInvariant, PTL

-----------------------------------------------------------------------------
(* The TLS certificate *)

(* A request under way carries a pair that was validated. *)
Installing ==
  [pc : {"key", "cert", "reload"}, cert : Certificates, key : PublicKeys,
   cli : BOOLEAN, alone : BOOLEAN]

Verdicts ==
  {"none", "not found", "invalid PEM", "invalid key", "mismatch", "wrong host", "expired", "ok"}

View ==
  [pc : {"idle", "key"}, cert : Certificates \cup {Absent}, fits : BOOLEAN, calm : BOOLEAN,
   days : Int, verdict : Verdicts]

TLSTypes ==
  /\ certFile \in Certificates \cup {Absent}
  /\ keyFile \in PublicKeys \cup {Absent}
  /\ inst \in [Installers -> Installing \cup {NoInstall}]
  /\ view \in View
  /\ DOMAIN served = Daemons
  /\ torn \in BOOLEAN /\ now \in 0..MaxNow /\ breaks \in 0..MaxBreaks

(* What was accepted fits and names the host, on its way and on disk. *)
Validated ==
  /\ \A i \in Installers : inst[i] \in Installing => inst[i].cert.pub = inst[i].key /\ inst[i].cert.host
  /\ certFile # Absent => certFile.host

(* An installer that is still alone met no other, so the key on disk is    *)
(* its own, and a certificate is there when the daemons are told.          *)
InstallsAlone ==
  \A i \in Installers :
    /\ inst[i] # NoInstall /\ inst[i].alone =>
         /\ \A j \in Installers : j # i => inst[j] = NoInstall
         /\ inst[i].pc = "cert" => keyFile = inst[i].key
    /\ inst[i].pc \in {"cert", "reload"} => keyFile # Absent
    /\ inst[i].pc = "reload" => certFile # Absent

(* The reader holds a certificate that was on disk, and if nothing crossed *)
(* it, the one that still is.                                              *)
Reading ==
  /\ view.pc = "key" =>
       /\ view.cert \in Certificates /\ view.cert.host
       /\ view.calm => ~torn /\ view.cert = certFile
  /\ view.pc = "idle" /\ view.verdict = "ok" => view.fits /\ view.days \in Nat

TLSInv == TLSTypes /\ Validated /\ InstallsAlone /\ Reading /\ PairMatches /\ NoFalseAlarm

LEMMA IdleIsNotInstalling == NoInstall \notin Installing
BY DEF NoInstall, Installing

LEMMA FitsTogether ==
  ASSUME NEW c \in Certificates, NEW k \in PublicKeys, now \in Int, ValidateBytes(c, k) = "ok"
  PROVE  c.pub = k /\ c.host /\ c.valid.from <= now /\ now <= c.valid.until
BY TLSAssumption
DEF ValidateBytes, ParseCertificates, ParsePrivateKey, PublicKeyMatches, Expired, Certificates

LEMMA InitTLSInv == TLSInit => TLSInv
<1> SUFFICES ASSUME TLSInit PROVE TLSInv
  OBVIOUS
<1>1. \A i \in Installers : inst[i] = NoInstall /\ inst[i].pc = "idle"
  BY DEF TLSInit, NoInstall
<1>2. TLSTypes
  <2>1. inst \in [Installers -> Installing \cup {NoInstall}] /\ DOMAIN served = Daemons
    BY DEF TLSInit
  <2>2. 0 \in 0..MaxNow /\ 0 \in 0..MaxBreaks
    BY TLSAssumption
  <2>3. view \in View
    BY DEF TLSInit, View, Verdicts, NoView
  <2> QED
    BY <2>1, <2>2, <2>3 DEF TLSInit, TLSTypes
<1>3. Validated /\ InstallsAlone
  BY <1>1, IdleIsNotInstalling DEF TLSInit, Validated, InstallsAlone
<1>4. Reading /\ NoFalseAlarm
  BY DEF TLSInit, Reading, NoFalseAlarm, NoView
<1>5. PairMatches
  BY TLSAssumption DEF TLSInit, PairMatches
<1> QED
  BY <1>2, <1>3, <1>4, <1>5 DEF TLSInv

LEMMA AcceptStep ==
  ASSUME TLSInv, NEW i \in Installers, NEW in \in Inputs, NEW cli \in BOOLEAN,
         Accept(i, in.cert, in.key, cli)
  PROVE  TLSInv'
<1> DEFINE own == [pc |-> "key", cert |-> in.cert, key |-> in.key, cli |-> cli, alone |-> Busy = {}]
<1>1. in.cert \in Certificates /\ in.key \in PublicKeys
  BY TLSAssumption DEF Accept, Inputs, ValidateBytes, ParseCertificates, ParsePrivateKey
<1>2. in.cert.pub = in.key /\ in.cert.host
  BY <1>1, FitsTogether, TLSAssumption DEF Accept, TLSInv, TLSTypes
<1>3. own \in Installing /\ own # NoInstall
  BY <1>1 DEF Installing, NoInstall
<1>4. inst' = [j \in Installers |->
         IF j = i THEN own ELSE IF j \in Busy THEN [inst[j] EXCEPT !.alone = FALSE] ELSE inst[j]]
  BY DEF Accept
<1>5. inst'[i] = own
  BY <1>4
<1>6. ASSUME NEW j \in Installers, j # i
      PROVE  \/ inst[j] = NoInstall /\ inst'[j] = NoInstall /\ j \notin Busy
             \/ /\ inst[j] \in Installing /\ j \in Busy
                /\ inst'[j] = [inst[j] EXCEPT !.alone = FALSE]
                /\ inst'[j] \in Installing
  <2>1. inst[j] \in Installing \/ inst[j] = NoInstall
    BY DEF TLSInv, TLSTypes
  <2>2. inst'[j] = IF j \in Busy THEN [inst[j] EXCEPT !.alone = FALSE] ELSE inst[j]
    BY <1>4, <1>6
  <2>3. CASE inst[j] = NoInstall
    <3>1. j \notin Busy
      BY <2>3 DEF Busy, NoInstall
    <3> QED
      BY <2>2, <2>3, <3>1
  <2>4. CASE inst[j] \in Installing
    <3>1. j \in Busy
      BY <2>4 DEF Busy, Installing
    <3>2. [inst[j] EXCEPT !.alone = FALSE] \in Installing
      BY <2>4 DEF Installing
    <3> QED
      BY <2>2, <2>4, <3>1, <3>2
  <2> QED
    BY <2>1, <2>3, <2>4
<1>7. UNCHANGED <<certFile, keyFile, view, served, torn, now, breaks>>
  BY DEF Accept
<1>8. TLSTypes'
  BY <1>3, <1>4, <1>5, <1>6, <1>7 DEF TLSInv, TLSTypes
<1>9. Validated'
  <2>1. ASSUME NEW j \in Installers, inst'[j] \in Installing
        PROVE  inst'[j].cert.pub = inst'[j].key /\ inst'[j].cert.host
    <3>1. CASE j = i
      BY <3>1, <1>2, <1>5
    <3>2. CASE j # i
      <4>1. inst[j] \in Installing /\ inst'[j] = [inst[j] EXCEPT !.alone = FALSE]
        BY <2>1, <3>2, <1>6, IdleIsNotInstalling
      <4>2. inst'[j].cert = inst[j].cert /\ inst'[j].key = inst[j].key
        BY <4>1 DEF Installing
      <4> QED
        BY <4>1, <4>2 DEF TLSInv, Validated
    <3> QED
      BY <3>1, <3>2
  <2> QED
    BY <2>1, <1>7 DEF TLSInv, Validated
<1>10. InstallsAlone'
  <2>1. ASSUME NEW j \in Installers, j # i
        PROVE  /\ inst'[j] # NoInstall => inst'[j].alone = FALSE
               /\ inst'[j].pc = inst[j].pc
    <3>1. CASE inst[j] = NoInstall /\ inst'[j] = NoInstall
      BY <3>1
    <3>2. CASE inst[j] \in Installing /\ inst'[j] = [inst[j] EXCEPT !.alone = FALSE]
      BY <3>2 DEF Installing
    <3> QED
      BY <2>1, <3>1, <3>2, <1>6
  <2>2. ASSUME inst'[i].alone PROVE \A j \in Installers : j # i => inst'[j] = NoInstall
    <3>1. own.alone <=> Busy = {}
      OBVIOUS
    <3>2. Busy = {}
      BY <2>2, <1>5, <3>1, Zenon
    <3> QED
      BY <3>2, <1>6
  <2>3. inst'[i].pc = "key"
    BY <1>5
  <2> QED
    BY <2>1, <2>2, <2>3, <1>7 DEF TLSInv, InstallsAlone
<1> QED
  BY <1>7, <1>8, <1>9, <1>10 DEF TLSInv, Reading, PairMatches, NoFalseAlarm

LEMMA InstallKeyStep ==
  ASSUME TLSInv, NEW i \in Installers, InstallKey(i)
  PROVE  TLSInv'
<1>1. inst[i] \in Installing
  BY DEF InstallKey, TLSInv, TLSTypes, NoInstall
<1>2. /\ inst'[i] = [inst[i] EXCEPT !.pc = "cert"] /\ inst'[i] \in Installing
      /\ \A j \in Installers \ {i} : inst'[j] = inst[j]
      /\ inst' \in [Installers -> Installing \cup {NoInstall}]
  BY <1>1 DEF InstallKey, TLSInv, TLSTypes, Installing
<1>3. /\ keyFile' = inst[i].key /\ inst[i].key \in PublicKeys /\ keyFile' # Absent
      /\ torn' = TRUE /\ view' = Disturb(view)
      /\ UNCHANGED <<certFile, served, now, breaks>>
  BY <1>1, TLSAssumption DEF InstallKey, Installing
<1>4. TLSTypes'
  <2>1. view' \in View
    BY <1>3 DEF TLSInv, TLSTypes, View, Disturb
  <2> QED
    BY <1>2, <1>3, <2>1 DEF TLSInv, TLSTypes
<1>5. Validated'
  BY <1>1, <1>2, <1>3 DEF TLSInv, Validated, Installing
<1>6. InstallsAlone'
  BY <1>1, <1>2, <1>3, IdleIsNotInstalling DEF TLSInv, InstallsAlone, Installing
<1>7. Reading' /\ NoFalseAlarm'
  BY <1>3 DEF TLSInv, TLSTypes, View, Reading, NoFalseAlarm, Disturb
<1>8. PairMatches'
  BY <1>3 DEF TLSInv, PairMatches
<1> QED
  BY <1>4, <1>5, <1>6, <1>7, <1>8 DEF TLSInv
LEMMA InstallCertStep ==
  ASSUME TLSInv, NEW i \in Installers, InstallCert(i)
  PROVE  TLSInv'
<1>1. inst[i] \in Installing /\ inst[i].pc = "cert" /\ inst[i] # NoInstall
  BY DEF InstallCert, TLSInv, TLSTypes, NoInstall
<1>2. \/ inst'[i] = NoInstall
      \/ inst'[i] = [inst[i] EXCEPT !.pc = "reload"] /\ inst'[i] \in Installing
  BY <1>1 DEF InstallCert, TLSInv, TLSTypes, Installing
<1>3. /\ \A j \in Installers \ {i} : inst'[j] = inst[j]
      /\ inst' \in [Installers -> Installing \cup {NoInstall}]
  BY <1>2 DEF InstallCert, TLSInv, TLSTypes
<1>4. /\ certFile' = inst[i].cert /\ certFile' \in Certificates /\ certFile' # Absent
      /\ torn' = ~inst[i].alone /\ torn' \in BOOLEAN
      /\ view' = Disturb(view)
      /\ UNCHANGED <<keyFile, served, now, breaks>>
  BY <1>1, TLSAssumption DEF InstallCert, Installing
<1>5. TLSTypes'
  <2>1. view' \in View
    BY <1>4 DEF TLSInv, TLSTypes, View, Disturb
  <2> QED
    BY <1>3, <1>4, <2>1 DEF TLSInv, TLSTypes
<1>6. Validated'
  <2>1. certFile'.host
    BY <1>1, <1>4 DEF TLSInv, Validated
  <2>2. inst'[i] \in Installing => inst'[i].cert = inst[i].cert /\ inst'[i].key = inst[i].key
    BY <1>1, <1>2, IdleIsNotInstalling DEF Installing
  <2> QED
    BY <1>1, <1>3, <2>1, <2>2 DEF TLSInv, Validated
<1>7. InstallsAlone'
  <2>1. keyFile' # Absent /\ certFile' # Absent
    BY <1>1, <1>4 DEF TLSInv, InstallsAlone
  <2>2. inst'[i].pc # "cert" /\ (inst'[i] # NoInstall => inst'[i].alone = inst[i].alone)
    BY <1>1, <1>2 DEF Installing, NoInstall
  <2>3. ASSUME NEW j \in Installers \ {i}, inst'[j] # NoInstall, inst'[j].alone
        PROVE  FALSE
    BY <2>3, <1>1, <1>3 DEF TLSInv, InstallsAlone
  <2> QED
    BY <1>1, <1>3, <2>1, <2>2, <2>3 DEF TLSInv, InstallsAlone
<1>8. Reading' /\ NoFalseAlarm'
  BY <1>4 DEF TLSInv, TLSTypes, View, Reading, NoFalseAlarm, Disturb
<1>9. PairMatches'
  BY <1>1, <1>4 DEF TLSInv, PairMatches, InstallsAlone, Validated
<1> QED
  BY <1>5, <1>6, <1>7, <1>8, <1>9 DEF TLSInv

(* What a daemon loads is never a whole pair that does not fit. *)
LEMMA PairIsNoMismatch ==
  ASSUME TLSInv, certFile # Absent
  PROVE  Pair # "mismatch"
BY DEF TLSInv, PairMatches, Pair, PublicKeyMatches

(* An installer that ends leaves the others no less alone. *)
LEMMA EndStep ==
  ASSUME TLSInv, NEW i \in Installers, inst[i] # NoInstall,
         inst' = [inst EXCEPT ![i] = NoInstall],
         UNCHANGED <<certFile, keyFile, view, torn, now>>,
         breaks' \in 0..MaxBreaks,
         DOMAIN served' = Daemons, \A d \in Daemons : served'[d] # "mismatch"
  PROVE  TLSInv'
<1>1. /\ inst'[i] = NoInstall /\ \A j \in Installers \ {i} : inst'[j] = inst[j]
      /\ inst' \in [Installers -> Installing \cup {NoInstall}]
  BY DEF TLSInv, TLSTypes
<1>2. TLSTypes'
  BY <1>1 DEF TLSInv, TLSTypes
<1>3. Validated'
  BY <1>1, IdleIsNotInstalling DEF TLSInv, Validated
<1>4. InstallsAlone'
  BY <1>1 DEF TLSInv, InstallsAlone, NoInstall
<1> QED
  BY <1>2, <1>3, <1>4 DEF TLSInv, Reading, NoFalseAlarm, PairMatches

LEMMA ReadCertStep ==
  ASSUME TLSInv, ReadCert
  PROVE  TLSInv'
<1>1. UNCHANGED <<certFile, keyFile, inst, served, torn, now, breaks>>
  BY DEF ReadCert
<1>2. CASE certFile = Absent
  <2>1. view' = [pc |-> "idle", cert |-> Absent, fits |-> FALSE, calm |-> TRUE, days |-> 0,
                 verdict |-> "not found"]
    BY <1>2 DEF ReadCert, NoView
  <2>3. view' \in View
    <3>1. Absent \in Certificates \cup {Absent} /\ 0 \in Int /\ "not found" \in Verdicts
      BY DEF Verdicts
    <3> QED
      BY <2>1, <3>1 DEF View
  <2>2. view'.pc = "idle" /\ view'.verdict = "not found"
    BY <2>1 DEF NoView
  <2> QED
    BY <1>1, <2>2, <2>3 DEF TLSInv, TLSTypes, Validated, InstallsAlone, Reading, NoFalseAlarm, PairMatches
<1>3. CASE certFile # Absent
  <2>1. view' = [NoView EXCEPT !.pc = "key", !.cert = certFile, !.calm = ~torn]
    BY <1>3 DEF ReadCert
  <2>2. /\ view'.pc = "key" /\ view'.cert = certFile
        /\ view'.calm <=> ~torn
        /\ view' \in View
    <3>1. view' = [pc |-> "key", cert |-> certFile, fits |-> FALSE, calm |-> ~torn, days |-> 0, verdict |-> "none"]
      BY <2>1 DEF NoView
    <3>2. certFile \in Certificates \cup {Absent} /\ (~torn) \in BOOLEAN
      BY DEF TLSInv, TLSTypes
    <3>3. view' \in View
      BY <3>1, <3>2 DEF View, Verdicts
    <3>4. view'.calm <=> ~torn
      BY <3>1, <3>2
    <3> QED
      BY <3>1, <3>3, <3>4
  <2>3. certFile \in Certificates /\ certFile.host
    BY <1>3 DEF TLSInv, TLSTypes, Validated
  <2> QED
    BY <1>1, <2>2, <2>3 DEF TLSInv, TLSTypes, Validated, InstallsAlone, Reading, NoFalseAlarm, PairMatches
<1> QED
  BY <1>2, <1>3

LEMMA ReadKeyStep ==
  ASSUME TLSInv, ReadKey
  PROVE  TLSInv'
<1>1. UNCHANGED <<certFile, keyFile, inst, served, torn, now, breaks>>
  BY DEF ReadKey
<1>2. view.cert \in Certificates /\ view.cert.host /\ view \in View
  BY DEF ReadKey, TLSInv, Reading, TLSTypes
<1>3. now \in Int /\ view.cert.valid.until \in Int
  BY <1>2, TLSAssumption DEF TLSInv, TLSTypes, Certificates
<1>4. ValidateBytes(view.cert, keyFile) \in Verdicts
  BY DEF ValidateBytes, Verdicts
<1> DEFINE verdict == IF keyFile = Absent THEN "not found" ELSE ValidateBytes(view.cert, keyFile)
<1>5. /\ view'.pc = "idle" /\ view'.calm = view.calm
      /\ view'.fits <=> (keyFile # Absent /\ view.cert.pub = keyFile)
      /\ view'.days = view.cert.valid.until - now
      /\ view'.verdict = verdict
      /\ view' \in View
  <2> DEFINE fits == keyFile # Absent /\ PublicKeyMatches(view.cert, keyFile)
             days == view.cert.valid.until - now
  <2>1. view' = [pc |-> "idle", cert |-> Absent, fits |-> fits, calm |-> view.calm, days |-> days,
                 verdict |-> verdict]
    BY <1>2 DEF ReadKey, View
  <2>2. fits \in BOOLEAN /\ days \in Int /\ verdict \in Verdicts /\ view.calm \in BOOLEAN
    <3>1. fits \in BOOLEAN
      BY DEF PublicKeyMatches
    <3>2. days \in Int
      BY <1>3
    <3>3. verdict \in Verdicts
      BY <1>4 DEF Verdicts
    <3>4. view.calm \in BOOLEAN
      BY <1>2 DEF View
    <3> QED
      BY <3>1, <3>2, <3>3, <3>4
  <2>3. fits <=> (keyFile # Absent /\ view.cert.pub = keyFile)
    BY DEF PublicKeyMatches
  <2> HIDE DEF fits, days, verdict
  <2>4. view' \in View
    BY <2>1, <2>2 DEF View
  <2>5. view'.fits <=> fits
    BY <2>1, <2>2
  <2>6. view'.calm = view.calm /\ view'.pc = "idle" /\ view'.days = days /\ view'.verdict = verdict
    BY <2>1
  <2> QED
    BY <2>3, <2>4, <2>5, <2>6 DEF days
<1>6. verdict = "ok" => view'.fits /\ view'.days \in Nat
  <2>1. ASSUME verdict = "ok" PROVE keyFile \in PublicKeys /\ ValidateBytes(view.cert, keyFile) = "ok"
    BY <2>1 DEF TLSInv, TLSTypes
  <2>2. ASSUME verdict = "ok"
        PROVE  view.cert.pub = keyFile /\ keyFile # Absent /\ now <= view.cert.valid.until
    BY <2>1, <2>2, <1>2, <1>3, FitsTogether, TLSAssumption
  <2>3. ASSUME verdict = "ok" PROVE view.cert.valid.until - now \in Nat
    BY <2>2, <2>3, <1>3
  <2> HIDE DEF verdict
  <2> QED
    BY <2>2, <2>3, <1>5
<1>7. view.calm => verdict \in {"ok", "expired", "not found"}
  <2> SUFFICES ASSUME view.calm, keyFile # Absent PROVE verdict \in {"ok", "expired"}
    OBVIOUS
  <2>1. view.cert.pub = keyFile /\ keyFile \in PublicKeys
    BY <1>2, TLSAssumption DEF TLSInv, Reading, PairMatches, TLSTypes, ReadKey
  <2> QED
    BY <2>1, <1>2, TLSAssumption
    DEF ValidateBytes, ParseCertificates, ParsePrivateKey, PublicKeyMatches
<1> HIDE DEF verdict
<1>8. Reading' /\ NoFalseAlarm'
  BY <1>5, <1>6, <1>7 DEF Reading, NoFalseAlarm
<1> QED
  BY <1>1, <1>5, <1>8 DEF TLSInv, TLSTypes, Validated, InstallsAlone, PairMatches

LEMMA NextTLSInv == TLSInv /\ [TLSNext]_tlsvars => TLSInv'
<1> SUFFICES ASSUME TLSInv, [TLSNext]_tlsvars PROVE TLSInv'
  OBVIOUS
<1>1. ASSUME NEW i \in Installers, InstallRequest(i) \/ InstallCommand(i) PROVE TLSInv'
  BY <1>1, AcceptStep DEF InstallRequest, InstallCommand
<1>2. ASSUME NEW i \in Installers, InstallBreaks(i) PROVE TLSInv'
  <2>1. inst[i] # NoInstall /\ breaks' \in 0..MaxBreaks
    BY <1>2, TLSAssumption DEF InstallBreaks, NoInstall, TLSInv, TLSTypes
  <2>2. DOMAIN served' = Daemons /\ \A d \in Daemons : served'[d] # "mismatch"
    BY <1>2 DEF InstallBreaks, TLSInv, TLSTypes, PairMatches
  <2> QED
    BY <1>2, <2>1, <2>2, EndStep DEF InstallBreaks
<1>3. ASSUME NEW i \in Installers, ReloadDaemons(i) PROVE TLSInv'
  <2>1. inst[i] # NoInstall /\ certFile # Absent
    BY <1>3 DEF ReloadDaemons, NoInstall, TLSInv, InstallsAlone
  <2>2. Pair # "mismatch"
    BY <2>1, PairIsNoMismatch
  <2>3. DOMAIN served' = Daemons /\ \A d \in Daemons : served'[d] # "mismatch"
    BY <1>3, <2>2 DEF ReloadDaemons, TLSInv, PairMatches
  <2> QED
    BY <1>3, <2>1, <2>3, EndStep DEF ReloadDaemons, TLSInv, TLSTypes
<1>4. CASE DaemonLoads
  <2>1. Pair # "mismatch"
    BY <1>4, PairIsNoMismatch DEF DaemonLoads
  <2>2. DOMAIN served' = Daemons /\ \A d \in Daemons : served'[d] # "mismatch"
    BY <1>4, <2>1 DEF DaemonLoads, TLSInv, TLSTypes, PairMatches
  <2> QED
    BY <1>4, <2>2 DEF DaemonLoads, TLSInv, TLSTypes, Validated, InstallsAlone, Reading, NoFalseAlarm, PairMatches
<1>5. CASE Tick
  <2>1. now' \in 0..MaxNow
    BY <1>5, TLSAssumption DEF Tick, TLSInv, TLSTypes
  <2> QED
    BY <1>5, <2>1 DEF Tick, TLSInv, TLSTypes, Validated, InstallsAlone, Reading, NoFalseAlarm, PairMatches
<1>6. CASE UNCHANGED tlsvars
  BY <1>6 DEF tlsvars, TLSInv, TLSTypes, Validated, InstallsAlone, Reading, NoFalseAlarm, PairMatches
<1> QED
  BY <1>1, <1>2, <1>3, <1>4, <1>5, <1>6, InstallKeyStep, InstallCertStep, ReadCertStep, ReadKeyStep
  DEF TLSNext

LEMMA TLSInvariant == TLSSpec => []TLSInv
BY InitTLSInv, NextTLSInv, PTL DEF TLSSpec

(* The variables keep their types: in particular the files only ever hold  *)
(* a certificate and a key that ValidateBytes accepted.                    *)
THEOREM TLSTypeCorrect == TLSSpec => []TLSTypeOK
<1>1. TLSInv => TLSTypeOK
  BY DEF TLSInv, TLSTypes, TLSTypeOK, Installing, NoInstall
<1> QED
  BY <1>1, TLSInvariant, PTL

(* Install writes the key, then the certificate: whatever installations    *)
(* cross or stop between the two, the files fit each other unless the      *)
(* history says so, and no daemon serves a pair that does not.             *)
THEOREM InstalledPairsMatch == TLSSpec => []PairMatches
<1>1. TLSInv => PairMatches
  BY DEF TLSInv
<1> QED
  BY <1>1, TLSInvariant, PTL

(* Validate reads the two files one after the other, and answers "invalid" *)
(* only when an installation crossed it or had torn the pair.              *)
THEOREM ValidateRaisesNoFalseAlarm == TLSSpec => []NoFalseAlarm
<1>1. TLSInv => NoFalseAlarm
  BY DEF TLSInv
<1> QED
  BY <1>1, TLSInvariant, PTL

(* What the doctor finds healthy, the API answers, Load returns and the    *)
(* status command calls by the day it ends.                                *)
THEOREM DoctorsAgree == TLSSpec => []DoctorAgrees
<1>1. TLSInv => DoctorAgrees
  <2> SUFFICES ASSUME TLSInv, NEW conf \in {"generated", "missing", "foreign"},
                      view.pc = "idle", Doctor(view, conf) = "HEALTHY", view.verdict # "none"
               PROVE  /\ Get(view) /\ ValidateCommand(view) = "VALID" /\ Load(view) /\ view.fits
                      /\ Status(view) # "MISSING"
                      /\ Status(view) = "EXPIRED" <=> view.days = 0
    BY DEF DoctorAgrees
  <2>1. RunDoctor(view, conf)
    BY DEF Doctor
  <2>2. DoctorChecks(view, conf).hostname /\ DoctorChecks(view, conf).expiry
    BY <2>1 DEF RunDoctor, DoctorChecks
  <2>3. view.verdict = "ok"
    BY <2>2 DEF DoctorChecks
  <2>4. view.fits /\ view.days \in Nat
    BY <2>3 DEF TLSInv, Reading
  <2>5. Status(view) = CalculateExpirationStatus(view.days, FALSE)
    BY <2>3 DEF Status
  <2> QED
    BY <2>3, <2>4, <2>5 DEF Get, ValidateCommand, Load, CalculateExpirationStatus
<1> QED
  BY <1>1, TLSInvariant, PTL

(* Install's two renames and the readers' two reads: the pair fits, nobody *)
(* raises a false alarm, and those who look agree.                         *)
THEOREM CertificatesStaySound == TLSSpec => []CertificatesAreSound
BY InstalledPairsMatch, ValidateRaisesNoFalseAlarm, DoctorsAgree, PTL
   DEF CertificatesAreSound

-----------------------------------------------------------------------------
(* Domains, aliases and keys, and the lookups of Postfix and Dovecot *)

(* What a request in flight carries. *)
Request ==
  [pc : {"idle", "domain", "alias", "key"}, source : Addresses \cup {NoRow},
   dest : Addresses \cup {NoRow}, name : KeyNames \cup {NoRow}, dom : Nat \cup {NoRow}]

RouteTypes ==
  /\ domains \in [Domains -> DomainRow \cup {NoRow}]
  /\ boxes \in [Addresses -> MailboxRows \cup {NoRow}]
  /\ aliases \subseteq AliasRow
  /\ keys \subseteq KeyRow
  /\ req \in [Requesters -> Request]
  /\ ids \in 0..MaxRows

(* An id is the id of one row only, and was given out. *)
Numbered ==
  /\ \A n \in Domains : domains[n] # NoRow => domains[n].id \in 1..ids
  /\ \A m, n \in Domains :
       domains[m] # NoRow /\ domains[n] # NoRow /\ domains[m].id = domains[n].id => m = n
  /\ \A k \in keys : k.id \in 1..ids

(* A request knows addresses, and the id of a domain that was, and if it   *)
(* still is a domain's id, is that of the domain of the source.            *)
RequestsInFlight ==
  \A r \in Requesters :
    /\ req[r].pc \in {"domain", "alias"} => req[r].source \in Addresses /\ req[r].dest \in Addresses
    /\ req[r].pc = "alias" =>
         /\ req[r].dom \in 1..ids
         /\ \A n \in Domains : domains[n] # NoRow /\ domains[n].id = req[r].dom
                                  => n = req[r].source.domain
    /\ req[r].pc = "key" => req[r].dom \in 1..ids /\ req[r].name \in KeyNames

RouteInv == RouteTypes /\ Numbered /\ RequestsInFlight /\ RowsHaveDomains /\ OneActiveKey

LEMMA InitRouteInv == RouteInit => RouteInv
BY RouteAssumption
DEF RouteInit, RouteInv, RouteTypes, Numbered, RequestsInFlight, RowsHaveDomains, OneActiveKey, NoReq, Request

LEMMA DomainStep ==
  ASSUME RouteInv, NEW n \in Domains,
         CreateDomain(n) \/ SuspendDomain(n) \/ DeleteDomain(n)
  PROVE  RouteInv'
<1> USE RouteAssumption
<1>1. CASE CreateDomain(n)
  <2>1. /\ domains' = [domains EXCEPT ![n] = [id |-> ids + 1, status |-> "active"]]
        /\ domains'[n] = [id |-> ids + 1, status |-> "active"] /\ domains'[n] # NoRow
        /\ \A m \in Domains \ {n} : domains'[m] = domains[m]
        /\ ids' = ids + 1 /\ ids' \in 0..MaxRows
        /\ UNCHANGED <<boxes, aliases, keys, req>>
    BY <1>1 DEF CreateDomain, RouteInv, RouteTypes, DomainRow
  <2>2. domains[n] = NoRow
    BY <1>1 DEF CreateDomain
  <2>3. RouteTypes'
    BY <2>1 DEF RouteInv, RouteTypes, DomainRow
  <2>4. Numbered'
    BY <2>1 DEF RouteInv, RouteTypes, Numbered, DomainRow, KeyRow
  <2>5. RequestsInFlight'
    BY <2>1 DEF RouteInv, RouteTypes, RequestsInFlight, DomainRow
  <2>6. RowsHaveDomains'
    BY <2>1, <2>2 DEF RouteInv, RouteTypes, RowsHaveDomains, AliasRow
  <2> QED
    BY <2>1, <2>3, <2>4, <2>5, <2>6 DEF RouteInv, OneActiveKey
<1>2. CASE SuspendDomain(n)
  <2>1. /\ \A m \in Domains : domains'[m] = NoRow <=> domains[m] = NoRow
        /\ \A m \in Domains : domains[m] # NoRow => domains'[m].id = domains[m].id
        /\ domains' \in [Domains -> DomainRow \cup {NoRow}]
        /\ UNCHANGED <<boxes, aliases, keys, req, ids>>
    BY <1>2 DEF SuspendDomain, RouteInv, RouteTypes, DomainRow
  <2> QED
    BY <2>1 DEF RouteInv, RouteTypes, Numbered, RequestsInFlight, RowsHaveDomains, OneActiveKey, AliasRow
<1>3. CASE DeleteDomain(n)
  <2>1. /\ domains'[n] = NoRow /\ \A m \in Domains \ {n} : domains'[m] = domains[m]
        /\ domains' \in [Domains -> DomainRow \cup {NoRow}]
        /\ aliases' = {x \in aliases : x.dom # domains[n].id}
        /\ keys' \subseteq keys
        /\ UNCHANGED <<req, ids>>
    BY <1>3 DEF DeleteDomain, RouteInv, RouteTypes
  <2>2. \A a \in Addresses : boxes'[a] # NoRow => a.domain # n /\ boxes[a] # NoRow
    BY <1>3 DEF DeleteDomain
  <2>5. boxes' \in [Addresses -> MailboxRows \cup {NoRow}]
    BY <1>3 DEF DeleteDomain, RouteInv, RouteTypes
  <2>3. RouteTypes' /\ Numbered' /\ RequestsInFlight'
    BY <2>1, <2>5 DEF RouteInv, RouteTypes, Numbered, RequestsInFlight
  <2>4. RowsHaveDomains'
    BY <2>1, <2>2 DEF RouteInv, RouteTypes, RowsHaveDomains, AliasRow
  <2> QED
    BY <2>1, <2>3, <2>4 DEF RouteInv, OneActiveKey
<1> QED
  BY <1>1, <1>2, <1>3

LEMMA AliasStep ==
  ASSUME RouteInv, NEW r \in Requesters,
         \/ \E src, dst \in Addresses : AliasRequest(r, src, dst)
         \/ AliasDomain(r) \/ CreateAlias(r)
  PROVE  RouteInv'
<1> USE RouteAssumption
<1>1. ASSUME NEW src \in Addresses, NEW dst \in Addresses, AliasRequest(r, src, dst)
      PROVE  RouteInv'
  <2>1. /\ req'[r].pc = "domain" /\ req'[r].source = src /\ req'[r].dest = dst
        /\ \A q \in Requesters \ {r} : req'[q] = req[q]
        /\ req' \in [Requesters -> Request]
        /\ UNCHANGED <<domains, boxes, aliases, keys, ids>>
    BY <1>1 DEF AliasRequest, RouteInv, RouteTypes, Request, NoReq
  <2> QED
    BY <2>1 DEF RouteInv, RouteTypes, Numbered, RequestsInFlight, RowsHaveDomains, OneActiveKey
<1>2. CASE AliasDomain(r)
  <2>0. req[r].source \in Addresses /\ req[r].dest \in Addresses
    BY <1>2 DEF AliasDomain, RouteInv, RequestsInFlight
  <2>1. PICK d : d = domains[req[r].source.domain]
    OBVIOUS
  <2>2. CASE d # NoRow /\ d.status = "active"
    <3>1. /\ req'[r].pc = "alias" /\ req'[r].dom = d.id
          /\ req'[r].source = req[r].source /\ req'[r].dest = req[r].dest
          /\ \A q \in Requesters \ {r} : req'[q] = req[q]
          /\ req' \in [Requesters -> Request]
          /\ UNCHANGED <<domains, boxes, aliases, keys, ids>>
      BY <1>2, <2>0, <2>1, <2>2 DEF AliasDomain, RouteInv, RouteTypes, Request, DomainRow
    <3>2. d.id \in 1..ids
      BY <2>0, <2>1, <2>2 DEF RouteInv, Numbered
    <3>3. RequestsInFlight'
      BY <2>0, <2>1, <2>2, <3>1, <3>2 DEF RouteInv, Numbered, RequestsInFlight
    <3> QED
      BY <3>1, <3>3 DEF RouteInv, RouteTypes, Numbered, RowsHaveDomains, OneActiveKey
  <2>3. CASE ~(d # NoRow /\ d.status = "active")
    <3>1. /\ req'[r] = NoReq
          /\ \A q \in Requesters \ {r} : req'[q] = req[q]
          /\ req' \in [Requesters -> Request]
          /\ UNCHANGED <<domains, boxes, aliases, keys, ids>>
      BY <1>2, <2>1, <2>3 DEF AliasDomain, RouteInv, RouteTypes, Request, NoReq
    <3> QED
      BY <3>1 DEF RouteInv, RouteTypes, Numbered, RequestsInFlight, RowsHaveDomains, OneActiveKey, NoReq
  <2> QED
    BY <2>2, <2>3
<1>3. CASE CreateAlias(r)
  <2>0. /\ req[r].source \in Addresses /\ req[r].dest \in Addresses /\ req[r].dom \in 1..ids
        /\ \A n \in Domains : domains[n] # NoRow /\ domains[n].id = req[r].dom
                                  => n = req[r].source.domain
    BY <1>3 DEF CreateAlias, RouteInv, RequestsInFlight
  <2>1. /\ req'[r] = NoReq
        /\ \A q \in Requesters \ {r} : req'[q] = req[q]
        /\ req' \in [Requesters -> Request]
        /\ UNCHANGED <<domains, boxes, keys, ids>>
    BY <1>3 DEF CreateAlias, RouteInv, RouteTypes, Request, NoReq
  <2>2. \A x \in aliases' : x \in aliases \/
          /\ x = [dom |-> req[r].dom, source |-> req[r].source, dest |-> req[r].dest]
          /\ req[r].dom \in DomainIds
    BY <1>3 DEF CreateAlias
  <2>3. req[r].dom \in DomainIds =>
          /\ domains[req[r].source.domain] # NoRow
          /\ req[r].dom = domains[req[r].source.domain].id
    BY <2>0 DEF DomainIds
  <2>4. aliases' \subseteq AliasRow
    BY <2>0, <2>2 DEF RouteInv, RouteTypes, AliasRow
  <2>5. RowsHaveDomains'
    BY <2>1, <2>2, <2>3 DEF RouteInv, RowsHaveDomains
  <2> QED
    BY <2>1, <2>4, <2>5 DEF RouteInv, RouteTypes, Numbered, RequestsInFlight, OneActiveKey, NoReq
<1> QED
  BY <1>1, <1>2, <1>3

LEMMA KeyStep ==
  ASSUME RouteInv,
         \/ \E r \in Requesters :
              \/ CreateKey(r)
              \/ \E n \in Domains, name \in KeyNames : KeyRequest(r, n, name)
         \/ \E n \in Domains, k \in keys : RevokeKey(n, k)
  PROVE  RouteInv'
<1> USE RouteAssumption
<1>1. ASSUME NEW r \in Requesters, NEW n \in Domains, NEW name \in KeyNames,
             KeyRequest(r, n, name)
      PROVE  RouteInv'
  <2>1. /\ req'[r].pc = "key" /\ req'[r].dom = domains[n].id /\ req'[r].name = name
        /\ \A q \in Requesters \ {r} : req'[q] = req[q]
        /\ req' \in [Requesters -> Request]
        /\ UNCHANGED <<domains, boxes, aliases, keys, ids>>
    BY <1>1 DEF KeyRequest, RouteInv, RouteTypes, Request, NoReq, DomainRow
  <2>2. domains[n].id \in 1..ids
    BY <1>1 DEF KeyRequest, RouteInv, Numbered
  <2> QED
    BY <2>1, <2>2 DEF RouteInv, RouteTypes, Numbered, RequestsInFlight, RowsHaveDomains, OneActiveKey
<1>2. ASSUME NEW r \in Requesters, CreateKey(r) PROVE RouteInv'
  <2>0. req[r].dom \in 1..ids /\ req[r].name \in KeyNames
    BY <1>2 DEF CreateKey, RouteInv, RequestsInFlight
  <2>1. /\ req'[r] = NoReq
        /\ \A q \in Requesters \ {r} : req'[q] = req[q]
        /\ req' \in [Requesters -> Request]
        /\ UNCHANGED <<domains, boxes, aliases>>
    BY <1>2 DEF CreateKey, RouteInv, RouteTypes, Request, NoReq
  <2>2. CASE UNCHANGED <<keys, ids>>
    BY <2>1, <2>2 DEF RouteInv, RouteTypes, Numbered, RequestsInFlight, RowsHaveDomains, OneActiveKey, NoReq
  <2>3. CASE ~UNCHANGED <<keys, ids>>
    <3> DEFINE new == [id |-> ids + 1, dom |-> req[r].dom, name |-> req[r].name,
                       status |-> "active"]
    <3>1. /\ keys' = keys \cup {new} /\ ids' = ids + 1 /\ ids' \in 0..MaxRows
          /\ ~KeyExists(req[r].dom, req[r].name)
      BY <1>2, <2>3 DEF CreateKey, RouteInv, RouteTypes
    <3>2. new \in KeyRow
      BY <2>0 DEF RouteInv, RouteTypes, KeyRow
    <3>3. OneActiveKey'
      BY <3>1 DEF RouteInv, OneActiveKey, KeyExists
    <3>4. Numbered'
      BY <2>1, <3>1 DEF RouteInv, RouteTypes, Numbered, DomainRow, KeyRow
    <3>5. RequestsInFlight'
      BY <2>1, <3>1 DEF RouteInv, RouteTypes, RequestsInFlight, NoReq
    <3> HIDE DEF new
    <3> QED
      BY <2>1, <3>1, <3>2, <3>3, <3>4, <3>5 DEF RouteInv, RouteTypes, RowsHaveDomains
  <2> QED
    BY <2>2, <2>3
<1>3. ASSUME NEW n \in Domains, NEW k \in keys, RevokeKey(n, k) PROVE RouteInv'
  <2> DEFINE l == [k EXCEPT !.status = "revoked"]
  <2>1. keys' = (keys \ {k}) \cup {l} /\ UNCHANGED <<domains, boxes, aliases, req, ids>>
    BY <1>3 DEF RevokeKey
  <2>2. l \in KeyRow /\ l.status = "revoked" /\ l.id = k.id
    BY DEF RouteInv, RouteTypes, KeyRow
  <2> HIDE DEF l
  <2>3. OneActiveKey'
    BY <2>1, <2>2 DEF RouteInv, OneActiveKey
  <2>4. Numbered'
    BY <2>1, <2>2 DEF RouteInv, Numbered
  <2> QED
    BY <2>1, <2>2, <2>3, <2>4 DEF RouteInv, RouteTypes, RequestsInFlight, RowsHaveDomains
<1> QED
  BY <1>1, <1>2, <1>3

LEMMA NextRouteInv == RouteInv /\ [RouteNext]_routevars => RouteInv'
<1> SUFFICES ASSUME RouteInv, [RouteNext]_routevars PROVE RouteInv'
  OBVIOUS
<1>1. CASE UNCHANGED routevars
  BY <1>1
  DEF routevars, RouteInv, RouteTypes, Numbered, RequestsInFlight, RowsHaveDomains, OneActiveKey
<1>2. ASSUME NEW a \in Addresses, ChangeMailbox(a) PROVE RouteInv'
  <2>1. /\ domains[a.domain] # NoRow /\ \A b \in Addresses \ {a} : boxes'[b] = boxes[b]
        /\ boxes' \in [Addresses -> MailboxRows \cup {NoRow}]
        /\ UNCHANGED <<domains, aliases, keys, req, ids>>
    BY <1>2 DEF ChangeMailbox, RouteInv, RouteTypes
  <2> QED
    BY <2>1 DEF RouteInv, RouteTypes, Numbered, RequestsInFlight, RowsHaveDomains, OneActiveKey
<1>3. ASSUME NEW src \in Addresses, NEW dst \in Addresses, DeleteAlias(src, dst)
      PROVE  RouteInv'
  BY <1>3
  DEF DeleteAlias, RouteInv, RouteTypes, Numbered, RequestsInFlight, RowsHaveDomains, OneActiveKey
<1> QED
  BY <1>1, <1>2, <1>3, DomainStep, AliasStep, KeyStep
  DEF RouteNext, UnknownDomain, DomainDeleteCommand

LEMMA RouteAlways == RouteSpec => []RouteInv
BY InitRouteInv, NextRouteInv, PTL DEF RouteSpec

-----------------------------------------------------------------------------
(* Ids are given out once and rows hold what their tables allow.           *)
THEOREM RouteTypeCorrect == RouteSpec => []RouteTypeOK
<1>1. RouteInv => RouteTypeOK
  BY DEF RouteInv, RouteTypes, Numbered, RouteTypeOK, AliasRow, KeyRow
<1> QED BY RouteAlways, <1>1, PTL

(* However requests interleave with the deletion and re-creation of        *)
(* domains, a mailbox has its domain and an alias is filed under the       *)
(* domain of its source as it is now.                                      *)
THEOREM RowsKeepTheirDomains == RouteSpec => []RowsHaveDomains
<1>1. RouteInv => RowsHaveDomains
  BY DEF RouteInv
<1> QED BY RouteAlways, <1>1, PTL

(* Concurrent requests never leave two active SMTP keys of one name in a   *)
(* domain.                                                                 *)
THEOREM KeyNamesAreUnique == RouteSpec => []OneActiveKey
<1>1. RouteInv => OneActiveKey
  BY DEF RouteInv
<1> QED BY RouteAlways, <1>1, PTL

(* An SMTP key is no address: the two kinds of login never collide.        *)
LEMMA KeysAreNotAddresses == ASSUME RouteInv PROVE keys \cap Addresses = {}
<1> SUFFICES ASSUME NEW k \in keys, k \in Addresses PROVE FALSE
  OBVIOUS
<1>1. DOMAIN k = {"local", "domain"}
  BY RouteAssumption
<1>2. k \in KeyRow
  BY DEF RouteInv, RouteTypes
<1>3. "id" \in DOMAIN k
  BY <1>2 DEF KeyRow
<1> QED
  BY <1>1, <1>3

(* The Go lookups, the inbound verifier and the SQL of Postfix agree on    *)
(* which recipients exist.                                                 *)
THEOREM RecipientsAlwaysAgree == RouteSpec => []RecipientsAgree
<1>1. RouteInv => RecipientsAgree
  <2> SUFFICES ASSUME RouteInv, NEW a \in Addresses
               PROVE  /\ ValidateRecipient(a, FALSE) <=> PostfixAccepts(a)
                      /\ ValidateRecipient(a, TRUE) => PostfixAccepts(a)
                      /\ VerifyRecipient(a) => PostfixAccepts(a)
                      /\ LookupDomainCommand(a.domain) = "FOUND"
                           /\ (LookupMailboxCommand(a) = "FOUND" \/ LookupAliasCommand(a) # NoRow)
                         <=> PostfixAccepts(a)
                      /\ PostfixAccepts(a) /\ AliasQuery(a) = {} => VerifyRecipient(a)
    BY DEF RecipientsAgree
  <2>1. /\ LookupVirtualDomain(a.domain) <=> DomainsQuery(a.domain)
        /\ LookupVirtualAlias(a) = AliasQuery(a)
        /\ LookupVirtualMailbox(a) <=> Ready(a)
    BY DEF LookupVirtualDomain, DomainsQuery, LookupVirtualAlias, AliasQuery, LookupVirtualMailbox
  <2>2. MailboxQuery(a) # NoRow <=> Ready(a)
    BY RouteAssumption DEF MailboxQuery
  <2>3. LookupAliasCommand(a) # NoRow <=> AliasQuery(a) # {}
    <3>1. AliasQuery(a) \in SUBSET Addresses
      BY DEF AliasQuery, RouteInv, RouteTypes, AliasRow
    <3> QED
      BY <2>1, <3>1, RouteAssumption DEF LookupAliasCommand
  <2> QED
    BY <2>1, <2>2, <2>3
    DEF ValidateRecipient, PostfixAccepts, VerifyRecipient, LookupDomainCommand,
        LookupMailboxCommand
<1> QED BY RouteAlways, <1>1, PTL

(* CanSendAs and the MTA agree on what a mailbox may send as, as long as   *)
(* the domain of the sender is active.                                     *)
THEOREM SendersAlwaysAgree == RouteSpec => []SendersAgree
<1>1. RouteInv => SendersAgree
  <2> SUFFICES ASSUME RouteInv, NEW user \in Addresses, NEW sender \in Addresses
               PROVE  /\ Submits(user, sender) => CanSendAs(user, sender)
                      /\ CanSendAs(user, sender) /\ DomainsQuery(sender.domain)
                           => Submits(user, sender)
                      /\ Submits(user, sender) /\ user # sender
                           => \E x \in ListAliases(user) : x.source = sender
    BY DEF SendersAgree
  <2>1. user \notin keys /\ (PasswordQuery(user, "smtp") <=> Ready(user))
    BY KeysAreNotAddresses DEF PasswordQuery
  <2>2. user \in SenderLoginQuery(sender) <=>
          (user = sender /\ Ready(sender)) \/ user \in AliasQuery(sender)
    BY <2>1 DEF SenderLoginQuery
  <2>3. user \in AliasQuery(sender) =>
          \E x \in aliases : x.source = sender /\ x.dest = user
    BY DEF AliasQuery
  <2>4. ASSUME NEW x \in aliases, x.source = sender, x.dest = user, DomainsQuery(sender.domain)
        PROVE  user \in AliasQuery(sender)
    <3>1. sender.domain \in Domains /\ domains[sender.domain] # NoRow
          /\ x.dom = domains[sender.domain].id
      BY <2>4, RouteAssumption DEF RouteInv, RowsHaveDomains
    <3>2. ActiveId(x.dom)
      BY <2>4, <3>1 DEF ActiveId, DomainsQuery
    <3> QED
      BY <2>4, <3>2 DEF AliasQuery
  <2> QED
    BY <2>1, <2>2, <2>3, <2>4 DEF Submits, CanSendAs, ListAliases
<1> QED BY RouteAlways, <1>1, PTL

(* An SMTP key sends for its own active domain only and can be revoked     *)
(* there.                                                                  *)
THEOREM KeysAlwaysStayAtHome == RouteSpec => []KeysStayAtHome
<1>1. RouteInv => KeysStayAtHome
  <2> SUFFICES ASSUME RouteInv, NEW k \in keys, NEW sender \in Addresses, Submits(k, sender)
               PROVE  /\ DomainsQuery(sender.domain)
                      /\ k \in ListKeys(sender.domain) /\ Revocable(sender.domain, k)
    BY DEF KeysStayAtHome
  <2>1. k \notin Addresses
    BY KeysAreNotAddresses
  <2>2. k \notin AliasQuery(sender)
    BY <2>1 DEF AliasQuery, RouteInv, RouteTypes, AliasRow
  <2>3. /\ k.status = "active"
        /\ domains[sender.domain] # NoRow /\ k.dom = domains[sender.domain].id
        /\ domains[sender.domain].status = "active"
    BY <2>1, <2>2 DEF Submits, SenderLoginQuery
  <2> QED
    BY <2>3 DEF DomainsQuery, ListKeys, Revocable
<1> QED BY RouteAlways, <1>1, PTL

(* What Postfix files into a Maildir its owner reads from the same one.    *)
THEOREM DeliveredMailIsReadable == RouteSpec => []DeliveredIsReadable
<1>1. RouteInv => DeliveredIsReadable
  <2> SUFFICES ASSUME RouteInv, NEW a \in Addresses, MailboxQuery(a) # NoRow
               PROVE  /\ UserQuery(a) = MailboxQuery(a)
                      /\ LookupUserCommand(a) = MailboxQuery(a)
                      /\ PasswordQuery(a, "imap") /\ AuthTestCommand(a, TRUE) = "SUCCESS"
                      /\ SubmissionAuthTest(a) = "SUCCESS"
    BY DEF DeliveredIsReadable
  <2>1. Ready(a)
    BY DEF MailboxQuery
  <2>2. a \notin keys
    BY KeysAreNotAddresses
  <2> QED
    BY <2>1, <2>2
    DEF UserQuery, MailboxQuery, LookupUserCommand, GetUserInfo, PasswordQuery,
        AuthTestCommand, Authenticate, GetPasswordHash, SubmissionAuthTest
<1> QED BY RouteAlways, <1>1, PTL

(* The rows that racing requests leave behind are sound, and all lookups   *)
(* over them agree.                                                        *)
THEOREM RoutingStaysSound == RouteSpec => []RoutingIsSound
BY RowsKeepTheirDomains, KeyNamesAreUnique, RecipientsAlwaysAgree, SendersAlwaysAgree,
   KeysAlwaysStayAtHome, DeliveredMailIsReadable, PTL DEF RoutingIsSound

-----------------------------------------------------------------------------
(* All of it, in the one specification that is model-checked *)

LEMMA Composed ==
  /\ Spec => ConfSpec /\ TLSSpec /\ RouteSpec
  /\ Spec => [](about = "expiry" => hours \in Int)
<1>1. Init => ConfInit /\ TLSInit /\ RouteInit /\ (about = "expiry" => hours \in Int)
  BY DEF Init
<1>2. [Next]_<<confvars, tlsvars, routevars, about, hours>> =>
        /\ [ConfNext]_confvars /\ [TLSNext]_tlsvars /\ [RouteNext]_routevars
        /\ UNCHANGED <<about, hours>>
  BY DEF Next, ConfNext
<1>3. (about = "expiry" => hours \in Int) /\ UNCHANGED <<about, hours>>
        => (about = "expiry" => hours \in Int)'
  OBVIOUS
<1> QED
  BY <1>1, <1>2, <1>3, PTL DEF Spec, ConfSpec, TLSSpec, RouteSpec

(* The server side as a whole stays in its types. *)
THEOREM ServerTypes == Spec => []TypeOK
BY Composed, ConfTypeCorrect, TLSTypeCorrect, RouteTypeCorrect, PTL DEF TypeOK

(* The soundness of the three parts, in the server where they run side by  *)
(* side: no generation of a configuration, installation of a certificate   *)
(* or request about an alias or a key disturbs another part.               *)
THEOREM ServerIsSound ==
  Spec => [](ConfigurationIsWhole /\ CertificatesAreSound /\ RoutingIsSound)
BY Composed, ConfigurationStaysWhole, CertificatesStaySound, RoutingStaysSound, PTL

LEMMA BandsOf ==
  ASSUME NEW h \in Int
  PROVE  StatusBands(h)
BY DEF StatusBands, CalculateExpirationStatus, Days

(* The status of a certificate changes at the hours that the comments of   *)
(* the code name, for every number of hours that it may have left.         *)
THEOREM ExpiryBands == Spec => []StatusBandsHold
<1>1. (about = "expiry" => hours \in Int) => StatusBandsHold
  BY BandsOf DEF StatusBandsHold
<1> QED
  BY <1>1, Composed, PTL
=============================================================================
