----------------------------- MODULE DKIMSigning -----------------------------
(***************************************************************************)
(* The DKIM keys of one domain, from dkim.Service.GenerateKey to the       *)
(* tables OpenDKIM signs with.  A key is a row of table domain_dkim and a  *)
(* file private.key; the row never holds key material, so the two agree    *)
(* only as far as the order of the calls makes them agree.  What only      *)
(* reads them (the DNS record shown, VerifyDNS) is left out.               *)
(*                                                                         *)
(* A call of GenerateKey draws a key pair and the UUID of its row; one     *)
(* value stands for both.  `mailopen postfix opendkim generate` lists the  *)
(* rows and then replaces the files of OpenDKIM one by one, in the order   *)
(* of a Go map.                                                            *)
(***************************************************************************)
EXTENDS Naturals

CONSTANTS
  Workers,      \* concurrent calls of dkim.Service
  Generators,   \* runs of `postfix opendkim generate`
  Selectors,
  Keys,         \* key pairs (and UUIDs) GenerateKey can draw
  DomainIDs,    \* UUIDs of the domain, deleted and created again
  None,         \* no value
  MaxFaults     \* bound on crashes and failed calls in one behaviour

ASSUME DKIMAssumption ==
  /\ None \notin Keys \cup Selectors \cup DomainIDs
  /\ MaxFaults \in Nat

VARIABLES
  domain,       \* the id of the domain's row, None when there is none
  key,          \* table domain_dkim, by selector
  file,         \* <base>/<domain>/<selector>/private.key
  table,        \* the files OpenDKIM reads: the selectors each one names
  job,          \* the call each worker is executing
  gen,          \* the local variables of each generator
  last,         \* history: what the last generator, if it ran alone, had listed
  used,         \* history: the selectors GenerateKey was called for,
  again,        \* ... those it was called for more than once,
  exposed,      \* ... and those it was called for while in use, or whose
                \* INSERT went through with its answer lost
  issued, gone, faults

vars == <<domain, key, file, table, job, gen, last,
          used, again, exposed, issued, gone, faults>>

KeyRow == [id : Keys, status : {"pending", "active", "revoked"}]
NoRow == [id |-> None, status |-> "none"]

(* opendkim.conf and TrustedHosts do not depend on the keys. *)
Files == {"KeyTable", "SigningTable"}

Job == [pc : {"idle", "store", "insert", "compensate",
              "stat", "activate", "revoke"},
        dom : DomainIDs \cup {None},  \* dom.ID
        sel : Selectors \cup {None},
        key : Keys \cup {None}]       \* pair, key.ID or privKey
IdleJob == [pc |-> "idle", dom |-> None, sel |-> None, key |-> None]

Generator == [pc : {"idle", "write"}, sel : SUBSET Selectors, todo : SUBSET Files,
              run : {"none", "alone", "overlapped"}]
IdleGenerator == [pc |-> "idle", sel |-> {}, todo |-> {}, run |-> "none"]

Init ==
  /\ domain \in DomainIDs
  /\ key = [s \in Selectors |-> NoRow]
  /\ file = [s \in Selectors |-> None]
  /\ table = [f \in Files |-> {}]
  /\ job = [w \in Workers |-> IdleJob]
  /\ gen = [g \in Generators |-> IdleGenerator]
  /\ last = {}
  /\ used = {} /\ again = {} /\ exposed = {}
  /\ issued = {} /\ gone = {} /\ faults = 0

-----------------------------------------------------------------------------
Fault ==
  /\ faults < MaxFaults
  /\ faults' = faults + 1

Goto(w, pc) == job' = [job EXCEPT ![w].pc = pc]
Return(w) == job' = [job EXCEPT ![w] = IdleJob]

(* A selector is in use while it has a row or a GenerateKey is under way. *)
GeneratePC == {"store", "insert", "compensate"}
InUse(s) ==
  \/ key[s] # NoRow
  \/ \E w \in Workers : job[w].pc \in GeneratePC /\ job[w].sel = s

(* dkim.Service.GenerateKey: the domain is there, the key pair is drawn. *)
GenerateBegin(w, s, k) ==
  /\ job[w].pc = "idle"
  /\ domain # None
  /\ k \notin issued
  /\ job' = [job EXCEPT ![w] = [pc |-> "store", dom |-> domain, sel |-> s, key |-> k]]
  /\ issued' = issued \cup {k}
  /\ used' = used \cup {s}
  /\ again' = again \cup ({s} \cap used)
  /\ exposed' = IF InUse(s) THEN exposed \cup {s} ELSE exposed
  /\ UNCHANGED <<domain, key, file, table, gen, last, gone, faults>>

MutStorePrivateKey(w) ==   \* the error of the rename is dropped
  /\ job[w].pc = "store"
  /\ \/ file' = [file EXCEPT ![job[w].sel] = job[w].key] /\ UNCHANGED faults
     \/ UNCHANGED file /\ Fault
  /\ Goto(w, "insert")
  /\ UNCHANGED <<domain, key, table, gen, last, used, again, exposed, issued,
                 gone>>

(* The rename that ends StorePrivateKey replaces whatever is there. *)
StorePrivateKey(w) ==
  /\ job[w].pc = "store"
  /\ file' = [file EXCEPT ![job[w].sel] = job[w].key]
  /\ Goto(w, "insert")
  /\ UNCHANGED <<domain, key, table, gen, last, used, again, exposed, issued,
                 gone, faults>>

(* UNIQUE (domain_id, selector) and the foreign key, as of now. *)
InsertAllowed(d, s) == domain = d /\ key[s] = NoRow

CreateDKIMKey(w) ==
  /\ job[w].pc = "insert"
  /\ InsertAllowed(job[w].dom, job[w].sel)
  /\ key' = [key EXCEPT ![job[w].sel] = [id |-> job[w].key, status |-> "pending"]]
  /\ Return(w)
  /\ UNCHANGED <<domain, file, table, gen, last, used, again, exposed, issued,
                 gone, faults>>

(* The INSERT went through, ExecContext returns an error all the same. *)
CreateLostReply(w) ==
  /\ job[w].pc = "insert"
  /\ InsertAllowed(job[w].dom, job[w].sel)
  /\ Fault
  /\ key' = [key EXCEPT ![job[w].sel] = [id |-> job[w].key, status |-> "pending"]]
  /\ exposed' = exposed \cup {job[w].sel}
  /\ Goto(w, "compensate")
  /\ UNCHANGED <<domain, file, table, gen, last, used, again, issued, gone>>

CreateRefused(w) ==
  /\ job[w].pc = "insert"
  /\ \/ ~InsertAllowed(job[w].dom, job[w].sel) /\ UNCHANGED faults
     \/ InsertAllowed(job[w].dom, job[w].sel) /\ Fault
  /\ Goto(w, "compensate")
  /\ UNCHANGED <<domain, key, file, table, gen, last, used, again, exposed,
                 issued, gone>>

(* DeletePrivateKey, whose error is dropped. *)
DeletePrivateKey(w) ==
  /\ job[w].pc = "compensate"
  /\ \/ file' = [file EXCEPT ![job[w].sel] = None] /\ UNCHANGED faults
     \/ UNCHANGED file /\ Fault
  /\ Return(w)
  /\ UNCHANGED <<domain, key, table, gen, last, used, again, exposed, issued,
                 gone>>

-----------------------------------------------------------------------------
(* ActivateKey: the row, then the file, then the UPDATE by id. *)
ActivateBegin(w, s) ==
  /\ job[w].pc = "idle"
  /\ key[s] # NoRow
  /\ job' = [job EXCEPT ![w] = [pc |-> "stat", dom |-> None, sel |-> s, key |-> key[s].id]]
  /\ UNCHANGED <<domain, key, file, table, gen, last, used, again, exposed,
                 issued, gone, faults>>

HasPrivateKey(w) ==
  /\ job[w].pc = "stat"
  /\ IF file[job[w].sel] # None THEN Goto(w, "activate") ELSE Return(w)
  /\ UNCHANGED <<domain, key, file, table, gen, last, used, again, exposed,
                 issued, gone, faults>>

(* UPDATE domain_dkim SET status WHERE id: a row that is gone stays gone. *)
UpdateStatus(w, status) ==
  /\ key' = IF key[job[w].sel].id = job[w].key
              THEN [key EXCEPT ![job[w].sel] = [id |-> job[w].key, status |-> status]]
              ELSE key
  /\ Return(w)
  /\ UNCHANGED <<domain, file, table, gen, last, used, again, exposed, issued,
                 gone, faults>>

ActivateDKIMKey(w) == job[w].pc = "activate" /\ UpdateStatus(w, "active")

RevokeBegin(w, s) ==
  /\ job[w].pc = "idle"
  /\ key[s] # NoRow
  /\ job' = [job EXCEPT ![w] = [pc |-> "revoke", dom |-> None, sel |-> s, key |-> key[s].id]]
  /\ UNCHANGED <<domain, key, file, table, gen, last, used, again, exposed,
                 issued, gone, faults>>

RevokeDKIMKey(w) == job[w].pc = "revoke" /\ UpdateStatus(w, "revoked")

(* ON DELETE CASCADE takes the rows of domain_dkim, not the files. *)
DeleteDomain ==
  /\ domain # None
  /\ domain' = None
  /\ gone' = gone \cup {domain}
  /\ key' = [s \in Selectors |-> NoRow]
  /\ UNCHANGED <<file, table, job, gen, last, used, again, exposed, issued,
                 faults>>

CreateDomain(d) ==
  /\ domain = None
  /\ d \notin gone
  /\ domain' = d
  /\ UNCHANGED <<key, file, table, job, gen, last, used, again, exposed,
                 issued, gone, faults>>

(* A process dies, or a call whose error is returned fails. *)
Crash(w) ==
  /\ job[w].pc # "idle"
  /\ Fault
  /\ Return(w)
  /\ UNCHANGED <<domain, key, file, table, gen, last, used, again, exposed,
                 issued, gone>>

-----------------------------------------------------------------------------
(* The keys GenerateOpenDKIMConfigs makes entries for. *)
Entries == {s \in Selectors : key[s].status \in {"active", "pending"}}

Idle(G) == \A g \in G : gen[g].pc = "idle"

(* ListKeys of the domain; when it fails, the domain is left out.  What    *)
(* WriteOpenDKIMConfigsAtomically will write is settled here.              *)
GenList(g) ==
  /\ gen[g].pc = "idle"
  /\ \E listed \in {Entries, {}} :
       /\ \/ listed = Entries /\ UNCHANGED faults
          \/ listed = {} /\ domain # None /\ Fault
       /\ gen' = [h \in Generators |->
                    IF h = g THEN [pc |-> "write", sel |-> listed, todo |-> Files,
                                   run |-> IF Idle(Generators \ {g}) THEN "alone"
                                           ELSE "overlapped"]
                    ELSE IF gen[h].pc = "idle" THEN gen[h]
                    ELSE [gen[h] EXCEPT !.run = "overlapped"]]
  /\ UNCHANGED <<domain, key, file, table, job, last, used, again, exposed,
                 issued, gone>>

MutGenWrite(g, f) ==   \* the error of the rename is dropped
  /\ gen[g].pc = "write"
  /\ f \in gen[g].todo
  /\ table' \in {table, [table EXCEPT ![f] = gen[g].sel]}
  /\ gen' = [gen EXCEPT ![g] = [gen[g] EXCEPT !.todo = gen[g].todo \ {f}]]
  /\ UNCHANGED <<domain, key, file, job, last, used, again, exposed, issued,
                 gone, faults>>

(* One turn of the loop: the rename of one file. *)
GenWrite(g, f) ==
  /\ gen[g].pc = "write"
  /\ f \in gen[g].todo
  /\ table' = [table EXCEPT ![f] = gen[g].sel]
  /\ gen' = [gen EXCEPT ![g] = [gen[g] EXCEPT !.todo = gen[g].todo \ {f}]]
  /\ UNCHANGED <<domain, key, file, job, last, used, again, exposed, issued,
                 gone, faults>>

GenEnd(g) ==
  /\ gen[g].pc = "write" /\ gen[g].todo = {}
  /\ last' = IF gen[g].run = "alone" THEN gen[g].sel ELSE None
  /\ gen' = [gen EXCEPT ![g] = IdleGenerator]
  /\ UNCHANGED <<domain, key, file, table, job, used, again, exposed, issued,
                 gone, faults>>

(* A file cannot be written, or the command is killed: what was replaced   *)
(* stays replaced.                                                         *)
GenAbort(g) ==
  /\ gen[g].pc = "write"
  /\ Fault
  /\ last' = None
  /\ gen' = [gen EXCEPT ![g] = IdleGenerator]
  /\ UNCHANGED <<domain, key, file, table, job, used, again, exposed, issued,
                 gone>>

-----------------------------------------------------------------------------
Call(w, s) ==
  \/ \E k \in Keys : GenerateBegin(w, s, k)
  \/ ActivateBegin(w, s) \/ RevokeBegin(w, s)

WorkerStep(w) ==
  \/ StorePrivateKey(w) \/ CreateDKIMKey(w) \/ CreateLostReply(w) \/ CreateRefused(w)
  \/ DeletePrivateKey(w)
  \/ HasPrivateKey(w) \/ ActivateDKIMKey(w) \/ RevokeDKIMKey(w)

GenStep(g) ==
  \/ \E f \in Files : GenWrite(g, f)
  \/ GenEnd(g)

Next ==
  \/ \E w \in Workers :
       \/ \E s \in Selectors : Call(w, s)
       \/ WorkerStep(w)
       \/ Crash(w)
  \/ DeleteDomain \/ \E d \in DomainIDs : CreateDomain(d)
  \/ \E g \in Generators : GenList(g) \/ GenStep(g) \/ GenAbort(g)

Spec == Init /\ [][Next]_vars

-----------------------------------------------------------------------------
(* Properties. *)

(* Every variable stays in its type. *)
TypeOK ==
  /\ domain \in DomainIDs \cup {None}
  /\ key \in [Selectors -> KeyRow \cup {NoRow}]
  /\ file \in [Selectors -> Keys \cup {None}]
  /\ table \in [Files -> SUBSET Selectors]
  /\ job \in [Workers -> Job]
  /\ \A w \in Workers : job[w].pc # "idle" => job[w].sel # None /\ job[w].key # None
  /\ gen \in [Generators -> Generator]
  /\ last \in (SUBSET Selectors) \cup {None}
  /\ used \subseteq Selectors /\ again \subseteq Selectors /\ exposed \subseteq Selectors
  /\ issued \subseteq Keys /\ gone \subseteq DomainIDs
  /\ faults \in 0..MaxFaults

(* A key in table domain_dkim has its private key, the one it was          *)
(* generated with.                                                         *)
RowsHaveTheirKey == \A s \in Selectors : key[s] # NoRow => file[s] = key[s].id

(* ... unless GenerateKey was called for a selector that had a row or was  *)
(* being generated, or the answer to its INSERT was lost: no crash, failed *)
(* statement, compensation or deletion and re-creation of the domain       *)
(* separates a row from its file otherwise.                                *)
KeyLostOnlyIfExposed ==
  \A s \in Selectors \ exposed : key[s] # NoRow => file[s] = key[s].id

(* OpenDKIM never finds a selector in KeyTable or SigningTable without the *)
(* private key it refers to, however old the tables are, unless the        *)
(* selector is exposed or was generated for a second time.                 *)
TablesHaveFiles ==
  \A f \in Files : \A s \in table[f] \ (exposed \cup again) : file[s] # None

(* After a generator that ran alone to its end the two tables are what it  *)
(* listed, whatever was cut short or overlapped before: no entry of        *)
(* SigningTable names a key KeyTable lacks.                                *)
TablesAgree ==
  Idle(Generators) /\ last # None =>
    table["KeyTable"] = last /\ table["SigningTable"] = last

(* OpenDKIM's two tables, written one after the other from a list read     *)
(* earlier, name keys that exist, and agree after a generator that ran     *)
(* alone.                                                                  *)
TablesAreUsable == TablesHaveFiles /\ TablesAgree
=============================================================================
