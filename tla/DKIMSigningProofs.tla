-------------------------- MODULE DKIMSigningProofs --------------------------
(* Theorems about DKIMSigning, for any number of concurrent calls, table   *)
(* generators, selectors, keys and faults.                                 *)
EXTENDS DKIMSigning, TLAPS


-----------------------------------------------------------------------------
(* Type correctness. *)

LEMMA InitTypeOK == Init => TypeOK
BY DKIMAssumption
   DEF Init, TypeOK, KeyRow, Job, IdleJob, Generator, IdleGenerator

LEMMA NextTypeOK == TypeOK /\ [Next]_vars => TypeOK'
<1> SUFFICES ASSUME TypeOK, [Next]_vars PROVE TypeOK'
  OBVIOUS
<1> USE DKIMAssumption DEF TypeOK
<1>1. ASSUME NEW w \in Workers, NEW s \in Selectors, Call(w, s) PROVE TypeOK'
  <2>1. ASSUME NEW k \in Keys, GenerateBegin(w, s, k) PROVE TypeOK'
    BY <2>1 DEF GenerateBegin, Job
  <2>2. CASE ActivateBegin(w, s)
    BY <2>2 DEF ActivateBegin, Job, KeyRow, NoRow
  <2>3. CASE RevokeBegin(w, s)
    BY <2>3 DEF RevokeBegin, Job, KeyRow, NoRow
  <2> QED
    BY <1>1, <2>1, <2>2, <2>3 DEF Call
<1>2. ASSUME NEW w \in Workers, WorkerStep(w) PROVE TypeOK'
  <2>0. /\ job[w] \in Job
        /\ job[w].pc # "idle" => job[w].sel \in Selectors /\ job[w].key \in Keys
    BY DEF Job
  <2>1. CASE StorePrivateKey(w)
    BY <2>0, <2>1 DEF StorePrivateKey, Goto, Job
  <2>2. CASE CreateDKIMKey(w)
    BY <2>0, <2>2 DEF CreateDKIMKey, Return, IdleJob, Job, KeyRow
  <2>3. CASE CreateLostReply(w)
    BY <2>0, <2>3 DEF CreateLostReply, Goto, Job, KeyRow, Fault
  <2>4. CASE CreateRefused(w)
    BY <2>0, <2>4 DEF CreateRefused, Goto, Job, Fault
  <2>5. CASE DeletePrivateKey(w)
    BY <2>0, <2>5 DEF DeletePrivateKey, Return, IdleJob, Job, Fault
  <2>6. CASE HasPrivateKey(w)
    BY <2>0, <2>6 DEF HasPrivateKey, Goto, Return, IdleJob, Job
  <2>7. CASE ActivateDKIMKey(w)
    BY <2>0, <2>7 DEF ActivateDKIMKey, UpdateStatus, Return, IdleJob, Job, KeyRow
  <2>8. CASE RevokeDKIMKey(w)
    BY <2>0, <2>8 DEF RevokeDKIMKey, UpdateStatus, Return, IdleJob, Job, KeyRow
  <2> QED
    BY <1>2, <2>1, <2>2, <2>3, <2>4, <2>5, <2>6, <2>7, <2>8
    DEF WorkerStep
<1>3. ASSUME NEW w \in Workers, Crash(w) PROVE TypeOK'
  BY <1>3 DEF Crash, Return, IdleJob, Job, Fault
<1>5. CASE DeleteDomain
  BY <1>5 DEF DeleteDomain
<1>6. ASSUME NEW d \in DomainIDs, CreateDomain(d) PROVE TypeOK'
  BY <1>6 DEF CreateDomain
<1>7. ASSUME NEW g \in Generators, GenList(g) PROVE TypeOK'
  <2>1. PICK listed \in {Entries, {}} :
          gen' = [h \in Generators |->
                    IF h = g THEN [pc |-> "write", sel |-> listed, todo |-> Files,
                                   run |-> IF Idle(Generators \ {g}) THEN "alone"
                                           ELSE "overlapped"]
                    ELSE IF gen[h].pc = "idle" THEN gen[h]
                    ELSE [gen[h] EXCEPT !.run = "overlapped"]]
    BY <1>7 DEF GenList
  <2>2. listed \in SUBSET Selectors
    BY DEF Entries
  <2>3. gen' \in [Generators -> Generator]
    BY <2>1, <2>2 DEF Generator
  <2>4. faults' \in 0..MaxFaults
    BY <1>7 DEF GenList, Fault
  <2>5. UNCHANGED <<domain, key, file, table, job, last, used,
                    again, exposed, issued, gone>>
    BY <1>7 DEF GenList
  <2> QED
    BY <2>3, <2>4, <2>5
<1>8. ASSUME NEW g \in Generators, GenStep(g) PROVE TypeOK'
  <2>1. ASSUME NEW f \in Files, GenWrite(g, f) PROVE TypeOK'
    BY <2>1 DEF GenWrite, Generator
  <2>2. CASE GenEnd(g)
    BY <2>2 DEF GenEnd, Generator, IdleGenerator
  <2> QED
    BY <1>8, <2>1, <2>2 DEF GenStep
<1>9. ASSUME NEW g \in Generators, GenAbort(g) PROVE TypeOK'
  BY <1>9 DEF GenAbort, Generator, IdleGenerator, Fault
<1>10. CASE UNCHANGED vars
  BY <1>10 DEF vars
<1> QED
  BY <1>1, <1>2, <1>3, <1>5, <1>6, <1>7, <1>8, <1>9, <1>10 DEF Next

(* The tables, the keystore and the calls in flight stay in their types.   *)
THEOREM TypeCorrect == Spec => []TypeOK
BY InitTypeOK, NextTypeOK, PTL DEF Spec

-----------------------------------------------------------------------------
(* A row and its private key.  While a GenerateKey is under way for a      *)
(* selector that is not exposed, it is the only one and there is no row,   *)
(* so the file it stored is still there when it inserts, and what its      *)
(* compensation removes belongs to nobody.                                 *)

Generating(w, s) == job[w].pc \in GeneratePC /\ job[w].sel = s

KeyInv ==
  \A s \in Selectors \ exposed :
    /\ key[s] # NoRow => file[s] = key[s].id
    /\ \A w \in Workers : Generating(w, s) =>
         /\ key[s] = NoRow
         /\ job[w].pc = "insert" => file[s] = job[w].key
         /\ \A v \in Workers : Generating(v, s) => v = w

LEMMA NextKeyInv == TypeOK /\ KeyInv /\ [Next]_vars => KeyInv'
<1> SUFFICES ASSUME TypeOK, KeyInv, [Next]_vars PROVE KeyInv'
  OBVIOUS
<1> USE DKIMAssumption
<1>1. ASSUME NEW w \in Workers, NEW s \in Selectors, Call(w, s) PROVE KeyInv'
  <2>1. ASSUME NEW k \in Keys, GenerateBegin(w, s, k) PROVE KeyInv'
    <3>1. CASE InUse(s)
      <4>1. exposed' = exposed \cup {s}
        BY <2>1, <3>1 DEF GenerateBegin
      <4> QED
        BY <2>1, <4>1 DEF TypeOK, KeyInv, Generating, GenerateBegin
    <3>2. CASE ~InUse(s)
      <4>1. /\ key[s] = NoRow
            /\ \A v \in Workers : ~Generating(v, s)
            /\ exposed' = exposed
        BY <2>1, <3>2 DEF GenerateBegin, InUse, Generating
      <4> QED
        BY <2>1, <4>1 DEF TypeOK, KeyInv, Generating, GenerateBegin
    <3> QED
      BY <3>1, <3>2
  <2>2. CASE ActivateBegin(w, s)
    BY <2>2 DEF TypeOK, ActivateBegin, KeyInv, Generating, GeneratePC
  <2>3. CASE RevokeBegin(w, s)
    BY <2>3 DEF TypeOK, RevokeBegin, KeyInv, Generating, GeneratePC
  <2> QED
    BY <1>1, <2>1, <2>2, <2>3 DEF Call
<1>2. ASSUME NEW w \in Workers, WorkerStep(w) PROVE KeyInv'
  <2>0. /\ job[w] \in Job
        /\ job[w].pc # "idle" => job[w].sel \in Selectors /\ job[w].key \in Keys
    BY DEF TypeOK, Job
  <2>1. CASE StorePrivateKey(w)
    BY <2>0, <2>1 DEF TypeOK, StorePrivateKey, Goto, KeyInv, Generating, GeneratePC
  <2>2. CASE CreateDKIMKey(w)
    BY <2>0, <2>2 DEF TypeOK, CreateDKIMKey, Return, IdleJob, KeyInv, Generating, GeneratePC
  <2>3. CASE CreateLostReply(w)
    BY <2>0, <2>3 DEF TypeOK, CreateLostReply, Goto, KeyInv, Generating, GeneratePC
  <2>4. CASE CreateRefused(w)
    BY <2>0, <2>4 DEF TypeOK, CreateRefused, Goto, KeyInv, Generating, GeneratePC
  <2>5. CASE DeletePrivateKey(w)
    BY <2>0, <2>5 DEF TypeOK, DeletePrivateKey, Return, IdleJob, KeyInv, Generating,
                      GeneratePC
  <2>6. CASE HasPrivateKey(w)
    <3>1. \A v \in Workers, s \in Selectors :
            Generating(v, s)' => Generating(v, s) /\ job'[v] = job[v]
      <4>1. CASE job' = [job EXCEPT ![w].pc = "activate"]
        BY <2>6, <4>1 DEF TypeOK, HasPrivateKey, Generating, GeneratePC
      <4>2. CASE job' = [job EXCEPT ![w] = IdleJob]
        BY <2>6, <4>2 DEF TypeOK, HasPrivateKey, IdleJob, Generating, GeneratePC
      <4> QED
        BY <2>6, <4>1, <4>2 DEF HasPrivateKey, Goto, Return
    <3>2. UNCHANGED <<key, file, exposed>>
      BY <2>6 DEF HasPrivateKey
    <3> QED
      BY <3>1, <3>2 DEF KeyInv
  <2>7. ASSUME NEW status, UpdateStatus(w, status), job[w].pc \in {"activate", "revoke"}
        PROVE  KeyInv'
    <3>1. CASE key[job[w].sel].id = job[w].key
      <4>1. key[job[w].sel] # NoRow
        BY <2>0, <2>7, <3>1 DEF NoRow
      <4> QED
        BY <2>0, <2>7, <3>1, <4>1
        DEF TypeOK, UpdateStatus, Return, IdleJob, KeyInv, Generating, GeneratePC
    <3>2. CASE key[job[w].sel].id # job[w].key
      BY <2>7, <3>2
      DEF TypeOK, UpdateStatus, Return, IdleJob, KeyInv, Generating, GeneratePC
    <3> QED
      BY <3>1, <3>2
  <2> QED
    BY <1>2, <2>1, <2>2, <2>3, <2>4, <2>5, <2>6, <2>7
    DEF WorkerStep, ActivateDKIMKey, RevokeDKIMKey
<1>3. ASSUME NEW w \in Workers, Crash(w) PROVE KeyInv'
  BY <1>3 DEF TypeOK, Crash, Return, IdleJob, KeyInv, Generating, GeneratePC
<1>4. CASE DeleteDomain
  BY <1>4 DEF TypeOK, DeleteDomain, KeyInv, Generating
<1>5. CASE UNCHANGED <<key, file, job, exposed>>
  BY <1>5 DEF KeyInv, Generating
<1> QED
  BY <1>1, <1>2, <1>3, <1>4, <1>5
  DEF Next, CreateDomain, GenList, GenStep, GenWrite, GenEnd, GenAbort, vars

(* A row is separated from the private key it was generated with only if   *)
(* its selector was generated while in use or the answer to its INSERT was *)
(* lost, whatever crashes, fails or interleaves.                           *)
THEOREM KeysSurvive == Spec => []KeyLostOnlyIfExposed
<1>1. Init => KeyInv
  BY DEF Init, KeyInv, Generating, GeneratePC, IdleJob
<1>2. KeyInv => KeyLostOnlyIfExposed
  BY DEF KeyInv, KeyLostOnlyIfExposed
<1> QED
  BY <1>1, <1>2, TypeCorrect, NextKeyInv, PTL DEF Spec

-----------------------------------------------------------------------------
(* The tables and the private keys they name.  A selector reaches a table  *)
(* through a generator and a generator through a row, so one that is in a  *)
(* table was generated for; if it is generated for once, that call is over *)
(* and no compensation can follow.                                         *)

Listed(s) == (\E f \in Files : s \in table[f]) \/ (\E g \in Generators : s \in gen[g].sel)

TableInv ==
  /\ \A w \in Workers, s \in Selectors : Generating(w, s) => s \in used
  /\ \A s \in Selectors : key[s] # NoRow \/ Listed(s) => s \in used
  /\ \A s \in Selectors \ (exposed \cup again) : Listed(s) =>
       file[s] # None /\ \A w \in Workers : ~Generating(w, s)

LEMMA NextTableInv == TypeOK /\ KeyInv /\ TableInv /\ [Next]_vars => TableInv'
<1> SUFFICES ASSUME TypeOK, KeyInv, TableInv, [Next]_vars PROVE TableInv'
  OBVIOUS
<1> USE DKIMAssumption
<1>1. ASSUME NEW w \in Workers, NEW s \in Selectors, Call(w, s) PROVE TableInv'
  <2>1. ASSUME NEW k \in Keys, GenerateBegin(w, s, k) PROVE TableInv'
    <3>1. /\ used' = used \cup {s} /\ again' = again \cup ({s} \cap used)
          /\ exposed \subseteq exposed'
          /\ UNCHANGED <<key, file, table, gen>>
      BY <2>1 DEF GenerateBegin
    <3>2. \A v \in Workers, r \in Selectors : Generating(v, r)' => Generating(v, r) \/ r = s
      BY <2>1 DEF TypeOK, GenerateBegin, Generating
    <3>3. \A r \in Selectors : Listed(r)' <=> Listed(r)
      BY <3>1 DEF Listed
    <3> QED
      BY <3>1, <3>2, <3>3 DEF TableInv
  <2>2. CASE ActivateBegin(w, s)
    BY <2>2 DEF TypeOK, ActivateBegin, TableInv, Listed, Generating, GeneratePC
  <2>3. CASE RevokeBegin(w, s)
    BY <2>3 DEF TypeOK, RevokeBegin, TableInv, Listed, Generating, GeneratePC
  <2> QED
    BY <1>1, <2>1, <2>2, <2>3 DEF Call
<1>2. ASSUME NEW w \in Workers, WorkerStep(w) \/ Crash(w) PROVE TableInv'
  <2>0. /\ job[w] \in Job
        /\ job[w].pc # "idle" => job[w].sel \in Selectors /\ job[w].key \in Keys
    BY DEF TypeOK, Job
  <2>1. UNCHANGED <<table, gen, used, again>> /\ exposed \subseteq exposed'
    BY <1>2 DEF WorkerStep, Crash, StorePrivateKey, CreateDKIMKey, CreateLostReply,
                CreateRefused, DeletePrivateKey, HasPrivateKey,
                ActivateDKIMKey, RevokeDKIMKey, UpdateStatus
  <2>2. \A s \in Selectors : Listed(s)' <=> Listed(s)
    BY <2>1 DEF Listed
  <2>3. \A v \in Workers, s \in Selectors : Generating(v, s)' => Generating(v, s)
    <3>1. CASE job' = [job EXCEPT ![w] = IdleJob]
      BY <3>1 DEF TypeOK, IdleJob, Generating, GeneratePC
    <3>2. ASSUME NEW pc, job' = [job EXCEPT ![w].pc = pc],
                 pc \in GeneratePC => job[w].pc \in GeneratePC
          PROVE  \A v \in Workers, s \in Selectors : Generating(v, s)' => Generating(v, s)
      BY <3>2 DEF TypeOK, Generating
    <3> QED
      BY <1>2, <3>1, <3>2
      DEF WorkerStep, Crash, StorePrivateKey, CreateDKIMKey, CreateLostReply,
          CreateRefused, DeletePrivateKey, HasPrivateKey,
          ActivateDKIMKey, RevokeDKIMKey, UpdateStatus, Goto, Return,
          GeneratePC
  <2>4. \A s \in Selectors : key'[s] # NoRow => key[s] # NoRow \/ Generating(w, s)
    <3>1. CASE UNCHANGED key
      BY <3>1
    <3>2. CASE CreateDKIMKey(w) \/ CreateLostReply(w)
      BY <2>0, <3>2 DEF TypeOK, CreateDKIMKey, CreateLostReply, Generating, GeneratePC
    <3>3. ASSUME NEW status, UpdateStatus(w, status), job[w].pc \in {"activate", "revoke"}
          PROVE  \A s \in Selectors : key'[s] # NoRow => key[s] # NoRow \/ Generating(w, s)
      BY <2>0, <3>3 DEF TypeOK, UpdateStatus, NoRow
    <3> QED
      BY <1>2, <3>1, <3>2, <3>3
      DEF WorkerStep, Crash, StorePrivateKey, CreateRefused, DeletePrivateKey,
          HasPrivateKey, ActivateDKIMKey, RevokeDKIMKey
  <2>5. \A s \in Selectors : file'[s] = None => file[s] = None \/ Generating(w, s)
    <3>1. CASE UNCHANGED file
      BY <3>1
    <3>2. CASE StorePrivateKey(w)
      BY <2>0, <3>2 DEF TypeOK, StorePrivateKey
    <3>3. CASE DeletePrivateKey(w)
      BY <2>0, <3>3 DEF TypeOK, DeletePrivateKey, Generating, GeneratePC
    <3> QED
      BY <1>2, <3>1, <3>2, <3>3
      DEF WorkerStep, Crash, CreateDKIMKey, CreateLostReply, CreateRefused,
          HasPrivateKey, ActivateDKIMKey, RevokeDKIMKey, UpdateStatus
  <2> QED
    BY <2>1, <2>2, <2>3, <2>4, <2>5 DEF TableInv
<1>3. CASE DeleteDomain
  BY <1>3 DEF TypeOK, DeleteDomain, TableInv, Listed, Generating
<1>4. ASSUME NEW g \in Generators, GenList(g) PROVE TableInv'
  <2>1. PICK listed \in {Entries, {}} :
          gen' = [h \in Generators |->
                    IF h = g THEN [pc |-> "write", sel |-> listed, todo |-> Files,
                                   run |-> IF Idle(Generators \ {g}) THEN "alone"
                                           ELSE "overlapped"]
                    ELSE IF gen[h].pc = "idle" THEN gen[h]
                    ELSE [gen[h] EXCEPT !.run = "overlapped"]]
    BY <1>4 DEF GenList
  <2>2. UNCHANGED <<key, file, table, job, used, again, exposed>>
    BY <1>4 DEF GenList
  <2>3. gen'[g].sel = listed /\ \A h \in Generators \ {g} : gen'[h].sel = gen[h].sel
    BY <2>1 DEF TypeOK, Generator
  <2>4. \A s \in Selectors : Listed(s)' => Listed(s) \/ key[s] # NoRow
    BY <2>2, <2>3 DEF Listed, Entries, NoRow
  <2>5. \A s \in Selectors \ exposed : key[s] # NoRow =>
          file[s] # None /\ \A w \in Workers : ~Generating(w, s)
    BY DEF TypeOK, KeyInv, KeyRow
  <2> QED
    BY <2>2, <2>4, <2>5 DEF TableInv, Generating
<1>5. ASSUME NEW g \in Generators, GenStep(g) \/ GenAbort(g) PROVE TableInv'
  <2>1. UNCHANGED <<key, file, job, used, again, exposed>>
    BY <1>5 DEF GenStep, GenWrite, GenEnd, GenAbort
  <2>2. \A s \in Selectors : Listed(s)' => Listed(s)
    <3>1. ASSUME NEW f \in Files, GenWrite(g, f)
          PROVE  \A s \in Selectors : Listed(s)' => Listed(s)
      BY <3>1 DEF TypeOK, GenWrite, Generator, Listed
    <3>2. CASE GenEnd(g) \/ GenAbort(g)
      BY <3>2 DEF TypeOK, GenEnd, GenAbort, IdleGenerator, Generator, Listed
    <3> QED
      BY <1>5, <3>1, <3>2 DEF GenStep
  <2> QED
    BY <2>1, <2>2 DEF TableInv, Generating
<1>6. CASE UNCHANGED <<key, file, table, job, gen, used, again, exposed>>
  BY <1>6 DEF TableInv, Generating, Listed
<1> QED
  BY <1>1, <1>2, <1>3, <1>4, <1>5, <1>6 DEF Next, CreateDomain, vars

(* OpenDKIM finds the private key of every selector its tables name,       *)
(* unless the selector is exposed or was generated for a second time.      *)
THEOREM TablesNameKeys == Spec => []TablesHaveFiles
<1>1. Init => TypeOK /\ KeyInv /\ TableInv
  BY InitTypeOK
  DEF Init, KeyInv, TableInv, Listed, Generating, GeneratePC, IdleJob, IdleGenerator
<1>2. TypeOK /\ KeyInv /\ TableInv /\ [Next]_vars => (TypeOK /\ KeyInv /\ TableInv)'
  BY NextTypeOK, NextKeyInv, NextTableInv
<1>3. TypeOK /\ TableInv => TablesHaveFiles
  BY DEF TypeOK, TableInv, Listed, TablesHaveFiles
<1> QED
  BY <1>1, <1>2, <1>3, PTL DEF Spec

-----------------------------------------------------------------------------
(* The two tables.  A generator that is alone so far has nobody beside it, *)
(* and the files it is done with hold what it listed.                      *)

AgreeInv ==
  /\ TablesAgree
  /\ \A g \in Generators : gen[g].pc = "write" /\ gen[g].run = "alone" =>
       /\ Idle(Generators \ {g})
       /\ \A f \in Files \ gen[g].todo : table[f] = gen[g].sel

LEMMA NextAgreeInv == TypeOK /\ AgreeInv /\ [Next]_vars => AgreeInv'
<1> SUFFICES ASSUME TypeOK, AgreeInv, [Next]_vars PROVE AgreeInv'
  OBVIOUS
<1>1. ASSUME NEW g \in Generators, GenList(g) PROVE AgreeInv'
  <2>1. PICK listed \in {Entries, {}} :
          gen' = [h \in Generators |->
                    IF h = g THEN [pc |-> "write", sel |-> listed, todo |-> Files,
                                   run |-> IF Idle(Generators \ {g}) THEN "alone"
                                           ELSE "overlapped"]
                    ELSE IF gen[h].pc = "idle" THEN gen[h]
                    ELSE [gen[h] EXCEPT !.run = "overlapped"]]
    BY <1>1 DEF GenList
  <2>2. /\ gen'[g].pc = "write" /\ gen'[g].todo = Files
        /\ gen'[g].run = "alone" => Idle(Generators \ {g})
        /\ \A h \in Generators \ {g} :
             /\ gen'[h].pc = gen[h].pc
             /\ gen[h].pc = "write" => gen'[h].run = "overlapped"
    BY <2>1 DEF TypeOK, Generator
  <2> QED
    BY <2>2 DEF AgreeInv, TablesAgree, Idle
<1>2. ASSUME NEW g \in Generators, NEW f \in Files, GenWrite(g, f) PROVE AgreeInv'
  <2>1. /\ gen'[g].pc = "write" /\ gen'[g].run = gen[g].run
        /\ gen'[g].sel = gen[g].sel /\ gen'[g].todo = gen[g].todo \ {f}
        /\ \A h \in Generators \ {g} : gen'[h] = gen[h]
        /\ table'[f] = gen[g].sel /\ \A e \in Files \ {f} : table'[e] = table[e]
    BY <1>2 DEF TypeOK, GenWrite, Generator
  <2> QED
    BY <1>2, <2>1 DEF AgreeInv, TablesAgree, Idle, GenWrite
<1>3. ASSUME NEW g \in Generators, GenEnd(g) PROVE AgreeInv'
  <2>1. /\ gen'[g].pc = "idle" /\ \A h \in Generators \ {g} : gen'[h] = gen[h]
        /\ last' = IF gen[g].run = "alone" THEN gen[g].sel ELSE None
        /\ gen[g].pc = "write" /\ gen[g].todo = {} /\ table' = table
    BY <1>3 DEF TypeOK, GenEnd, IdleGenerator
  <2>2. TablesAgree'
    BY <2>1 DEF AgreeInv, TablesAgree, Files
  <2> QED
    BY <2>1, <2>2 DEF AgreeInv, Idle
<1>4. ASSUME NEW g \in Generators, GenAbort(g) PROVE AgreeInv'
  <2>1. /\ gen'[g].pc = "idle" /\ \A h \in Generators \ {g} : gen'[h] = gen[h]
        /\ last' = None /\ table' = table
    BY <1>4 DEF TypeOK, GenAbort, IdleGenerator
  <2> QED
    BY <2>1 DEF AgreeInv, TablesAgree, Idle
<1>5. CASE UNCHANGED <<table, gen, last>>
  BY <1>5 DEF AgreeInv, TablesAgree, Idle
<1> QED
  BY <1>1, <1>2, <1>3, <1>4, <1>5
  DEF Next, Call, WorkerStep, GenerateBegin, ActivateBegin, RevokeBegin,
      StorePrivateKey, CreateDKIMKey, CreateLostReply, CreateRefused, DeletePrivateKey,
      HasPrivateKey, ActivateDKIMKey, RevokeDKIMKey,
      UpdateStatus, Crash, DeleteDomain, CreateDomain, GenStep, vars

(* After a run of the generator that nothing overlapped, KeyTable and      *)
(* SigningTable are both what it listed, whatever was cut short before.    *)
THEOREM GeneratorsRepair == Spec => []TablesAgree
<1>1. Init => AgreeInv
  BY DEF Init, AgreeInv, TablesAgree, Files, IdleGenerator
<1>2. AgreeInv => TablesAgree
  BY DEF AgreeInv
<1> QED
  BY <1>1, <1>2, TypeCorrect, NextAgreeInv, PTL DEF Spec

(* OpenDKIM's tables name keys that exist and, after a generator that ran  *)
(* alone, the same ones.                                                   *)
THEOREM TablesStayUsable == Spec => []TablesAreUsable
BY TablesNameKeys, GeneratorsRepair, PTL DEF TablesAreUsable
=============================================================================
