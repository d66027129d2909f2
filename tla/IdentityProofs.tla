--------------------------- MODULE IdentityProofs ---------------------------
(***************************************************************************)
(* Proofs about Authentication and DirectorySync, for any addresses,       *)
(* directory, passwords, requests in flight and failures.                  *)
(***************************************************************************)
EXTENDS MCIdentity, FiniteSetTheorems, WellFoundedInduction, TLAPS

(* The tables as both specifications keep them: an id names one row, and   *)
(* is never drawn twice.                                                   *)
OneRowPerId ==
  \A e, d \in Emails : mailbox[e] # NoRow /\ mailbox[d].id = mailbox[e].id => d = e

TablesInv ==
  /\ TablesOK
  /\ directory \in [Names -> Entry \cup {NoEntry}]
  /\ OneRowPerId

-----------------------------------------------------------------------------
(* The natural numbers below one another, as a relation. *)
Below == {ss \in Nat \X Nat : ss[1] < ss[2]}

(* A set of numbers has a least one: what the first value of an attribute, *)
(* or the first mapped group, is.                                          *)
LEMMA LeastElement ==
  ASSUME NEW S, S \subseteq Nat, S # {}
  PROVE  \E k \in S : \A j \in S : k <= j
<1>1. IsWellFoundedOn(Below, Nat)
  BY NatLessThanWellFounded, Zenon DEF OpToRel, Below
<1>2. PICK k \in S : \A j \in S : ~(<<j, k>> \in Below)
  BY <1>1, WFMin
<1>3. ASSUME NEW j \in S PROVE ~(j < k)
  <2>1. <<j, k>> \in Nat \X Nat
    OBVIOUS
  <2>2. ~(<<j, k>> \in Below)
    BY <1>2
  <2> QED
    BY <2>1, <2>2 DEF Below
<1> QED
  BY <1>3

LEMMA EntryType ==
  ASSUME NEW v \in Entry \cup {NoEntry}
  PROVE  /\ v.mail \in Seq(Emails \cup {None}) /\ v.groups \in Seq(STRING)
         /\ v.upn \in Emails \cup {None} /\ v.locked \in BOOLEAN
<1>1. CASE v \in Entry
  BY <1>1 DEF Entry
<1>2. CASE v = NoEntry
  <2>1. v.mail = <<>> /\ v.groups = <<>> /\ v.upn = None /\ v.locked = TRUE
    BY <1>2 DEF NoEntry
  <2>2. \A S : <<>> \in Seq(S)
    OBVIOUS
  <2> QED
    BY <2>1, <2>2
<1> QED
  BY <1>1, <1>2

(* An entry maps to one of the addresses, or to none. *)
LEMMA MailOfType ==
  ASSUME NEW v \in Entry \cup {NoEntry}
  PROVE  MailOf(v) \in Emails \cup {None}
<1> DEFINE valid == {k \in DOMAIN v.mail : v.mail[k] # None}
<1>1. v.mail \in Seq(Emails \cup {None}) /\ v.upn \in Emails \cup {None}
  BY EntryType
<1>2. CASE valid # {}
  <2>1. valid \subseteq Nat
    BY <1>1
  <2>2. \E k \in valid : \A j \in valid : k <= j
    BY <1>2, <2>1, LeastElement
  <2>3. (CHOOSE k \in valid : \A j \in valid : k <= j) \in valid
    BY <2>2
  <2>4. \A k \in valid : v.mail[k] \in Emails
    BY <1>1
  <2> QED
    BY <1>2, <2>3, <2>4 DEF MailOf
<1>3. CASE valid = {}
  BY <1>1, <1>3 DEF MailOf
<1> QED
  BY <1>2, <1>3

(* The role of an entry is one of the four. *)
LEMMA RoleOfType ==
  ASSUME NEW v \in Entry \cup {NoEntry}
  PROVE  RoleOf(v) \in Roles
<1> DEFINE mapped == {k \in DOMAIN v.groups : \E p \in RolePairs : p[1] = v.groups[k]}
           first == CHOOSE k \in mapped : \A j \in mapped : k <= j
           pair == CHOOSE p \in RolePairs : p[1] = v.groups[first]
<1>1. v.groups \in Seq(STRING)
  BY EntryType
<1>2. CASE mapped # {}
  <2>1. mapped \subseteq Nat
    BY <1>1
  <2>2. first \in mapped
    <3>1. \E k \in mapped : \A j \in mapped : k <= j
      BY <1>2, <2>1, LeastElement
    <3> QED
      BY <3>1
  <2>3. pair \in RolePairs
    BY <2>2
  <2>4. \A p \in RolePairs : p[2] \in Roles
    BY DEF RolePairs, Roles
  <2> QED
    BY <1>2, <2>3, <2>4 DEF RoleOf
<1>3. CASE mapped = {}
  BY <1>3 DEF RoleOf, Roles
<1> QED
  BY <1>2, <1>3

LEMMA NoRowIsNoRow == NoRow \notin Row /\ NoRow.id = None /\ None \notin IDs
BY IdentityAssumption DEF NoRow, Row

LEMMA FreshId ==
  ASSUME ~(IDs \subseteq issued)
  PROVE  NewID \in IDs /\ NewID \notin issued
BY DEF NewID

(* What administrators do to the tables: they stay in order, a row keeps   *)
(* its id and its provider, and a new row has a new id.                    *)
RowsKept ==
  /\ issued \subseteq issued'
  /\ \A e \in Emails : mailbox'[e] # NoRow =>
       \/ mailbox[e] # NoRow /\ mailbox'[e].id = mailbox[e].id
                             /\ mailbox'[e].provider = mailbox[e].provider
       \/ mailbox'[e].id \notin issued

LEMMA TablesInitially == TablesInit => TablesInv
BY IdentityAssumption, NoRowIsNoRow DEF TablesInit, TablesInv, TablesOK, OneRowPerId

(* A new row at a free address. *)
LEMMA NewRow ==
  ASSUME TablesInv, NEW e \in Emails, NEW row \in Row, mailbox[e] = NoRow,
         ~(IDs \subseteq issued), row.id = NewID,
         mailbox' = [mailbox EXCEPT ![e] = row], issued' = issued \cup {NewID},
         UNCHANGED directory, faults' \in 0..MaxFaults
  PROVE  TablesInv' /\ RowsKept
<1>1. NewID \in IDs /\ NewID \notin issued
  BY FreshId
<1>2. mailbox \in [Emails -> Row \cup {NoRow}] /\ mailbox' \in [Emails -> Row \cup {NoRow}]
  BY DEF TablesInv, TablesOK
<1>3. \A d \in Emails : mailbox'[d] = IF d = e THEN row ELSE mailbox[d]
  BY <1>2
<1>4. \A d \in Emails : mailbox[d] = NoRow \/ mailbox[d].id \in issued
  BY DEF TablesInv, TablesOK
<1>5. \A d \in Emails : mailbox[d].id # NewID
  BY <1>1, <1>4, NoRowIsNoRow
<1>6. OneRowPerId'
  BY <1>1, <1>3, <1>5 DEF OneRowPerId, TablesInv
<1>7. RowsKept
  BY <1>1, <1>3 DEF RowsKept
<1> QED
  BY <1>1, <1>2, <1>3, <1>4, <1>6, <1>7 DEF TablesInv, TablesOK

LEMMA CreateKeeps ==
  ASSUME TablesInv, NEW e \in Emails, NEW pw \in Passwords \cup {None}, CreateMailbox(e, pw)
  PROVE  TablesInv' /\ RowsKept
<1> DEFINE row == [id |-> NewID, status |-> "active", prov |-> "ready", provider |-> "local",
                   hash |-> HashPassword(pw)]
<1>1. row \in Row /\ row.id = NewID
  BY FreshId DEF CreateMailbox, Row, Providers
<1>2. /\ mailbox[e] = NoRow /\ ~(IDs \subseteq issued)
      /\ mailbox' = [mailbox EXCEPT ![e] = row] /\ issued' = issued \cup {NewID}
      /\ UNCHANGED <<directory, faults>>
  BY DEF CreateMailbox
<1>3. faults' \in 0..MaxFaults
  BY <1>2 DEF TablesInv, TablesOK
<1> HIDE DEF row
<1> QED
  BY <1>1, <1>2, <1>3, NewRow

(* Rows that change and keep their id and provider, or go. *)
LEMMA ChangedRows ==
  ASSUME TablesInv, mailbox' \in [Emails -> Row \cup {NoRow}],
         \A e \in Emails : mailbox'[e] # NoRow =>
           mailbox[e] # NoRow /\ mailbox'[e].id = mailbox[e].id,
         UNCHANGED <<directory, issued>>, faults' \in 0..MaxFaults
  PROVE  TablesInv'
<1>1. \A e \in Emails : mailbox'[e].id = mailbox[e].id \/ mailbox'[e] = NoRow
  OBVIOUS
<1>2. \A e \in Emails : mailbox'[e] # NoRow => mailbox'[e].id \in IDs
  BY DEF Row
<1>3. OneRowPerId'
  BY <1>1, <1>2, NoRowIsNoRow DEF OneRowPerId, TablesInv
<1> QED
  BY <1>1, <1>3 DEF TablesInv, TablesOK

LEMMA StatusKeeps ==
  ASSUME TablesInv, NEW e \in Emails, NEW s \in {"active", "suspended"}, SetStatus(e, s)
  PROVE  TablesInv' /\ RowsKept
<1>1. mailbox[e] \in Row
  BY DEF SetStatus, TablesInv, TablesOK
<1>2. [mailbox[e] EXCEPT !.status = s] \in Row
  BY <1>1 DEF Row
<1>3. \A d \in Emails : mailbox'[d] = IF d = e THEN [mailbox[e] EXCEPT !.status = s] ELSE mailbox[d]
  BY DEF SetStatus, TablesInv, TablesOK
<1>4. /\ [mailbox[e] EXCEPT !.status = s].id = mailbox[e].id
      /\ [mailbox[e] EXCEPT !.status = s].provider = mailbox[e].provider
  BY <1>1 DEF Row
<1>5. mailbox' \in [Emails -> Row \cup {NoRow}]
  BY <1>2 DEF SetStatus, TablesInv, TablesOK
<1>6. TablesInv'
  BY <1>3, <1>4, <1>5, ChangedRows DEF SetStatus, TablesInv, TablesOK
<1> QED
  BY <1>3, <1>4, <1>6 DEF SetStatus, RowsKept

LEMMA DeleteKeeps ==
  ASSUME TablesInv, NEW e \in Emails, DeleteStep(e)
  PROVE  TablesInv' /\ RowsKept
<1> DEFINE row == mailbox[e]
           left == IF row.status # "deleting" THEN [row EXCEPT !.status = "deleting"]
                   ELSE IF row.prov # "deprovisioning" THEN [row EXCEPT !.prov = "deprovisioning"]
                   ELSE NoRow
<1>1. row \in Row
  BY DEF DeleteStep, TablesInv, TablesOK
<1>2. /\ left \in Row \cup {NoRow}
      /\ left # NoRow => left.id = row.id /\ left.provider = row.provider
  BY <1>1 DEF Row
<1>3. \A d \in Emails : mailbox'[d] = IF d = e THEN left ELSE mailbox[d]
  BY DEF DeleteStep, TablesInv, TablesOK
<1>4. mailbox' \in [Emails -> Row \cup {NoRow}]
  BY <1>2, <1>3 DEF DeleteStep, TablesInv, TablesOK
<1> HIDE DEF left
<1>5. TablesInv'
  BY <1>2, <1>3, <1>4, ChangedRows DEF DeleteStep, TablesInv, TablesOK
<1> QED
  BY <1>2, <1>3, <1>5 DEF DeleteStep, RowsKept

LEMMA DirectoryKeeps ==
  ASSUME TablesInv, NEW n \in Names, DirectoryChange(n)
  PROVE  TablesInv' /\ RowsKept
<1>1. Versions[n] \subseteq Entry
  BY IdentityAssumption
<1>2. directory' \in [Names -> Entry \cup {NoEntry}]
  BY <1>1 DEF DirectoryChange, TablesInv
<1>3. \A m \in Names : directory'[m] \in Versions[m] \cup {NoEntry}
  BY DEF DirectoryChange, TablesInv, TablesOK
<1> QED
  BY <1>2, <1>3 DEF DirectoryChange, TablesInv, TablesOK, OneRowPerId, RowsKept

LEMMA AdministerKeeps ==
  ASSUME TablesInv, Administer
  PROVE  TablesInv' /\ RowsKept
BY CreateKeeps, StatusKeeps, DeleteKeeps, DirectoryKeeps DEF Administer

(* An update by id touches one column of the rows of that id. *)
LEMMA UpdateKeeps ==
  ASSUME TablesInv, NEW i \in IDs, NEW column \in {"status", "prov", "provider", "hash"}, NEW value,
         \A row \in Row : [row EXCEPT ![column] = value] \in Row,
         UpdateById(i, column, value), UNCHANGED <<directory, issued>>, faults' \in 0..MaxFaults
  PROVE  /\ TablesInv'
         /\ \A e \in Emails : mailbox[e].id # i => mailbox'[e] = mailbox[e]
<1>1. \A e \in Emails : mailbox'[e] = IF mailbox[e].id = i THEN [mailbox[e] EXCEPT ![column] = value]
                                      ELSE mailbox[e]
  BY DEF UpdateById, ById
<1>2. \A e \in Emails : mailbox[e] \in Row \cup {NoRow}
  BY DEF TablesInv, TablesOK
<1>3. ASSUME NEW e \in Emails, mailbox[e].id = i
      PROVE  mailbox[e] \in Row /\ mailbox'[e] \in Row /\ mailbox'[e].id = mailbox[e].id
  <2>1. mailbox[e] \in Row
    BY <1>2, <1>3, NoRowIsNoRow
  <2>2. [mailbox[e] EXCEPT ![column] = value].id = mailbox[e].id
    BY <2>1 DEF Row
  <2> QED
    BY <1>1, <1>3, <2>1, <2>2
<1>4. mailbox' \in [Emails -> Row \cup {NoRow}]
  <2>1. DOMAIN mailbox' = Emails /\ mailbox' = [e \in Emails |-> mailbox'[e]]
    BY DEF UpdateById
  <2> QED
    BY <1>1, <1>2, <1>3, <2>1
<1>5. \A e \in Emails : mailbox'[e] # NoRow => mailbox[e] # NoRow /\ mailbox'[e].id = mailbox[e].id
  BY <1>1, <1>3, NoRowIsNoRow
<1> QED
  BY <1>1, <1>4, <1>5, ChangedRows

-----------------------------------------------------------------------------
(* Sync *)

SyncStates ==
  [pc : {"idle", "next", "create", "setProvider", "suspend", "provision"},
   list : [Names -> Entry \cup {NoEntry}], todo : SUBSET Names, auto : BOOLEAN,
   dry : BOOLEAN, only : SUBSET Emails, name : Names \cup {None}, id : IDs \cup {None}]

(* Sync holds the id of a row it read.  If that row is still there, it is  *)
(* LDAP managed while Sync is about to suspend it: a deleted mailbox takes *)
(* its id with it, and no row becomes local again.                         *)
SyncHolds ==
  /\ sync.pc \in {"create", "setProvider", "suspend", "provision"} =>
       sync.name \in Names /\ SyncMail(sync.name) \in Emails
  /\ sync.pc \in {"setProvider", "suspend"} => sync.id \in issued
  /\ sync.pc = "suspend" => \A e \in Emails : mailbox[e].id = sync.id => mailbox[e].provider = "ldap"

SyncInv == TablesInv /\ sync \in SyncStates /\ SyncHolds /\ SyncCreatesUnambiguous

LEMMA SyncInitially == SyncInit => SyncInv
<1> SUFFICES ASSUME SyncInit PROVE SyncInv
  OBVIOUS
<1>1. TablesInv
  BY TablesInitially DEF SyncInit
<1>2. sync \in SyncStates /\ sync.pc = "idle"
  BY DEF SyncInit, IdleSync, SyncStates
<1> QED
  BY <1>1, <1>2 DEF SyncInv, SyncHolds, SyncCreatesUnambiguous

(* Sync at rest, or between two entries, holds nothing. *)
LEMMA SyncAtRest ==
  ASSUME TablesInv', sync' \in SyncStates, sync'.pc \in {"idle", "next"}
  PROVE  SyncInv'
BY DEF SyncInv, SyncHolds, SyncCreatesUnambiguous

LEMMA SyncBeginStep ==
  ASSUME SyncInv, NEW auto \in BOOLEAN, NEW dry \in BOOLEAN, NEW only \in SUBSET Emails,
         SyncBegin(auto, dry, only)
  PROVE  SyncInv'
<1>1. ListUsers \subseteq Names
  BY DEF ListUsers
<1>2. sync' \in SyncStates /\ sync'.pc = "next"
  BY <1>1 DEF SyncInv, TablesInv, SyncBegin, IdleSync, SyncStates
<1>3. TablesInv'
  BY DEF SyncInv, SyncBegin, TablesInv, TablesOK, OneRowPerId
<1> QED
  BY <1>2, <1>3, SyncAtRest

LEMMA SyncEntryStep ==
  ASSUME SyncInv, NEW n \in Names, SyncEntry(n)
  PROVE  SyncInv'
<1>0. sync \in SyncStates /\ mailbox \in [Emails -> Row \cup {NoRow}] /\ OneRowPerId
  BY DEF SyncInv, TablesInv, TablesOK
<1>1. UNCHANGED <<mailbox, directory, issued>>
  BY DEF SyncEntry
<1>2. faults' \in 0..MaxFaults
  BY IdentityAssumption DEF SyncEntry, Fault, SyncInv, TablesInv, TablesOK
<1>3. TablesInv'
  BY <1>1, <1>2 DEF SyncInv, TablesInv, TablesOK, OneRowPerId
<1>4. CASE Skip(n)
  <2>1. sync' \in SyncStates /\ sync'.pc = "next"
    BY <1>0, <1>4 DEF Skip, SyncEntry, SyncStates
  <2> QED
    BY <1>3, <2>1, SyncAtRest
<1>5. CASE Selected(n) /\ (\/ sync' = [sync EXCEPT !.pc = "create", !.name = n, !.todo = @ \ {n}]
                          \/ /\ mailbox[SyncMail(n)] # NoRow
                             /\ mailbox[SyncMail(n)].provider # "local"
                             /\ sync' = [sync EXCEPT !.pc = "suspend", !.name = n,
                                            !.id = mailbox[SyncMail(n)].id, !.todo = @ \ {n}])
  <2> DEFINE row == mailbox[SyncMail(n)]
  <2>1. SyncMail(n) \in Emails
    BY <1>5, IdentityAssumption DEF Selected
  <2>2. row # NoRow => row \in Row /\ row.id \in issued /\ row.id \in IDs
    BY <1>0, <2>1 DEF SyncInv, TablesInv, TablesOK
  <2>3. /\ sync' \in SyncStates /\ sync'.pc \in {"create", "suspend"}
        /\ sync'.name = n /\ sync'.list = sync.list
        /\ sync'.pc = "suspend" => row # NoRow /\ row.provider # "local" /\ sync'.id = row.id
    <3>1. CASE sync' = [sync EXCEPT !.pc = "create", !.name = n, !.todo = @ \ {n}]
      BY <1>0, <3>1 DEF SyncStates
    <3>2. CASE /\ row # NoRow /\ row.provider # "local"
               /\ sync' = [sync EXCEPT !.pc = "suspend", !.name = n, !.id = row.id, !.todo = @ \ {n}]
      <4> HIDE DEF row
      <4> QED
        BY <1>0, <2>2, <3>2 DEF SyncStates
    <3> QED
      BY <1>5, <3>1, <3>2
  <2>4. SyncCreatesUnambiguous'
    BY <1>5, <2>3 DEF Selected, Collides, SyncCreatesUnambiguous, SyncMail
  <2>5. ASSUME sync'.pc = "suspend", NEW e \in Emails, mailbox[e].id = row.id
        PROVE  mailbox[e].provider = "ldap"
    <3>1. e = SyncMail(n)
      BY <1>0, <2>1, <2>3, <2>5 DEF OneRowPerId
    <3>2. row.provider \in Providers
      BY <2>2, <2>3, <2>5 DEF Row
    <3> QED
      BY <2>3, <2>5, <3>1, <3>2 DEF Providers
  <2>6. SyncHolds'
    BY <1>1, <2>1, <2>2, <2>3, <2>5 DEF SyncHolds, SyncMail
  <2> QED
    BY <1>3, <2>3, <2>4, <2>6 DEF SyncInv
<1>6. Skip(n) \/ (Selected(n) /\ (SyncMissing(n) \/ (mailbox[SyncMail(n)] # NoRow /\ SyncExisting(n))))
  BY DEF SyncEntry
<1> QED
  BY <1>4, <1>5, <1>6 DEF SyncMissing, SyncExisting

LEMMA SyncCreateStep ==
  ASSUME SyncInv, SyncCreate
  PROVE  SyncInv'
<1> DEFINE e == SyncMail(sync.name)
           created == [sync EXCEPT !.pc = "setProvider", !.id = NewID]
           refused == [sync EXCEPT !.pc = "next"]
<1>1. e \in Emails /\ sync \in SyncStates /\ sync.pc = "create" /\ UNCHANGED directory
  BY DEF SyncInv, SyncHolds, SyncCreate
<1>2. faults' \in 0..MaxFaults
  BY IdentityAssumption DEF SyncCreate, Fault, SyncInv, TablesInv, TablesOK
<1>3. ASSUME NEW prov \in {"ready", "failed"}, InsertLdapManaged(e, prov)
      PROVE  TablesInv' /\ NewID \in IDs /\ NewID \in issued'
  <2> DEFINE row == [id |-> NewID, status |-> "active", prov |-> prov, provider |-> "local",
                     hash |-> HashPassword(None)]
  <2>1. mailbox[e] = NoRow /\ ~(IDs \subseteq issued)
    BY <1>3 DEF InsertLdapManaged
  <2>2. row \in Row /\ row.id = NewID /\ NewID \in IDs
    BY <2>1, FreshId DEF Row, Providers
  <2>3. mailbox' = [mailbox EXCEPT ![e] = row] /\ issued' = issued \cup {NewID}
    BY <1>3 DEF InsertLdapManaged
  <2> HIDE DEF row
  <2>4. TablesInv
    BY DEF SyncInv
  <2> HIDE DEF e
  <2> QED
    BY <1>1, <1>2, <2>1, <2>2, <2>3, <2>4, NewRow
<1>4. ASSUME sync' = created, TablesInv', NewID \in IDs, NewID \in issued'
      PROVE  SyncInv'
  <2>1. /\ sync' \in SyncStates /\ sync'.pc = "setProvider" /\ sync'.name = sync.name
        /\ sync'.list = sync.list /\ sync'.id \in issued'
    BY <1>1, <1>4 DEF SyncStates
  <2> QED
    BY <1>1, <1>4, <2>1 DEF SyncInv, SyncHolds, SyncCreatesUnambiguous, SyncMail
<1>5. ASSUME sync' = refused, TablesInv'
      PROVE  SyncInv'
  <2>1. sync' \in SyncStates /\ sync'.pc = "next"
    BY <1>1, <1>5 DEF SyncStates
  <2> QED
    BY <1>5, <2>1, SyncAtRest
<1>6. CASE InsertLdapManaged(e, "ready") /\ sync' = created
  BY <1>3, <1>4, <1>6
<1>7. CASE InsertLdapManaged(e, "failed") /\ sync' \in {created, refused}
  BY <1>3, <1>4, <1>5, <1>7
<1>8. CASE sync' = refused /\ UNCHANGED <<mailbox, issued>>
  <2>1. TablesInv'
    BY <1>1, <1>2, <1>8 DEF SyncInv, TablesInv, TablesOK, OneRowPerId
  <2> QED
    BY <1>5, <1>8, <2>1
<1> QED
  BY <1>6, <1>7, <1>8 DEF SyncCreate

LEMMA SyncUpdateStep ==
  ASSUME SyncInv, SyncUpdate
  PROVE  SyncInv' /\ (sync.pc = "suspend" =>
                      \A e \in Emails : mailbox'[e].status # mailbox[e].status
                                          => mailbox[e].provider = "ldap")
<1>1. sync.id \in IDs /\ UNCHANGED <<directory, issued>> /\ TablesInv
  BY DEF SyncUpdate, SyncInv, SyncHolds, TablesInv, TablesOK
<1>2. faults' \in 0..MaxFaults
  BY IdentityAssumption DEF SyncUpdate, Fault, SyncInv, TablesInv, TablesOK
<1>3. /\ sync' \in SyncStates /\ sync'.name = sync.name /\ sync'.list = sync.list
      /\ sync'.pc = IF sync.pc = "suspend" THEN "next" ELSE "provision"
  BY DEF SyncUpdate, SyncInv, SyncStates
<1>0. ASSUME TablesInv'
      PROVE  SyncInv'
  BY <1>0, <1>3 DEF SyncUpdate, SyncInv, SyncHolds, SyncCreatesUnambiguous, SyncMail
<1>4. CASE UNCHANGED mailbox
  <2>1. TablesInv'
    BY <1>1, <1>2, <1>4 DEF TablesInv, TablesOK, OneRowPerId
  <2> QED
    BY <1>0, <1>4, <2>1
<1>5. CASE sync.pc = "suspend" /\ UpdateById(sync.id, "status", "suspended")
  <2>1. \A row \in Row : [row EXCEPT !["status"] = "suspended"] \in Row
    BY DEF Row
  <2>2. TablesInv' /\ \A e \in Emails : mailbox[e].id # sync.id => mailbox'[e] = mailbox[e]
    BY <1>1, <1>2, <1>5, <2>1, UpdateKeeps
  <2> QED
    BY <1>0, <1>5, <2>2 DEF SyncInv, SyncHolds
<1>6. CASE sync.pc # "suspend" /\ UpdateById(sync.id, "provider", "ldap")
  <2>1. \A row \in Row : [row EXCEPT !["provider"] = "ldap"] \in Row
    BY DEF Row, Providers
  <2>2. TablesInv'
    BY <1>1, <1>2, <1>6, <2>1, UpdateKeeps
  <2> QED
    BY <1>0, <1>6, <2>2
<1> QED
  BY <1>4, <1>5, <1>6 DEF SyncUpdate

LEMMA SyncProvisionStep ==
  ASSUME SyncInv, SyncProvision
  PROVE  SyncInv'
<1> DEFINE e == SyncMail(sync.name)
           row == mailbox[e]
<1>1. e \in Emails /\ UNCHANGED <<directory, issued>> /\ TablesInv
  BY DEF SyncInv, SyncHolds, SyncProvision
<1>2. faults' \in 0..MaxFaults
  BY IdentityAssumption DEF SyncProvision, Fault, SyncInv, TablesInv, TablesOK
<1>3. sync' \in SyncStates /\ sync'.pc = "next"
  BY DEF SyncProvision, SyncInv, SyncStates
<1>4. CASE UNCHANGED mailbox
  <2>1. TablesInv'
    BY <1>1, <1>2, <1>4 DEF TablesInv, TablesOK, OneRowPerId
  <2> QED
    BY <1>3, <2>1, SyncAtRest
<1>5. ASSUME row # NoRow, NEW prov \in {"ready", "failed"}, UpdateById(row.id, "prov", prov)
      PROVE  SyncInv'
  <2>1. \A r \in Row : [r EXCEPT !["prov"] = prov] \in Row
    BY DEF Row
  <2>2. row.id \in IDs
    BY <1>1, <1>5 DEF TablesInv, TablesOK
  <2> HIDE DEF row
  <2>3. TablesInv'
    BY <1>1, <1>2, <1>5, <2>1, <2>2, UpdateKeeps
  <2> QED
    BY <1>3, <2>3, SyncAtRest
<1> QED
  BY <1>4, <1>5 DEF SyncProvision

LEMMA AdministerUnderSync ==
  ASSUME SyncInv, Administer, UNCHANGED sync
  PROVE  SyncInv'
<1>1. TablesInv' /\ RowsKept
  BY AdministerKeeps DEF SyncInv
<1>2. ASSUME sync.pc = "suspend", NEW e \in Emails, mailbox'[e].id = sync.id
      PROVE  mailbox'[e].provider = "ldap"
  <2>1. sync.id \in issued /\ sync.id \in IDs
    BY <1>2 DEF SyncInv, SyncHolds, TablesInv, TablesOK
  <2>2. mailbox'[e] # NoRow
    BY <1>2, <2>1, NoRowIsNoRow
  <2>3. mailbox'[e].id = mailbox[e].id /\ mailbox'[e].provider = mailbox[e].provider
    BY <1>1, <1>2, <2>1, <2>2 DEF RowsKept
  <2> QED
    BY <1>2, <2>3 DEF SyncInv, SyncHolds
<1>3. SyncHolds'
  BY <1>1, <1>2 DEF SyncInv, SyncHolds, RowsKept, SyncMail
<1> QED
  BY <1>1, <1>3 DEF SyncInv, SyncCreatesUnambiguous

(* One step of Sync, or of those who act meanwhile. *)
LEMMA SyncNextStep ==
  ASSUME SyncInv, [SyncNext]_<<tables, sync>>
  PROVE  SyncInv'
<1>1. ASSUME NEW auto \in BOOLEAN, NEW dry \in BOOLEAN, NEW only \in Domains,
             SyncBegin(auto, dry, only)
      PROVE  SyncInv'
  <2>1. only \in SUBSET Emails
    BY DEF Domains
  <2> QED
    BY <1>1, <2>1, SyncBeginStep
<1>2. CASE LDAPSync \/ IdentitySyncCommand \/ LdapSyncCommand
  <2>1. Emails \in Domains
    BY DEF Domains
  <2> QED
    BY <1>1, <1>2, <2>1 DEF LDAPSync, IdentitySyncCommand, LdapSyncCommand
<1>3. CASE SyncEnd
  <2>1. sync' \in SyncStates /\ sync'.pc = "idle"
    BY <1>3 DEF SyncEnd, IdleSync, SyncStates
  <2>2. TablesInv'
    BY <1>3 DEF SyncEnd, SyncInv, TablesInv, TablesOK, OneRowPerId
  <2> QED
    BY <2>1, <2>2, SyncAtRest
<1>4. CASE UNCHANGED <<tables, sync>>
  BY <1>4 DEF tables, SyncInv, TablesInv, TablesOK, OneRowPerId, SyncHolds,
              SyncCreatesUnambiguous, SyncMail
<1> QED
  BY <1>2, <1>3, <1>4, SyncEntryStep, SyncCreateStep, SyncUpdateStep,
     SyncProvisionStep, AdministerUnderSync
  DEF SyncNext, SyncStep

(* The inductive invariant of a Sync. *)
THEOREM SyncInvariant == SyncSpec => []SyncInv
BY SyncInitially, SyncNextStep, PTL DEF SyncSpec

(* Sync is in its types: who waits to create or to suspend has an entry.   *)
THEOREM SyncTypes == SyncSpec => []SyncTypeOK
<1>1. SyncInv => SyncTypeOK
  BY DEF SyncInv, SyncHolds, SyncTypeOK, TablesInv, SyncStates
<1> QED
  BY <1>1, SyncInvariant, PTL

(* Sync acts upon no address that two entries of its listing claim, and    *)
(* suspends no mailbox that is not LDAP managed, whatever administrators   *)
(* delete and re-create between its query and its UPDATE.                  *)
THEOREM SyncIsBounded == SyncSpec => SyncStaysInBounds
<1> DEFINE Bound == sync.pc = "suspend" /\ sync'.pc = "next" =>
                      \A e \in Emails : mailbox'[e].status # mailbox[e].status
                                          => mailbox[e].provider = "ldap"
<1>1. SyncInv => SyncCreatesUnambiguous
  BY DEF SyncInv
<1>2. SyncInv /\ [SyncNext]_<<tables, sync>> => [Bound]_<<tables, sync>>
  <2> SUFFICES ASSUME SyncInv, SyncNext, sync.pc = "suspend", sync'.pc = "next" PROVE Bound
    OBVIOUS
  <2>1. SyncUpdate
    BY DEF SyncNext, SyncStep, LDAPSync, IdentitySyncCommand, LdapSyncCommand, SyncBegin,
           SyncEntry, SyncCreate, SyncProvision, SyncEnd
  <2> QED
    BY <2>1, SyncUpdateStep
<1>3. SyncSpec => [][Bound]_<<tables, sync>>
  BY <1>2, SyncInvariant, PTL DEF SyncSpec
<1> QED
  BY <1>1, <1>3, SyncInvariant, PTL DEF SyncStaysInBounds, SyncSuspendsOnlyLdap

-----------------------------------------------------------------------------
(* Logins *)

InFlight == {"assign", "local", "search", "bind", "gate", "issue"}

Entries == Entry \cup {NoEntry}
Assignments == Emails \X (Providers \cup {"none"})
Accounts == Emails \cup Names
LoginStates ==
  [pc : InFlight \cup {"idle", "setPassword"}, user : Emails \cup Uids \cup {None},
   pw : Passwords \cup {None}, by : Providers \cup {"none"}, name : Names \cup {None},
   entry : Entries, email : Emails \cup {None}, role : Roles,
   id : IDs \cup {None}, blind : BOOLEAN, open : SUBSET Emails,
   good : SUBSET Accounts, enabled : SUBSET Names, assigned : SUBSET Assignments]

(* The history of a login in flight includes what is true now. *)
Seen(l, mb, dir) ==
  l.pc \in InFlight =>
    /\ OpenNow(mb) \subseteq l.open /\ GoodNow(mb, dir, l.pw) \subseteq l.good
    /\ EnabledNow(dir) \subseteq l.enabled /\ AssignedNow(mb) \subseteq l.assigned

(* What a login concluded from a table, its history shows was once true. *)
Remembers(l) ==
  /\ l.pc \in InFlight \ {"assign"} /\ l.user \in Emails =>
       \/ <<l.user, l.by>> \in l.assigned
       \/ l.by = DefaultProvider /\ (l.blind \/ <<l.user, "none">> \in l.assigned)
  /\ l.pc = "local" => l.by = "local"
  /\ l.pc \in {"search", "bind", "gate"} => l.by # "local"
  /\ l.pc = "bind" => l.name \in Names /\ (l.entry.locked \/ l.name \in l.enabled)
  /\ l.pc = "gate" => l.name \in l.good \cap l.enabled /\ l.email \in Emails
  /\ l.pc = "issue" =>
       /\ l.email \in Emails /\ l.email \in l.open
       /\ IF l.by = "local" THEN l.email \in l.good ELSE l.name \in l.good \cap l.enabled
  /\ l.pc = "setPassword" => l.id \in IDs /\ l.pw \in Passwords

LoginInv ==
  /\ TablesInv
  /\ login \in [Workers -> LoginStates]
  /\ \A w \in Workers : Remembers(login[w]) /\ Seen(login[w], mailbox, directory)

LEMMA IdleIsFine ==
  ASSUME NEW mb, NEW dir
  PROVE  /\ IdleLogin \in LoginStates /\ IdleLogin.pc = "idle"
         /\ Remembers(IdleLogin) /\ Seen(IdleLogin, mb, dir)
<1>1. IdleLogin \in LoginStates /\ IdleLogin.pc = "idle"
  BY DEF IdleLogin, LoginStates, Roles, Entries
<1> QED
  BY <1>1 DEF Remembers, Seen, InFlight

LEMMA LoginInitially == LoginInit => LoginInv
BY TablesInitially, IdleIsFine DEF LoginInit, LoginInv

(* A step of one request that changes no table but may fail. *)
LEMMA OwnStep ==
  ASSUME LoginInv, NEW w \in Workers, UNCHANGED <<mailbox, directory, issued>>,
         UNCHANGED faults \/ Fault,
         NEW l \in LoginStates, login' = [login EXCEPT ![w] = l],
         Remembers(l), Seen(l, mailbox, directory)
  PROVE  LoginInv'
<1>1. faults' \in 0..MaxFaults
  BY IdentityAssumption DEF Fault, LoginInv, TablesInv, TablesOK
<1>2. TablesInv'
  BY <1>1 DEF LoginInv, TablesInv, TablesOK, OneRowPerId
<1>3. login' \in [Workers -> LoginStates]
  BY DEF LoginInv
<1>4. \A v \in Workers : login'[v] = IF v = w THEN l ELSE login[v]
  BY DEF LoginInv
<1>5. \A v \in Workers : Remembers(login'[v]) /\ Seen(login'[v], mailbox', directory')
  BY <1>4 DEF LoginInv
<1> QED
  BY <1>2, <1>3, <1>5 DEF LoginInv

LEMMA RefuseStep ==
  ASSUME LoginInv, NEW w \in Workers, UNCHANGED <<mailbox, directory, issued>>,
         UNCHANGED faults \/ Fault, Refuse(w)
  PROVE  LoginInv'
BY OwnStep, IdleIsFine DEF Refuse

LEMMA NowTypes ==
  ASSUME TablesInv
  PROVE  /\ OpenNow(mailbox) \subseteq Emails /\ EnabledNow(directory) \subseteq Names
         /\ \A pw : GoodNow(mailbox, directory, pw) \subseteq Accounts
         /\ AssignedNow(mailbox) \subseteq Assignments
<1>1. \A e \in Emails : mailbox[e].provider \in Providers \cup {"none"}
  BY DEF TablesInv, TablesOK, Row, NoRow
<1> QED
  BY <1>1 DEF OpenNow, EnabledNow, GoodNow, AssignedNow, Accounts, Assignments

LEMMA LoginBeginStep ==
  ASSUME LoginInv, NEW w \in Workers, NEW user \in Emails \cup Uids, NEW pw \in Passwords,
         LoginBegin(w, user, pw)
  PROVE  LoginInv'
<1> DEFINE l == [IdleLogin EXCEPT
                   !.pc = "assign", !.user = user, !.pw = pw,
                   !.open = OpenNow(mailbox), !.good = GoodNow(mailbox, directory, pw),
                   !.enabled = EnabledNow(directory), !.assigned = AssignedNow(mailbox)]
<1>1. /\ l \in LoginStates /\ l.pc = "assign" /\ l.pw = pw
      /\ l.open = OpenNow(mailbox) /\ l.good = GoodNow(mailbox, directory, pw)
      /\ l.enabled = EnabledNow(directory) /\ l.assigned = AssignedNow(mailbox)
  BY NowTypes DEF LoginInv, IdleLogin, LoginStates, InFlight, Roles, Entries
<1>2. login' = [login EXCEPT ![w] = l] /\ UNCHANGED <<mailbox, directory, issued, faults>>
  BY DEF LoginBegin, tables
<1> HIDE DEF l
<1>3. Remembers(l) /\ Seen(l, mailbox, directory)
  BY <1>1 DEF Remembers, Seen
<1> QED
  BY <1>1, <1>2, <1>3, OwnStep

LEMMA AssignStep ==
  ASSUME LoginInv, NEW w \in Workers, Assign(w)
  PROVE  LoginInv'
<1>1. PICK blind \in BOOLEAN : AssignOutcome(w, blind)
  BY DEF Assign
<1>2. UNCHANGED <<mailbox, directory, issued>> /\ (UNCHANGED faults \/ Fault)
  BY DEF Assign
<1> DEFINE e == login[w].user
           found == ~blind /\ e \in Emails /\ mailbox[e] # NoRow
           p == IF found THEN mailbox[e].provider ELSE DefaultProvider
           pc == IF p = "local" THEN "local" ELSE "search"
           l == [login[w] EXCEPT !.by = p, !.blind = blind, !.pc = pc]
<1>3. CASE Refuse(w)
  BY <1>2, <1>3, RefuseStep
<1>4. CASE ~Refuse(w)
  <2>1. login[w] \in LoginStates /\ login[w].pc = "assign"
    BY DEF LoginInv, Assign
  <2>2. p \in Providers
    BY IdentityAssumption DEF LoginInv, TablesInv, TablesOK, Row
  <2>3. e \in Emails =>
          \/ <<e, p>> \in AssignedNow(mailbox)
          \/ p = DefaultProvider /\ (blind \/ <<e, "none">> \in AssignedNow(mailbox))
    BY DEF AssignedNow, NoRow
  <2>4. login' = [login EXCEPT ![w] = l]
    BY <1>1, <1>4 DEF AssignOutcome, LoginInv
  <2> HIDE DEF p
  <2>5. /\ l \in LoginStates /\ l.pc \in {"local", "search"} /\ l.by = p /\ l.blind = blind
        /\ l.pc = "local" => p = "local"
        /\ l.pc = "search" => p # "local"
        /\ l.user = e /\ l.pw = login[w].pw /\ l.open = login[w].open /\ l.good = login[w].good
        /\ l.enabled = login[w].enabled /\ l.assigned = login[w].assigned
    <3>1. pc \in {"local", "search"} /\ (pc = "local" <=> p = "local")
      OBVIOUS
    <3>2. pc \in InFlight \cup {"idle", "setPassword"} /\ p \in Providers \cup {"none"}
      BY <2>2, <3>1 DEF InFlight
    <3> HIDE DEF pc
    <3>3. l \in LoginStates
      BY <2>1, <3>2 DEF LoginStates
    <3>4. /\ l.pc = pc /\ l.by = p /\ l.blind = blind
          /\ l.user = e /\ l.pw = login[w].pw /\ l.open = login[w].open /\ l.good = login[w].good
          /\ l.enabled = login[w].enabled /\ l.assigned = login[w].assigned
      BY <2>1 DEF LoginStates
    <3> QED
      BY <3>1, <3>3, <3>4
  <2> HIDE DEF l
  <2>6. Seen(login[w], mailbox, directory)
    BY DEF LoginInv
  <2>7. Seen(l, mailbox, directory)
    BY <2>1, <2>5, <2>6 DEF Seen, InFlight
  <2>8. Remembers(l)
    BY <2>1, <2>3, <2>5, <2>6 DEF Remembers, Seen, InFlight
  <2> QED
    BY <1>2, <2>4, <2>5, <2>7, <2>8, OwnStep
<1> QED
  BY <1>3, <1>4

(* What the later steps of a login change of it. *)
LEMMA AdvanceStep ==
  ASSUME LoginInv, NEW w \in Workers, UNCHANGED tables, NEW l \in LoginStates,
         login' = [login EXCEPT ![w] = l], login[w].pc \in InFlight \ {"assign"},
         l.pc \in {"bind", "gate", "issue"},
         l.user = login[w].user, l.pw = login[w].pw, l.by = login[w].by,
         l.blind = login[w].blind, l.open = login[w].open, l.good = login[w].good,
         l.enabled = login[w].enabled, l.assigned = login[w].assigned,
         l.pc # "issue" => l.by # "local",
         l.pc = "bind" => l.name \in Names /\ (l.entry.locked \/ l.name \in l.enabled),
         l.pc = "gate" => l.name \in l.good \cap l.enabled /\ l.email \in Emails,
         l.pc = "issue" =>
           /\ l.email \in Emails /\ l.email \in l.open
           /\ IF l.by = "local" THEN l.email \in l.good ELSE l.name \in l.good \cap l.enabled
  PROVE  LoginInv'
<1>1. Seen(login[w], mailbox, directory) /\ Remembers(login[w])
  BY DEF LoginInv
<1>2. Seen(l, mailbox, directory)
  BY <1>1 DEF Seen
<1>3. Remembers(l)
  BY <1>1 DEF Remembers, InFlight
<1> QED
  BY <1>2, <1>3, OwnStep DEF tables

LEMMA LocalStep ==
  ASSUME LoginInv, NEW w \in Workers, LocalAuthenticate(w)
  PROVE  LoginInv'
<1> DEFINE e == login[w].user
           l == [login[w] EXCEPT !.email = e, !.role = LocalRole(e), !.pc = "issue"]
<1>1. UNCHANGED tables /\ UNCHANGED <<mailbox, directory, issued, faults>>
  BY DEF LocalAuthenticate, tables
<1>2. CASE Refuse(w)
  BY <1>1, <1>2, RefuseStep
<1>3. CASE ~Refuse(w)
  <2>1. login[w] \in LoginStates /\ login[w].pc = "local" /\ login[w].by = "local"
    BY DEF LoginInv, LocalAuthenticate, Remembers
  <2>2. /\ e \in Emails /\ mailbox[e] # NoRow /\ Open(mailbox[e])
        /\ VerifyPassword(login[w].pw, mailbox[e].hash)
        /\ login' = [login EXCEPT ![w] = l]
    BY <1>3 DEF LocalAuthenticate, LoginInv
  <2>3. e \in OpenNow(mailbox) /\ e \in GoodNow(mailbox, directory, login[w].pw)
    BY <2>2 DEF OpenNow, GoodNow
  <2>4. e \in login[w].open /\ e \in login[w].good
    BY <2>1, <2>3 DEF LoginInv, Seen, InFlight
  <2>5. LocalRole(e) \in Roles
    BY DEF LocalRole, Roles
  <2>6. /\ l \in LoginStates /\ l.pc = "issue" /\ l.email = e /\ l.by = "local"
        /\ l.user = login[w].user /\ l.pw = login[w].pw /\ l.blind = login[w].blind
        /\ l.open = login[w].open /\ l.good = login[w].good
        /\ l.enabled = login[w].enabled /\ l.assigned = login[w].assigned
    BY <2>1, <2>2, <2>5 DEF LoginStates, InFlight
  <2> HIDE DEF l
  <2> QED
    BY <1>1, <2>1, <2>2, <2>4, <2>6, AdvanceStep DEF InFlight
<1> QED
  BY <1>2, <1>3

LEMMA SearchStep ==
  ASSUME LoginInv, NEW w \in Workers, LdapSearch(w)
  PROVE  LoginInv'
<1> DEFINE found == Search(login[w].user)
           n == CHOOSE n \in found : TRUE
           v == directory[n]
           l == [login[w] EXCEPT !.name = n, !.entry = v, !.pc = "bind"]
<1>1. UNCHANGED tables /\ UNCHANGED <<mailbox, directory, issued, faults>>
  BY DEF LdapSearch, tables
<1>2. CASE Refuse(w)
  BY <1>1, <1>2, RefuseStep
<1>3. CASE ~Refuse(w)
  <2>1. login[w] \in LoginStates /\ login[w].pc = "search" /\ login[w].by # "local"
    BY DEF LoginInv, LdapSearch, Remembers
  <2>2. Cardinality(found) = 1 /\ login' = [login EXCEPT ![w] = l]
    BY <1>3 DEF LdapSearch, LoginInv
  <2>3. found # {}
    BY <2>2, FS_EmptySet
  <2>4. n \in Names
    BY <2>3 DEF Search
  <2>5. v \in Entries
    BY <2>4 DEF LoginInv, TablesInv, Entries
  <2>6. v.locked \/ n \in login[w].enabled
    BY <2>1, <2>4 DEF LoginInv, Seen, InFlight, EnabledNow
  <2> HIDE DEF n, v
  <2>7. /\ l \in LoginStates /\ l.pc = "bind" /\ l.name = n /\ l.entry = v
        /\ l.by = login[w].by
        /\ l.user = login[w].user /\ l.pw = login[w].pw /\ l.blind = login[w].blind
        /\ l.open = login[w].open /\ l.good = login[w].good
        /\ l.enabled = login[w].enabled /\ l.assigned = login[w].assigned
    BY <2>1, <2>4, <2>5 DEF LoginStates, InFlight
  <2> HIDE DEF l
  <2> QED
    BY <1>1, <2>1, <2>2, <2>4, <2>6, <2>7, AdvanceStep DEF InFlight
<1> QED
  BY <1>2, <1>3

LEMMA BindStep ==
  ASSUME LoginInv, NEW w \in Workers, LdapBind(w)
  PROVE  LoginInv'
<1> DEFINE v == login[w].entry
           l == [login[w] EXCEPT !.email = MailOf(v), !.role = RoleOf(v), !.pc = "gate"]
<1>1. UNCHANGED tables /\ UNCHANGED <<mailbox, directory, issued, faults>>
  BY DEF LdapBind, tables
<1>2. CASE Refuse(w)
  BY <1>1, <1>2, RefuseStep
<1>3. CASE ~Refuse(w)
  <2>1. /\ login[w] \in LoginStates /\ login[w].pc = "bind" /\ login[w].by # "local"
        /\ login[w].name \in Names /\ (v.locked \/ login[w].name \in login[w].enabled)
    BY DEF LoginInv, LdapBind, Remembers
  <2>2. /\ Bind(w) /\ MailOf(v) # None /\ ~v.locked
        /\ login' = [login EXCEPT ![w] = l]
    BY <1>3 DEF LdapBind, LoginInv
  <2>3. v \in Entry \cup {NoEntry}
    BY <2>1 DEF LoginStates, Entries
  <2>4. MailOf(v) \in Emails /\ RoleOf(v) \in Roles
    BY <2>2, <2>3, MailOfType, RoleOfType
  <2>5. login[w].name \in login[w].good
    BY <2>1, <2>2 DEF Bind, LoginInv, Seen, InFlight, GoodNow
  <2>6. /\ l \in LoginStates /\ l.pc = "gate" /\ l.email = MailOf(v)
        /\ l.name = login[w].name /\ l.by = login[w].by
        /\ l.user = login[w].user /\ l.pw = login[w].pw /\ l.blind = login[w].blind
        /\ l.open = login[w].open /\ l.good = login[w].good
        /\ l.enabled = login[w].enabled /\ l.assigned = login[w].assigned
    BY <2>1, <2>4 DEF LoginStates, InFlight
  <2> HIDE DEF l
  <2> QED
    BY <1>1, <2>1, <2>2, <2>4, <2>5, <2>6, AdvanceStep DEF InFlight
<1> QED
  BY <1>2, <1>3

LEMMA GateStep ==
  ASSUME LoginInv, NEW w \in Workers, Gate(w)
  PROVE  LoginInv'
<1> DEFINE e == login[w].email
           l == [login[w] EXCEPT !.pc = "issue"]
<1>1. UNCHANGED tables /\ UNCHANGED <<mailbox, directory, issued, faults>>
  BY DEF Gate, tables
<1>2. CASE Refuse(w)
  BY <1>1, <1>2, RefuseStep
<1>3. CASE ~Refuse(w)
  <2>1. /\ login[w] \in LoginStates /\ login[w].pc = "gate" /\ login[w].by # "local"
        /\ login[w].name \in login[w].good \cap login[w].enabled /\ e \in Emails
    BY DEF LoginInv, Gate, Remembers
  <2>2. /\ mailbox[e] # NoRow /\ mailbox[e].status = "active" /\ mailbox[e].prov = "ready"
        /\ login' = [login EXCEPT ![w] = l]
    BY <1>3 DEF Gate, LoginInv
  <2>3. e \in login[w].open
    BY <2>1, <2>2 DEF LoginInv, Seen, InFlight, OpenNow, Open
  <2>4. /\ l \in LoginStates /\ l.pc = "issue" /\ l.email = e
        /\ l.name = login[w].name /\ l.by = login[w].by
        /\ l.user = login[w].user /\ l.pw = login[w].pw /\ l.blind = login[w].blind
        /\ l.open = login[w].open /\ l.good = login[w].good
        /\ l.enabled = login[w].enabled /\ l.assigned = login[w].assigned
    BY <2>1 DEF LoginStates, InFlight
  <2> HIDE DEF l
  <2> QED
    BY <1>1, <2>1, <2>2, <2>3, <2>4, AdvanceStep DEF InFlight
<1> QED
  BY <1>2, <1>3

LEMMA SetPasswordBeginStep ==
  ASSUME LoginInv, NEW w \in Workers, NEW e \in Emails, NEW pw \in Passwords,
         SetPasswordBegin(w, e, pw)
  PROVE  LoginInv'
<1> DEFINE l == [IdleLogin EXCEPT
                   !.pc = "setPassword", !.user = e, !.pw = pw, !.id = mailbox[e].id]
<1>1. mailbox[e].id \in IDs
  BY DEF SetPasswordBegin, LoginInv, TablesInv, TablesOK, Row
<1>2. l \in LoginStates /\ l.pc = "setPassword" /\ l.id = mailbox[e].id /\ l.pw = pw
  BY <1>1 DEF IdleLogin, LoginStates, Roles, Entries
<1>3. login' = [login EXCEPT ![w] = l] /\ UNCHANGED <<mailbox, directory, issued, faults>>
  BY DEF SetPasswordBegin, tables
<1> HIDE DEF l
<1>4. Remembers(l) /\ Seen(l, mailbox, directory)
  BY <1>1, <1>2 DEF Remembers, Seen, InFlight
<1> QED
  BY <1>2, <1>3, <1>4, OwnStep

(* A login whose history grows. *)
Grown(k, O, G, N, A) ==
  [k EXCEPT !.open = @ \cup O, !.good = @ \cup G, !.enabled = @ \cup N, !.assigned = @ \cup A]

LEMMA HistoryGrows ==
  ASSUME NEW k \in LoginStates, NEW O \in SUBSET Emails, NEW G \in SUBSET Accounts,
         NEW N \in SUBSET Names, NEW A \in SUBSET Assignments
  PROVE  Grown(k, O, G, N, A) \in LoginStates
<1>1. /\ k.open \cup O \in SUBSET Emails /\ k.good \cup G \in SUBSET Accounts
      /\ k.enabled \cup N \in SUBSET Names /\ k.assigned \cup A \in SUBSET Assignments
  BY DEF LoginStates
<1> QED
  BY <1>1 DEF LoginStates, Grown

(* Whoever changes the tables, the logins in flight keep what they         *)
(* remember and see the new state.                                         *)
LEMMA WitnessStep ==
  ASSUME TablesInv', NEW f \in [Workers -> LoginStates], \A w \in Workers : Remembers(f[w]),
         login' = Witness(f)
  PROVE  LoginInv'
<1>1. ASSUME NEW w \in Workers
      PROVE  /\ login'[w] \in LoginStates /\ Remembers(login'[w])
             /\ Seen(login'[w], mailbox', directory')
  <2> DEFINE k == f[w]
             O == OpenNow(mailbox')
             G == GoodNow(mailbox', directory', k.pw)
             N == EnabledNow(directory')
             A == AssignedNow(mailbox')
             l == Grown(k, O, G, N, A)
  <2>1. k \in LoginStates /\ Remembers(k)
    OBVIOUS
  <2>2. login'[w] = IF k.pc \in {"idle", "setPassword"} THEN k ELSE l
    BY DEF Witness, Grown
  <2>3. CASE k.pc \in {"idle", "setPassword"}
    BY <2>1, <2>2, <2>3 DEF Seen, InFlight
  <2>4. CASE k.pc \notin {"idle", "setPassword"}
    <3>1. /\ O \in SUBSET Emails /\ G \in SUBSET Accounts /\ N \in SUBSET Names
          /\ A \in SUBSET Assignments
      <4>1. \A e \in Emails : mailbox'[e].provider \in Providers \cup {"none"}
        BY DEF TablesInv, TablesOK, Row, NoRow
      <4> QED
        BY <4>1 DEF OpenNow, EnabledNow, GoodNow, AssignedNow, Accounts, Assignments
    <3> HIDE DEF k
    <3>2. /\ l \in LoginStates /\ l.pc = k.pc /\ l.user = k.user /\ l.pw = k.pw /\ l.by = k.by
          /\ l.name = k.name /\ l.entry = k.entry /\ l.email = k.email /\ l.id = k.id
          /\ l.blind = k.blind
          /\ l.open = k.open \cup O /\ l.good = k.good \cup G
          /\ l.enabled = k.enabled \cup N /\ l.assigned = k.assigned \cup A
      <4> HIDE DEF O, G, N, A
      <4>1. l \in LoginStates
        BY <2>1, <3>1, HistoryGrows
      <4> QED
        BY <2>1, <4>1 DEF LoginStates, Grown
    <3>3. login'[w] = l
      BY <2>2, <2>4
    <3> HIDE DEF l
    <3>4. Remembers(l)
      BY <2>1, <3>2 DEF Remembers
    <3>5. Seen(l, mailbox', directory')
      BY <3>2 DEF Seen
    <3> QED
      BY <3>2, <3>3, <3>4, <3>5
  <2> QED
    BY <2>3, <2>4
<1>2. login' = [w \in Workers |-> login'[w]]
  BY DEF Witness
<1> QED
  BY <1>1, <1>2 DEF LoginInv

LEMMA SetPasswordStep ==
  ASSUME LoginInv, NEW w \in Workers, SetPassword(w)
  PROVE  LoginInv'
<1> DEFINE f == [login EXCEPT ![w] = IdleLogin]
<1>1. login[w].id \in IDs /\ login[w].pw \in Passwords /\ TablesInv
  BY DEF LoginInv, SetPassword, Remembers
<1>2. \A row \in Row : [row EXCEPT !["hash"] = HashPassword(login[w].pw)] \in Row
  BY <1>1 DEF Row
<1>3. faults' \in 0..MaxFaults /\ UNCHANGED <<directory, issued>>
  BY DEF SetPassword, LoginInv, TablesInv, TablesOK
<1>4. TablesInv'
  BY <1>1, <1>2, <1>3, UpdateKeeps DEF SetPassword
<1>5. f \in [Workers -> LoginStates] /\ \A v \in Workers : Remembers(f[v])
  BY IdleIsFine DEF LoginInv
<1>6. login' = Witness(f)
  BY DEF SetPassword
<1> HIDE DEF f
<1> QED
  BY <1>4, <1>5, <1>6, WitnessStep

(* Sync takes a local mailbox over. *)
LEMMA TakeOverKeeps ==
  ASSUME TablesInv, NEW e \in Emails, mailbox[e].provider = "local",
         mailbox' = [mailbox EXCEPT ![e].provider = "ldap"], UNCHANGED <<directory, issued, faults>>
  PROVE  TablesInv'
<1>1. mailbox[e] \in Row
  BY DEF TablesInv, TablesOK, NoRow
<1>2. [mailbox[e] EXCEPT !.provider = "ldap"] \in Row
  BY <1>1 DEF Row, Providers
<1>3. [mailbox[e] EXCEPT !.provider = "ldap"].id = mailbox[e].id
  BY <1>1 DEF Row
<1>4. \A d \in Emails : mailbox'[d] = IF d = e THEN [mailbox[e] EXCEPT !.provider = "ldap"]
                                       ELSE mailbox[d]
  BY DEF TablesInv, TablesOK
<1>5. mailbox' \in [Emails -> Row \cup {NoRow}]
  BY <1>2 DEF TablesInv, TablesOK
<1> QED
  BY <1>1, <1>3, <1>4, <1>5, NoRowIsNoRow, ChangedRows DEF TablesInv, TablesOK

LEMMA MeanwhileStep ==
  ASSUME LoginInv, Meanwhile
  PROVE  LoginInv'
<1>1. TablesInv'
  BY AdministerKeeps, CreateKeeps, TakeOverKeeps DEF Meanwhile, LoginInv
<1> QED
  BY <1>1, WitnessStep DEF Meanwhile, LoginInv

LEMMA LoginNextStep ==
  ASSUME LoginInv, [LoginNext]_<<tables, login>>
  PROVE  LoginInv'
<1>1. ASSUME NEW w \in Workers, Login(w) \/ IdentityAuthCommand(w) \/ SetPasswordRequest(w)
                                          \/ SetPasswordCommand(w)
      PROVE  LoginInv'
  BY <1>1, LoginBeginStep, SetPasswordBeginStep
  DEF Login, IdentityAuthCommand, SetPasswordRequest, SetPasswordCommand
<1>2. ASSUME NEW w \in Workers, Issue(w) \/ LoginFail(w)
      PROVE  LoginInv'
  BY <1>2, RefuseStep DEF Issue, LoginFail, Refuse, tables
<1>3. CASE UNCHANGED <<tables, login>>
  BY <1>3 DEF tables, LoginInv, TablesInv, TablesOK, OneRowPerId
<1> QED
  BY <1>1, <1>2, <1>3, AssignStep, LocalStep, SearchStep, BindStep, GateStep, SetPasswordStep,
     MeanwhileStep DEF LoginNext, LoginStep

(* The inductive invariant of the logins in flight. *)
THEOREM LoginInvariant == LoginSpec => []LoginInv
BY LoginInitially, LoginNextStep, PTL DEF LoginSpec

(* The logins in flight are in their types: who waits for the second       *)
(* gatekeeper has an address.                                              *)
THEOREM LoginTypes == LoginSpec => []LoginTypeOK
<1>1. LoginInv => LoginTypeOK
  BY DEF LoginInv, Remembers, LoginTypeOK, TablesInv, LoginStates, InFlight
<1> QED
  BY <1>1, LoginInvariant, PTL

(* A session is issued only for a mailbox that was open, on a password     *)
(* that was valid and by a provider that was assigned, each at some moment *)
(* of the request, however many requests, administrators, directory        *)
(* changes and failed queries interleave.                                  *)
THEOREM SessionsJustified == LoginSpec => []SessionsAreJustified
<1>1. LoginInv => SessionsAreJustified
  BY DEF LoginInv, Remembers, InFlight, SessionsAreJustified, SessionsPassTheGate,
         SessionsHadThePassword, AssignedProviderDecides
<1> QED
  BY <1>1, LoginInvariant, PTL

-----------------------------------------------------------------------------
(* Either part, with the other at rest: the composition that is model-     *)
(* checked.                                                                *)
IdentityInv ==
  \/ focus = "login" /\ LoginInv /\ sync = IdleSync
  \/ focus = "sync" /\ SyncInv /\ login = [w \in Workers |-> IdleLogin]

(* Logins and Sync, in one specification, stay in their types. *)
THEOREM IdentityTypes == Spec => []TypeOK
<1>1. Init => IdentityInv
  BY LoginInitially, SyncInitially DEF Init, IdentityInv, LoginInit, SyncInit
<1>2. IdentityInv /\ [Next]_vars => IdentityInv'
  <2> SUFFICES ASSUME IdentityInv, [Next]_vars PROVE IdentityInv'
    OBVIOUS
  <2>1. CASE focus = "login"
    BY <2>1, LoginNextStep DEF IdentityInv, Next, vars
  <2>2. CASE focus = "sync"
    BY <2>2, SyncNextStep DEF IdentityInv, Next, vars
  <2> QED
    BY <2>1, <2>2 DEF IdentityInv
<1>3. LoginInv => LoginTypeOK
  BY DEF LoginInv, Remembers, LoginTypeOK, TablesInv, LoginStates, InFlight
<1>4. SyncInv => SyncTypeOK
  BY DEF SyncInv, SyncHolds, SyncTypeOK, TablesInv, SyncStates
<1>5. IdentityInv => TypeOK
  <2>1. CASE LoginInv /\ sync = IdleSync
    BY <1>3, <2>1 DEF TypeOK, SyncTypeOK, LoginTypeOK, IdleSync
  <2>2. CASE SyncInv /\ login = [w \in Workers |-> IdleLogin]
    <3>1. \A w \in Workers : login[w].pc = "idle"
      BY <2>2 DEF IdleLogin
    <3> QED
      BY <1>4, <2>2, <3>1 DEF TypeOK, SyncTypeOK, LoginTypeOK
  <2> QED
    BY <2>1, <2>2 DEF IdentityInv
<1> QED
  BY <1>1, <1>2, <1>5, PTL DEF Spec

-----------------------------------------------------------------------------
(* Both at once, statement by statement: each keeps the other's invariant. *)

(* A login or password change touches no entry of the directory, draws no  *)
(* id, and leaves the id and the provider of every mailbox alone.          *)
LEMMA LoginsChangeHashes ==
  ASSUME LoginInv, LoginStep
  PROVE  /\ UNCHANGED <<directory, issued>>
         /\ \A e \in Emails : mailbox'[e].id = mailbox[e].id /\ mailbox'[e].provider = mailbox[e].provider
<1>1. ASSUME NEW w \in Workers, SetPassword(w), NEW e \in Emails
      PROVE  mailbox'[e].id = mailbox[e].id /\ mailbox'[e].provider = mailbox[e].provider
  <2>1. mailbox'[e] = mailbox[e]
          \/ mailbox'[e] = [mailbox[e] EXCEPT !["hash"] = HashPassword(login[w].pw)]
    BY <1>1 DEF SetPassword, UpdateById
  <2>2. mailbox[e] \in Row \cup {NoRow}
    BY DEF LoginInv, TablesInv, TablesOK
  <2> QED
    BY <2>1, <2>2 DEF Row, NoRow
<1>2. CASE \E w \in Workers : SetPassword(w)
  BY <1>1, <1>2 DEF SetPassword
<1>3. CASE UNCHANGED <<mailbox, directory, issued>>
  BY <1>3
<1>4. \/ \E w \in Workers : SetPassword(w)
      \/ UNCHANGED <<mailbox, directory, issued>>
  BY DEF LoginStep, Login, IdentityAuthCommand, LoginBegin, SetPasswordRequest,
         SetPasswordCommand, SetPasswordBegin, Assign, LocalAuthenticate, LdapSearch, LdapBind,
         Gate, Issue, LoginFail, tables
<1> QED
  BY <1>2, <1>3, <1>4

(* The invariant of both. *)
TogetherInv == LoginInv /\ SyncInv

LEMMA TogetherStep ==
  ASSUME TogetherInv, [IdentityNext]_identityvars
  PROVE  TogetherInv'
<1>1. CASE LoginStep /\ UNCHANGED sync
  <2>1. LoginInv'
    BY <1>1, LoginNextStep DEF TogetherInv, LoginNext
  <2>2. SyncHolds'
    BY <1>1, LoginsChangeHashes DEF TogetherInv, SyncInv, SyncHolds, SyncMail
  <2>3. TablesInv' /\ sync' \in SyncStates /\ SyncCreatesUnambiguous'
    BY <1>1, <2>1 DEF TogetherInv, SyncInv, LoginInv, SyncCreatesUnambiguous
  <2> QED
    BY <2>1, <2>2, <2>3 DEF TogetherInv, SyncInv
<1>2. CASE SyncNext /\ login' = Witness(login)
  <2>1. SyncInv'
    BY <1>2, SyncNextStep DEF TogetherInv
  <2>2. TablesInv'
    BY <2>1 DEF SyncInv
  <2>3. LoginInv'
    BY <1>2, <2>2, WitnessStep DEF TogetherInv, LoginInv
  <2> QED
    BY <2>1, <2>3 DEF TogetherInv
<1>3. CASE UNCHANGED identityvars
  <2>1. UNCHANGED <<tables, login>> /\ UNCHANGED <<tables, sync>>
    BY <1>3 DEF identityvars
  <2> QED
    BY <2>1, LoginNextStep, SyncNextStep DEF TogetherInv
<1> QED
  BY <1>1, <1>2, <1>3 DEF IdentityNext

LEMMA TogetherInvariant == IdentitySpec => []TogetherInv
<1>1. IdentityInit => TogetherInv
  BY LoginInitially, SyncInitially DEF IdentityInit, TogetherInv
<1> QED
  BY <1>1, TogetherStep, PTL DEF IdentitySpec

(* With logins, password changes, Sync, administrators and the directory   *)
(* interleaved statement by statement, and queries failing anywhere: a     *)
(* session is issued only for a mailbox that was open, on a password that  *)
(* was valid and by a provider that was assigned, each at some moment of   *)
(* the request.                                                            *)
THEOREM SessionsJustifiedTogether == IdentitySpec => []SessionsAreJustified
<1>1. TogetherInv => SessionsAreJustified
  BY DEF TogetherInv, LoginInv, Remembers, InFlight, SessionsAreJustified, SessionsPassTheGate,
         SessionsHadThePassword, AssignedProviderDecides
<1> QED
  BY <1>1, TogetherInvariant, PTL

(* And Sync, with logins and password changes between its statements, acts *)
(* upon no address that two entries claim and suspends no mailbox that is  *)
(* not LDAP managed.                                                       *)
THEOREM SyncBoundedTogether == IdentitySpec => SyncStaysInBounds
<1> DEFINE Bound == sync.pc = "suspend" /\ sync'.pc = "next" =>
                      \A e \in Emails : mailbox'[e].status # mailbox[e].status
                                          => mailbox[e].provider = "ldap"
<1>1. TogetherInv => SyncCreatesUnambiguous
  BY DEF TogetherInv, SyncInv
<1>2. TogetherInv /\ [IdentityNext]_identityvars => [Bound]_<<tables, sync>>
  <2> SUFFICES ASSUME TogetherInv, IdentityNext, sync.pc = "suspend", sync'.pc = "next"
               PROVE  Bound
    BY DEF identityvars
  <2>1. sync' # sync
    OBVIOUS
  <2>2. SyncUpdate
    BY <2>1 DEF IdentityNext, SyncNext, SyncStep, LDAPSync, IdentitySyncCommand, LdapSyncCommand,
                SyncBegin, SyncEntry, SyncCreate, SyncProvision, SyncEnd
  <2> QED
    BY <2>2, SyncUpdateStep DEF TogetherInv
<1>3. IdentitySpec => [][Bound]_<<tables, sync>>
  BY <1>2, TogetherInvariant, PTL DEF IdentitySpec
<1> QED
  BY <1>1, <1>3, TogetherInvariant, PTL DEF SyncStaysInBounds, SyncSuspendsOnlyLdap
=============================================================================
