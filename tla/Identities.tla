----------------------------- MODULE Identities -----------------------------
(***************************************************************************)
(* What identities are made of: the rows of the table mailboxes and the    *)
(* entries of the LDAP directory, how the mapper reads an entry, and how   *)
(* administrators and the directory change both.  Authentication and       *)
(* DirectorySync extend it.  How Create and Delete make and remove a       *)
(* Maildir is MailboxLifecycle's subject.                                  *)
(***************************************************************************)
EXTENDS Naturals, Sequences, FiniteSets

CONSTANTS
  Emails,          \* addresses
  Uids,            \* user names that are not addresses
  Names,           \* the distinguished names of directory entries
  Versions,        \* the forms the entry of each name may take
  Passwords,       \* what users and administrators choose
  IDs,             \* the UUIDs of mailboxes
  DefaultProvider, \* the identity_provider setting
  Registered,      \* addresses whose domain exists and is active
  Administrators,  \* addresses that begin with admin@ or root@
  None,
  MaxFaults

Providers == {"local", "ldap"}
Roles == {"admin", "operator", "auditor", "user"}
RolePairs == {<<"mail-admins", "admin">>, <<"mail-operators", "operator">>,
              <<"mail-auditors", "auditor">>}

(* A directory entry: its attributes and the password that binds to it.    *)
(* A mail value that is no address stands for one without "@".             *)
Entry == [uid : Uids \cup Emails \cup {None}, mail : Seq(Emails \cup {None}),
          upn : Emails \cup {None}, locked : BOOLEAN, groups : Seq(STRING),
          pw : Passwords, inside : BOOLEAN]
NoEntry == [uid |-> None, mail |-> <<>>, upn |-> None, locked |-> TRUE,
            groups |-> <<>>, pw |-> None, inside |-> FALSE]

ASSUME IdentityAssumption ==
  /\ DefaultProvider \in Providers
  /\ Registered \subseteq Emails
  /\ Emails \cap Uids = {}
  /\ None \notin Emails \cup Uids \cup Names \cup IDs \cup Passwords
  /\ \A n \in Names : Versions[n] \subseteq Entry
  /\ MaxFaults \in Nat

VARIABLES
  mailbox,   \* table mailboxes, by address
  directory, \* the LDAP directory, by name
  issued,    \* UUIDs drawn
  faults

tables == <<mailbox, directory, issued, faults>>

(* argon2id with a random salt: a hash verifies the one password it was    *)
(* made from.  The salt makes hashes of one password differ, which nothing *)
(* here depends on.  No user knows the password of the hash None.          *)
HashPassword(pw) == [argon2id |-> pw]
VerifyPassword(pw, hash) == pw # None /\ hash = [argon2id |-> pw]

Row == [id : IDs, status : {"active", "suspended", "deleting"},
        prov : {"ready", "failed", "deprovisioning"},
        provider : Providers, hash : {HashPassword(pw) : pw \in Passwords \cup {None}}]
NoRow == [id |-> None, status |-> "none", prov |-> "none",
          provider |-> "none", hash |-> HashPassword(None)]

(* The gatekeeper of Authenticate, and of the local provider. *)
Open(row) == row.status \notin {"suspended", "disabled"} /\ row.prov = "ready"

TablesInit ==
  /\ mailbox = [e \in Emails |-> NoRow]
  /\ directory = [n \in Names |-> NoEntry]
  /\ issued = {}
  /\ faults = 0

Fault == faults < MaxFaults /\ faults' = faults + 1

ById(i) == {e \in Emails : mailbox[e].id = i}
NewID == CHOOSE i \in IDs : i \notin issued

(* UPDATE mailboxes SET column = value WHERE id = i *)
UpdateById(i, column, value) ==
  mailbox' = [e \in Emails |->
    IF e \in ById(i) THEN [mailbox[e] EXCEPT ![column] = value] ELSE mailbox[e]]

-----------------------------------------------------------------------------
(* The first mail value that is an address, else the principal name, else  *)
(* a uid that is an address.                                               *)
MailOf(v) ==
  LET valid == {k \in DOMAIN v.mail : v.mail[k] # None}
  IN  IF valid # {} THEN v.mail[CHOOSE k \in valid : \A j \in valid : k <= j]
      ELSE IF v.upn # None THEN v.upn
      ELSE IF v.uid \in Emails THEN v.uid ELSE None

(* The handler takes the first role; groups are mapped in their order. *)
RoleOf(v) ==
  LET mapped == {k \in DOMAIN v.groups : \E p \in RolePairs : p[1] = v.groups[k]}
  IN  IF mapped = {} THEN "user"
      ELSE LET first == CHOOSE k \in mapped : \A j \in mapped : k <= j
           IN  (CHOOSE p \in RolePairs : p[1] = v.groups[first])[2]

(* The escaped filter (|(mail={username})(uid={username})) matches literally. *)
Matches(v, user) == user = v.uid \/ \E k \in DOMAIN v.mail : v.mail[k] = user

-----------------------------------------------------------------------------
(* mailbox.Service.Create as a whole: a free address gets a ready mailbox. *)
CreateMailbox(e, pw) ==
  /\ mailbox[e] = NoRow
  /\ e \in Registered
  /\ ~(IDs \subseteq issued)
  /\ mailbox' = [mailbox EXCEPT ![e] = [id |-> NewID, status |-> "active",
                   prov |-> "ready", provider |-> "local",
                   hash |-> HashPassword(pw)]]
  /\ issued' = issued \cup {NewID}
  /\ UNCHANGED <<directory, faults>>

(* Suspend and Resume. *)
SetStatus(e, s) ==
  /\ mailbox[e] # NoRow /\ mailbox[e].status # s
  /\ mailbox' = [mailbox EXCEPT ![e].status = s]
  /\ UNCHANGED <<directory, issued, faults>>

(* mailbox.Service.Delete: deleting, deprovisioning, gone. *)
DeleteStep(e) ==
  /\ mailbox[e] # NoRow
  /\ mailbox' = [mailbox EXCEPT ![e] =
                   IF @.status # "deleting" THEN [@ EXCEPT !.status = "deleting"]
                   ELSE IF @.prov # "deprovisioning" THEN [@ EXCEPT !.prov = "deprovisioning"]
                   ELSE NoRow]
  /\ UNCHANGED <<directory, issued, faults>>

(* An entry is added, changed or removed in the directory. *)
DirectoryChange(n) ==
  /\ \E v \in Versions[n] \cup {NoEntry} :
       /\ v # directory[n]
       /\ directory' = [directory EXCEPT ![n] = v]
  /\ UNCHANGED <<mailbox, issued, faults>>

Administer ==
  \/ \E e \in Emails, pw \in Passwords : CreateMailbox(e, pw)
  \/ \E e \in Emails, s \in {"active", "suspended"} : SetStatus(e, s)
  \/ \E e \in Emails : DeleteStep(e)
  \/ \E n \in Names : DirectoryChange(n)

TablesOK ==
  /\ mailbox \in [Emails -> Row \cup {NoRow}]
  /\ \A n \in Names : directory[n] \in Versions[n] \cup {NoEntry}
  /\ issued \subseteq IDs
  /\ \A e \in Emails : mailbox[e] # NoRow => mailbox[e].id \in issued
  /\ faults \in 0..MaxFaults
=============================================================================
