--------------------------- MODULE Authentication ---------------------------
(***************************************************************************)
(* Who gets a session.  identity.Service.Authenticate reads the mailbox,   *)
(* asks the provider assigned to it, and for LDAP reads the mailbox again; *)
(* the Login handler then issues a token pair for the address and the role *)
(* the provider returned.  Administrators, the directory and Sync change   *)
(* what the steps of one login read.                                       *)
(*                                                                         *)
(* Every pair that RefreshTokens derives from a session carries its        *)
(* address and its role unchanged; TokenManager has that part.             *)
(***************************************************************************)
EXTENDS Identities

CONSTANT Workers   \* login and set-password requests in flight

VARIABLE login     \* the request each worker is executing

(* History that a login keeps of the time it was in flight: the mailboxes  *)
(* that were open, the accounts its password was good for, the entries     *)
(* that were enabled, the provider of each address ("none": no mailbox).   *)
OpenNow(mb) == {e \in Emails : mb[e] # NoRow /\ Open(mb[e])}
GoodNow(mb, dir, pw) == 
  {e \in Emails : VerifyPassword(pw, mb[e].hash)} \cup {n \in Names : dir[n].pw = pw}
EnabledNow(dir) == {n \in Names : ~dir[n].locked}
AssignedNow(mb) == {<<e, mb[e].provider>> : e \in Emails}

IdleLogin == [pc |-> "idle", user |-> None, pw |-> None, by |-> "none",
              name |-> None, entry |-> NoEntry, email |-> None, role |-> "user",
              id |-> None, blind |-> FALSE,
              open |-> {}, good |-> {}, enabled |-> {}, assigned |-> {}]

LoginInit == TablesInit /\ login = [w \in Workers |-> IdleLogin]

(* Every login in flight witnesses the new state of the tables. *)
Witness(f) ==
  [w \in Workers |-> IF f[w].pc \in {"idle", "setPassword"} THEN f[w]
     ELSE [f[w] EXCEPT !.open = @ \cup OpenNow(mailbox'),
                       !.good = @ \cup GoodNow(mailbox', directory', f[w].pw),
                       !.enabled = @ \cup EnabledNow(directory'),
                       !.assigned = @ \cup AssignedNow(mailbox')]]

(* Search under UserBaseDN. *)
Search(user) == {n \in Names : directory[n] # NoEntry /\ Matches(directory[n], user)}

-----------------------------------------------------------------------------
(* Login: the handler and identity.Service.Authenticate *)

LoginBegin(w, user, pw) ==
  /\ login[w].pc = "idle"
  /\ login' = [login EXCEPT ![w] = [IdleLogin EXCEPT
                 !.pc = "assign", !.user = user, !.pw = pw,
                 !.open = OpenNow(mailbox), !.good = GoodNow(mailbox, directory, pw),
                 !.enabled = EnabledNow(directory), !.assigned = AssignedNow(mailbox)]]
  /\ UNCHANGED tables

(* POST /auth/login, and identity auth, which prints the identity *)
(* instead of issuing tokens for it.                                       *)
Login(w) == \E user \in Emails \cup Uids, pw \in Passwords : LoginBegin(w, user, pw)
IdentityAuthCommand(w) ==
  \E user \in Emails \cup Uids, pw \in Passwords : LoginBegin(w, user, pw)

Refuse(w) == login' = [login EXCEPT ![w] = IdleLogin]

(* The row names the provider and is checked.  Without a row, and when the *)
(* query fails, the default provider is asked and nothing is checked.      *)
AssignOutcome(w, blind) ==
  LET e == login[w].user
      found == ~blind /\ e \in Emails /\ mailbox[e] # NoRow
      p == IF found THEN mailbox[e].provider ELSE DefaultProvider
  IN  IF found /\ ~Open(mailbox[e]) THEN Refuse(w)
      ELSE login' = [login EXCEPT ![w].by = p, ![w].blind = blind,
                                  ![w].pc = IF p = "local" THEN "local" ELSE "search"]

Assign(w) ==
  /\ login[w].pc = "assign"
  /\ \/ AssignOutcome(w, FALSE) /\ UNCHANGED faults
     \/ AssignOutcome(w, TRUE) /\ Fault
  /\ UNCHANGED <<mailbox, directory, issued>>

LocalRole(e) == IF e \in Administrators THEN "admin" ELSE "user"

(* The provider reads the row again, with the same checks, and compares    *)
(* the password.  A failed query is a failed authentication.               *)
LocalAuthenticate(w) ==
  /\ login[w].pc = "local"
  /\ LET e == login[w].user
         row == mailbox[e]
     IN  IF e \in Emails /\ row # NoRow /\ Open(row) /\ VerifyPassword(login[w].pw, row.hash)
           THEN login' = [login EXCEPT ![w].email = e, ![w].role = LocalRole(e),
                                       ![w].pc = "issue"]
           ELSE Refuse(w)
  /\ UNCHANGED tables

(* Exactly one entry, under the base DN. *)
LdapSearch(w) ==
  /\ login[w].pc = "search"
  /\ LET found == Search(login[w].user)
     IN  IF Cardinality(found) = 1 /\ \A n \in found : directory[n].inside
           THEN LET n == CHOOSE n \in found : TRUE
                IN  login' = [login EXCEPT ![w].name = n, ![w].entry = directory[n],
                                           ![w].pc = "bind"]
           ELSE Refuse(w)
  /\ UNCHANGED tables

(* Binding checks the password of now; the identity comes from the entry   *)
(* of the search.                                                          *)
Bind(w) ==
  /\ directory[login[w].name] # NoEntry
  /\ directory[login[w].name].pw = login[w].pw

MutLdapBind(w) ==
  /\ login[w].pc = "bind"
  /\ LET v == login[w].entry
     IN  IF Bind(w) /\ MailOf(v) # None /\ v.uid # None
           THEN login' = [login EXCEPT ![w].email = MailOf(v), ![w].role = RoleOf(v),
                                       ![w].pc = "gate"]
           ELSE Refuse(w)
  /\ UNCHANGED tables

LdapBind(w) ==
  /\ login[w].pc = "bind"
  /\ LET v == login[w].entry
     IN  IF Bind(w) /\ MailOf(v) # None /\ v.uid # None /\ ~v.locked
           THEN login' = [login EXCEPT ![w].email = MailOf(v), ![w].role = RoleOf(v),
                                       ![w].pc = "gate"]
           ELSE Refuse(w)
  /\ UNCHANGED tables

(* The second gatekeeper: only an active and ready mailbox. *)
Gate(w) ==
  /\ login[w].pc = "gate"
  /\ LET row == mailbox[login[w].email]
     IN  IF row # NoRow /\ row.status = "active" /\ row.prov = "ready"
           THEN login' = [login EXCEPT ![w].pc = "issue"]
           ELSE Refuse(w)
  /\ UNCHANGED tables

(* IssueTokenPair for the address and the role: TokenManager's Login. *)
Issue(w) ==
  /\ login[w].pc = "issue"
  /\ login' = [login EXCEPT ![w] = IdleLogin]
  /\ UNCHANGED tables

(* A query, the directory or the INSERT of a token fails: 401 or 500. *)
LoginFail(w) ==
  /\ login[w].pc \in {"local", "search", "bind", "gate", "issue", "setPassword"}
  /\ Fault
  /\ Refuse(w)
  /\ UNCHANGED <<mailbox, directory, issued>>

-----------------------------------------------------------------------------
(* mailbox.Service.SetPassword: look up by address, update by id. *)
SetPasswordBegin(w, e, pw) ==
  /\ login[w].pc = "idle"
  /\ mailbox[e] # NoRow
  /\ login' = [login EXCEPT ![w] = [IdleLogin EXCEPT
                 !.pc = "setPassword", !.user = e, !.pw = pw, !.id = mailbox[e].id]]
  /\ UNCHANGED tables

(* POST /mailboxes/{email}/password and mailbox password set. *)
SetPasswordRequest(w) == \E e \in Emails, pw \in Passwords : SetPasswordBegin(w, e, pw)
SetPasswordCommand(w) == \E e \in Emails, pw \in Passwords : SetPasswordBegin(w, e, pw)

SetPassword(w) ==
  /\ login[w].pc = "setPassword"
  /\ UpdateById(login[w].id, "hash", HashPassword(login[w].pw))
  /\ login' = Witness([login EXCEPT ![w] = IdleLogin])
  /\ UNCHANGED <<directory, issued, faults>>

(* What administrators, the directory and Sync do meanwhile; which local   *)
(* mailboxes Sync marks as its own is left open.                           *)
Meanwhile ==
  /\ \/ Administer
     \/ \E e \in Emails : CreateMailbox(e, None)
     \/ \E e \in Emails : /\ mailbox[e].provider = "local"
                          /\ mailbox' = [mailbox EXCEPT ![e].provider = "ldap"]
                          /\ UNCHANGED <<directory, issued, faults>>
  /\ login' = Witness(login)

LoginStep ==
  \E w \in Workers :
    \/ Login(w) \/ IdentityAuthCommand(w)
    \/ SetPasswordRequest(w) \/ SetPasswordCommand(w)
    \/ Assign(w) \/ LocalAuthenticate(w) \/ LdapSearch(w) \/ LdapBind(w)
    \/ Gate(w) \/ Issue(w) \/ LoginFail(w) \/ SetPassword(w)

LoginNext == LoginStep \/ Meanwhile

LoginSpec == LoginInit /\ [][LoginNext]_<<tables, login>>

-----------------------------------------------------------------------------
(* Every variable has its type, and who waits for the second gatekeeper    *)
(* has an address.                                                         *)
LoginTypeOK ==
  /\ TablesOK
  /\ \A w \in Workers :
       /\ login[w].pc \in {"idle", "assign", "local", "search", "bind", "gate",
                           "issue", "setPassword"}
       /\ login[w].pc \in {"gate", "issue"} => login[w].email \in Emails

(* No session is issued for a mailbox that was suspended, being removed or *)
(* missing for the whole duration of the request: the two gatekeepers of   *)
(* Authenticate and the one of the local provider together.                *)
SessionsPassTheGate ==
  \A w \in Workers : login[w].pc = "issue" => login[w].email \in login[w].open

(* The password was in force, and the directory entry not disabled, at     *)
(* some moment of the request, although search, bind and the local read    *)
(* happen at different times.                                              *)
SessionsHadThePassword ==
  \A w \in Workers : login[w].pc = "issue" =>
    IF login[w].by = "local" THEN login[w].email \in login[w].good
    ELSE login[w].name \in login[w].good \cap login[w].enabled

(* "Never fall back to another provider" (service.go:119): who logs in by  *)
(* the address of the mailbox is authenticated by a provider that was      *)
(* assigned to it during the request.  The default provider stands in for  *)
(* a mailbox that did not exist yet, and for one whose query failed.       *)
AssignedProviderDecides ==
  \A w \in Workers :
    LET l == login[w]
    IN  l.pc = "issue" /\ l.user = l.email =>
          \/ <<l.email, l.by>> \in l.assigned
          \/ l.by = DefaultProvider /\ (l.blind \/ <<l.email, "none">> \in l.assigned)

(* A session is issued for a mailbox that was open, by the password that   *)
(* was valid and by the provider that was assigned, each at some moment of *)
(* the request: what Authenticate read early may be stale when it answers, *)
(* but was never false throughout.                                         *)
SessionsAreJustified ==
  SessionsPassTheGate /\ SessionsHadThePassword /\ AssignedProviderDecides
=============================================================================
