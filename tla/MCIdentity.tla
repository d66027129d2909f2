----------------------------- MODULE MCIdentity -----------------------------
(***************************************************************************)
(* Instances of Authentication and DirectorySync for TLC.  Both work on    *)
(* the same tables and each has the other among its environment, so one    *)
(* behaviour exercises one of them: focus says which.  Statement by        *)
(* statement they are interleaved in Identity, which has too many states   *)
(* for a run and is proved about.                                          *)
(***************************************************************************)
EXTENDS Identity

CONSTANTS e1, u1, n1, n2, p1, p2

VARIABLE focus

Plain == [uid |-> u1, mail |-> <<e1>>, upn |-> None, locked |-> FALSE,
          groups |-> <<>>, pw |-> p1, inside |-> TRUE]

(* n1 is one user: enabled, disabled, or with a new password and a role.   *)
(* n2 is another entry, whose uid claims the same address.                 *)
TwoClaims ==
  [n \in Names |->
     IF n = n1 THEN {Plain, [Plain EXCEPT !.locked = TRUE],
                     [Plain EXCEPT !.pw = p2, !.mail = <<None, e1>>,
                                   !.groups = <<"staff", "mail-admins">>]}
               ELSE {[Plain EXCEPT !.uid = e1, !.mail = <<>>, !.upn = None]}]

Init == LoginInit /\ SyncInit /\ focus \in {"login", "sync"}

Next ==
  \/ focus = "login" /\ LoginNext /\ UNCHANGED <<sync, focus>>
  \/ focus = "sync" /\ SyncNext /\ UNCHANGED <<login, focus>>

vars == <<tables, login, sync, focus>>

Spec ==
  /\ Init /\ [][Next]_vars
  /\ WF_vars(focus = "sync" /\ SyncStep /\ UNCHANGED <<login, focus>>)
  /\ SF_vars(/\ focus = "sync" /\ UNCHANGED <<login, focus>>
             /\ \E auto \in BOOLEAN : SyncBegin(auto, FALSE, Emails))

(* The logins and the synchronisation in flight stay in their types. *)
TypeOK == LoginTypeOK /\ SyncTypeOK

(* DisabledIsSuspended, for the behaviours in which Sync runs: a directory *)
(* entry that is disabled for good loses its active LDAP mailbox.          *)
SyncCatchesUp == focus = "sync" => DisabledIsSuspended
=============================================================================
