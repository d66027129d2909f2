------------------------------ MODULE Identity ------------------------------
(***************************************************************************)
(* Logins, password changes and Sync on the same tables, each statement of *)
(* one between any two of the other.  Authentication and DirectorySync     *)
(* each leave the other to an environment; here it is the real one, with   *)
(* the failures that Sync meets while a login is in flight and the hashes  *)
(* that change while Sync is under way.                                    *)
(***************************************************************************)
EXTENDS Authentication, DirectorySync

identityvars == <<tables, login, sync>>

IdentityInit == LoginInit /\ SyncInit

(* The logins in flight witness every table that Sync, an administrator or *)
(* the directory changes.                                                  *)
IdentityNext ==
  \/ LoginStep /\ UNCHANGED sync
  \/ SyncNext /\ login' = Witness(login)

IdentitySpec == IdentityInit /\ [][IdentityNext]_identityvars
=============================================================================
