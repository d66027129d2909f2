------------------------------ MODULE MCServer ------------------------------
(***************************************************************************)
(* Instances of the server-side modules for TLC.  They share no state: a   *)
(* behaviour is about the files of one daemon, about the certificate,      *)
(* about the rows behind the lookups, or about one expiry date.            *)
(***************************************************************************)
EXTENDS ServerConfig, TLSStore, MailRouting, TLC

VARIABLES about, hours

MCOptions ==
  {[host |-> "good", vmail |-> "v1", db |-> "p1"], [host |-> "bad", vmail |-> "v2", db |-> "p2"]}

MCAddresses ==
  {[local |-> "a", domain |-> "d1"], [local |-> "b", domain |-> "d2"]}

MCValidities == {[from |-> 0, until |-> 0], [from |-> 1, until |-> 2]}

rest(s) == disk[s] = [f \in ToSet(Files(s)) |-> None] /\ daemon[s].state = "not installed"

Init ==
  /\ ConfInit /\ TLSInit /\ RouteInit
  /\ \/ about = "postfix" /\ rest("dovecot") /\ hours = 0
     \/ about = "dovecot" /\ rest("postfix") /\ hours = 0
     \/ /\ about \in {"tls", "routing"} /\ hours = 0
        /\ rest("postfix") /\ rest("dovecot")
     \/ /\ about = "expiry" /\ hours \in (-60)..800
        /\ rest("postfix") /\ rest("dovecot")

Next ==
  /\ \/ about = "postfix" /\ PostfixNext /\ UNCHANGED <<tlsvars, routevars>>
     \/ about = "dovecot" /\ DovecotNext /\ UNCHANGED <<tlsvars, routevars>>
     \/ about = "tls" /\ TLSNext /\ UNCHANGED <<confvars, routevars>>
     \/ about = "routing" /\ RouteNext /\ UNCHANGED <<confvars, tlsvars>>
     \/ about = "expiry" /\ UNCHANGED <<confvars, tlsvars, routevars>>
  /\ UNCHANGED <<about, hours>>

Spec == Init /\ [][Next]_<<confvars, tlsvars, routevars, about, hours>>

(* Files, daemons, certificates, rows and requests stay in their types. *)
TypeOK == ConfTypeOK /\ TLSTypeOK /\ RouteTypeOK

(* StatusBands for every number of hours around the three thresholds. *)
StatusBandsHold == about = "expiry" => StatusBands(hours)

Symmetry == Permutations(Writers) \cup Permutations(Installers) \cup Permutations(Requesters)
=============================================================================
