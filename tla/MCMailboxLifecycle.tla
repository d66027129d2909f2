------------------------- MODULE MCMailboxLifecycle -------------------------
(* Instances of MailboxLifecycle for TLC. *)
EXTENDS MailboxLifecycle, TLC

(* All the addresses are in one domain. *)
OneDomain == [e \in Emails |-> CHOOSE d \in Domains : TRUE]

(* UUIDs are drawn in a fixed order (NewID): there is nothing to permute.  *)
Symmetry == Permutations(Workers) \cup Permutations(Emails)
=============================================================================
