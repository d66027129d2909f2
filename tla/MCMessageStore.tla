--------------------------- MODULE MCMessageStore ---------------------------
(* Instances of MessageStore for TLC. *)
EXTENDS MessageStore, TLC

(* Workers, mailboxes and UUIDs are interchangeable, and so are contents.  *)
(* Used by the runs that check no liveness.                                *)
Symmetry == Permutations(Workers) \cup Permutations(Mailboxes)
              \cup Permutations(MsgIDs) \cup Permutations(Contents)
=============================================================================
