--------------------------- MODULE MessageExposure ---------------------------
(***************************************************************************)
(* MessageStore in any use, with the history of what SafeUse forbids: which *)
(* contents are exposed to being deleted under their row.                  *)
(***************************************************************************)
EXTENDS MessageStore

VARIABLE exposed   \* history: contents whose blob a row may lose

exposurevars == <<vars, exposed>>

-----------------------------------------------------------------------------
(* A row or a Store or Delete in flight is about the content. *)
Held(c) ==
  \/ \E r \in messages : r.blob = c
  \/ \E w \in Workers : job[w].pc \notin {"idle", "open"} /\ job[w].blob = c

StoreBegins(c) ==
  \E w \in Workers : job[w].pc = "idle" /\ job'[w].pc = "put" /\ job'[w].blob = c

(* The same bytes are stored while somebody still holds them. *)
StoredAgain(c) == Held(c) /\ StoreBegins(c)

(* A Store and a garbage collection overlap. *)
StoredDuringGC(c) ==
  \/ gc.pc # "idle" /\ StoreBegins(c)
  \/ gc.pc = "idle" /\ gc'.pc # "idle" /\ \E w \in Workers : InStore(w) /\ job[w].blob = c

(* The row is there, and Store compensates. *)
ReplyLost(c) ==
  \E w \in Workers : /\ job[w].pc = "create" /\ job[w].blob = c
                     /\ job'[w].pc = "compensate" /\ messages' # messages

(* A content that nobody holds any more starts afresh. *)
Expose ==
  exposed' = {c \in Contents : \/ StoredAgain(c) \/ StoredDuringGC(c) \/ ReplyLost(c)
                               \/ c \in exposed /\ Held(c)'}

ExposureInit == Init /\ exposed = {}
ExposureNext == Next /\ Expose
ExposureSpec == ExposureInit /\ [][ExposureNext]_exposurevars
FairExposureSpec == ExposureSpec /\ Fairness

-----------------------------------------------------------------------------
(* A row is without its blob only if the same bytes were stored again while *)
(* a row or a call still held them, or were stored next to a garbage        *)
(* collection, or the answer to the INSERT was lost: with all three allowed *)
(* and crashes and failures anywhere, no other order of the steps of Store, *)
(* Delete and gc takes a blob that is referenced.                           *)
LostOnlyIfExposed == \A r \in messages : r.blob \in blobs \cup exposed
==============================================================================
