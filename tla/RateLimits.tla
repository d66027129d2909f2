----------------------------- MODULE RateLimits -----------------------------
(***************************************************************************)
(* The two sliding-window limiters: the middleware in front of every API   *)
(* request, with a goroutine that evicts old entries, and the limiter of   *)
(* inbound connections and messages, without one.  Both keep, per client,  *)
(* the times at which they let a request through.  A time is modelled by   *)
(* its age in ticks, up to Oldest.                                         *)
(***************************************************************************)
EXTENDS Integers, Sequences, FiniteSets

CONSTANTS
  Clients,      \* addresses that send API requests
  Senders,      \* addresses that connect to deliver mail
  Limit,        \* requests per window
  Window,       \* its length in ticks
  MaxFailures   \* how many failed logins are counted here

ASSUME RateAssumption == Limit \in Nat \ {0} /\ Window \in Nat \ {0} /\ MaxFailures \in Nat

VARIABLES
  requests,     \* rateLimiter.requests: per key the ages, oldest first
  inbound,      \* MemoryRateLimiter: per table and address the ages
  failures,     \* authFailures per address
  served,       \* history: ages of what each limiter let through, per client
  refused,      \* history: the refusal just given, if the last step gave one
  due           \* ticks until the evictor's ticker fires

ratevars == <<requests, inbound, failures, served, refused, due>>

Tables == {"connections", "messages"}
Limiters == {"api"} \cup Tables
NoRefusal == {}
Users(l) == IF l = "api" THEN Clients ELSE Senders

(* The ticker's period, and an age no entry of the map should reach. *)
Period == 2 * Window
Oldest == Period + Window + 1

Ages == 0..Oldest
Older(a) == IF a < Oldest THEN a + 1 ELSE a
Aged(s) == [i \in DOMAIN s |-> Older(s[i])]

(* now.Sub(t) <= window: the API limiter counts the boundary. *)
ActiveAPI(a) == a <= Window
(* t.After(now - window): the inbound limiter does not. *)
ActiveInbound(a) == a < Window
Counts(l, a) == IF l = "api" THEN ActiveAPI(a) ELSE ActiveInbound(a)

(* The loop that copies a list, leaving out what is not in S. *)
Within(s, S) ==
  LET kept[i \in 0..Len(s)] ==
        IF i = 0 THEN <<>>
        ELSE IF s[i] \in S THEN Append(kept[i - 1], s[i]) ELSE kept[i - 1]
  IN  kept[Len(s)]

Active(l, s) == Within(s, {a \in Ages : Counts(l, a)})

(* History: everything let through that some window still reaches. *)
Recent(s) == Within(s, 0..Window)

RateInit ==
  /\ requests = [c \in Clients |-> <<>>]
  /\ inbound = [t \in Tables |-> [c \in Senders |-> <<>>]]
  /\ failures = [c \in Senders |-> 0]
  /\ served = [l \in Limiters |-> [c \in Users(l) |-> <<>>]]
  /\ refused = NoRefusal
  /\ due = Period

-----------------------------------------------------------------------------
(* extractClientKey.  The limiter is installed in front of Authenticate,   *)
(* so no request carries claims yet: the key is the first address of       *)
(* X-Forwarded-For if there is one, else the peer's.                       *)
ClientKey(remote, forwarded) == IF forwarded = <<>> THEN remote ELSE forwarded[1]

Serve(l, c) == served' = [served EXCEPT ![l][c] = Recent(Append(@, 0))]

(* The evictor keeps half of the window only. *)
MutEvict ==
  /\ due = 0 /\ due' = Period
  /\ requests' = [c \in Clients |-> Within(requests[c], {a \in Ages : 2 * a <= Window})]
  /\ refused' = NoRefusal
  /\ UNCHANGED <<inbound, failures, served>>

(* One round of the evicting goroutine; an empty list leaves the map. *)
Evict ==
  /\ due = 0 /\ due' = Period
  /\ requests' = [c \in Clients |-> Active("api", requests[c])]
  /\ refused' = NoRefusal
  /\ UNCHANGED <<inbound, failures, served>>

(* One API request: a refused one writes nothing back. *)
Request(remote, forwarded) ==
  LET c == ClientKey(remote, forwarded)
      active == Active("api", requests[c])
  IN /\ IF Len(active) >= Limit
        THEN refused' = {<<"api", c>>} /\ UNCHANGED <<requests, served>>
        ELSE /\ requests' = [requests EXCEPT ![c] = Append(active, 0)]
             /\ Serve("api", c) /\ refused' = NoRefusal
     /\ UNCHANGED <<inbound, failures, due>>

(* AllowConnection and AllowMessage: the cleaned list is always kept. *)
Allow(t, c) ==
  LET valid == Active(t, inbound[t][c]) IN
  /\ IF Len(valid) >= Limit
     THEN /\ inbound' = [inbound EXCEPT ![t][c] = valid]
          /\ refused' = {<<t, c>>} /\ UNCHANGED served
     ELSE /\ inbound' = [inbound EXCEPT ![t][c] = Append(valid, 0)]
          /\ Serve(t, c) /\ refused' = NoRefusal
  /\ UNCHANGED <<requests, failures, due>>

AllowConnection(c) == Allow("connections", c)

AllowMessage(c) == Allow("messages", c)

(* RecordAuthFailure: counted, never forgotten. *)
RecordAuthFailure(c) ==
  /\ failures[c] < MaxFailures
  /\ failures' = [failures EXCEPT ![c] = @ + 1]
  /\ refused' = NoRefusal
  /\ UNCHANGED <<requests, inbound, served, due>>

(* The clock.  It waits for an eviction that is due: the goroutine is not  *)
(* kept from running for as long as a tick.                                *)
Tick ==
  /\ due > 0 /\ due' = due - 1
  /\ requests' = [c \in Clients |-> Aged(requests[c])]
  /\ inbound' = [t \in Tables |-> [c \in Senders |-> Aged(inbound[t][c])]]
  /\ served' = [l \in Limiters |-> [c \in Users(l) |-> Recent(Aged(served[l][c]))]]
  /\ refused' = NoRefusal
  /\ UNCHANGED failures

APINext ==
  \/ Evict
  \/ \E r \in Clients, f \in {<<>>} \cup {<<c>> : c \in Clients} : Request(r, f)

InboundNext ==
  \E c \in Senders : AllowConnection(c) \/ AllowMessage(c) \/ RecordAuthFailure(c)

RateNext == Tick \/ APINext \/ InboundNext

RateSpec == RateInit /\ [][RateNext]_ratevars

-----------------------------------------------------------------------------
(* Types: no table grows past the limit by more than what one window may   *)
(* have left behind, which is nothing: every list stays within Limit.      *)
RateTypeOK ==
  /\ requests \in [Clients -> Seq(Ages)]
  /\ inbound \in [Tables -> [Senders -> Seq(Ages)]]
  /\ failures \in [Senders -> 0..MaxFailures]
  /\ \A l \in Limiters : served[l] \in [Users(l) -> Seq(0..Window)]
  /\ \A c \in Clients : Len(requests[c]) <= Limit
  /\ \A t \in Tables, c \in Senders : Len(inbound[t][c]) <= Limit
  /\ due \in 0..Period

(* The window that ends now, as the two limiters promise it. *)
InWindow(l, s) == Within(s, IF l = "api" THEN 0..Window ELSE 0..(Window - 1))

(* No window, wherever it ends and whatever was evicted in it, holds more  *)
(* than Limit requests of one client that were let through.                *)
WithinLimit ==
  \A l \in Limiters : \A c \in Users(l) : Len(InWindow(l, served[l][c])) <= Limit

(* A refusal means that the client used up its window: neither refused     *)
(* requests nor other clients nor the other limiters count against it.     *)
RefusedAtLimit ==
  \A x \in refused : Len(InWindow(x[1], served[x[1]][x[2]])) = Limit

(* A client that stops sending leaves the middleware's map within three    *)
(* windows of its last request: its memory is bounded by who was active    *)
(* lately, not by who ever connected.                                      *)
ForgottenInTime ==
  \A c \in Clients : \A i \in DOMAIN requests[c] : requests[c][i] <= Period + Window

(* The sliding windows are exact: never more than Limit in one, no refusal *)
(* below it, and the goroutine that evicts entries neither forgets what    *)
(* still counts nor keeps what does not.                                   *)
LimitIsExact == WithinLimit /\ RefusedAtLimit /\ ForgottenInTime
=============================================================================
