---------------------------- MODULE TokenManager ----------------------------
(***************************************************************************)
(* Sessions of the HTTP API: token.Manager over the table api_tokens, and  *)
(* the handlers Login, Refresh and Logout that call it.  Every handler     *)
(* runs in its own goroutine and makes several statements, none of them in *)
(* a transaction with another.                                             *)
(*                                                                         *)
(* A token stands for its raw value and for the SHA-256 under which its    *)
(* row is found.  Whether time.Now() is after a row's expires_at is an     *)
(* event of the environment that never reverts (Expire).                   *)
(***************************************************************************)
EXTENDS Naturals

CONSTANTS
  Workers,        \* concurrent requests
  Users,          \* e-mail addresses
  Tokens,         \* values generateRandomToken can return
  None,           \* an unset local variable, a session begun by Login
  MaxFaults,      \* bound on crashes, lost replies and failed calls
  RevokeMayFail   \* TRUE: an UPDATE ... SET revoked_at may fail

ASSUME TokenAssumption ==
  /\ None \notin Workers \cup Users \cup Tokens
  /\ MaxFaults \in Nat
  /\ RevokeMayFail \in BOOLEAN

VARIABLES
  row,        \* row[t]: the immutable columns of table api_tokens
  revoked,    \* tokens with revoked_at set
  expired,    \* tokens past their expires_at
  known,      \* tokens some client has received
  job,        \* the request each worker serves, with its local variables
  overtaken,  \* workers whose session ended while they were serving it
  ended,      \* tokens that existed when their account's sessions were ended
  late,       \* tokens stored for such a session afterwards
  missed,     \* tokens whose revocation failed unnoticed
  faults

vars == <<row, revoked, expired, known, job, overtaken, ended, late, missed, faults>>

(* from and by are history: the refresh token given in exchange, and the   *)
(* worker that served the exchange.                                        *)
TokenRow == [kind : {"access", "refresh"}, user : Users,
             from : Tokens \cup {None}, by : Workers]
NoRow == [kind |-> "unused", user |-> None, from |-> None, by |-> None]

IssuePC  == {"storeAccess", "storeRefresh", "reply"}
LogoutPC == {"logoutOne", "logoutAll"}

Job == [pc : {"idle", "rotate", "reuse"} \cup IssuePC \cup LogoutPC,
        user : Users \cup {None},
        from : Tokens \cup {None},      \* the refresh token presented
        access : Tokens \cup {None},    \* TokenPair.AccessToken
        refresh : Tokens \cup {None}]   \* TokenPair.RefreshToken

IdleJob == [pc |-> "idle", user |-> None, from |-> None,
            access |-> None, refresh |-> None]

Init ==
  /\ row = [t \in Tokens |-> NoRow]
  /\ revoked = {} /\ expired = {} /\ known = {}
  /\ job = [w \in Workers |-> IdleJob]
  /\ overtaken = {} /\ ended = {} /\ late = {} /\ missed = {}
  /\ faults = 0

-----------------------------------------------------------------------------
Fault ==
  /\ faults < MaxFaults
  /\ faults' = faults + 1

Issued == {t \in Tokens : row[t].kind # "unused"}

TokensOf(u) == {t \in Issued : row[t].user = u}

(* ValidateAccessToken: what the middleware lets through. *)
ValidAccess(t) ==
  row[t].kind = "access" /\ t \notin revoked /\ t \notin expired

(* UPDATE ... SET revoked_at; its error is ignored by every caller but     *)
(* RevokeToken's, which the handler ignores.                               *)
Revoke(S) ==
  \/ revoked' = revoked \cup S /\ UNCHANGED <<missed, faults>>
  \/ RevokeMayFail /\ Fault /\ missed' = missed \cup S /\ UNCHANGED revoked

(* RevokeAllForEmail.  The session of every token u holds has now ended,   *)
(* and so has that of the exchanges under way.                             *)
RevokeAllForEmail(u) ==
  /\ Revoke(TokensOf(u))
  /\ ended' = ended \cup TokensOf(u)
  /\ overtaken' = overtaken \cup
       {w \in Workers : job[w].user = u /\ job[w].from # None
                        /\ job[w].pc \in {"rotate"} \cup IssuePC}

Finish(w) ==
  /\ job' = [job EXCEPT ![w] = IdleJob]
  /\ overtaken' = overtaken \ {w}

-----------------------------------------------------------------------------
(* AuthHandler.Login, after identService.Authenticate has accepted. *)
LoginBegin(w, u) ==
  /\ job[w].pc = "idle"
  /\ job' = [job EXCEPT ![w] = [pc |-> "storeAccess", user |-> u, from |-> None,
                                access |-> None, refresh |-> None]]
  /\ UNCHANGED <<row, revoked, expired, known, overtaken, ended, late, missed, faults>>

(* Mutants: revoked_at is not looked at; the old token is revoked last,    *)
(* which is to say never if the request is cut short.                      *)
MutRefreshBegin(w, t) ==
  /\ job[w].pc = "idle"
  /\ t \in known
  /\ row[t].kind = "refresh" /\ t \notin expired
  /\ job' = [job EXCEPT ![w] = [pc |-> "rotate", user |-> row[t].user, from |-> t,
                                access |-> None, refresh |-> None]]
  /\ UNCHANGED <<row, revoked, expired, known, overtaken, ended, late, missed, faults>>

(* RefreshTokens: GetByHash, and the checks on the row it returned.        *)
RefreshBegin(w, t) ==
  /\ job[w].pc = "idle"
  /\ t \in known
  /\ row[t].kind = "refresh"
  /\ t \in revoked \/ t \notin expired
  /\ job' = [job EXCEPT ![w] =
       [pc |-> IF t \in revoked THEN "reuse" ELSE "rotate",
        user |-> row[t].user, from |-> t, access |-> None, refresh |-> None]]
  /\ UNCHANGED <<row, revoked, expired, known, overtaken, ended, late, missed, faults>>

(* A revoked token was presented: the account's tokens are all revoked. *)
RevokeFamily(w) ==
  /\ job[w].pc = "reuse"
  /\ RevokeAllForEmail(job[w].user)
  /\ job' = [job EXCEPT ![w] = IdleJob]
  /\ UNCHANGED <<row, expired, known, late>>

(* Mutant: the hash is not found, no row is revoked. *)
MutRevokeOld(w) ==
  /\ job[w].pc = "rotate"
  /\ job' = [job EXCEPT ![w].pc = "storeAccess"]
  /\ UNCHANGED <<row, revoked, expired, known, overtaken, ended, late, missed, faults>>

(* RevokeByHash of the presented token, before the new pair is issued. *)
RevokeOld(w) ==
  /\ job[w].pc = "rotate"
  /\ Revoke({job[w].from})
  /\ job' = [job EXCEPT ![w].pc = "storeAccess"]
  /\ UNCHANGED <<row, expired, known, overtaken, ended, late>>

(* A random value that was not drawn before; which one does not matter.    *)
NewToken == CHOOSE t \in Tokens : row[t].kind = "unused"

(* IssueTokenPair stores one row of the pair. *)
StoreToken(w, t, kind) ==
  /\ Issued # Tokens
  /\ row' = [row EXCEPT ![t] = [kind |-> kind, user |-> job[w].user,
                                from |-> job[w].from, by |-> w]]
  /\ late' = IF w \in overtaken THEN late \cup {t} ELSE late
  /\ UNCHANGED <<revoked, expired, known, overtaken, ended, missed, faults>>

StoreAccess(w) ==
  /\ job[w].pc = "storeAccess"
  /\ StoreToken(w, NewToken, "access")
  /\ job' = [job EXCEPT ![w].pc = "storeRefresh", ![w].access = NewToken]

StoreRefresh(w) ==
  /\ job[w].pc = "storeRefresh"
  /\ StoreToken(w, NewToken, "refresh")
  /\ job' = [job EXCEPT ![w].pc = "reply", ![w].refresh = NewToken]

(* The response of Login or Refresh reaches the client. *)
Reply(w) ==
  /\ job[w].pc = "reply"
  /\ known' = known \cup {job[w].access, job[w].refresh}
  /\ Finish(w)
  /\ UNCHANGED <<row, revoked, expired, ended, late, missed, faults>>

(* A Store fails, the process dies, or the response is lost. *)
Abort(w) ==
  /\ job[w].pc # "idle"
  /\ Fault
  /\ Finish(w)
  /\ UNCHANGED <<row, revoked, expired, known, ended, late, missed>>

-----------------------------------------------------------------------------
(* AuthHandler.Logout, behind the Authenticate middleware: a is the bearer *)
(* token, t the refresh token of the body, or None.                        *)
LogoutBegin(w, a, t) ==
  /\ job[w].pc = "idle"
  /\ a \in known
  /\ ValidAccess(a)
  /\ job' = [job EXCEPT ![w] = [pc |-> "logoutOne", user |-> row[a].user, from |-> t,
                                access |-> None, refresh |-> None]]
  /\ UNCHANGED <<row, revoked, expired, known, overtaken, ended, late, missed, faults>>

LogoutOne(w) ==
  /\ job[w].pc = "logoutOne"
  /\ Revoke({job[w].from} \ {None})
  /\ job' = [job EXCEPT ![w] = [pc |-> "logoutAll", user |-> job[w].user, from |-> None,
                                access |-> None, refresh |-> None]]
  /\ UNCHANGED <<row, expired, known, overtaken, ended, late>>

LogoutAll(w) ==
  /\ job[w].pc = "logoutAll"
  /\ RevokeAllForEmail(job[w].user)
  /\ job' = [job EXCEPT ![w] = IdleJob]
  /\ UNCHANGED <<row, expired, known, late>>

-----------------------------------------------------------------------------
(* Of a revoked token, or one that no client holds, nobody asks whether it *)
(* has expired.                                                            *)
Expire(t) ==
  /\ t \in known \ (expired \cup revoked)
  /\ expired' = expired \cup {t}
  /\ UNCHANGED <<row, revoked, known, job, overtaken, ended, late, missed, faults>>

Next ==
  \/ \E w \in Workers :
       \/ \E u \in Users : LoginBegin(w, u)
       \/ \E t \in Tokens : RefreshBegin(w, t)
       \/ RevokeFamily(w) \/ RevokeOld(w)
       \/ StoreAccess(w) \/ StoreRefresh(w) \/ Reply(w) \/ Abort(w)
       \/ \E a \in known, t \in known \cup {None} : LogoutBegin(w, a, t)
       \/ LogoutOne(w) \/ LogoutAll(w)
  \/ \E t \in Tokens : Expire(t)

Spec == Init /\ [][Next]_vars

-----------------------------------------------------------------------------
(* Properties. *)

(* Every variable stays in its type, and clients know issued tokens only.  *)
TypeOK ==
  /\ row \in [Tokens -> TokenRow \cup {NoRow}]
  /\ revoked \subseteq Issued /\ expired \subseteq Issued
  /\ known \subseteq Issued /\ ended \subseteq Issued
  /\ late \subseteq Issued /\ missed \subseteq Issued
  /\ job \in [Workers -> Job]
  /\ \A w \in Workers :
       /\ {job[w].from, job[w].access, job[w].refresh} \subseteq Issued \cup {None}
       /\ job[w].pc # "idle" => job[w].user # None
       /\ job[w].pc \in {"rotate", "reuse"} => job[w].from # None
       /\ job[w].pc \in {"storeRefresh", "reply"} => job[w].access # None
       /\ job[w].pc = "reply" => job[w].refresh # None
  /\ overtaken \subseteq Workers
  /\ faults \in 0..MaxFaults

(* A refresh token for which anything was ever issued in exchange is       *)
(* revoked, unless that very UPDATE failed: presenting it once more is     *)
(* detected as reuse.                                                      *)
ExchangedIsRevoked ==
  \A t \in Issued : row[t].from # None => row[t].from \in revoked \cup missed

(* Two pairs issued for the same refresh token were issued by two requests *)
(* that were in flight together, never by one request after another,       *)
(* unless a revocation of that token failed.                               *)
ForksOnlyByRace ==
  \A s, t \in Issued :
    /\ s # t
    /\ row[s].kind = row[t].kind
    /\ row[s].from = row[t].from /\ row[t].from \notin missed \cup {None}
    => row[s].by # row[t].by

(* What makes the two inductive: an exchange has revoked its token before  *)
(* it stores a row, and has stored no row of the kind it will store next.  *)
ExchangeInFlight ==
  \A w \in Workers :
    LET p == job[w].from IN
    p \notin missed \cup {None} =>
      /\ job[w].pc \in IssuePC => p \in revoked
      /\ job[w].pc \in {"rotate", "storeAccess"} =>
           \A t \in Issued : row[t].from = p => row[t].by # w
      /\ job[w].pc = "storeRefresh" =>
           \A t \in Issued : row[t].from = p /\ row[t].kind = "refresh" => row[t].by # w

(* manager.go: "Revoke the old refresh token (one-time rotation)": a       *)
(* refresh token is exchanged for one pair only.                           *)
OneTimeRotation ==
  \A s, t \in Issued :
    /\ row[s].kind = "refresh" /\ row[t].kind = "refresh"
    /\ row[s].from = row[t].from /\ row[t].from # None
    => s = t

(* When Logout has answered, or reuse was detected, the sessions of the    *)
(* account go on through requests in flight only: a token of an ended      *)
(* session is exchanged by nobody but the requests that had read its row   *)
(* before the session ended.                                               *)
NoRevival ==
  \A t \in Issued : row[t].from \in ended \ missed => t \in ended \cup late

(* What makes it inductive: an ended token can no longer be presented with *)
(* success, an exchange serves the account of the token it was given, and  *)
(* one whose token has ended meanwhile is known to be overtaken.           *)
EndingInFlight ==
  /\ ended \subseteq revoked \cup missed
  /\ \A t \in Issued : row[t].from # None =>
       row[t].from \in Issued /\ row[row[t].from].user = row[t].user
  /\ \A w \in Workers : job[w].from # None /\ job[w].pc \in {"rotate"} \cup IssuePC =>
       /\ row[job[w].from].user = job[w].user
       /\ job[w].from \in ended \ missed => w \in overtaken
=============================================================================
