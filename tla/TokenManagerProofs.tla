------------------------- MODULE TokenManagerProofs -------------------------
(* Theorems about TokenManager, for any number of concurrent requests,     *)
(* users, tokens and faults.                                               *)
EXTENDS TokenManager, TLAPS

LEMMA NewTokenIsUnused ==
  ASSUME Issued # Tokens
  PROVE  NewToken \in Tokens /\ NewToken \notin Issued
BY DEF Issued, NewToken

-----------------------------------------------------------------------------
(* Type correctness. *)

LEMMA InitTypeOK == Init => TypeOK
<1> SUFFICES ASSUME Init PROVE TypeOK
  OBVIOUS
<1>1. Issued = {}
  BY DEF Init, Issued, NoRow
<1> QED
  BY <1>1, TokenAssumption DEF Init, TypeOK, IdleJob, Job

(* What StoreToken does to the table. *)
LEMMA StoreTokenRow ==
  ASSUME TypeOK, NEW w \in Workers, NEW kind \in {"access", "refresh"},
         job[w].pc # "idle", StoreToken(w, NewToken, kind)
  PROVE  /\ NewToken \in Tokens \ Issued
         /\ row' \in [Tokens -> TokenRow \cup {NoRow}]
         /\ Issued' = Issued \cup {NewToken}
         /\ row'[NewToken] = [kind |-> kind, user |-> job[w].user,
                              from |-> job[w].from, by |-> w]
         /\ \A t \in Issued : row'[t] = row[t]
<1>1. NewToken \in Tokens \ Issued
  BY NewTokenIsUnused DEF StoreToken
<1> DEFINE r == [kind |-> kind, user |-> job[w].user, from |-> job[w].from, by |-> w]
<1>2. r \in TokenRow
  BY TokenAssumption DEF TypeOK, TokenRow, Job
<1>3. row' = [row EXCEPT ![NewToken] = r]
  BY DEF StoreToken
<1> QED
  BY <1>1, <1>2, <1>3 DEF TypeOK, Issued

LEMMA NextTypeOK == TypeOK /\ [Next]_vars => TypeOK'
<1> SUFFICES ASSUME TypeOK, [Next]_vars PROVE TypeOK'
  OBVIOUS
<1> USE TokenAssumption
<1>0. \A t \in Issued : row[t] \in TokenRow
  BY DEF TypeOK, Issued, NoRow
<1>1. ASSUME NEW w \in Workers, NEW u \in Users, LoginBegin(w, u) PROVE TypeOK'
  BY <1>1 DEF TypeOK, LoginBegin, Job, IssuePC, Issued
<1>2. ASSUME NEW w \in Workers, NEW t \in Tokens, RefreshBegin(w, t) PROVE TypeOK'
  <2>1. t \in Issued /\ row[t].user \in Users
    BY <1>0, <1>2 DEF TypeOK, RefreshBegin, TokenRow
  <2>2. Issued' = Issued
    BY <1>2 DEF RefreshBegin, Issued
  <2> QED
    BY <1>2, <2>1, <2>2 DEF TypeOK, RefreshBegin, Job
<1>3. ASSUME NEW w \in Workers, RevokeFamily(w) \/ LogoutAll(w) PROVE TypeOK'
  <2>1. Issued' = Issued
    BY <1>3 DEF RevokeFamily, LogoutAll, Issued
  <2>2. TokensOf(job[w].user) \subseteq Issued
    BY DEF TokensOf
  <2> QED
    BY <1>3, <2>1, <2>2
    DEF TypeOK, RevokeFamily, LogoutAll, RevokeAllForEmail, Revoke, Fault, Job, IdleJob
<1>4. ASSUME NEW w \in Workers, RevokeOld(w) \/ LogoutOne(w) PROVE TypeOK'
  <2>1. Issued' = Issued
    BY <1>4 DEF RevokeOld, LogoutOne, Issued
  <2> QED
    BY <1>4, <2>1 DEF TypeOK, RevokeOld, LogoutOne, Revoke, Fault, Job, IssuePC, LogoutPC
<1>5. ASSUME NEW w \in Workers, StoreAccess(w) PROVE TypeOK'
  <2>1. /\ NewToken \in Tokens
        /\ row' \in [Tokens -> TokenRow \cup {NoRow}]
        /\ Issued' = Issued \cup {NewToken}
    BY <1>5, StoreTokenRow DEF StoreAccess
  <2>2. /\ job' = [job EXCEPT ![w].pc = "storeRefresh", ![w].access = NewToken]
        /\ job[w].pc = "storeAccess"
    BY <1>5 DEF StoreAccess
  <2>3. job' \in [Workers -> Job]
    <3>1. [job[w] EXCEPT !.pc = "storeRefresh", !.access = NewToken] \in Job
      BY <2>1 DEF TypeOK, Job, IssuePC
    <3>2. job' = [job EXCEPT ![w] = [job[w] EXCEPT !.pc = "storeRefresh", !.access = NewToken]]
      BY <2>2 DEF TypeOK
    <3> QED BY <3>1, <3>2 DEF TypeOK
  <2>4. \A v \in Workers :
          /\ {job'[v].from, job'[v].access, job'[v].refresh} \subseteq Issued' \cup {None}
          /\ job'[v].pc # "idle" => job'[v].user # None
          /\ job'[v].pc \in {"rotate", "reuse"} => job'[v].from # None
          /\ job'[v].pc \in {"storeRefresh", "reply"} => job'[v].access # None
          /\ job'[v].pc = "reply" => job'[v].refresh # None
    BY <2>1, <2>2 DEF TypeOK, Job
  <2>5. /\ UNCHANGED <<revoked, expired, known, overtaken, ended, missed, faults>>
        /\ late' \subseteq late \cup {NewToken}
    BY <1>5 DEF StoreAccess, StoreToken
  <2> QED
    BY <2>1, <2>3, <2>4, <2>5 DEF TypeOK
<1>6. ASSUME NEW w \in Workers, StoreRefresh(w) PROVE TypeOK'
  <2>1. /\ NewToken \in Tokens
        /\ row' \in [Tokens -> TokenRow \cup {NoRow}]
        /\ Issued' = Issued \cup {NewToken}
    BY <1>6, StoreTokenRow DEF StoreRefresh
  <2>2. /\ job' = [job EXCEPT ![w].pc = "reply", ![w].refresh = NewToken]
        /\ job[w].pc = "storeRefresh"
    BY <1>6 DEF StoreRefresh
  <2>3. job' \in [Workers -> Job]
    <3>1. [job[w] EXCEPT !.pc = "reply", !.refresh = NewToken] \in Job
      BY <2>1 DEF TypeOK, Job, IssuePC
    <3>2. job' = [job EXCEPT ![w] = [job[w] EXCEPT !.pc = "reply", !.refresh = NewToken]]
      BY <2>2 DEF TypeOK
    <3> QED BY <3>1, <3>2 DEF TypeOK
  <2>4. \A v \in Workers :
          /\ {job'[v].from, job'[v].access, job'[v].refresh} \subseteq Issued' \cup {None}
          /\ job'[v].pc # "idle" => job'[v].user # None
          /\ job'[v].pc \in {"rotate", "reuse"} => job'[v].from # None
          /\ job'[v].pc \in {"storeRefresh", "reply"} => job'[v].access # None
          /\ job'[v].pc = "reply" => job'[v].refresh # None
    BY <2>1, <2>2 DEF TypeOK, Job
  <2>5. /\ UNCHANGED <<revoked, expired, known, overtaken, ended, missed, faults>>
        /\ late' \subseteq late \cup {NewToken}
    BY <1>6 DEF StoreRefresh, StoreToken
  <2> QED
    BY <2>1, <2>3, <2>4, <2>5 DEF TypeOK
<1>7. ASSUME NEW w \in Workers, Reply(w) \/ Abort(w) PROVE TypeOK'
  <2>1. Issued' = Issued
    BY <1>7 DEF Reply, Abort, Issued
  <2> QED
    BY <1>7, <2>1 DEF TypeOK, Reply, Abort, Finish, Fault, Job, IdleJob
<1>8. ASSUME NEW w \in Workers, NEW a \in known, NEW t \in known \cup {None},
             LogoutBegin(w, a, t)
      PROVE TypeOK'
  <2>1. a \in Issued /\ t \in Issued \cup {None} /\ row[a].user \in Users
    BY <1>0 DEF TypeOK, TokenRow
  <2>2. Issued' = Issued /\ Issued \subseteq Tokens
    BY <1>8 DEF LogoutBegin, Issued
  <2> QED
    BY <1>8, <2>1, <2>2 DEF TypeOK, LogoutBegin, Job, LogoutPC
<1>9. ASSUME NEW t \in Tokens, Expire(t) PROVE TypeOK'
  BY <1>9 DEF TypeOK, Expire, Issued
<1>10. CASE UNCHANGED vars
  BY <1>10 DEF vars, TypeOK, Issued
<1> QED
  BY <1>1, <1>2, <1>3, <1>4, <1>5, <1>6, <1>7, <1>8, <1>9, <1>10 DEF Next

(* Every variable keeps its type and clients only hold issued tokens.      *)
THEOREM TypeCorrect == Spec => []TypeOK
BY InitTypeOK, NextTypeOK, PTL DEF Spec

-----------------------------------------------------------------------------
(* Rotation. *)

Rotation == ExchangedIsRevoked /\ ForksOnlyByRace /\ ExchangeInFlight

LEMMA InitRotation == Init => Rotation
BY DEF Init, Rotation, ExchangedIsRevoked, ForksOnlyByRace, ExchangeInFlight,
       Issued, NoRow, IdleJob

(* A request begins: only a token that is not revoked is exchanged, and    *)
(* for such a token nothing was issued yet.                                *)
LEMMA BeginRotation ==
  ASSUME TypeOK, Rotation, NEW w \in Workers,
         \/ \E u \in Users : LoginBegin(w, u)
         \/ \E t \in Tokens : RefreshBegin(w, t)
         \/ \E a \in known, t \in known \cup {None} : LogoutBegin(w, a, t)
  PROVE  Rotation'
<1>1. /\ UNCHANGED <<row, revoked, missed>>
      /\ \A v \in Workers : v # w => job'[v] = job[v]
      /\ job'[w].pc \notin {"storeRefresh", "reply"}
      /\ job'[w].pc = "rotate" => job'[w].from \notin revoked
      /\ job'[w].pc = "storeAccess" => job'[w].from = None
  BY DEF TypeOK, LoginBegin, RefreshBegin, LogoutBegin
<1>2. Issued' = Issued
  BY <1>1 DEF Issued
<1>3. ExchangeInFlight'
  BY <1>1, <1>2 DEF Rotation, ExchangeInFlight, ExchangedIsRevoked, IssuePC
<1> QED
  BY <1>1, <1>2, <1>3 DEF Rotation, ExchangedIsRevoked, ForksOnlyByRace

(* Revocation, reply, crash and expiry store nothing. *)
LEMMA OtherRotation ==
  ASSUME TypeOK, Rotation, NEW w \in Workers,
         \/ RevokeFamily(w) \/ RevokeOld(w) \/ Reply(w) \/ Abort(w)
         \/ LogoutOne(w) \/ LogoutAll(w)
         \/ \E t \in Tokens : Expire(t)
  PROVE  Rotation'
<1>1. /\ UNCHANGED row
      /\ revoked \subseteq revoked' /\ missed \subseteq missed'
      /\ \A v \in Workers : v # w => job'[v] = job[v]
  BY DEF TypeOK, RevokeFamily, RevokeOld, Reply, Abort, LogoutOne, LogoutAll, Expire,
         RevokeAllForEmail, Revoke, Finish
<1>2. \/ job'[w] = job[w]
      \/ job'[w].pc \in {"idle", "logoutAll"}
      \/ /\ job[w].pc = "rotate" /\ job'[w].pc = "storeAccess"
         /\ job'[w].from = job[w].from /\ job[w].from \in revoked' \cup missed'
  BY DEF TypeOK, RevokeFamily, RevokeOld, Reply, Abort, LogoutOne, LogoutAll, Expire,
         Revoke, Finish, IdleJob, Job
<1>3. Issued' = Issued
  BY <1>1 DEF Issued
<1>4. ExchangeInFlight'
  BY <1>1, <1>2, <1>3 DEF Rotation, ExchangeInFlight, IssuePC
<1> QED
  BY <1>1, <1>3, <1>4 DEF Rotation, ExchangedIsRevoked, ForksOnlyByRace

(* The exchange stores its rows: its token is revoked by now, and it is    *)
(* the only request that stores rows in its own name.                      *)
LEMMA StoreRotation ==
  ASSUME TypeOK, Rotation, NEW w \in Workers, StoreAccess(w) \/ StoreRefresh(w)
  PROVE  Rotation'
<1>1. PICK kind \in {"access", "refresh"} :
        /\ StoreToken(w, NewToken, kind)
        /\ kind = "access" <=> job[w].pc = "storeAccess"
        /\ kind = "refresh" <=> job[w].pc = "storeRefresh"
  BY DEF StoreAccess, StoreRefresh
<1>2. PICK n \in Tokens \ Issued :
        /\ Issued' = Issued \cup {n}
        /\ row'[n] = [kind |-> kind, user |-> job[w].user, from |-> job[w].from, by |-> w]
        /\ \A t \in Issued : row'[t] = row[t]
  BY <1>1, StoreTokenRow DEF StoreAccess, StoreRefresh
<1>3. /\ UNCHANGED <<revoked, missed>>
      /\ \A v \in Workers : v # w => job'[v] = job[v]
      /\ job'[w].from = job[w].from
      /\ job'[w].pc = IF kind = "access" THEN "storeRefresh" ELSE "reply"
      /\ job[w].pc \in IssuePC
  BY <1>1 DEF TypeOK, StoreAccess, StoreRefresh, StoreToken, Job, IssuePC
<1>4. ExchangedIsRevoked'
  BY <1>2, <1>3 DEF Rotation, ExchangedIsRevoked, ExchangeInFlight
<1>5. ForksOnlyByRace'
  <2>1. ASSUME NEW t \in Issued, row[t].kind = kind, row[t].from = job[w].from,
               job[w].from \notin missed \cup {None}
        PROVE  row[t].by # w
    BY <1>1, <2>1 DEF Rotation, ExchangeInFlight
  <2> QED
    BY <1>2, <1>3, <2>1 DEF Rotation, ForksOnlyByRace
<1>6. ExchangeInFlight'
  BY <1>1, <1>2, <1>3 DEF Rotation, ExchangeInFlight, IssuePC
<1> QED
  BY <1>4, <1>5, <1>6 DEF Rotation

LEMMA NextRotation == TypeOK /\ Rotation /\ [Next]_vars => Rotation'
<1> SUFFICES ASSUME TypeOK, Rotation, [Next]_vars PROVE Rotation'
  OBVIOUS
<1>1. CASE UNCHANGED vars
  BY <1>1 DEF vars, Rotation, ExchangedIsRevoked, ForksOnlyByRace, ExchangeInFlight, Issued
<1>2. ASSUME NEW t \in Tokens, Expire(t) PROVE Rotation'
  BY <1>2 DEF Expire, Rotation, ExchangedIsRevoked, ForksOnlyByRace, ExchangeInFlight, Issued
<1> QED
  BY <1>1, <1>2, BeginRotation, OtherRotation, StoreRotation DEF Next

(* A refresh token for which a row was stored in exchange is revoked, or   *)
(* its revocation failed, however many requests race, crash or lose their  *)
(* reply.                                                                  *)
THEOREM ExchangedTokensAreRevoked == Spec => []ExchangedIsRevoked
<1>1. Rotation => ExchangedIsRevoked
  BY DEF Rotation
<1> QED BY TypeCorrect, InitRotation, NextRotation, <1>1, PTL DEF Spec

(* A refresh token whose revocation did not fail forks into two pairs only *)
(* through requests that were in flight together.                          *)
THEOREM ForksNeedARace == Spec => []ForksOnlyByRace
<1>1. Rotation => ForksOnlyByRace
  BY DEF Rotation
<1> QED BY TypeCorrect, InitRotation, NextRotation, <1>1, PTL DEF Spec

(* What a request in flight knows of the token it exchanges stays true     *)
(* until it has stored the new pair: the inductive part of rotation.       *)
THEOREM ExchangesInFlight == Spec => []ExchangeInFlight
<1>1. Rotation => ExchangeInFlight
  BY DEF Rotation
<1> QED BY TypeCorrect, InitRotation, NextRotation, <1>1, PTL DEF Spec

(* No revocation fails where none may. *)
LEMMA NothingMissed == ASSUME ~RevokeMayFail PROVE Spec => [](missed = {})
<1> DEFINE Nothing == missed = {}
<1>1. Init => Nothing
  BY DEF Init
<1>2. Nothing /\ [Next]_vars => Nothing'
  BY DEF Next, vars, LoginBegin, RefreshBegin, RevokeFamily, RevokeOld, StoreAccess,
         StoreRefresh, Reply, Abort, LogoutBegin, LogoutOne, LogoutAll, Expire,
         RevokeAllForEmail, Revoke, StoreToken
<1>3. QED
  <2> HIDE DEF Nothing
  <2>1. Spec => []Nothing
    BY <1>1, <1>2, PTL DEF Spec
  <2> QED BY <2>1, PTL DEF Nothing

(* Served one request at a time, and if the UPDATE that revokes does not   *)
(* fail, rotation is one-time as manager.go says.                          *)
THEOREM SerialRotationIsOneTime ==
  ASSUME ~RevokeMayFail, \A v, w \in Workers : v = w
  PROVE  Spec => []OneTimeRotation
<1>1. TypeOK /\ ForksOnlyByRace /\ missed = {} => OneTimeRotation
  <2>1. TypeOK => \A t \in Issued : row[t].by \in Workers
    BY DEF TypeOK, Issued, NoRow, TokenRow
  <2> QED
    BY <2>1 DEF ForksOnlyByRace, OneTimeRotation
<1> QED BY TypeCorrect, ForksNeedARace, NothingMissed, <1>1, PTL

-----------------------------------------------------------------------------
(* Logout and reuse detection. *)

Ending == NoRevival /\ EndingInFlight

LEMMA InitEnding == Init => Ending
BY DEF Init, Ending, NoRevival, EndingInFlight, Issued, NoRow, IdleJob

(* The account's tokens are revoked: the children of its tokens are its    *)
(* tokens too, and the exchanges of its tokens are overtaken.              *)
LEMMA EndSessionsEnding ==
  ASSUME TypeOK, Ending, NEW w \in Workers, RevokeFamily(w) \/ LogoutAll(w)
  PROVE  Ending'
<1>1. PICK u : u = job[w].user
  OBVIOUS
<1>2. /\ UNCHANGED <<row, late>> /\ Issued' = Issued
      /\ ended' = ended \cup TokensOf(u)
      /\ revoked \subseteq revoked' /\ missed \subseteq missed'
      /\ TokensOf(u) \subseteq revoked' \cup missed'
      /\ overtaken' = overtaken \cup
           {v \in Workers : job[v].user = u /\ job[v].from # None
                            /\ job[v].pc \in {"rotate"} \cup IssuePC}
  BY <1>1 DEF RevokeFamily, LogoutAll, RevokeAllForEmail, Revoke, Issued
<1>3. /\ \A v \in Workers : v # w => job'[v] = job[v]
      /\ job'[w].pc = "idle"
  BY DEF TypeOK, RevokeFamily, LogoutAll, IdleJob
<1>4. ended' \subseteq revoked' \cup missed'
  BY <1>2 DEF Ending, EndingInFlight
<1>5. ASSUME NEW v \in Workers, job'[v].from # None,
             job'[v].pc \in {"rotate"} \cup IssuePC
      PROVE  /\ row'[job'[v].from].user = job'[v].user
             /\ job'[v].from \in ended' \ missed' => v \in overtaken'
  <2>1. v # w /\ job'[v] = job[v]
    BY <1>3, <1>5 DEF IssuePC
  <2> QED
    BY <1>2, <1>5, <2>1 DEF Ending, EndingInFlight, TokensOf
<1>6. EndingInFlight'
  BY <1>2, <1>4, <1>5 DEF Ending, EndingInFlight
<1>7. NoRevival'
  <2>1. None \notin Issued
    BY TokenAssumption DEF Issued
  <2>2. ASSUME NEW t \in Issued, row[t].from \in TokensOf(u)
        PROVE  t \in TokensOf(u)
    BY <2>1, <2>2 DEF Ending, EndingInFlight, TokensOf
  <2> QED BY <1>2, <2>2 DEF Ending, NoRevival
<1> QED BY <1>6, <1>7 DEF Ending

(* A request begins: an ended token is refused, or its revocation failed.  *)
LEMMA BeginEnding ==
  ASSUME TypeOK, Ending, NEW w \in Workers,
         \/ \E u \in Users : LoginBegin(w, u)
         \/ \E t \in Tokens : RefreshBegin(w, t)
         \/ \E a \in known, t \in known \cup {None} : LogoutBegin(w, a, t)
  PROVE  Ending'
<1>1. /\ UNCHANGED <<row, revoked, missed, ended, late, overtaken>>
      /\ \A v \in Workers : v # w => job'[v] = job[v]
  BY DEF TypeOK, LoginBegin, RefreshBegin, LogoutBegin
<1>2. /\ job'[w].pc \notin {"storeRefresh", "reply"}
      /\ job'[w].pc = "rotate" => /\ job'[w].from \notin revoked
                                  /\ row[job'[w].from].user = job'[w].user
      /\ job'[w].pc = "storeAccess" => job'[w].from = None
  BY DEF TypeOK, LoginBegin, RefreshBegin, LogoutBegin
<1>3. Issued' = Issued
  BY <1>1 DEF Issued
<1>4. EndingInFlight'
  BY <1>1, <1>2, <1>3 DEF Ending, EndingInFlight, IssuePC
<1> QED
  BY <1>1, <1>3, <1>4 DEF Ending, NoRevival

(* What an overtaken exchange stores is late. *)
LEMMA StoreEnding ==
  ASSUME TypeOK, Ending, NEW w \in Workers, StoreAccess(w) \/ StoreRefresh(w)
  PROVE  Ending'
<1>0. PICK kind \in {"access", "refresh"} :
        StoreToken(w, NewToken, kind) /\ job[w].pc # "idle"
  BY DEF StoreAccess, StoreRefresh
<1>1. PICK n \in Tokens \ Issued :
        /\ Issued' = Issued \cup {n}
        /\ row'[n] = [kind |-> kind, user |-> job[w].user, from |-> job[w].from, by |-> w]
        /\ \A t \in Issued : row'[t] = row[t]
        /\ late' = IF w \in overtaken THEN late \cup {n} ELSE late
  <2>1. late' = IF w \in overtaken THEN late \cup {NewToken} ELSE late
    BY <1>0 DEF StoreToken
  <2> QED BY <1>0, <2>1, StoreTokenRow
<1>2. /\ UNCHANGED <<revoked, missed, ended, overtaken>>
      /\ \A v \in Workers : v # w => job'[v] = job[v]
      /\ job'[w].from = job[w].from /\ job'[w].user = job[w].user
      /\ job[w].pc \in IssuePC
  BY DEF TypeOK, StoreAccess, StoreRefresh, StoreToken, Job, IssuePC
<1>3. /\ \A v \in Workers : job[v].from \in Issued \cup {None}
      /\ ended \subseteq Issued /\ None \notin Issued
  BY TokenAssumption DEF TypeOK, Issued
<1>4. EndingInFlight'
  BY <1>1, <1>2, <1>3 DEF Ending, EndingInFlight
<1>5. NoRevival'
  BY <1>1, <1>2, <1>3 DEF Ending, EndingInFlight, NoRevival
<1> QED BY <1>4, <1>5 DEF Ending

(* One token is revoked, the reply is sent, the request is cut short.      *)
LEMMA OtherEnding ==
  ASSUME TypeOK, Ending, NEW w \in Workers,
         RevokeOld(w) \/ LogoutOne(w) \/ Reply(w) \/ Abort(w)
  PROVE  Ending'
<1>1. /\ UNCHANGED <<row, ended, late>>
      /\ revoked \subseteq revoked' /\ missed \subseteq missed'
      /\ overtaken \ {w} \subseteq overtaken'
      /\ \A v \in Workers : v # w => job'[v] = job[v]
  BY DEF TypeOK, RevokeOld, LogoutOne, Reply, Abort, Revoke, Finish
<1>2. \/ job'[w].pc \in {"idle", "logoutAll"}
      \/ /\ job[w].pc = "rotate" /\ overtaken' = overtaken
         /\ job'[w].from = job[w].from /\ job'[w].user = job[w].user
  BY DEF TypeOK, RevokeOld, LogoutOne, Reply, Abort, Finish, IdleJob, Job
<1>3. Issued' = Issued
  BY <1>1 DEF Issued
<1>4. EndingInFlight'
  BY <1>1, <1>2, <1>3 DEF Ending, EndingInFlight, IssuePC
<1> QED
  BY <1>1, <1>3, <1>4 DEF Ending, NoRevival

LEMMA NextEnding == TypeOK /\ Ending /\ [Next]_vars => Ending'
<1> SUFFICES ASSUME TypeOK, Ending, [Next]_vars PROVE Ending'
  OBVIOUS
<1>1. CASE UNCHANGED vars
  BY <1>1 DEF vars, Ending, NoRevival, EndingInFlight, Issued
<1>2. ASSUME NEW t \in Tokens, Expire(t) PROVE Ending'
  BY <1>2 DEF Expire, Ending, NoRevival, EndingInFlight, Issued
<1> QED
  BY <1>1, <1>2, EndSessionsEnding, BeginEnding, StoreEnding, OtherEnding DEF Next

(* Whatever races, crashes or fails to revoke, a session that Logout or    *)
(* reuse detection has ended goes on only through the requests that were   *)
(* past their check at that time.                                          *)
THEOREM EndedSessionsAreNotRevived == Spec => []NoRevival
<1>1. Ending => NoRevival
  BY DEF Ending
<1> QED BY TypeCorrect, InitEnding, NextEnding, <1>1, PTL DEF Spec

(* A request that goes on for an ended session was overtaken by its end:   *)
(* the inductive part of the theorem above.                                *)
THEOREM EndingsInFlight == Spec => []EndingInFlight
<1>1. Ending => EndingInFlight
  BY DEF Ending
<1> QED BY TypeCorrect, InitEnding, NextEnding, <1>1, PTL DEF Spec
=============================================================================
