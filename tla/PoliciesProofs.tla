---------------------------- MODULE PoliciesProofs ----------------------------
(***************************************************************************)
(* Proofs about the policy of a domain, the backup, the walks over a       *)
(* Maildir, the limiters, the inbound checks and the roles, for any number *)
(* of requests, rows, messages, clients and failures, and for every SPF    *)
(* record, header and request rather than the samples that TLC runs.       *)
(***************************************************************************)
EXTENDS MCPolicies, FiniteSetTheorems, SequenceTheorems, WellFoundedInduction, TLAPS

-----------------------------------------------------------------------------
(* Induction over the rounds of a loop. *)

Below == {ss \in Nat \X Nat : ss[1] < ss[2]}

(* Induction, for a set of numbers. *)
LEMMA Inductive ==
  ASSUME NEW P, 0 \in P, \A n \in Nat : n \in P => n + 1 \in P
  PROVE  Nat \subseteq P
<1> DEFINE S == Nat \ P
<1> SUFFICES ASSUME S # {} PROVE FALSE
  OBVIOUS
<1>1. IsWellFoundedOn(Below, Nat)
  BY NatLessThanWellFounded, Zenon DEF OpToRel, Below
<1>2. PICK k \in S : \A j \in S : ~(<<j, k>> \in Below)
  BY <1>1, WFMin
<1>3. k \in Nat \ {0} /\ k - 1 \in Nat /\ <<k - 1, k>> \in Nat \X Nat /\ k - 1 < k
  OBVIOUS
<1>4. <<k - 1, k>> \in Below
  BY <1>3 DEF Below
<1>5. k - 1 \in P
  BY <1>2, <1>3, <1>4
<1>6. (k - 1) + 1 \in P
  BY <1>3, <1>5
<1>7. (k - 1) + 1 = k
  BY <1>3
<1> QED
  BY <1>6, <1>7

(* The states f of a loop over 1..n that begins with a and takes, in its   *)
(* round i, the step G[i] in the set A.                                    *)
IsStep(n, A, G) == \A i \in 1..n : \A x \in A : G[i][x] \in A
IsLoop(f, n, A, a, G) == f \in [0..n -> A] /\ f[0] = a /\ \A i \in 1..n : f[i] = G[i][f[i - 1]]

LEMMA LoopStates ==
  ASSUME NEW n \in Nat, NEW A, NEW a \in A, NEW G, IsStep(n, A, G)
  PROVE  \E f : IsLoop(f, n, A, a, G)
<1> DEFINE Fits(f, k) == f \in [0..k -> A] /\ f[0] = a /\ \A i \in 1..k : f[i] = G[i][f[i - 1]]
           P == {k \in Nat : k <= n => \E f : Fits(f, k)}
<1>1. 0 \in P
  <2>1. Fits([i \in 0..0 |-> a], 0)
    OBVIOUS
  <2> QED
    BY <2>1
<1>2. ASSUME NEW k \in Nat, k \in P PROVE k + 1 \in P
  <2> SUFFICES ASSUME k + 1 <= n PROVE \E f : Fits(f, k + 1)
    OBVIOUS
  <2>1. PICK f : Fits(f, k)
    BY <1>2
  <2> DEFINE g == [i \in 0..(k + 1) |-> IF i = k + 1 THEN G[k + 1][f[k]] ELSE f[i]]
  <2>2. k + 1 \in 1..n /\ f[k] \in A
    BY <2>1
  <2>3. G[k + 1][f[k]] \in A
    BY <2>2 DEF IsStep
  <2>4. g \in [0..(k + 1) -> A] /\ g[0] = a /\ g[k + 1] = G[k + 1][f[k]]
    BY <2>1, <2>3
  <2>5. \A i \in 0..k : g[i] = f[i]
    BY <2>1
  <2> HIDE DEF g
  <2>6. ASSUME NEW i \in 1..(k + 1) PROVE g[i] = G[i][g[i - 1]]
    <3>1. CASE i = k + 1
      <4>1. i - 1 = k /\ g[k] = f[k]
        BY <3>1, <2>5
      <4> QED
        BY <3>1, <4>1, <2>4
    <3>2. CASE i # k + 1
      <4>1. i \in 0..k /\ i - 1 \in 0..k /\ i \in 1..k
        BY <3>2
      <4>2. g[i] = f[i] /\ g[i - 1] = f[i - 1] /\ f[i] = G[i][f[i - 1]]
        BY <4>1, <2>1, <2>5
      <4> QED
        BY <4>2
    <3> QED
      BY <3>1, <3>2
  <2> QED
    BY <2>4, <2>6
<1>3. Nat \subseteq P
  <2> HIDE DEF P
  <2> QED
    BY <1>1, <1>2, Inductive
<1>4. \E f : Fits(f, n)
  BY <1>3
<1> QED
  BY <1>4 DEF IsLoop

Copied(s, S) == CHOOSE f : f = [i \in 0..Len(s) |->
  IF i = 0 THEN <<>> ELSE IF s[i] \in S THEN Append(f[i - 1], s[i]) ELSE f[i - 1]]

LEMMA WithinIsCopied == \A s, S : Within(s, S) = Copied(s, S)[Len(s)]
BY Zenon DEF Within, Copied

(* The copying loop, state by state. *)
IsCopying(c, T, s, S) ==
  /\ c \in [0..Len(s) -> Seq(T)] /\ c[0] = <<>>
  /\ \A i \in 1..Len(s) : c[i] = IF s[i] \in S THEN Append(c[i - 1], s[i]) ELSE c[i - 1]

LEMMA CopiedLoop ==
  ASSUME NEW T, NEW s \in Seq(T), NEW S
  PROVE  IsCopying(Copied(s, S), T, s, S)
<1> DEFINE n == Len(s)
           G == [i \in 1..n |-> [x \in Seq(T) |-> IF s[i] \in S THEN Append(x, s[i]) ELSE x]]
           Body(f) == [i \in 0..n |->
              IF i = 0 THEN <<>> ELSE IF s[i] \in S THEN Append(f[i - 1], s[i]) ELSE f[i - 1]]
           C == Copied(s, S)
<1>1. n \in Nat /\ \A i \in 1..n : s[i] \in T
  OBVIOUS
<1>2. <<>> \in Seq(T)
  OBVIOUS
<1>3. ASSUME NEW i \in 1..n, NEW x \in Seq(T)
      PROVE  (IF s[i] \in S THEN Append(x, s[i]) ELSE x) \in Seq(T)
  BY <1>1
<1>5. \A i \in 1..n : \A x \in Seq(T) : G[i][x] = IF s[i] \in S THEN Append(x, s[i]) ELSE x
  BY Zenon
<1> HIDE DEF G
<1>6. PICK f : IsLoop(f, n, Seq(T), <<>>, G)
  <2>1. IsStep(n, Seq(T), G)
    BY <1>3, <1>5 DEF IsStep
  <2> HIDE DEF n
  <2> QED
    BY <1>1, <1>2, <2>1, LoopStates, Zenon
<1>7. ASSUME NEW i \in 1..n
      PROVE  f[i] = IF s[i] \in S THEN Append(f[i - 1], s[i]) ELSE f[i - 1]
  <2>1. i - 1 \in 0..n
    BY <1>1
  <2> QED
    BY <2>1, <1>5, <1>6 DEF IsLoop
<1>8. f = Body(f)
  <2>1. ASSUME NEW i \in 0..n PROVE f[i] = Body(f)[i]
    <3>1. i = 0 \/ i \in 1..n
      BY <1>1
    <3> QED
      BY <3>1, <1>6, <1>7 DEF IsLoop
  <2> QED
    BY <1>6, <2>1 DEF IsLoop
<1>9. C = Body(C)
  <2>1. \E g : g = Body(g)
    BY <1>8
  <2>2. C = CHOOSE g : g = Body(g)
    BY Zenon DEF Copied
  <2> HIDE DEF C, Body
  <2> QED
    BY <2>1, <2>2
<1>10. DOMAIN C = 0..n /\ C[0] = <<>>
  BY <1>1, <1>9
<1>11. \A i \in 1..n : C[i] = IF s[i] \in S THEN Append(C[i - 1], s[i]) ELSE C[i - 1]
  <2> SUFFICES ASSUME NEW i \in 1..n
               PROVE  C[i] = IF s[i] \in S THEN Append(C[i - 1], s[i]) ELSE C[i - 1]
    OBVIOUS
  <2>1. i \in 0..n /\ i # 0
    BY <1>1
  <2>2. C[i] = Body(C)[i]
    BY <1>9
  <2> HIDE DEF C
  <2> QED
    BY <2>1, <2>2
<1> HIDE DEF C
<1>12. \A i \in 0..n : C[i] \in Seq(T)
  <2> DEFINE P == {k \in Nat : k <= n => C[k] \in Seq(T)}
  <2>1. 0 \in P
    BY <1>2, <1>10
  <2>2. ASSUME NEW k \in Nat, k \in P PROVE k + 1 \in P
    <3> SUFFICES ASSUME k + 1 <= n PROVE C[k + 1] \in Seq(T)
      OBVIOUS
    <3>1. k + 1 \in 1..n /\ (k + 1) - 1 = k /\ C[k] \in Seq(T)
      BY <2>2, <1>1
    <3> QED
      BY <3>1, <1>3, <1>11
  <2>3. Nat \subseteq P
    <3> HIDE DEF P
    <3> QED
      BY <2>1, <2>2, Inductive
  <2> QED
    BY <2>3, <1>1
<1>13. C = [i \in 0..n |-> C[i]]
  BY <1>9
<1> HIDE DEF Body
<1> QED
  BY <1>10, <1>11, <1>12, <1>13 DEF C, IsCopying

LEMMA WithinEmpty == \A S : Within(<<>>, S) = <<>>
<1> TAKE S
<1>1. <<>> \in Seq(Nat) /\ Len(<<>>) = 0
  OBVIOUS
<1>2. IsCopying(Copied(<<>>, S), Nat, <<>>, S)
  BY <1>1, CopiedLoop, Zenon
<1>3. Copied(<<>>, S)[0] = <<>>
  BY <1>2, Zenon DEF IsCopying
<1> QED
  BY <1>1, <1>3, WithinIsCopied

(* One entry more. *)
LEMMA WithinAppend ==
  ASSUME NEW T, NEW s \in Seq(T), NEW x \in T, NEW S
  PROVE  Within(Append(s, x), S) = IF x \in S THEN Append(Within(s, S), x) ELSE Within(s, S)
<1> DEFINE n == Len(s)
           t == Append(s, x)
           C == Copied(s, S)
           D == Copied(t, S)
<1>1. t \in Seq(T) /\ Len(t) = n + 1 /\ n \in Nat /\ t[n + 1] = x /\ \A i \in 1..n : t[i] = s[i]
  OBVIOUS
<1> HIDE DEF t
<1>2. /\ C \in [0..n -> Seq(T)] /\ C[0] = <<>>
      /\ \A i \in 1..n : C[i] = IF s[i] \in S THEN Append(C[i - 1], s[i]) ELSE C[i - 1]
  BY CopiedLoop DEF IsCopying
<1>3. /\ D \in [0..(n + 1) -> Seq(T)] /\ D[0] = <<>>
      /\ \A i \in 1..(n + 1) : D[i] = IF t[i] \in S THEN Append(D[i - 1], t[i]) ELSE D[i - 1]
  <2>1. /\ D \in [0..Len(t) -> Seq(T)] /\ D[0] = <<>>
        /\ \A i \in 1..Len(t) : D[i] = IF t[i] \in S THEN Append(D[i - 1], t[i]) ELSE D[i - 1]
    BY <1>1, CopiedLoop DEF IsCopying
  <2> HIDE DEF D, n
  <2> QED
    BY <2>1, <1>1
<1> HIDE DEF C, D
<1>4. \A i \in 0..n : C[i] = D[i]
  <2> DEFINE P == {k \in Nat : k <= n => C[k] = D[k]}
  <2>1. 0 \in P
    BY <1>2, <1>3
  <2>2. ASSUME NEW k \in Nat, k \in P PROVE k + 1 \in P
    <3> SUFFICES ASSUME k + 1 <= n PROVE C[k + 1] = D[k + 1]
      OBVIOUS
    <3>1. /\ k + 1 \in 1..n /\ k + 1 \in 1..(n + 1) /\ (k + 1) - 1 = k /\ C[k] = D[k]
          /\ s[k + 1] = t[k + 1]
      BY <2>2, <1>1
    <3> QED
      BY <3>1, <1>2, <1>3
  <2>3. Nat \subseteq P
    <3> HIDE DEF P
    <3> QED
      BY <2>1, <2>2, Inductive
  <2> QED
    BY <2>3, <1>1
<1>5. n \in 0..n /\ n + 1 \in 1..(n + 1) /\ (n + 1) - 1 = n
  BY <1>1
<1>6. Within(s, S) = C[n] /\ Within(t, S) = D[n + 1] /\ C[n] \in Seq(T)
  BY <1>1, <1>2, <1>5, WithinIsCopied DEF C, D
<1> QED
  BY <1>1, <1>3, <1>4, <1>5, <1>6 DEF t

LEMMA WithinIsSeq ==
  ASSUME NEW T, NEW s \in Seq(T), NEW S
  PROVE  Within(s, S) \in Seq(T)
<1>1. Len(s) \in 0..Len(s) /\ Copied(s, S) \in [0..Len(s) -> Seq(T)]
  BY CopiedLoop DEF IsCopying
<1> QED
  BY <1>1, WithinIsCopied

(* Induction over the lists of a set, for a set of lists. *)
LEMMA ListInduction ==
  ASSUME NEW T, NEW P, <<>> \in P,
         \A s \in Seq(T) : \A x \in T : s \in P => Append(s, x) \in P
  PROVE  Seq(T) \subseteq P
<1> DEFINE Q == {k \in Nat : \A s \in Seq(T) : Len(s) = k => s \in P}
<1>1. 0 \in Q
  <2>1. \A s \in Seq(T) : Len(s) = 0 => s = <<>>
    BY EmptySeq
  <2> QED
    BY <2>1
<1>2. ASSUME NEW k \in Nat, k \in Q PROVE k + 1 \in Q
  <2> SUFFICES ASSUME NEW t \in Seq(T), Len(t) = k + 1 PROVE t \in P
    OBVIOUS
  <2>1. t # <<>>
    BY EmptySeq
  <2>2. PICK s \in Seq(T), x \in T : t = Append(s, x)
    BY <2>1, SequenceEmptyOrAppend
  <2>3. Len(s) = k
    BY <2>2
  <2>4. s \in P
    BY <1>2, <2>3
  <2> QED
    BY <2>2, <2>4
<1>3. Nat \subseteq Q
  <2> HIDE DEF Q
  <2> QED
    BY <1>1, <1>2, Inductive
<1>4. \A s \in Seq(T) : Len(s) \in Nat
  OBVIOUS
<1> QED
  BY <1>3, <1>4

(* What is copied is in S, and no more than there was. *)
LEMMA WithinBounds ==
  ASSUME NEW T, NEW S
  PROVE  \A s \in Seq(T) : Within(s, S) \in Seq(T \cap S) /\ Len(Within(s, S)) <= Len(s)
<1> DEFINE P == {s \in Seq(T) : Within(s, S) \in Seq(T \cap S) /\ Len(Within(s, S)) <= Len(s)}
<1>1. <<>> \in P
  <2>1. <<>> \in Seq(T) /\ <<>> \in Seq(T \cap S) /\ Len(<<>>) <= Len(<<>>)
    OBVIOUS
  <2>2. Within(<<>>, S) = <<>>
    BY WithinEmpty
  <2> QED
    BY <2>1, <2>2
<1>2. ASSUME NEW s \in Seq(T), NEW x \in T, s \in P PROVE Append(s, x) \in P
  <2>1. Within(Append(s, x), S) = IF x \in S THEN Append(Within(s, S), x) ELSE Within(s, S)
    BY WithinAppend
  <2>2. Within(s, S) \in Seq(T \cap S) /\ Len(Within(s, S)) <= Len(s)
    BY <1>2
  <2>3. Append(s, x) \in Seq(T) /\ Len(Append(s, x)) = Len(s) + 1 /\ Len(s) \in Nat
    OBVIOUS
  <2>4. CASE x \in S
    <3>1. /\ Append(Within(s, S), x) \in Seq(T \cap S)
          /\ Len(Append(Within(s, S), x)) = Len(Within(s, S)) + 1 /\ Len(Within(s, S)) \in Nat
      BY <2>2, <2>4
    <3> QED
      BY <2>1, <2>2, <2>3, <2>4, <3>1
  <2>5. CASE x \notin S
    <3>1. Len(Within(s, S)) \in Nat
      BY <2>2
    <3> QED
      BY <2>1, <2>2, <2>3, <2>5, <3>1
  <2> QED
    BY <2>4, <2>5
<1>3. Seq(T) \subseteq P
  <2> HIDE DEF P
  <2> QED
    BY <1>1, <1>2, ListInduction
<1> QED
  BY <1>3

(* Copying twice is copying what both loops keep. *)
LEMMA WithinWithin ==
  ASSUME NEW T, NEW S, NEW R, NEW Q, \A x \in T : x \in Q <=> x \in S /\ x \in R
  PROVE  \A s \in Seq(T) : Within(Within(s, S), R) = Within(s, Q)
<1> DEFINE P == {s \in Seq(T) : Within(Within(s, S), R) = Within(s, Q)}
<1>1. <<>> \in P
  BY WithinEmpty
<1>2. ASSUME NEW s \in Seq(T), NEW x \in T, s \in P PROVE Append(s, x) \in P
  <2>1. Within(Append(s, x), S) = IF x \in S THEN Append(Within(s, S), x) ELSE Within(s, S)
    BY WithinAppend
  <2>2. Within(Append(s, x), Q) =
          IF x \in Q THEN Append(Within(s, Q), x) ELSE Within(s, Q)
    BY WithinAppend
  <2>3. Within(s, S) \in Seq(T)
    BY WithinIsSeq
  <2>4. Within(Append(Within(s, S), x), R) =
          IF x \in R THEN Append(Within(Within(s, S), R), x) ELSE Within(Within(s, S), R)
    BY <2>3, WithinAppend
  <2>5. Within(Within(s, S), R) = Within(s, Q)
    BY <1>2
  <2>6. Append(s, x) \in Seq(T)
    OBVIOUS
  <2>7. Within(Within(Append(s, x), S), R) = Within(Append(s, x), Q)
    <3>1. CASE x \in Q
      BY <2>1, <2>2, <2>4, <2>5, <3>1
    <3>2. CASE x \notin Q /\ x \in S
      BY <2>1, <2>2, <2>4, <2>5, <3>2
    <3>3. CASE x \notin Q /\ x \notin S
      BY <2>1, <2>2, <2>5, <3>3
    <3> QED
      BY <3>1, <3>2, <3>3
  <2> QED
    BY <2>6, <2>7
<1>3. Seq(T) \subseteq P
  <2> HIDE DEF P
  <2> QED
    BY <1>1, <1>2, ListInduction
<1> QED
  BY <1>3

(* A loop that drops nothing. *)
LEMMA WithinAll ==
  ASSUME NEW T, NEW S, T \subseteq S
  PROVE  \A s \in Seq(T) : Within(s, S) = s
<1> DEFINE P == {s \in Seq(T) : Within(s, S) = s}
<1>1. <<>> \in P
  BY WithinEmpty
<1>2. ASSUME NEW s \in Seq(T), NEW x \in T, s \in P PROVE Append(s, x) \in P
  <2>1. Within(Append(s, x), S) = Append(Within(s, S), x)
    BY WithinAppend
  <2> QED
    BY <1>2, <2>1
<1>3. Seq(T) \subseteq P
  <2> HIDE DEF P
  <2> QED
    BY <1>1, <1>2, ListInduction
<1> QED
  BY <1>3

-----------------------------------------------------------------------------
(* The policy of a domain. *)

Edits ==
  [pc : {"idle", "domain", "read", "write"}, want : [Columns -> Policies \cup {NoPolicy}],
   dom : Nat, id : Nat, row : [Columns -> Values], fresh : SUBSET Columns]

PolicyTypes ==
  /\ domainId \in 0..MaxDomainIds /\ lastId \in 0..MaxDomainIds /\ domainId <= lastId
  /\ policyRow \in PolicyRows \cup {NoPolicy}
  /\ editor \in [Editors -> Edits]
  /\ wanted \in [Columns -> Values]
  /\ lost \subseteq Columns /\ readErrors \in 0..MaxReadErrors

(* A request that is under way has something to write, and an id, once it  *)
(* has one, was given out.                                                 *)
UnderWay ==
  \A e \in Editors :
    /\ editor[e].pc # "idle" => \E c \in Columns : editor[e].want[c] # NoPolicy
    /\ editor[e].pc = "read" => editor[e].dom \in 1..lastId
    /\ editor[e].pc = "write" => editor[e].id \in 1..lastId

(* What a request read of the domain that exists is still what is shown,   *)
(* in the columns nobody wrote since and none has lost.                    *)
ReadsAreFresh ==
  \A e \in Editors : editor[e].pc = "write" /\ editor[e].id = domainId =>
    \A c \in editor[e].fresh \ lost : editor[e].row[c] = Shown[c]

PolicyInv == PolicyTypes /\ UnderWay /\ ReadsAreFresh /\ LostOnlyByRace /\ PolicyOfTheDomain

LEMMA ShownIsTyped == PolicyTypes => Shown \in [Columns -> Values]
BY PolicyAssumption DEF PolicyTypes, Shown, Values, PolicyRows, Columns

LEMMA IdleIsEdit == Idle \in Edits /\ Idle.pc = "idle"
BY DEF Idle, Edits, Columns, Unset, Values

LEMMA InitPolicyInv == PolicyInit => PolicyInv
<1> SUFFICES ASSUME PolicyInit PROVE PolicyInv
  OBVIOUS
<1>1. PolicyTypes
  <2>1. Unset \in [Columns -> Values]
    BY DEF Unset, Values
  <2>2. 0 \in 0..MaxDomainIds /\ 0 \in 0..MaxReadErrors
    BY PolicyAssumption
  <2>3. editor \in [Editors -> Edits]
    BY IdleIsEdit DEF PolicyInit
  <2> QED
    BY <2>1, <2>2, <2>3 DEF PolicyInit, PolicyTypes
<1>2. \A e \in Editors : editor[e].pc = "idle"
  BY IdleIsEdit DEF PolicyInit
<1>3. LostOnlyByRace
  BY DEF PolicyInit, LostOnlyByRace, Shown, Unset
<1> QED
  BY <1>1, <1>2, <1>3 DEF PolicyInv, UnderWay, ReadsAreFresh, PolicyOfTheDomain, PolicyInit

(* The column a request writes next is one it was told to change. *)
LEMMA ColumnIsWanted ==
  ASSUME PolicyInv, NEW e \in Editors, editor[e].pc # "idle"
  PROVE  Column(e) \in Columns /\ editor[e].want[Column(e)] \in Policies
<1>1. editor[e].want \in [Columns -> Policies \cup {NoPolicy}]
  BY DEF PolicyInv, PolicyTypes, Edits
<1>2. \E c \in Columns : editor[e].want[c] # NoPolicy
  BY DEF PolicyInv, UnderWay
<1> QED
  BY <1>1, <1>2 DEF Column, Columns

LEMMA CreateDomainStep ==
  ASSUME PolicyInv, CreateDomainRow
  PROVE  PolicyInv'
<1>1. /\ lastId' = lastId + 1 /\ domainId' = lastId + 1 /\ domainId = 0
      /\ lastId' \in 0..MaxDomainIds /\ domainId' \in 0..MaxDomainIds /\ lastId \in Nat
      /\ UNCHANGED <<policyRow, editor, wanted, lost, readErrors>>
  BY PolicyAssumption DEF CreateDomainRow, PolicyInv, PolicyTypes
<1>2. PolicyTypes' /\ UnderWay'
  BY <1>1 DEF PolicyInv, PolicyTypes, UnderWay, Edits
<1>3. ReadsAreFresh'
  <2>1. ASSUME NEW e \in Editors, editor[e].pc = "write" PROVE editor[e].id # lastId + 1
    BY <2>1, <1>1 DEF PolicyInv, UnderWay
  <2> QED
    BY <1>1, <2>1 DEF ReadsAreFresh
<1>4. PolicyOfTheDomain' /\ LostOnlyByRace'
  BY <1>1 DEF PolicyInv, PolicyOfTheDomain, LostOnlyByRace, Shown
<1> QED
  BY <1>2, <1>3, <1>4 DEF PolicyInv

LEMMA DeleteDomainStep ==
  ASSUME PolicyInv, DeleteDomainRow
  PROVE  PolicyInv'
<1>1. /\ domainId' = 0 /\ policyRow' = NoPolicy /\ wanted' = Unset /\ lost' = {}
      /\ UNCHANGED <<lastId, editor, readErrors>>
  BY DEF DeleteDomainRow
<1>2. PolicyTypes'
  <2>1. 0 \in 0..MaxDomainIds /\ lastId \in 0..MaxDomainIds /\ 0 <= lastId
    BY PolicyAssumption DEF PolicyInv, PolicyTypes
  <2>2. Unset \in [Columns -> Values]
    BY DEF Unset, Values
  <2> QED
    BY <1>1, <2>1, <2>2 DEF PolicyInv, PolicyTypes
<1>3. UnderWay'
  BY <1>1 DEF PolicyInv, UnderWay
<1>4. ReadsAreFresh'
  BY <1>1 DEF PolicyInv, UnderWay, ReadsAreFresh
<1>5. PolicyOfTheDomain' /\ LostOnlyByRace'
  BY <1>1 DEF PolicyOfTheDomain, LostOnlyByRace, Shown, Unset
<1> QED
  BY <1>2, <1>3, <1>4, <1>5 DEF PolicyInv

(* A step of one request that writes nothing and satisfies the conditions  *)
(* on a request keeps the invariant.                                       *)
LEMMA EditRequestStep ==
  ASSUME PolicyInv, NEW e \in Editors, NEW new \in Edits,
         editor' = [editor EXCEPT ![e] = new],
         UNCHANGED <<domainId, lastId, policyRow, wanted, lost>>,
         readErrors' \in 0..MaxReadErrors,
         new.pc # "idle" => \E c \in Columns : new.want[c] # NoPolicy,
         new.pc = "read" => new.dom \in 1..lastId,
         new.pc = "write" => new.id \in 1..lastId,
         new.pc = "write" /\ new.id = domainId => \A c \in new.fresh \ lost : new.row[c] = Shown[c]
  PROVE  PolicyInv'
<1>1. /\ editor'[e] = new /\ \A f \in Editors \ {e} : editor'[f] = editor[f]
      /\ editor' \in [Editors -> Edits]
  BY DEF PolicyInv, PolicyTypes
<1>2. Shown' = Shown
  BY DEF Shown
<1>3. PolicyTypes'
  BY <1>1 DEF PolicyInv, PolicyTypes
<1>4. UnderWay' /\ ReadsAreFresh'
  BY <1>1, <1>2 DEF PolicyInv, UnderWay, ReadsAreFresh
<1> QED
  BY <1>2, <1>3, <1>4 DEF PolicyInv, LostOnlyByRace, PolicyOfTheDomain

LEMMA UpdateStep ==
  ASSUME PolicyInv, NEW e \in Editors, NEW want \in [Columns -> Policies \cup {NoPolicy}],
         Update(e, want)
  PROVE  PolicyInv'
<1> DEFINE new == [Idle EXCEPT !.pc = "domain", !.want = want]
<1>1. new \in Edits /\ new.pc = "domain" /\ new.want = want
  BY IdleIsEdit DEF Edits
<1>2. editor' = [editor EXCEPT ![e] = new] /\ \E c \in Columns : want[c] # NoPolicy
  BY DEF Update
<1>3. UNCHANGED <<domainId, lastId, policyRow, wanted, lost>> /\ readErrors' \in 0..MaxReadErrors
  BY DEF Update, PolicyInv, PolicyTypes
<1> HIDE DEF new
<1> QED
  BY <1>1, <1>2, <1>3, EditRequestStep

LEMMA FindDomainStep ==
  ASSUME PolicyInv, NEW e \in Editors, FindDomain(e)
  PROVE  PolicyInv'
<1> DEFINE new == IF domainId = 0 THEN Idle ELSE [editor[e] EXCEPT !.pc = "read", !.dom = domainId]
<1>1. editor[e] \in Edits /\ domainId \in Nat /\ (domainId # 0 => domainId \in 1..lastId)
  BY DEF PolicyInv, PolicyTypes
<1>2. editor' = [editor EXCEPT ![e] = new]
  BY DEF FindDomain, PolicyInv, PolicyTypes
<1>3. UNCHANGED <<domainId, lastId, policyRow, wanted, lost>> /\ readErrors' \in 0..MaxReadErrors
  BY DEF FindDomain, PolicyInv, PolicyTypes
<1>4. CASE domainId = 0
  BY <1>2, <1>3, <1>4, IdleIsEdit, EditRequestStep
<1>5. CASE domainId # 0
  <2>1. new \in Edits /\ new.pc = "read" /\ new.dom = domainId /\ new.want = editor[e].want
    BY <1>1, <1>5 DEF Edits
  <2>2. \E c \in Columns : editor[e].want[c] # NoPolicy
    BY DEF FindDomain, PolicyInv, UnderWay
  <2> HIDE DEF new
  <2> QED
    BY <1>1, <1>2, <1>3, <1>5, <2>1, <2>2, EditRequestStep
<1> QED
  BY <1>4, <1>5

LEMMA ReadPolicyStep ==
  ASSUME PolicyInv, NEW e \in Editors, ReadPolicy(e)
  PROVE  PolicyInv'
<1>1. editor[e] \in Edits /\ domainId \in Nat /\ (domainId # 0 => domainId \in 1..lastId)
  BY DEF PolicyInv, PolicyTypes
<1>2. editor[e].dom \in 1..lastId /\ \E c \in Columns : editor[e].want[c] # NoPolicy
  BY DEF ReadPolicy, PolicyInv, UnderWay
<1>3. UNCHANGED <<domainId, lastId, policyRow, wanted, lost>>
  BY DEF ReadPolicy
<1>4. readErrors' \in 0..MaxReadErrors
  BY PolicyAssumption DEF ReadPolicy, PolicyInv, PolicyTypes
<1>5. CASE /\ domainId # 0
           /\ editor' = [editor EXCEPT ![e] =
                [@ EXCEPT !.pc = "write", !.id = domainId, !.row = Shown, !.fresh = Columns]]
  <2> DEFINE new == [editor[e] EXCEPT !.pc = "write", !.id = domainId, !.row = Shown, !.fresh = Columns]
  <2>1. Shown \in [Columns -> Values]
    BY ShownIsTyped DEF PolicyInv
  <2>2. /\ new \in Edits /\ new.pc = "write" /\ new.id = domainId /\ new.row = Shown
        /\ new.want = editor[e].want
    BY <1>1, <2>1 DEF Edits
  <2>3. editor' = [editor EXCEPT ![e] = new]
    BY <1>5 DEF PolicyInv, PolicyTypes
  <2> HIDE DEF new
  <2> QED
    <3>1. \A c \in new.fresh \ lost : new.row[c] = Shown[c]
      BY <2>2
    <3>2. \E c \in Columns : new.want[c] # NoPolicy
      BY <1>2, <2>2
    <3>3. new.id \in 1..lastId /\ new.pc # "read"
      BY <1>1, <1>5, <2>2
    <3> QED
      BY <1>3, <1>4, <2>2, <2>3, <3>1, <3>2, <3>3, EditRequestStep
<1>6. CASE editor' = [editor EXCEPT ![e] =
             [@ EXCEPT !.pc = "write", !.id = editor[e].dom, !.fresh = {},
                       !.row = [c \in Columns |-> Fallback]]]
  <2> DEFINE new == [editor[e] EXCEPT !.pc = "write", !.id = editor[e].dom, !.fresh = {},
                                      !.row = [c \in Columns |-> Fallback]]
  <2>1. [c \in Columns |-> Fallback] \in [Columns -> Values]
    BY DEF Values
  <2>2. /\ new \in Edits /\ new.pc = "write" /\ new.id = editor[e].dom /\ new.fresh = {}
        /\ new.want = editor[e].want
    BY <1>1, <2>1 DEF Edits
  <2>3. editor' = [editor EXCEPT ![e] = new]
    BY <1>6 DEF PolicyInv, PolicyTypes
  <2> HIDE DEF new
  <2> QED
    BY <1>2, <1>3, <1>4, <2>2, <2>3, EditRequestStep
<1> QED
  BY <1>5, <1>6 DEF ReadPolicy
LEMMA SpoilKeeps ==
  ASSUME NEW x \in Edits, NEW c, NEW y, y = [x EXCEPT !.fresh = @ \ {c}]
  PROVE  /\ y \in Edits /\ y.fresh = x.fresh \ {c} /\ y.pc = x.pc /\ y.want = x.want
         /\ y.dom = x.dom /\ y.id = x.id /\ y.row = x.row
<1>1. x.fresh \ {c} \in SUBSET Columns
  BY DEF Edits
<1> QED
  BY <1>1 DEF Edits

(* The upsert: its column takes what was wanted, the other one what the    *)
(* request had read.                                                       *)
LEMMA WritePolicyStep ==
  ASSUME PolicyInv, NEW e \in Editors, WritePolicy(e)
  PROVE  PolicyInv'
<1>1. /\ editor[e] \in Edits /\ editor[e].pc = "write"
      /\ UNCHANGED <<domainId, lastId, readErrors>>
  BY DEF PolicyInv, PolicyTypes, WritePolicy
<1>2. CASE editor[e].id # domainId
  <2>1. editor' = [editor EXCEPT ![e] = Idle] /\ UNCHANGED <<policyRow, wanted, lost>>
    BY <1>2 DEF WritePolicy
  <2>2. readErrors' \in 0..MaxReadErrors
    BY <1>1 DEF PolicyInv, PolicyTypes
  <2> QED
    BY <1>1, <2>1, <2>2, IdleIsEdit, EditRequestStep
<1>3. CASE editor[e].id = domainId
  <2> DEFINE c == Column(e)
             written == [editor[e].row EXCEPT ![c] = editor[e].want[c]]
             more == c = "spf" /\ editor[e].want["dmarc"] # NoPolicy
             own == IF more THEN [editor[e] EXCEPT !.want[c] = NoPolicy, !.pc = "domain"] ELSE Idle
             moved == [editor EXCEPT ![e] = own]
  <2>1. c \in Columns /\ editor[e].want[c] \in Policies
    BY <1>1, ColumnIsWanted
  <2>2. /\ policyRow' = [id |-> domainId, spf |-> written["spf"], dmarc |-> written["dmarc"]]
        /\ wanted' = [wanted EXCEPT ![c] = editor[e].want[c]]
        /\ lost' = (lost \ {c}) \cup ((Columns \ {c}) \ editor[e].fresh)
        /\ editor' = Spoil(moved, c)
    BY <1>3 DEF WritePolicy, PolicyInv, PolicyTypes
  <2>3. /\ editor[e].row \in [Columns -> Values] /\ written \in [Columns -> Values]
        /\ written[c] = editor[e].want[c]
        /\ \A d \in Columns \ {c} : written[d] = editor[e].row[d]
    BY <1>1, <2>1 DEF Edits, Values
  <2>4. own \in Edits /\ own.pc \in {"domain", "idle"}
        /\ (own.pc = "domain" => \E d \in Columns : own.want[d] # NoPolicy)
    <3>1. CASE more
      <4>1. [editor[e].want EXCEPT ![c] = NoPolicy] \in [Columns -> Policies \cup {NoPolicy}]
        BY <1>1, <2>1 DEF Edits
      <4>2. own.want = [editor[e].want EXCEPT ![c] = NoPolicy] /\ own \in Edits /\ own.pc = "domain"
        BY <1>1, <3>1, <4>1 DEF Edits
      <4>3. own.want["dmarc"] # NoPolicy
        BY <1>1, <3>1, <4>2 DEF Edits, Columns
      <4> HIDE DEF own
      <4> QED
        BY <4>2, <4>3 DEF Columns
    <3>2. CASE ~more
      BY <3>2, IdleIsEdit
    <3> QED
      BY <3>1, <3>2
  <2>5. policyRow' \in PolicyRows /\ policyRow' # NoPolicy
        /\ policyRow'.id = domainId /\ domainId # 0
    <3>1. domainId \in Nat /\ domainId # 0
      BY <1>1, <1>3 DEF PolicyInv, PolicyTypes, UnderWay
    <3>2. written["spf"] \in Values /\ written["dmarc"] \in Values
      BY <2>3 DEF Columns
    <3> HIDE DEF written
    <3> QED
      BY <2>2, <3>1, <3>2, PolicyAssumption DEF PolicyRows
  <2>6. \A d \in Columns : Shown'[d] = written[d]
    <3> HIDE DEF written
    <3> QED
      BY <2>2, <2>5 DEF Shown, Columns
  <2> HIDE DEF own, c, written, more
  <2>7. \A f \in Editors : /\ moved[f] \in Edits
                           /\ moved[f] = IF f = e THEN own ELSE editor[f]
    BY <2>4 DEF PolicyInv, PolicyTypes
  <2> HIDE DEF moved
  <2>8. \A f \in Editors : editor'[f] = [moved[f] EXCEPT !.fresh = @ \ {c}]
    BY <2>2 DEF Spoil
  <2>9. ASSUME NEW f \in Editors
        PROVE  /\ editor'[f] \in Edits
               /\ editor'[f].fresh = moved[f].fresh \ {c}
               /\ editor'[f].pc = moved[f].pc /\ editor'[f].want = moved[f].want
               /\ editor'[f].dom = moved[f].dom /\ editor'[f].id = moved[f].id
               /\ editor'[f].row = moved[f].row
    <3>1. moved[f] \in Edits /\ editor'[f] = [moved[f] EXCEPT !.fresh = @ \ {c}]
      BY <2>7, <2>8
    <3> QED
      BY <3>1, SpoilKeeps
  <2>10. editor' \in [Editors -> Edits]
    BY <2>2, <2>9 DEF Spoil
  <2>11. wanted' \in [Columns -> Values] /\ wanted'[c] = editor[e].want[c]
         /\ \A d \in Columns \ {c} : wanted'[d] = wanted[d]
    BY <2>1, <2>2 DEF PolicyInv, PolicyTypes, Values
  <2>12. PolicyTypes'
    BY <1>1, <2>2, <2>5, <2>10, <2>11 DEF PolicyInv, PolicyTypes
  <2>13. UnderWay'
    <3>1. ASSUME NEW f \in Editors, f # e
          PROVE  /\ editor'[f].pc = editor[f].pc /\ editor'[f].want = editor[f].want
                 /\ editor'[f].dom = editor[f].dom /\ editor'[f].id = editor[f].id
      BY <3>1, <2>7, <2>9
    <3>2. editor'[e].pc = own.pc /\ editor'[e].want = own.want
      BY <2>7, <2>9
    <3> QED
      BY <1>1, <3>1, <3>2, <2>4 DEF PolicyInv, UnderWay
  <2>14. ASSUME NEW d \in Columns \ {c}, d \notin lost'
         PROVE  d \notin lost /\ Shown'[d] = Shown[d]
    <3>1. d \notin lost /\ d \in editor[e].fresh
      BY <2>14, <2>2
    <3> QED
      BY <1>1, <1>3, <3>1, <2>3, <2>6 DEF PolicyInv, ReadsAreFresh
  <2>15. ReadsAreFresh'
    <3> SUFFICES ASSUME NEW f \in Editors, editor'[f].pc = "write", editor'[f].id = domainId',
                        NEW d \in editor'[f].fresh \ lost'
                 PROVE  editor'[f].row[d] = Shown'[d]
      BY DEF ReadsAreFresh
    <3>1. f # e
      BY <2>4, <2>7, <2>9
    <3>2. /\ d \in editor[f].fresh /\ d # c /\ d \in Columns
          /\ editor[f].pc = "write" /\ editor[f].id = domainId /\ editor'[f].row = editor[f].row
      BY <3>1, <1>1, <2>7, <2>9 DEF Edits
    <3>3. d \notin lost /\ Shown'[d] = Shown[d]
      BY <3>2, <2>14
    <3> QED
      BY <3>2, <3>3 DEF PolicyInv, ReadsAreFresh
  <2>16. LostOnlyByRace'
    <3> SUFFICES ASSUME NEW d \in Columns \ lost' PROVE Shown'[d] = wanted'[d]
      BY DEF LostOnlyByRace
    <3>1. CASE d = c
      BY <3>1, <2>3, <2>6, <2>11
    <3>2. CASE d # c
      BY <3>2, <2>11, <2>14 DEF PolicyInv, LostOnlyByRace
    <3> QED
      BY <3>1, <3>2
  <2>17. PolicyOfTheDomain'
    BY <1>1, <2>5 DEF PolicyOfTheDomain
  <2> QED
    BY <2>12, <2>13, <2>15, <2>16, <2>17 DEF PolicyInv
<1> QED
  BY <1>2, <1>3

LEMMA NextPolicyInv == PolicyInv /\ [PolicyNext]_policyvars => PolicyInv'
<1> SUFFICES ASSUME PolicyInv, [PolicyNext]_policyvars PROVE PolicyInv'
  OBVIOUS
<1>1. CASE UNCHANGED policyvars
  BY <1>1 DEF policyvars, PolicyInv, PolicyTypes, UnderWay, ReadsAreFresh, LostOnlyByRace,
              PolicyOfTheDomain, Shown
<1>2. CASE PolicyNext
  BY <1>2, CreateDomainStep, DeleteDomainStep, UpdateStep, FindDomainStep, ReadPolicyStep,
     WritePolicyStep
  DEF PolicyNext
<1> QED
  BY <1>1, <1>2

LEMMA PolicyInvariant == PolicySpec => []PolicyInv
BY InitPolicyInv, NextPolicyInv, PTL DEF PolicySpec

(* The variables keep their types; a policy that is shown is one somebody  *)
(* chose, or one of the two defaults of the code.                          *)
THEOREM PolicyTypeCorrect == PolicySpec => []PolicyTypeOK
<1>1. PolicyInv => PolicyTypeOK
  BY ShownIsTyped DEF PolicyInv, PolicyTypes, PolicyTypeOK, Edits
<1> QED
  BY <1>1, PolicyInvariant, PTL

(* SetSPFPolicy and SetDMARCPolicy read the row and write all of it back:  *)
(* a column loses its value only to a setter that read before it and wrote *)
(* after it, or that failed to read.                                       *)
THEOREM PoliciesAreLostOnlyByRace == PolicySpec => []LostOnlyByRace
<1>1. PolicyInv => LostOnlyByRace
  BY DEF PolicyInv
<1> QED
  BY <1>1, PolicyInvariant, PTL

(* The domain may be deleted and created again between the two lookups of  *)
(* a setter and its upsert: the row is still that of the domain there is.  *)
THEOREM PoliciesBelongToTheirDomain == PolicySpec => []PolicyOfTheDomain
<1>1. PolicyInv => PolicyOfTheDomain
  BY DEF PolicyInv
<1> QED
  BY <1>1, PolicyInvariant, PTL

(* The policy that is shown is the one that was asked for, of the domain   *)
(* there is, or it was lost to a setter that overlapped.                   *)
THEOREM PoliciesStayKept == PolicySpec => []PoliciesAreKept
BY PoliciesAreLostOnlyByRace, PoliciesBelongToTheirDomain, PTL DEF PoliciesAreKept

-----------------------------------------------------------------------------
(* The backup and the restore. *)

Rows == [domains : SUBSET DomainRows, mailboxes : SUBSET DomainRows]

CreateState ==
  [pc : {"idle", "domains", "mailboxes", "write", "fill", "finished", "crashed"},
   dump : Rows, skipped : SUBSET {"domains", "mailboxes"}, born : SUBSET DomainRows]

RestoreState ==
  [pc : {"idle", "verified", "refused", "unpack", "restored"}, read : Creates \cup {NoOne},
   left : SUBSET Entries, errors : BOOLEAN]

BackupTypes ==
  /\ tables \in Rows /\ tables.mailboxes \subseteq tables.domains
  /\ create \in [Creates -> CreateState]
  /\ path \in [by : Creates \cup {NoOne}, whole : BOOLEAN]
  /\ complete \subseteq Creates
  /\ restore \in RestoreState
  /\ target \in [Entries -> Creates \cup {NoOne}]
  /\ edits \in 0..MaxEdits /\ crashes \in 0..MaxCrashes

(* What the dump of one create relates to the tables: a mailbox that the   *)
(* second SELECT can still find has its domain in what the first one read, *)
(* or the domain was created after that.                                   *)
DumpFits(s, t) ==
  /\ s.pc \in {"domains", "mailboxes"} => s.dump.mailboxes = {}
  /\ s.pc = "mailboxes" /\ "domains" \notin s.skipped => t.domains \ s.born \subseteq s.dump.domains
  /\ s.pc \in {"write", "fill", "finished"} /\ "domains" \notin s.skipped =>
       s.dump.mailboxes \ s.born \subseteq s.dump.domains

Dumps == \A c \in Creates : DumpFits(create[c], tables)

(* A file that reads to its end was completed. *)
WholeIsComplete == path.whole => path.by \in complete

(* The entries that are done hold the copy of the archive that was read,   *)
(* and that one was complete.                                              *)
Unpacking ==
  /\ restore.pc \in {"unpack", "restored"} =>
       /\ restore.read \in complete
       /\ ~restore.errors => \A e \in Entries \ restore.left : target[e] = restore.read
  /\ restore.pc = "restored" => restore.left = {}

BackupInv == BackupTypes /\ Dumps /\ WholeIsComplete /\ Unpacking

LEMMA IdleIsState == IdleCreate \in CreateState /\ IdleRestore \in RestoreState /\ Nothing \in Rows
BY DEF IdleCreate, CreateState, IdleRestore, RestoreState, Nothing, Rows

LEMMA InitBackupInv == BackupInit => BackupInv
<1> SUFFICES ASSUME BackupInit PROVE BackupInv
  OBVIOUS
<1>1. BackupTypes
  <2>1. 0 \in 0..MaxEdits /\ 0 \in 0..MaxCrashes
    BY BackupAssumption
  <2>2. create \in [Creates -> CreateState] /\ restore \in RestoreState
    BY IdleIsState DEF BackupInit
  <2>3. tables \in Rows /\ tables.mailboxes \subseteq tables.domains
    BY IdleIsState DEF BackupInit, Nothing
  <2>4. path \in [by : Creates \cup {NoOne}, whole : BOOLEAN] /\ target \in [Entries -> Creates \cup {NoOne}]
    BY DEF BackupInit, NoFile
  <2> QED
    BY <2>1, <2>2, <2>3, <2>4 DEF BackupInit, BackupTypes
<1>2. Dumps
  BY DEF BackupInit, Dumps, DumpFits, IdleCreate
<1>3. WholeIsComplete /\ Unpacking
  BY DEF BackupInit, WholeIsComplete, Unpacking, NoFile, IdleRestore
<1> QED
  BY <1>1, <1>2, <1>3 DEF BackupInv

LEMMA EditStep ==
  ASSUME BackupInv, NEW t \in Rows, t.mailboxes \subseteq t.domains,
         t.mailboxes \ tables.mailboxes \subseteq tables.domains, Edit(t)
  PROVE  BackupInv'
<1>1. edits' \in 0..MaxEdits /\ tables' = t /\ UNCHANGED <<path, complete, restore, target, crashes>>
  BY BackupAssumption DEF Edit, BackupInv, BackupTypes
<1>2. ASSUME NEW c \in Creates
      PROVE  create'[c] \in CreateState /\ DumpFits(create'[c], t)
  <2>1. create[c] \in CreateState /\ DumpFits(create[c], tables) /\ tables \in Rows
    BY DEF BackupInv, BackupTypes, Dumps
  <2>2. CASE create[c].pc = "idle"
    <3>1. create'[c] = create[c]
      BY <2>2 DEF Edit
    <3> QED
      BY <2>1, <2>2, <3>1 DEF DumpFits
  <2>3. CASE create[c].pc # "idle"
    <3> DEFINE new == create[c].born \cup (t.domains \ tables.domains)
    <3>1. create'[c] = [create[c] EXCEPT !.born = new]
      BY <2>3 DEF Edit
    <3>2. new \subseteq DomainRows /\ create[c].born \subseteq new
      BY <2>1 DEF CreateState, Rows
    <3>3. t.domains \ new \subseteq tables.domains \ create[c].born
      OBVIOUS
    <3> HIDE DEF new
    <3>4. /\ create'[c] \in CreateState /\ create'[c].pc = create[c].pc
          /\ create'[c].dump = create[c].dump /\ create'[c].skipped = create[c].skipped
          /\ create'[c].born = new
      BY <2>1, <3>1, <3>2 DEF CreateState
    <3> QED
      BY <2>1, <3>2, <3>3, <3>4 DEF DumpFits
  <2> QED
    BY <2>2, <2>3
<1>3. create' \in [Creates -> CreateState]
  BY <1>2 DEF Edit
<1>4. BackupTypes' /\ Dumps'
  BY <1>1, <1>2, <1>3 DEF BackupInv, BackupTypes, Dumps
<1> QED
  BY <1>1, <1>4 DEF BackupInv, WholeIsComplete, Unpacking

LEMMA EditTablesStep ==
  ASSUME BackupInv, NEW d \in DomainRows, EditTables(d)
  PROVE  BackupInv'
<1>1. tables \in Rows /\ tables.mailboxes \subseteq tables.domains
  BY DEF BackupInv, BackupTypes
<1>2. ASSUME NEW t, Edit(t),
             t = [tables EXCEPT !.domains = @ \cup {d}]
      PROVE  BackupInv'
  <2>1. t \in Rows /\ t.domains = tables.domains \cup {d} /\ t.mailboxes = tables.mailboxes
    BY <1>1, <1>2 DEF Rows
  <2> QED
    BY <1>1, <1>2, <2>1, EditStep
<1>3. ASSUME NEW t, Edit(t), d \in tables.domains,
             t = [tables EXCEPT !.mailboxes = @ \cup {d}]
      PROVE  BackupInv'
  <2>1. t \in Rows /\ t.domains = tables.domains /\ t.mailboxes = tables.mailboxes \cup {d}
    BY <1>1, <1>3 DEF Rows
  <2> QED
    BY <1>1, <1>3, <2>1, EditStep
<1>4. ASSUME NEW t, Edit(t),
             t = [domains |-> tables.domains \ {d}, mailboxes |-> tables.mailboxes \ {d}]
      PROVE  BackupInv'
  <2>1. t \in Rows /\ t.domains = tables.domains \ {d} /\ t.mailboxes = tables.mailboxes \ {d}
    BY <1>1, <1>4 DEF Rows
  <2> QED
    BY <1>1, <1>4, <2>1, EditStep
<1> QED
  BY <1>2, <1>3, <1>4 DEF EditTables

(* A step of one create that leaves the file alone. *)
LEMMA CreateStep ==
  ASSUME BackupInv, NEW c \in Creates, NEW new \in CreateState,
         create' = [create EXCEPT ![c] = new], DumpFits(new, tables),
         crashes' \in 0..MaxCrashes,
         path' \in [by : Creates \cup {NoOne}, whole : BOOLEAN],
         complete \subseteq complete', complete' \subseteq Creates,
         path'.whole => path'.by \in complete',
         UNCHANGED <<tables, restore, target, edits>>
  PROVE  BackupInv'
<1>1. /\ create'[c] = new /\ \A b \in Creates \ {c} : create'[b] = create[b]
      /\ create' \in [Creates -> CreateState]
  BY DEF BackupInv, BackupTypes
<1>2. BackupTypes'
  BY <1>1 DEF BackupInv, BackupTypes
<1>3. Dumps'
  BY <1>1 DEF BackupInv, Dumps
<1>4. WholeIsComplete' /\ Unpacking'
  BY DEF BackupInv, WholeIsComplete, Unpacking
<1> QED
  BY <1>2, <1>3, <1>4 DEF BackupInv
LEMMA DumpTableStep ==
  ASSUME BackupInv, NEW c \in Creates, DumpTable(c)
  PROVE  BackupInv'
<1>1. /\ create[c] \in CreateState /\ DumpFits(create[c], tables)
      /\ tables \in Rows /\ tables.mailboxes \subseteq tables.domains
  BY DEF BackupInv, BackupTypes, Dumps
<1>2. /\ UNCHANGED <<tables, path, complete, restore, target, edits>>
      /\ crashes' \in 0..MaxCrashes
      /\ path' \in [by : Creates \cup {NoOne}, whole : BOOLEAN]
      /\ complete' \subseteq Creates /\ (path'.whole => path'.by \in complete')
  <2>1. /\ UNCHANGED <<tables, path, complete, restore, target, edits>>
        /\ crashes' = crashes \/ (crashes < MaxCrashes /\ crashes' = crashes + 1)
    BY DEF DumpTable
  <2> QED
    BY <2>1, BackupAssumption DEF BackupInv, BackupTypes, WholeIsComplete
<1> DEFINE t == create[c].pc
           read == [create[c] EXCEPT !.dump = [@ EXCEPT ![t] = tables[t]], !.pc = NextTable(t)]
           part(rows) == [create[c] EXCEPT !.dump = [@ EXCEPT ![t] = rows], !.skipped = @ \cup {t},
                                           !.pc = NextTable(t)]
<1>3. \/ create' = [create EXCEPT ![c] = read]
      \/ \E rows \in SUBSET tables[t] : create' = [create EXCEPT ![c] = part(rows)]
  BY DEF DumpTable, BackupInv, BackupTypes
<1>4. t \in {"domains", "mailboxes"}
  BY DEF DumpTable
<1>5. read \in CreateState /\ DumpFits(read, tables)
  <2>1. CASE t = "domains"
    <3>1. [create[c].dump EXCEPT !["domains"] = tables.domains] \in Rows
      BY <1>1 DEF CreateState, Rows
    <3>2. /\ read \in CreateState /\ read.pc = "mailboxes" /\ read.dump.domains = tables.domains
          /\ read.dump.mailboxes = create[c].dump.mailboxes
      BY <1>1, <2>1, <3>1 DEF CreateState, NextTable, Rows
    <3> HIDE DEF read
    <3> QED
      BY <1>1, <2>1, <3>2 DEF DumpFits
  <2>2. CASE t = "mailboxes"
    <3>1. [create[c].dump EXCEPT !["mailboxes"] = tables.mailboxes] \in Rows
      BY <1>1 DEF CreateState, Rows
    <3>2. /\ read \in CreateState /\ read.pc = "write" /\ read.dump.domains = create[c].dump.domains
          /\ read.dump.mailboxes = tables.mailboxes /\ read.skipped = create[c].skipped
          /\ read.born = create[c].born
      BY <1>1, <2>2, <3>1 DEF CreateState, NextTable, Rows
    <3> HIDE DEF read
    <3> QED
      BY <1>1, <2>2, <3>2 DEF DumpFits
  <2> QED
    BY <1>4, <2>1, <2>2
<1>6. ASSUME NEW rows \in SUBSET tables[t]
      PROVE  part(rows) \in CreateState /\ DumpFits(part(rows), tables)
  <2> DEFINE p == part(rows)
  <2>1. ASSUME t = "domains" PROVE p \in CreateState /\ DumpFits(p, tables)
    <3>1. [create[c].dump EXCEPT !["domains"] = rows] \in Rows
      BY <1>1, <2>1 DEF CreateState, Rows
    <3>2. /\ p \in CreateState /\ p.pc = "mailboxes" /\ "domains" \in p.skipped
          /\ p.dump.mailboxes = create[c].dump.mailboxes
      BY <1>1, <2>1, <3>1 DEF CreateState, NextTable, Rows
    <3> HIDE DEF p
    <3> QED
      BY <1>1, <2>1, <3>2 DEF DumpFits
  <2>2. ASSUME t = "mailboxes" PROVE p \in CreateState /\ DumpFits(p, tables)
    <3>1. [create[c].dump EXCEPT !["mailboxes"] = rows] \in Rows /\ rows \subseteq tables.mailboxes
      BY <1>1, <2>2 DEF CreateState, Rows
    <3>2. /\ p \in CreateState /\ p.pc = "write" /\ p.dump.domains = create[c].dump.domains
          /\ p.dump.mailboxes = rows /\ p.born = create[c].born
          /\ p.skipped = create[c].skipped \cup {"mailboxes"}
      BY <1>1, <2>2, <3>1 DEF CreateState, NextTable, Rows
    <3> HIDE DEF p
    <3> QED
      BY <1>1, <2>2, <3>1, <3>2 DEF DumpFits
  <2> QED
    BY <1>4, <2>1, <2>2
<1> HIDE DEF read, part
<1> QED
  BY <1>2, <1>3, <1>5, <1>6, CreateStep

(* The steps of a create that leave its dump alone. *)
LEMMA OtherCreateSteps ==
  ASSUME BackupInv, NEW c \in Creates,
         StartCreate(c) \/ TruncateArchive(c) \/ FillArchive(c) \/ CrashCreate(c)
  PROVE  BackupInv'
<1>1. create[c] \in CreateState /\ DumpFits(create[c], tables)
  BY DEF BackupInv, BackupTypes, Dumps
<1>2. /\ crashes \in 0..MaxCrashes /\ path \in [by : Creates \cup {NoOne}, whole : BOOLEAN]
      /\ complete \subseteq Creates /\ (path.whole => path.by \in complete)
  BY DEF BackupInv, BackupTypes, WholeIsComplete
<1>3. CASE StartCreate(c)
  <2> DEFINE new == [IdleCreate EXCEPT !.pc = "domains"]
  <2>1. new \in CreateState /\ DumpFits(new, tables)
    BY IdleIsState DEF CreateState, DumpFits, IdleCreate, Nothing
  <2> HIDE DEF new
  <2>2. create' = [create EXCEPT ![c] = new]
    BY <1>3 DEF StartCreate, new
  <2>3. UNCHANGED <<tables, path, complete, restore, target, edits, crashes>>
    BY <1>3 DEF StartCreate
  <2> QED
    BY <1>2, <2>1, <2>2, <2>3, CreateStep
<1>4. ASSUME NEW p \in {"fill", "finished", "crashed"},
             p # "crashed" => create[c].pc \in {"write", "fill"},
             create' = [create EXCEPT ![c].pc = p]
      PROVE  \E new \in CreateState : create' = [create EXCEPT ![c] = new] /\ DumpFits(new, tables)
  <2> DEFINE new == [create[c] EXCEPT !.pc = p]
  <2>1. /\ new \in CreateState /\ new.pc = p /\ new.dump = create[c].dump
        /\ new.skipped = create[c].skipped /\ new.born = create[c].born
    BY <1>1, <1>4 DEF CreateState
  <2>2. create' = [create EXCEPT ![c] = new]
    BY <1>4 DEF BackupInv, BackupTypes
  <2> HIDE DEF new
  <2>3. DumpFits(new, tables)
    BY <1>1, <1>4, <2>1 DEF DumpFits
  <2> QED
    BY <2>1, <2>2, <2>3
<1>5. CASE TruncateArchive(c)
  <2>1. \E new \in CreateState : create' = [create EXCEPT ![c] = new] /\ DumpFits(new, tables)
    BY <1>4, <1>5 DEF TruncateArchive
  <2>2. path' = [by |-> c, whole |-> FALSE] /\ UNCHANGED <<tables, complete, restore, target, edits, crashes>>
    BY <1>5 DEF TruncateArchive
  <2>3. path' \in [by : Creates \cup {NoOne}, whole : BOOLEAN] /\ ~path'.whole
    BY <2>2
  <2> QED
    BY <1>2, <2>1, <2>2, <2>3, CreateStep
<1>6. CASE FillArchive(c)
  <2>1. \E new \in CreateState : create' = [create EXCEPT ![c] = new] /\ DumpFits(new, tables)
    BY <1>4, <1>6 DEF FillArchive
  <2>2. complete' = complete \cup {c} /\ UNCHANGED <<tables, restore, target, edits, crashes>>
    BY <1>6 DEF FillArchive
  <2>3. path' \in [by : Creates \cup {NoOne}, whole : BOOLEAN] /\ path'.by = c
    <3>1. PICK w \in BOOLEAN : path' = [by |-> c, whole |-> w]
      BY <1>6 DEF FillArchive
    <3> QED
      BY <3>1
  <2> QED
    BY <1>2, <2>1, <2>2, <2>3, CreateStep
<1>7. CASE CrashCreate(c)
  <2>1. \E new \in CreateState : create' = [create EXCEPT ![c] = new] /\ DumpFits(new, tables)
    BY <1>4, <1>7 DEF CrashCreate
  <2>2. UNCHANGED <<tables, path, complete, restore, target, edits>> /\ crashes' \in 0..MaxCrashes
    BY <1>2, <1>7, BackupAssumption DEF CrashCreate
  <2> QED
    BY <1>2, <2>1, <2>2, CreateStep
<1> QED
  BY <1>3, <1>5, <1>6, <1>7

LEMMA WriteSomeStep ==
  ASSUME BackupInv, NEW c \in Creates, WriteSome(c)
  PROVE  BackupInv'
<1>1. path' = [by |-> c, whole |-> FALSE] /\ UNCHANGED <<tables, create, complete, restore, target, edits, crashes>>
  BY DEF WriteSome
<1>2. path' \in [by : Creates \cup {NoOne}, whole : BOOLEAN] /\ ~path'.whole
  BY <1>1
<1> QED
  BY <1>1, <1>2 DEF BackupInv, BackupTypes, Dumps, WholeIsComplete, Unpacking

(* A step of the restore command that satisfies its own conditions. *)
LEMMA RestoreStep ==
  ASSUME BackupInv, restore' \in RestoreState, target' \in [Entries -> Creates \cup {NoOne}],
         crashes' \in 0..MaxCrashes, Unpacking',
         UNCHANGED <<tables, create, path, complete, edits>>
  PROVE  BackupInv'
BY DEF BackupInv, BackupTypes, Dumps, WholeIsComplete

LEMMA RestoreSteps ==
  ASSUME BackupInv,
         \/ VerifyFirst \/ ReadAgain \/ EndRestore
         \/ \E e \in Entries : UnpackEntry(e)
  PROVE  BackupInv'
<1>1. /\ restore \in RestoreState /\ target \in [Entries -> Creates \cup {NoOne}]
      /\ crashes \in 0..MaxCrashes /\ path.by \in Creates \cup {NoOne}
  BY DEF BackupInv, BackupTypes
<1>2. CASE VerifyFirst
  <2> DEFINE pc == IF VerifyBackup(path) THEN "verified" ELSE "refused"
  <2>1. restore' = [IdleRestore EXCEPT !.pc = pc] /\ UNCHANGED <<tables, create, path, complete, target, edits, crashes>>
    BY <1>2 DEF VerifyFirst
  <2>2. pc \in {"verified", "refused"}
    OBVIOUS
  <2> HIDE DEF pc
  <2>3. restore' \in RestoreState /\ restore'.pc = pc
    BY <2>1, <2>2, IdleIsState DEF RestoreState
  <2>4. Unpacking'
    BY <2>2, <2>3 DEF Unpacking
  <2> QED
    BY <1>1, <2>1, <2>3, <2>4, RestoreStep
<1>3. CASE ReadAgain
  <2>1. UNCHANGED <<tables, create, path, complete, edits, crashes>>
    BY <1>3 DEF ReadAgain
  <2>2. CASE path.whole
    <3>1. restore' = [restore EXCEPT !.pc = "unpack", !.read = path.by, !.left = Entries] /\ target' = target
      BY <1>3, <2>2 DEF ReadAgain
    <3>2. /\ restore' \in RestoreState /\ restore'.pc = "unpack" /\ restore'.read = path.by
          /\ restore'.left = Entries
      BY <1>1, <3>1 DEF RestoreState
    <3>3. Unpacking'
      BY <2>1, <2>2, <3>2 DEF Unpacking, BackupInv, WholeIsComplete
    <3> QED
      BY <1>1, <2>1, <3>1, <3>2, <3>3, RestoreStep
  <2>3. CASE ~path.whole
    <3>1. restore' = [restore EXCEPT !.pc = "refused"]
      BY <1>3, <2>3 DEF ReadAgain
    <3>2. restore' \in RestoreState /\ restore'.pc = "refused"
      BY <1>1, <3>1 DEF RestoreState
    <3>3. target' \in [Entries -> Creates \cup {NoOne}]
      BY <1>1, <1>3, <2>3 DEF ReadAgain
    <3>4. Unpacking'
      BY <3>2 DEF Unpacking
    <3> QED
      BY <1>1, <2>1, <3>2, <3>3, <3>4, RestoreStep
  <2> QED
    BY <2>2, <2>3
<1>4. CASE EndRestore
  <2>1. /\ restore' = [restore EXCEPT !.pc = "restored"] /\ restore.left = {} /\ restore.pc = "unpack"
        /\ UNCHANGED <<tables, create, path, complete, target, edits, crashes>>
    BY <1>4 DEF EndRestore
  <2>2. /\ restore' \in RestoreState /\ restore'.read = restore.read /\ restore'.left = restore.left
        /\ restore'.errors = restore.errors
    BY <1>1, <2>1 DEF RestoreState
  <2>3. Unpacking'
    BY <2>1, <2>2 DEF Unpacking, BackupInv
  <2> QED
    BY <1>1, <2>1, <2>2, <2>3, RestoreStep
<1>5. ASSUME NEW e \in Entries, UnpackEntry(e) PROVE BackupInv'
  <2>1. UNCHANGED <<tables, create, path, complete, edits>> /\ restore.pc = "unpack"
    BY <1>5 DEF UnpackEntry
  <2>2. /\ restore.read \in complete
        /\ ~restore.errors => \A f \in Entries \ restore.left : target[f] = restore.read
    BY <2>1 DEF BackupInv, Unpacking
  <2>3. CASE /\ target' = [target EXCEPT ![e] = restore.read]
             /\ restore' = [restore EXCEPT !.left = @ \ {e}] /\ crashes' = crashes
    <3>1. /\ restore' \in RestoreState /\ restore'.left = restore.left \ {e} /\ restore'.pc = "unpack"
          /\ restore'.read = restore.read /\ restore'.errors = restore.errors
      BY <1>1, <2>1, <2>3 DEF RestoreState
    <3>2. target' \in [Entries -> Creates \cup {NoOne}]
      BY <1>1, <2>3 DEF RestoreState
    <3>3. Unpacking'
      BY <1>1, <2>1, <2>2, <2>3, <3>1 DEF Unpacking
    <3> QED
      BY <1>1, <2>1, <2>3, <3>1, <3>2, <3>3, RestoreStep
  <2>4. CASE /\ restore' = [restore EXCEPT !.left = @ \ {e}, !.errors = TRUE] /\ target' = target
             /\ crashes < MaxCrashes /\ crashes' = crashes + 1
    <3>1. /\ restore' \in RestoreState /\ restore'.pc = "unpack"
          /\ restore'.read = restore.read /\ restore'.errors = TRUE
      BY <1>1, <2>1, <2>4 DEF RestoreState
    <3>2. crashes' \in 0..MaxCrashes
      BY <1>1, <2>4, BackupAssumption
    <3>3. Unpacking'
      BY <2>1, <2>2, <3>1 DEF Unpacking
    <3> QED
      BY <1>1, <2>1, <2>4, <3>1, <3>2, <3>3, RestoreStep
  <2> QED
    BY <1>5, <2>3, <2>4 DEF UnpackEntry
<1> QED
  BY <1>2, <1>3, <1>4, <1>5

LEMMA NextBackupInv == BackupInv /\ [BackupNext]_backupvars => BackupInv'
<1> SUFFICES ASSUME BackupInv, [BackupNext]_backupvars PROVE BackupInv'
  OBVIOUS
<1>1. CASE UNCHANGED backupvars
  BY <1>1 DEF backupvars, BackupInv, BackupTypes, Dumps, WholeIsComplete, Unpacking
<1>2. CASE BackupNext
  BY <1>2, EditTablesStep, DumpTableStep, OtherCreateSteps, WriteSomeStep, RestoreSteps DEF BackupNext
<1> QED
  BY <1>1, <1>2

LEMMA BackupInvariant == BackupSpec => []BackupInv
BY InitBackupInv, NextBackupInv, PTL DEF BackupSpec

(* The variables keep their types, and no mailbox row is without its       *)
(* domain.                                                                 *)
THEOREM BackupTypeCorrect == BackupSpec => []BackupTypeOK
<1>1. BackupInv => BackupTypeOK
  BY DEF BackupInv, BackupTypes, BackupTypeOK, Rows, CreateState, RestoreState
<1> QED
  BY <1>1, BackupInvariant, PTL

(* exportDatabaseTables reads parents before children, without a           *)
(* transaction: only a domain created under way, or a SELECT that failed,  *)
(* leaves a mailbox in the dump without its domain.                        *)
THEOREM DumpsAreClosed == BackupSpec => []DumpIsClosed
<1>1. BackupInv => DumpIsClosed
  BY DEF BackupInv, Dumps, DumpFits, DumpIsClosed
<1> QED
  BY <1>1, BackupInvariant, PTL

(* os.WriteFile overwrites in place, and a create may die or cross another *)
(* one: a file that passes VerifyBackup was still written to its end.      *)
THEOREM VerifiedArchivesAreComplete == BackupSpec => []VerifiedIsComplete
<1>1. BackupInv => VerifiedIsComplete
  BY DEF BackupInv, WholeIsComplete, VerifiedIsComplete, VerifyBackup
<1> QED
  BY <1>1, BackupInvariant, PTL

(* RestoreBackup reads the file again after it verified it: a restore that *)
(* notes no error has still unpacked one complete archive, entirely.       *)
THEOREM RestoresAreOneArchive == BackupSpec => []RestoredIsOneArchive
<1>1. BackupInv => RestoredIsOneArchive
  BY DEF BackupInv, Unpacking, RestoredIsOneArchive
<1> QED
  BY <1>1, BackupInvariant, PTL

(* From the dump to the restore: closed, complete and of one archive.      *)
THEOREM ArchivesStaySound == BackupSpec => []ArchivesAreSound
BY DumpsAreClosed, VerifiedArchivesAreComplete, RestoresAreOneArchive, PTL
   DEF ArchivesAreSound

-----------------------------------------------------------------------------
(* The walks over a Maildir. *)

Names == Mails \X (0..1)
WalkPCs == {"idle", "list", "visit", "done", "failed"}
Walks ==
  [pc : WalkPCs, dir : 0..4, names : SUBSET Names, open : SUBSET Names,
   count : [Mails -> 0..4], touched : SUBSET Mails, skipped : SUBSET Mails]

ScanTypes ==
  /\ place \in [Mails -> Dirs \cup {"none"}] /\ flags \in [Mails -> 0..1]
  /\ scan \in [Scanners -> Walks]
  /\ quotaRow \in [exists : BOOLEAN, used : [Mails -> 0..4]]
  /\ since \subseteq Mails /\ hidden \subseteq Mails
  /\ changes \in 0..MaxChanges /\ scanErrors \in 0..MaxScanErrors

(* When the walk comes to a directory; a message without a file is never   *)
(* reached.                                                                *)
Rank(d) ==
  IF d = "trash" THEN 1 ELSE IF d = "cur" THEN 2 ELSE IF d = "new" THEN 3
  ELSE IF d = "tmp" THEN 4 ELSE 5

(* A listed name of the message has not been looked at yet. *)
Pending(w, m) == \E n \in w.names \cup w.open : n[1] = m

(* The shape of a walk: one name per message, one file open at a time, and *)
(* no message counted more often than directories were passed.             *)
WalkShape(w) ==
  /\ w.pc \in {"list", "visit"} => w.dir \in 1..4
  /\ w.pc = "list" => w.names = {} /\ w.open = {}
  /\ \A n, k \in w.names \cup w.open : n[1] = k[1] => n = k
  /\ w.names \cap w.open = {}
  /\ \A n, k \in w.open : n = k
  /\ w.pc = "list" => \A m \in Mails : w.count[m] <= w.dir - 1
  /\ w.pc = "visit" => \A m \in Mails :
       w.count[m] <= w.dir /\ (Pending(w, m) => w.count[m] <= w.dir - 1)

(* What a walk knows of a message that nobody touched since it began, and  *)
(* that lies in directory d under the name with flags f: when it comes to  *)
(* it, or, if an error hid it, that it has passed it.                      *)
WalkMeets(w, m, d, f) ==
  /\ w.pc = "list" => w.count[m] = (IF Rank(d) < w.dir THEN 1 ELSE 0)
  /\ w.pc = "visit" =>
       /\ Pending(w, m) => Rank(d) = w.dir /\ <<m, f>> \in w.names \cup w.open
       /\ w.count[m] = IF Rank(d) < w.dir \/ (Rank(d) = w.dir /\ ~Pending(w, m)) THEN 1 ELSE 0
  /\ w.pc = "done" => w.count[m] = (IF d = "none" THEN 0 ELSE 1)

WalkMisses(w, m, d) ==
  /\ w.pc \in {"list", "visit", "done"} => w.count[m] = 0
  /\ w.pc = "list" => Rank(d) < w.dir
  /\ w.pc = "visit" => Rank(d) <= w.dir /\ ~Pending(w, m)

WalkKnows(w, m, d, f) ==
  IF m \in w.skipped THEN WalkMisses(w, m, d) ELSE WalkMeets(w, m, d, f)

WalkFits(w, p, f) == WalkShape(w) /\ \A m \in Mails \ w.touched : WalkKnows(w, m, p[m], f[m])

ScanInv ==
  /\ ScanTypes /\ UsageIsExplained
  /\ \A s \in Scanners : WalkFits(scan[s], place, flags)

LEMMA OrderFacts ==
  /\ Len(WalkOrder) = 4
  /\ Dirs = {"trash", "cur", "new", "tmp"}
  /\ \A i \in 1..4, d \in Dirs \cup {"none"} : d = WalkOrder[i] <=> Rank(d) = i
  /\ \A d \in Dirs \cup {"none"} : Rank(d) \in 1..5 /\ (Rank(d) = 5 <=> d = "none")
<1>1. Len(WalkOrder) = 4 /\ DOMAIN WalkOrder = 1..4
  BY DEF WalkOrder
<1>2. WalkOrder[1] = "trash" /\ WalkOrder[2] = "cur" /\ WalkOrder[3] = "new" /\ WalkOrder[4] = "tmp"
  BY DEF WalkOrder
<1>3. Dirs = {"trash", "cur", "new", "tmp"}
  BY <1>1, <1>2 DEF Dirs
<1>4. ASSUME NEW i \in 1..4, NEW d \in Dirs \cup {"none"}
      PROVE  d = WalkOrder[i] <=> Rank(d) = i
  <2>1. i = 1 \/ i = 2 \/ i = 3 \/ i = 4
    OBVIOUS
  <2> QED
    BY <2>1, <1>2, <1>3 DEF Rank
<1>5. \A d \in Dirs \cup {"none"} : Rank(d) \in 1..5 /\ (Rank(d) = 5 <=> d = "none")
  BY <1>3 DEF Rank
<1> QED
  BY <1>1, <1>3, <1>4, <1>5

LEMMA IdleWalk == IdleScan \in Walks /\ \A p, f : WalkFits(IdleScan, p, f)
<1>1. /\ IdleScan.pc = "idle" /\ IdleScan.names = {} /\ IdleScan.open = {} /\ IdleScan.dir = 0
      /\ IdleScan.touched = {} /\ IdleScan.skipped = {} /\ IdleScan.count = NoCount
  BY DEF IdleScan
<1>2. NoCount \in [Mails -> 0..4]
  BY DEF NoCount
<1>3. IdleScan \in Walks
  BY <1>2 DEF IdleScan, Walks, WalkPCs
<1> QED
  BY <1>1, <1>3 DEF WalkFits, WalkShape, WalkKnows, WalkMeets

LEMMA InitScanInv == ScanInit => ScanInv
<1> SUFFICES ASSUME ScanInit PROVE ScanInv
  OBVIOUS
<1>1. ScanTypes
  <2>1. place \in [Mails -> Dirs \cup {"none"}]
    BY OrderFacts DEF ScanInit
  <2>2. NoCount \in [Mails -> 0..4]
    BY DEF NoCount
  <2>3. changes \in 0..MaxChanges /\ scanErrors \in 0..MaxScanErrors
    BY ScanAssumption DEF ScanInit
  <2>4. scan \in [Scanners -> Walks]
    BY IdleWalk DEF ScanInit
  <2> QED
    BY <2>1, <2>2, <2>3, <2>4 DEF ScanInit, ScanTypes
<1>2. \A s \in Scanners : WalkFits(scan[s], place, flags)
  BY IdleWalk DEF ScanInit
<1>3. UsageIsExplained
  BY DEF ScanInit, UsageIsExplained
<1> QED
  BY <1>1, <1>2, <1>3 DEF ScanInv

(* Somebody changes one message, and every walk under way notes that. *)
LEMMA TouchKeeps ==
  ASSUME ScanInv, NEW m \in Mails, Touch({m}), UNCHANGED <<quotaRow, hidden, scanErrors>>,
         NEW d \in Dirs \cup {"none"}, NEW b \in 0..1,
         place' = [place EXCEPT ![m] = d], flags' = [flags EXCEPT ![m] = b]
  PROVE  ScanInv'
<1>1. place' \in [Mails -> Dirs \cup {"none"}] /\ flags' \in [Mails -> 0..1]
  BY DEF ScanInv, ScanTypes
<1>2. \A k \in Mails \ {m} : place'[k] = place[k] /\ flags'[k] = flags[k]
  BY DEF ScanInv, ScanTypes
<1>3. since' = since \cup {m} /\ changes' \in 0..MaxChanges /\ since' \subseteq Mails
  BY ScanAssumption DEF Touch, ScanInv, ScanTypes
<1>4. ASSUME NEW s \in Scanners
      PROVE  scan'[s] \in Walks /\ WalkFits(scan'[s], place', flags')
  <2>1. scan[s] \in Walks /\ WalkFits(scan[s], place, flags)
    BY DEF ScanInv, ScanTypes
  <2>2. CASE scan[s].pc = "idle"
    <3>1. scan'[s] = scan[s]
      BY <2>2 DEF Touch
    <3> QED
      BY <2>1, <2>2, <3>1 DEF WalkFits, WalkKnows, WalkMeets, WalkMisses
  <2>3. CASE scan[s].pc # "idle"
    <3> DEFINE w == scan[s]
               v == scan'[s]
    <3>1. v = [w EXCEPT !.touched = @ \cup {m}]
      BY <2>3 DEF Touch
    <3>2. /\ v \in Walks /\ v.pc = w.pc /\ v.dir = w.dir /\ v.names = w.names /\ v.open = w.open
          /\ v.count = w.count /\ v.touched = w.touched \cup {m} /\ v.skipped = w.skipped
      BY <3>1, <2>1 DEF Walks
    <3> HIDE DEF w, v
    <3>3. \A k : Pending(v, k) <=> Pending(w, k)
      BY <3>2 DEF Pending
    <3>4. WalkShape(v)
      BY <2>1, <3>2, <3>3 DEF WalkFits, WalkShape, w
    <3>5. ASSUME NEW k \in Mails \ v.touched PROVE WalkKnows(v, k, place'[k], flags'[k])
      <4>1. k \in Mails \ w.touched /\ place'[k] = place[k] /\ flags'[k] = flags[k]
        BY <3>2, <1>2
      <4>2. WalkKnows(w, k, place[k], flags[k])
        BY <4>1, <2>1 DEF WalkFits, w
      <4> QED
        BY <4>1, <4>2, <3>2, <3>3 DEF WalkKnows, WalkMeets, WalkMisses
    <3> QED
      BY <3>2, <3>4, <3>5 DEF WalkFits, v
  <2> QED
    BY <2>2, <2>3
<1>5. scan' \in [Scanners -> Walks]
  <2>1. scan' = [s \in Scanners |-> scan'[s]]
    BY DEF Touch
  <2> QED
    BY <2>1, <1>4
<1>6. UsageIsExplained'
  BY <1>2, <1>3 DEF ScanInv, UsageIsExplained, Once
<1>7. ScanTypes'
  BY <1>1, <1>3, <1>5 DEF ScanTypes, ScanInv
<1> QED
  BY <1>4, <1>6, <1>7 DEF ScanInv

LEMMA MaildirSteps ==
  ASSUME ScanInv, NEW m \in Mails, MaildirChanges(m) \/ MarkMail(m) \/ RemoveFile(m)
  PROVE  ScanInv'
<1>1. place \in [Mails -> Dirs \cup {"none"}] /\ flags \in [Mails -> 0..1]
  BY DEF ScanInv, ScanTypes
<1>2. flags = [flags EXCEPT ![m] = flags[m]] /\ place = [place EXCEPT ![m] = place[m]]
  BY <1>1
<1>3. ASSUME NEW from, NEW to \in Dirs \cup {"none"}, MoveMail(m, from, to)
      PROVE  ScanInv'
  BY <1>1, <1>2, <1>3, TouchKeeps DEF MoveMail
<1>4. CASE MaildirChanges(m)
  BY <1>3, <1>4, OrderFacts DEF MaildirChanges
<1>5. CASE MarkMail(m)
  <2>1. 1 - flags[m] \in 0..1
    BY <1>1
  <2> QED
    BY <1>1, <1>2, <1>5, <2>1, TouchKeeps DEF MarkMail
<1>6. CASE RemoveFile(m)
  BY <1>1, <1>2, <1>6, TouchKeeps DEF RemoveFile
<1> QED
  BY <1>4, <1>5, <1>6

(* One walk takes a step and the Maildir stays as it is. *)
LEMMA WalkStep ==
  ASSUME ScanInv, NEW s \in Scanners, NEW w \in Walks,
         scan' = [scan EXCEPT ![s] = w], WalkFits(w, place, flags),
         UNCHANGED <<place, flags, changes>>, Readable \/ IOError,
         UNCHANGED <<quotaRow, since, hidden>> \/
           /\ quotaRow' \in [exists : BOOLEAN, used : [Mails -> 0..4]]
           /\ since' \subseteq Mails /\ hidden' \subseteq Mails
           /\ \A m \in Mails \ since' : Once(quotaRow'.used, m, hidden')
  PROVE  ScanInv'
<1>1. scan' \in [Scanners -> Walks] /\ \A r \in Scanners : WalkFits(scan'[r], place, flags)
  BY DEF ScanInv, ScanTypes
<1>2. ScanTypes'
  <2>1. scanErrors' \in 0..MaxScanErrors
    BY ScanAssumption DEF Readable, IOError, ScanInv, ScanTypes
  <2> QED
    BY <1>1, <2>1 DEF ScanInv, ScanTypes
<1>3. UsageIsExplained'
  <2>1. CASE UNCHANGED <<quotaRow, since, hidden>>
    BY <2>1 DEF ScanInv, UsageIsExplained, Once
  <2>2. CASE \A m \in Mails \ since' : Once(quotaRow'.used, m, hidden')
    BY <2>2 DEF UsageIsExplained, Once
  <2> QED
    BY <2>1, <2>2
<1> QED
  BY <1>1, <1>2, <1>3 DEF ScanInv

LEMMA StartStep == ASSUME ScanInv, NEW s \in Scanners, StartScan(s) PROVE ScanInv'
<1> DEFINE w == [IdleScan EXCEPT !.pc = "list", !.dir = 1]
           v == [IdleScan EXCEPT !.pc = "done", !.skipped = Mails]
<1>1. /\ w.pc = "list" /\ w.dir = 1 /\ w.names = {} /\ w.open = {} /\ w.count = NoCount
      /\ w.touched = {} /\ w.skipped = {}
      /\ v.pc = "done" /\ v.names = {} /\ v.open = {} /\ v.count = NoCount /\ v.skipped = Mails
  BY DEF IdleScan
<1>2. w \in Walks /\ v \in Walks
  <2>1. ASSUME NEW i \in Walks, NEW d \in 0..4
        PROVE  /\ [i EXCEPT !.pc = "list", !.dir = d] \in Walks
               /\ [i EXCEPT !.pc = "done", !.skipped = Mails] \in Walks
    BY DEF Walks, WalkPCs
  <2>2. 1 \in 0..4
    OBVIOUS
  <2> QED
    BY <2>1, <2>2, IdleWalk
<1>3. /\ \/ Readable /\ scan' = [scan EXCEPT ![s] = w]
         \/ IOError /\ scan' = [scan EXCEPT ![s] = v]
      /\ UNCHANGED <<place, flags, quotaRow, since, hidden, changes>>
  BY DEF StartScan, mailvars
<1> HIDE DEF w, v
<1>4. \A m \in Mails : w.count[m] = 0 /\ v.count[m] = 0
  BY <1>1 DEF NoCount
<1>5. WalkShape(w) /\ WalkShape(v)
  BY <1>1, <1>4 DEF WalkShape
<1>6. ASSUME NEW m \in Mails PROVE WalkKnows(w, m, place[m], flags[m]) /\ WalkKnows(v, m, place[m], flags[m])
  <2>1. ~(Rank(place[m]) < 1)
    BY OrderFacts DEF ScanInv, ScanTypes
  <2> QED
    BY <2>1, <1>1, <1>4 DEF WalkKnows, WalkMeets, WalkMisses
<1>7. WalkFits(w, place, flags) /\ WalkFits(v, place, flags)
  BY <1>5, <1>6 DEF WalkFits
<1> QED
  BY <1>2, <1>3, <1>7, WalkStep

LEMMA ListStep == ASSUME ScanInv, NEW s \in Scanners, ListDir(s) PROVE ScanInv'
<1> DEFINE w == scan[s]
           here == {m \in Mails : place[m] = WalkOrder[scan[s].dir]}
           ns == {<<m, flags[m]>> : m \in here}
           v == [w EXCEPT !.pc = "visit", !.names = ns]
           u == [w EXCEPT !.pc = "visit", !.skipped = w.skipped \cup here]
<1>1. w \in Walks /\ WalkFits(w, place, flags) /\ w.pc = "list" /\ here \subseteq Mails
  BY DEF ScanInv, ScanTypes, ListDir
<1>2. /\ \/ Readable /\ scan' = [scan EXCEPT ![s] = v]
         \/ IOError /\ scan' = [scan EXCEPT ![s] = u]
      /\ UNCHANGED <<place, flags, quotaRow, since, hidden, changes>>
  BY DEF ListDir, ScanInv, ScanTypes, mailvars
<1>3. ns \subseteq Names
  BY DEF ScanInv, ScanTypes, Names
<1>4. w.dir \in 1..4 /\ w.names = {} /\ w.open = {} /\ \A m \in Mails : w.count[m] <= w.dir - 1
  BY <1>1 DEF WalkFits, WalkShape
<1>5. \A m \in Mails : m \in here <=> Rank(place[m]) = w.dir
  BY <1>4, OrderFacts DEF ScanInv, ScanTypes
<1>6. \A n \in ns : n[1] \in here /\ n = <<n[1], flags[n[1]]>>
  OBVIOUS
<1>7. \A m \in here : <<m, flags[m]>> \in ns
  OBVIOUS
<1> HIDE DEF ns, here
<1>8. /\ v \in Walks /\ v.pc = "visit" /\ v.dir = w.dir /\ v.names = ns /\ v.open = {}
      /\ v.count = w.count /\ v.touched = w.touched /\ v.skipped = w.skipped
      /\ u \in Walks /\ u.pc = "visit" /\ u.dir = w.dir /\ u.names = {} /\ u.open = {}
      /\ u.count = w.count /\ u.touched = w.touched /\ u.skipped = w.skipped \cup here
  BY <1>1, <1>3, <1>4 DEF Walks, WalkPCs
<1> HIDE DEF v, w, u
<1>9. \A m \in Mails : (Pending(v, m) <=> m \in here) /\ ~Pending(u, m)
  BY <1>6, <1>7, <1>8 DEF Pending
<1>10. \A m \in Mails : w.count[m] \in 0..4
  BY <1>1 DEF Walks
<1>11. WalkShape(v) /\ WalkShape(u)
  <2>1. \A m \in Mails : w.count[m] <= w.dir /\ w.count[m] <= w.dir - 1
    BY <1>4, <1>10
  <2>2. \A n, k \in ns : n[1] = k[1] => n = k
    BY <1>6, Zenon
  <2>3. v.names \cup v.open = ns /\ v.names \cap v.open = {} /\ v.open = {}
    BY <1>8
  <2>4. WalkShape(v)
    BY <2>1, <2>2, <2>3, <1>4, <1>8 DEF WalkShape
  <2>5. u.names \cup u.open = {} /\ u.names \cap u.open = {} /\ u.open = {}
    BY <1>8
  <2>6. WalkShape(u)
    BY <2>1, <2>5, <1>4, <1>8 DEF WalkShape
  <2> QED
    BY <2>4, <2>6
<1>12. ASSUME NEW m \in Mails \ w.touched
       PROVE  WalkKnows(v, m, place[m], flags[m]) /\ WalkKnows(u, m, place[m], flags[m])
  <2>1. WalkKnows(w, m, place[m], flags[m]) /\ Rank(place[m]) \in 1..5
    BY <1>1, OrderFacts DEF WalkFits, ScanInv, ScanTypes
  <2>2. CASE m \in w.skipped
    <3>1. w.count[m] = 0 /\ Rank(place[m]) < w.dir
      BY <1>1, <2>1, <2>2 DEF WalkKnows, WalkMisses
    <3>2. Rank(place[m]) <= w.dir /\ m \notin here
      BY <3>1, <2>1, <1>4, <1>5
    <3> QED
      BY <2>2, <3>1, <3>2, <1>8, <1>9 DEF WalkKnows, WalkMisses
  <2>3. CASE m \notin w.skipped
    <3>1. w.count[m] = (IF Rank(place[m]) < w.dir THEN 1 ELSE 0)
      BY <1>1, <2>1, <2>3 DEF WalkKnows, WalkMeets
    <3>2. WalkKnows(v, m, place[m], flags[m])
      BY <2>3, <3>1, <1>4, <1>5, <1>7, <1>8, <1>9 DEF WalkKnows, WalkMeets
    <3>3. WalkKnows(u, m, place[m], flags[m])
      BY <2>1, <2>3, <3>1, <1>4, <1>5, <1>8, <1>9 DEF WalkKnows, WalkMeets, WalkMisses
    <3> QED
      BY <3>2, <3>3
  <2> QED
    BY <2>2, <2>3
<1>13. WalkFits(v, place, flags) /\ WalkFits(u, place, flags)
  BY <1>8, <1>11, <1>12 DEF WalkFits
<1> QED
  BY <1>2, <1>8, <1>13, WalkStep

(* A name is done with: it is counted if its file is there and can be      *)
(* looked at.                                                              *)
LEMMA DoneWith ==
  ASSUME ScanInv, NEW w \in Walks, WalkFits(w, place, flags), w.pc = "visit",
         NEW n \in w.names \cup w.open, NEW v \in Walks, v.pc = "visit", v.dir = w.dir,
         v.touched = w.touched, v.names \cup v.open = (w.names \cup w.open) \ {n},
         v.names \subseteq w.names, v.open \subseteq w.open,
         \/ v.skipped = w.skipped /\ v.count = [w.count EXCEPT ![n[1]] = @ + 1]
         \/ v.count = w.count /\ v.skipped = w.skipped \cup {n[1]}
         \/ v.count = w.count /\ v.skipped = w.skipped /\ n[1] \in w.touched
  PROVE  WalkFits(v, place, flags)
<1> DEFINE k == n[1]
<1>1. k \in Mails
  BY DEF Walks, Names
<1>2. /\ w.dir \in 1..4 /\ \A m \in Mails : w.count[m] \in 0..4 /\ w.count[m] <= w.dir
      /\ w.count[k] <= w.dir - 1
      /\ \A x, y \in w.names \cup w.open : x[1] = y[1] => x = y
      /\ w.names \cap w.open = {} /\ \A x, y \in w.open : x = y
      /\ \A m \in Mails : Pending(w, m) => w.count[m] <= w.dir - 1
  <2>1. Pending(w, k)
    BY DEF Pending
  <2> QED
    BY <1>1, <2>1 DEF WalkFits, WalkShape, Walks
<1>3. ~Pending(v, k) /\ \A m \in Mails \ {k} : Pending(v, m) <=> Pending(w, m)
  BY <1>2 DEF Pending
<1>4. \A m \in Mails \ {k} : v.count[m] = w.count[m] /\ (m \in v.skipped <=> m \in w.skipped)
  BY DEF Walks
<1>5. v.count[k] = w.count[k] \/ v.count[k] = w.count[k] + 1
  BY <1>1 DEF Walks
<1> HIDE DEF k
<1>6. WalkShape(v)
  <2>1. \A m \in Mails : v.count[m] <= v.dir /\ (Pending(v, m) => v.count[m] <= v.dir - 1)
    BY <1>1, <1>2, <1>3, <1>4, <1>5
  <2> QED
    BY <2>1, <1>2 DEF WalkShape
<1>7. ASSUME NEW m \in Mails \ v.touched PROVE WalkKnows(v, m, place[m], flags[m])
  <2>1. WalkKnows(w, m, place[m], flags[m])
    BY DEF WalkFits
  <2>2. CASE m # k
    <3>1. Pending(v, m) <=> Pending(w, m)
      BY <2>2, <1>3
    <3>2. Pending(v, m) => <<m, flags[m]>> \in v.names \cup v.open
      <4>1. <<m, flags[m]>> # n
        BY <2>2 DEF k
      <4>2. CASE m \in w.skipped
        BY <2>1, <3>1, <4>2 DEF WalkKnows, WalkMisses
      <4>3. CASE m \notin w.skipped
        BY <2>1, <3>1, <4>1, <4>3 DEF WalkKnows, WalkMeets
      <4> QED
        BY <4>2, <4>3
    <3>3. v.count[m] = w.count[m] /\ (m \in v.skipped <=> m \in w.skipped)
      BY <2>2, <1>4
    <3> QED
      BY <2>1, <3>1, <3>2, <3>3 DEF WalkKnows, WalkMeets, WalkMisses
  <2>3. CASE m = k
    <3>1. Pending(w, k)
      BY DEF Pending, k
    <3>2. Rank(place[k]) = w.dir /\ w.count[k] = 0 /\ k \notin w.skipped
      BY <2>1, <2>3, <3>1, <1>2 DEF WalkKnows, WalkMeets, WalkMisses
    <3>3. CASE v.skipped = w.skipped /\ v.count = [w.count EXCEPT ![k] = @ + 1]
      <4>1. v.count[k] = 1
        BY <3>2, <3>3, <1>1 DEF Walks
      <4> QED
        BY <2>3, <3>2, <3>3, <4>1, <1>3 DEF WalkKnows, WalkMeets
    <3>4. CASE v.count = w.count /\ v.skipped = w.skipped \cup {k}
      BY <2>3, <3>2, <3>4, <1>2, <1>3 DEF WalkKnows, WalkMisses
    <3> QED
      BY <2>3, <3>3, <3>4 DEF k
  <2> QED
    BY <2>2, <2>3
<1> QED
  BY <1>6, <1>7 DEF WalkFits

(* The name of a message that nobody touched is still there. *)
LEMMA StillPresent ==
  ASSUME ScanInv, NEW s \in Scanners, scan[s].pc = "visit",
         NEW n \in scan[s].names \cup scan[s].open, n[1] \notin scan[s].touched
  PROVE  Present(s, n)
<1> DEFINE w == scan[s]
           m == n[1]
<1>1. w \in Walks /\ WalkFits(w, place, flags) /\ m \in Mails
  BY DEF ScanInv, ScanTypes, Walks, Names
<1>2. Pending(w, m)
  BY DEF Pending
<1>3. Rank(place[m]) = w.dir /\ <<m, flags[m]>> \in w.names \cup w.open /\ w.dir \in 1..4
  BY <1>1, <1>2 DEF WalkFits, WalkKnows, WalkMeets, WalkMisses, WalkShape
<1>4. n = <<m, flags[m]>>
  BY <1>1, <1>3 DEF WalkFits, WalkShape
<1>5. place[m] = WalkOrder[w.dir]
  BY <1>1, <1>3, OrderFacts DEF ScanInv, ScanTypes
<1>6. n[2] = flags[m]
  BY <1>4
<1> QED
  BY <1>5, <1>6 DEF Present

LEMMA CountedInWalk ==
  ASSUME ScanInv, NEW s \in Scanners, scan[s].pc = "visit",
         NEW n \in scan[s].names \cup scan[s].open
  PROVE  Counted(s, n[1]) \in [Mails -> 0..4]
<1> DEFINE w == scan[s]
<1>1. w \in Walks /\ WalkShape(w) /\ n[1] \in Mails
  BY DEF ScanInv, ScanTypes, Walks, Names, WalkFits
<1>2. w.count[n[1]] <= w.dir - 1 /\ w.dir \in 1..4 /\ w.count \in [Mails -> 0..4]
  BY <1>1 DEF WalkShape, Pending, Walks
<1>3. w.count[n[1]] + 1 \in 0..4
  BY <1>1, <1>2
<1> QED
  BY <1>2, <1>3 DEF Counted

LEMMA VisitStep ==
  ASSUME ScanInv, NEW s \in Scanners, NEW n \in scan[s].names, VisitName(s, n)
  PROVE  ScanInv'
<1> DEFINE w == scan[s]
           rest == w.names \ {n}
<1>1. w \in Walks /\ WalkFits(w, place, flags) /\ w.pc = "visit" /\ w.open = {}
  BY DEF ScanInv, ScanTypes, VisitName
<1>2. UNCHANGED <<place, flags, quotaRow, since, hidden, changes>> /\ n \in Names /\ rest \subseteq Names
  BY <1>1 DEF VisitName, Walks, mailvars
<1>3. Counted(s, n[1]) \in [Mails -> 0..4]
  BY <1>1, CountedInWalk
<1>4. n[1] \notin w.touched => Present(s, n)
  BY <1>1, StillPresent
<1>5. CASE Readable /\ ~Present(s, n) /\ scan' = [scan EXCEPT ![s] = [scan[s] EXCEPT !.names = @ \ {n}]]
  <2> DEFINE v == [w EXCEPT !.names = rest]
  <2>1. scan' = [scan EXCEPT ![s] = v]
    BY <1>5
  <2>2. /\ v \in Walks /\ v.pc = "visit" /\ v.dir = w.dir /\ v.touched = w.touched /\ v.skipped = w.skipped
        /\ v.names = rest /\ v.open = {} /\ v.count = w.count
    BY <1>1, <1>2 DEF Walks
  <2>3. WalkFits(v, place, flags)
    <3> HIDE DEF v, w
    <3>1. v.names \cup v.open = (w.names \cup w.open) \ {n}
      BY <1>1, <2>2
    <3> QED
      BY <1>1, <1>4, <1>5, <2>2, <3>1, DoneWith DEF w
  <2> QED
    BY <1>2, <1>5, <2>1, <2>2, <2>3, WalkStep
<1>6. CASE /\ Readable /\ Present(s, n)
           /\ scan' = [scan EXCEPT ![s] = [scan[s] EXCEPT !.names = @ \ {n}, !.count = Counted(s, n[1])]]
  <2> DEFINE v == [w EXCEPT !.names = rest, !.count = Counted(s, n[1])]
  <2>1. scan' = [scan EXCEPT ![s] = v]
    BY <1>6
  <2>2. /\ v \in Walks /\ v.pc = "visit" /\ v.dir = w.dir /\ v.touched = w.touched /\ v.skipped = w.skipped
        /\ v.names = rest /\ v.open = {} /\ v.count = Counted(s, n[1])
    BY <1>1, <1>2, <1>3 DEF Walks
  <2>3. WalkFits(v, place, flags)
    <3>1. v.count = [w.count EXCEPT ![n[1]] = @ + 1]
      BY <2>2 DEF Counted
    <3> HIDE DEF v, w
    <3>2. v.names \cup v.open = (w.names \cup w.open) \ {n}
      BY <1>1, <2>2
    <3> QED
      BY <1>1, <2>2, <3>1, <3>2, DoneWith DEF w
  <2> QED
    BY <1>2, <1>6, <2>1, <2>2, <2>3, WalkStep
<1>7. CASE Readable /\ Present(s, n) /\ scan' = [scan EXCEPT ![s] = [scan[s] EXCEPT !.names = @ \ {n}, !.open = {n}]]
  <2> DEFINE v == [w EXCEPT !.names = rest, !.open = {n}]
  <2>1. scan' = [scan EXCEPT ![s] = v]
    BY <1>7
  <2>2. /\ v \in Walks /\ v.pc = "visit" /\ v.dir = w.dir /\ v.touched = w.touched /\ v.skipped = w.skipped
        /\ v.names = rest /\ v.open = {n} /\ v.count = w.count
    BY <1>1, <1>2 DEF Walks
  <2> HIDE DEF v
  <2>3. v.names \cup v.open = w.names \cup w.open
    BY <1>1, <2>2
  <2> HIDE DEF w
  <2>4. \A m : Pending(v, m) <=> Pending(w, m)
    BY <2>3 DEF Pending
  <2>5. WalkShape(v)
    BY <1>1, <2>2, <2>3, <2>4 DEF WalkFits, WalkShape, w
  <2>6. \A m \in Mails \ v.touched : WalkKnows(v, m, place[m], flags[m])
    BY <1>1, <2>2, <2>3, <2>4 DEF WalkFits, WalkKnows, WalkMeets, WalkMisses
  <2>7. WalkFits(v, place, flags)
    BY <2>5, <2>6 DEF WalkFits
  <2> QED
    BY <1>2, <1>7, <2>1, <2>2, <2>7, WalkStep
<1>8. CASE IOError /\ scan' = [scan EXCEPT ![s] = [scan[s] EXCEPT !.names = @ \ {n}, !.skipped = @ \cup {n[1]}]]
  <2> DEFINE v == [w EXCEPT !.names = rest, !.skipped = w.skipped \cup {n[1]}]
  <2>1. scan' = [scan EXCEPT ![s] = v]
    BY <1>8
  <2>2. /\ v \in Walks /\ v.pc = "visit" /\ v.dir = w.dir /\ v.touched = w.touched
        /\ v.names = rest /\ v.open = {} /\ v.count = w.count /\ v.skipped = w.skipped \cup {n[1]}
    BY <1>1, <1>2 DEF Walks, Names
  <2>3. WalkFits(v, place, flags)
    <3> HIDE DEF v, w
    <3>1. v.names \cup v.open = (w.names \cup w.open) \ {n}
      BY <1>1, <2>2
    <3> QED
      BY <1>1, <2>2, <3>1, DoneWith DEF w
  <2> QED
    BY <1>2, <1>8, <2>1, <2>2, <2>3, WalkStep
<1> QED
  BY <1>5, <1>6, <1>7, <1>8 DEF VisitName

LEMMA ReadStep == ASSUME ScanInv, NEW s \in Scanners, ReadFile(s) PROVE ScanInv'
<1> DEFINE w == scan[s]
<1>1. w \in Walks /\ WalkFits(w, place, flags) /\ w.pc = "visit"
  BY DEF ScanInv, ScanTypes, ReadFile
<1>2. UNCHANGED <<place, flags, quotaRow, since, hidden, changes>> /\ (Readable \/ IOError)
  BY DEF ReadFile, mailvars
<1>3. PICK n \in w.open :
         \/ /\ Present(s, n)
            /\ scan' = [scan EXCEPT ![s] = [w EXCEPT !.open = {}, !.count = Counted(s, n[1])]]
         \/ scan' = [scan EXCEPT ![s] = [w EXCEPT !.pc = "failed", !.open = {}]]
  BY DEF ReadFile
<1>4. Counted(s, n[1]) \in [Mails -> 0..4]
  BY <1>1, CountedInWalk
<1>5. n \notin w.names /\ w.open = {n}
  BY <1>1 DEF WalkFits, WalkShape
<1>6. CASE scan' = [scan EXCEPT ![s] = [w EXCEPT !.open = {}, !.count = Counted(s, n[1])]]
  <2> DEFINE v == [w EXCEPT !.open = {}, !.count = Counted(s, n[1])]
  <2>1. scan' = [scan EXCEPT ![s] = v]
    BY <1>6
  <2>2. /\ v \in Walks /\ v.pc = "visit" /\ v.dir = w.dir /\ v.touched = w.touched /\ v.skipped = w.skipped
        /\ v.names = w.names /\ v.open = {} /\ v.count = Counted(s, n[1])
    BY <1>1, <1>4 DEF Walks
  <2>3. v.count = [w.count EXCEPT ![n[1]] = @ + 1]
    BY <2>2 DEF Counted
  <2> HIDE DEF v, w
  <2>4. v.names \cup v.open = (w.names \cup w.open) \ {n}
    BY <1>5, <2>2
  <2>5. WalkFits(v, place, flags)
    BY <1>1, <2>2, <2>3, <2>4, DoneWith
  <2> QED
    BY <1>2, <2>1, <2>2, <2>5, WalkStep
<1>7. CASE scan' = [scan EXCEPT ![s] = [w EXCEPT !.pc = "failed", !.open = {}]]
  <2> DEFINE v == [w EXCEPT !.pc = "failed", !.open = {}]
  <2>1. scan' = [scan EXCEPT ![s] = v]
    BY <1>7
  <2>2. /\ v \in Walks /\ v.pc = "failed" /\ v.names = w.names /\ v.open = {}
    BY <1>1 DEF Walks, WalkPCs
  <2> HIDE DEF v
  <2>3. WalkFits(v, place, flags)
    BY <1>1, <2>2 DEF WalkFits, WalkShape, WalkKnows, WalkMeets, WalkMisses
  <2> QED
    BY <1>2, <2>1, <2>2, <2>3, WalkStep
<1> QED
  BY <1>3, <1>6, <1>7

LEMMA NextDirStep == ASSUME ScanInv, NEW s \in Scanners, NextDir(s) PROVE ScanInv'
<1> DEFINE w == scan[s]
<1>1. /\ w \in Walks /\ WalkFits(w, place, flags) /\ w.pc = "visit" /\ w.names = {} /\ w.open = {}
      /\ UNCHANGED <<place, flags, quotaRow, since, hidden, changes>> /\ Readable
  BY DEF ScanInv, ScanTypes, NextDir, mailvars, Readable
<1>2. \A m : ~Pending(w, m)
  BY <1>1 DEF Pending
<1>3. /\ w.dir \in 1..4 /\ \A m \in Mails : w.count[m] \in 0..4 /\ w.count[m] <= w.dir
  BY <1>1 DEF WalkFits, WalkShape, Walks
<1>4. \A m \in Mails \ w.touched :
        IF m \in w.skipped THEN w.count[m] = 0 /\ Rank(place[m]) <= w.dir
        ELSE w.count[m] = IF Rank(place[m]) <= w.dir THEN 1 ELSE 0
  <2> SUFFICES ASSUME NEW m \in Mails \ w.touched
               PROVE  IF m \in w.skipped THEN w.count[m] = 0 /\ Rank(place[m]) <= w.dir
                      ELSE w.count[m] = IF Rank(place[m]) <= w.dir THEN 1 ELSE 0
    OBVIOUS
  <2>1. WalkKnows(w, m, place[m], flags[m]) /\ Rank(place[m]) \in 1..5
    BY <1>1, OrderFacts DEF WalkFits, ScanInv, ScanTypes
  <2> QED
    BY <2>1, <1>1, <1>2, <1>3 DEF WalkKnows, WalkMeets, WalkMisses
<1>5. CASE w.dir < Len(WalkOrder)
  <2> DEFINE v == [w EXCEPT !.pc = "list", !.dir = w.dir + 1]
  <2>1. scan' = [scan EXCEPT ![s] = v]
    BY <1>5 DEF NextDir
  <2>2. w.dir + 1 \in 1..4 /\ w.dir + 1 \in 0..4
    BY <1>3, <1>5, OrderFacts
  <2>3. /\ v \in Walks /\ v.pc = "list" /\ v.names = {} /\ v.open = {} /\ v.dir = w.dir + 1
        /\ v.count = w.count /\ v.touched = w.touched /\ v.skipped = w.skipped
    BY <1>1, <2>2 DEF Walks, WalkPCs
  <2> HIDE DEF v, w
  <2>4. WalkShape(v)
    BY <1>3, <2>2, <2>3 DEF WalkShape
  <2>5. ASSUME NEW m \in Mails \ v.touched PROVE WalkKnows(v, m, place[m], flags[m])
    <3>1. Rank(place[m]) < v.dir <=> Rank(place[m]) <= w.dir
      BY <2>3, <1>3, OrderFacts DEF ScanInv, ScanTypes
    <3> QED
      BY <3>1, <1>4, <2>3 DEF WalkKnows, WalkMeets, WalkMisses
  <2>6. WalkFits(v, place, flags)
    BY <2>4, <2>5 DEF WalkFits
  <2> QED
    BY <1>1, <2>1, <2>3, <2>6, WalkStep
<1>6. CASE ~(w.dir < Len(WalkOrder))
  <2> DEFINE v == [w EXCEPT !.pc = "done"]
  <2>1. scan' = [scan EXCEPT ![s] = v]
    BY <1>6 DEF NextDir
  <2>2. w.dir = 4
    BY <1>3, <1>6, OrderFacts
  <2>3. /\ v \in Walks /\ v.pc = "done" /\ v.names = {} /\ v.open = {}
        /\ v.count = w.count /\ v.touched = w.touched /\ v.skipped = w.skipped
    BY <1>1 DEF Walks, WalkPCs
  <2> HIDE DEF v, w
  <2>4. WalkShape(v)
    BY <2>3 DEF WalkShape
  <2>5. ASSUME NEW m \in Mails \ v.touched PROVE WalkKnows(v, m, place[m], flags[m])
    <3>1. Rank(place[m]) <= 4 <=> place[m] # "none"
      BY OrderFacts DEF ScanInv, ScanTypes
    <3> QED
      BY <3>1, <1>4, <2>2, <2>3 DEF WalkKnows, WalkMeets, WalkMisses
  <2>6. WalkFits(v, place, flags)
    BY <2>4, <2>5 DEF WalkFits
  <2> QED
    BY <1>1, <2>1, <2>3, <2>6, WalkStep
<1> QED
  BY <1>5, <1>6

LEMMA EndSteps ==
  ASSUME ScanInv, NEW s \in Scanners, StoreUsage(s) \/ EndBackup(s)
  PROVE  ScanInv'
<1> DEFINE w == scan[s]
<1>1. /\ scan' = [scan EXCEPT ![s] = IdleScan] /\ UNCHANGED <<place, flags, changes>>
      /\ w \in Walks /\ WalkFits(w, place, flags) /\ Readable
  BY DEF StoreUsage, EndBackup, ScanInv, ScanTypes, mailvars, Readable
<1>2. CASE UNCHANGED <<quotaRow, since, hidden>>
  BY <1>1, <1>2, IdleWalk, WalkStep
<1>3. CASE /\ w.pc = "done" /\ quotaRow' = [quotaRow EXCEPT !.used = w.count]
           /\ since' = w.touched /\ hidden' = w.skipped
  <2>1. w.count \in [Mails -> 0..4] /\ w.touched \subseteq Mails /\ w.skipped \subseteq Mails
    BY <1>1 DEF Walks
  <2>2. /\ quotaRow' \in [exists : BOOLEAN, used : [Mails -> 0..4]] /\ quotaRow'.used = w.count
    BY <1>3, <2>1 DEF ScanInv, ScanTypes
  <2>3. \A m \in Mails \ since' : Once(quotaRow'.used, m, hidden')
    BY <1>1, <1>3, <2>2 DEF WalkFits, WalkKnows, WalkMeets, WalkMisses, Once
  <2> QED
    BY <1>1, <1>3, <2>1, <2>2, <2>3, IdleWalk, WalkStep
<1> QED
  BY <1>2, <1>3 DEF StoreUsage, EndBackup, mailvars

LEMMA NextScanInv == ScanInv /\ [ScanNext]_scanvars => ScanInv'
<1> SUFFICES ASSUME ScanInv, [ScanNext]_scanvars PROVE ScanInv'
  OBVIOUS
<1>1. CASE UNCHANGED scanvars
  <2>1. UNCHANGED <<place, flags, scan, quotaRow, since, hidden, changes, scanErrors>>
    BY <1>1 DEF scanvars
  <2> QED
    BY <2>1 DEF ScanInv, ScanTypes, UsageIsExplained, Once
<1>2. ASSUME NEW m \in Mails, MaildirChanges(m) \/ MarkMail(m) \/ RemoveFile(m)
      PROVE  ScanInv'
  BY <1>2, MaildirSteps
<1>3. CASE RemoveRow
  <2>1. NoCount \in [Mails -> 0..4]
    BY DEF NoCount
  <2>2. quotaRow' \in [exists : BOOLEAN, used : [Mails -> 0..4]]
    BY <1>3, <2>1 DEF RemoveRow
  <2>3. since' = Mails /\ UNCHANGED <<place, flags, scan, hidden, changes, scanErrors>>
    BY <1>3 DEF RemoveRow
  <2> QED
    BY <2>2, <2>3 DEF ScanInv, ScanTypes, UsageIsExplained
<1>4. ASSUME NEW s \in Scanners, StartScan(s) \/ RefuseScan(s) \/ ListDir(s) \/ ReadFile(s)
                \/ NextDir(s) \/ StoreUsage(s) \/ EndBackup(s)
      PROVE  ScanInv'
  BY <1>1, <1>4, StartStep, ListStep, ReadStep, NextDirStep, EndSteps DEF RefuseScan
<1>5. ASSUME NEW s \in Scanners, NEW n \in scan[s].names, VisitName(s, n)
      PROVE  ScanInv'
  BY <1>5, VisitStep
<1> QED
  BY <1>1, <1>2, <1>3, <1>4, <1>5 DEF ScanNext

LEMMA ScanInvariant == ScanSpec => []ScanInv
<1>1. ScanInit => ScanInv
  BY InitScanInv
<1>2. ScanInv /\ [ScanNext]_scanvars => ScanInv'
  BY NextScanInv
<1> QED
  BY <1>1, <1>2, PTL DEF ScanSpec

LEMMA ScanInvTypes == ScanInv => ScanTypeOK
<1> SUFFICES ASSUME ScanInv PROVE ScanTypeOK
  OBVIOUS
<1>1. ASSUME NEW s \in Scanners
      PROVE  /\ scan[s].pc \in WalkPCs /\ scan[s].dir \in 0..4 /\ scan[s].names \subseteq Names
             /\ scan[s].count \in [Mails -> 0..4] /\ Cardinality(scan[s].open) <= 1
             /\ scan[s].skipped \subseteq Mails
  <2>1. scan[s] \in Walks /\ WalkShape(scan[s])
    BY DEF ScanInv, ScanTypes, WalkFits
  <2>2. CASE scan[s].open = {}
    BY <2>1, <2>2, FS_EmptySet DEF Walks
  <2>3. CASE scan[s].open # {}
    <3>1. PICK n \in scan[s].open : TRUE
      BY <2>3
    <3>2. scan[s].open = {n}
      BY <2>1, <3>1 DEF WalkShape
    <3>3. Cardinality({n}) = 1
      BY FS_Singleton
    <3> QED
      BY <2>1, <3>2, <3>3 DEF Walks
  <2> QED
    BY <2>2, <2>3
<1>2. quotaRow.exists \in BOOLEAN /\ quotaRow.used \in [Mails -> 0..4]
  BY DEF ScanInv, ScanTypes
<1> QED
  BY <1>1, <1>2, OrderFacts DEF ScanTypeOK, ScanInv, ScanTypes, WalkPCs, Names

(* A walk that is done (CalculateMaildirUsage, addDirToTar) has met every  *)
(* message that nobody delivered, moved or removed meanwhile exactly once, *)
(* but for those that an error of the file system hid from it.             *)
THEOREM WalksMeetStillMail == ScanSpec => []StillMailIsMet
<1>1. ScanInv => StillMailIsMet
  BY DEF ScanInv, WalkFits, WalkKnows, WalkMeets, WalkMisses, StillMailIsMet, Once
<1> QED
  BY <1>1, ScanInvariant, PTL

(* The usage that Reconcile stored is right about every message that       *)
(* nobody touched since the walk behind it began, and that no dropped      *)
(* error hid from that walk.                                               *)
THEOREM UsageStaysExplained == ScanSpec => []UsageIsExplained
<1>1. ScanInv => UsageIsExplained
  BY DEF ScanInv
<1> QED
  BY <1>1, ScanInvariant, PTL

(* Walks stay in their types: four directories, one open file at a time.   *)
THEOREM ScanTypeCorrect == ScanSpec => []ScanTypeOK
BY ScanInvTypes, ScanInvariant, PTL

-----------------------------------------------------------------------------
(* The limiters. *)

(* The ages that count for a limiter. *)
WindowOf(l) == IF l = "api" THEN 0..Window ELSE 0..(Window - 1)

LEMMA WindowFacts ==
  /\ Window \in Nat \ {0} /\ Period \in Nat /\ Oldest \in Nat /\ Period + Window < Oldest
  /\ \A l : 0 \in WindowOf(l) /\ WindowOf(l) \subseteq 0..Window /\ WindowOf(l) \subseteq Ages
  /\ 0 \in Ages /\ 0..Window \subseteq Ages
<1>1. Window \in Nat \ {0}
  BY RateAssumption
<1>2. Period \in Nat /\ Oldest \in Nat /\ Period + Window < Oldest /\ Window < Oldest
  BY <1>1 DEF Period, Oldest
<1>3. 0 \in Ages /\ 0..Window \subseteq Ages
  BY <1>1, <1>2 DEF Ages
<1>4. \A l : 0 \in WindowOf(l) /\ WindowOf(l) \subseteq 0..Window
  BY <1>1 DEF WindowOf
<1> QED
  BY <1>1, <1>2, <1>3, <1>4

(* What the code takes for active is the window that it promises. *)
LEMMA ActiveIsWindow == \A l, s : Active(l, s) = Within(s, WindowOf(l)) /\ InWindow(l, s) = Within(s, WindowOf(l))
<1> TAKE l, s
<1>1. {a \in Ages : Counts(l, a)} = WindowOf(l)
  <2>1. Window \in Nat /\ Oldest \in Nat /\ Window < Oldest
    BY WindowFacts
  <2> QED
    BY <2>1 DEF Ages, Counts, ActiveAPI, ActiveInbound, WindowOf
<1>2. Active(l, s) = Within(s, WindowOf(l))
  BY <1>1, Zenon DEF Active
<1>3. InWindow(l, s) = Within(s, WindowOf(l))
  BY Zenon DEF InWindow, WindowOf
<1> QED
  BY <1>2, <1>3

LEMMA OlderFacts == \A a \in Ages : Older(a) \in Ages /\ Older(a) <= a + 1
BY WindowFacts DEF Older, Ages

LEMMA AgedFacts ==
  ASSUME NEW s \in Seq(Ages)
  PROVE  /\ Aged(s) \in Seq(Ages) /\ Len(Aged(s)) = Len(s)
         /\ \A i \in 1..Len(s) : Aged(s)[i] = Older(s[i])
<1>1. Aged(s) = [i \in 1..Len(s) |-> Older(s[i])]
  BY DEF Aged
<1>2. \A i \in 1..Len(s) : Older(s[i]) \in Ages
  BY OlderFacts
<1>3. Len(s) \in Nat
  OBVIOUS
<1> QED
  BY <1>1, <1>2, <1>3

LEMMA AgedAppend ==
  ASSUME NEW s \in Seq(Ages), NEW x \in Ages
  PROVE  Aged(Append(s, x)) = Append(Aged(s), Older(x))
<1> DEFINE t == Append(s, x)
           u == Append(Aged(s), Older(x))
<1>1. t \in Seq(Ages) /\ Len(t) = Len(s) + 1 /\ Older(x) \in Ages /\ Len(s) \in Nat
  BY OlderFacts
<1>2. Aged(t) \in Seq(Ages) /\ Len(Aged(t)) = Len(t)
  BY <1>1, AgedFacts
<1>3. u \in Seq(Ages) /\ Len(u) = Len(s) + 1
  BY <1>1, AgedFacts
<1>4. ASSUME NEW i \in 1..Len(t) PROVE Aged(t)[i] = u[i]
  <2>1. Aged(t)[i] = Older(t[i])
    BY <1>1, AgedFacts
  <2>2. CASE i = Len(s) + 1
    <3>1. t[i] = x
      BY <2>2
    <3>2. u[i] = Older(x)
      BY <1>1, <2>2, AgedFacts
    <3> QED
      BY <2>1, <3>1, <3>2
  <2>3. CASE i # Len(s) + 1
    <3>1. i \in 1..Len(s)
      BY <2>3, <1>1
    <3>2. t[i] = s[i] /\ u[i] = Aged(s)[i] /\ Aged(s)[i] = Older(s[i])
      BY <3>1, <1>1, AgedFacts
    <3> QED
      BY <2>1, <3>2
  <2> QED
    BY <2>2, <2>3
<1> HIDE DEF t, u
<1>5. Aged(t) = u
  BY <1>1, <1>2, <1>3, <1>4, SeqEqual
<1> QED
  BY <1>5 DEF t, u

(* Time passes, and then the loop: or the other way round. *)
LEMMA WithinAged ==
  ASSUME NEW S, NEW R, \A a \in Ages : Older(a) \in S <=> a \in R
  PROVE  \A s \in Seq(Ages) : Within(Aged(s), S) = Aged(Within(s, R))
<1> DEFINE P == {s \in Seq(Ages) : Within(Aged(s), S) = Aged(Within(s, R))}
<1>1. <<>> \in P
  <2>1. <<>> \in Seq(Ages) /\ Len(<<>>) = 0
    OBVIOUS
  <2>2. Aged(<<>>) = <<>>
    BY <2>1, AgedFacts, EmptySeq
  <2> QED
    BY <2>1, <2>2, WithinEmpty
<1>2. ASSUME NEW s \in Seq(Ages), NEW x \in Ages, s \in P PROVE Append(s, x) \in P
  <2>1. Aged(s) \in Seq(Ages) /\ Older(x) \in Ages /\ Within(s, R) \in Seq(Ages)
    BY AgedFacts, OlderFacts, WithinIsSeq
  <2>2. Within(Append(Aged(s), Older(x)), S) =
          IF Older(x) \in S THEN Append(Within(Aged(s), S), Older(x)) ELSE Within(Aged(s), S)
    BY <2>1, WithinAppend
  <2>3. Within(Append(s, x), R) = IF x \in R THEN Append(Within(s, R), x) ELSE Within(s, R)
    BY WithinAppend
  <2>4. Aged(Append(s, x)) = Append(Aged(s), Older(x))
    BY AgedAppend
  <2>5. Aged(Append(Within(s, R), x)) = Append(Aged(Within(s, R)), Older(x))
    BY <2>1, AgedAppend
  <2>6. Within(Aged(s), S) = Aged(Within(s, R))
    BY <1>2
  <2>7. Within(Aged(Append(s, x)), S) = Aged(Within(Append(s, x), R))
    <3>1. CASE x \in R
      BY <2>2, <2>3, <2>4, <2>5, <2>6, <3>1
    <3>2. CASE x \notin R
      BY <2>2, <2>3, <2>4, <2>6, <3>2
    <3> QED
      BY <3>1, <3>2
  <2>8. Append(s, x) \in Seq(Ages)
    OBVIOUS
  <2> QED
    BY <2>7, <2>8
<1>3. Seq(Ages) \subseteq P
  <2> HIDE DEF P
  <2> QED
    BY <1>1, <1>2, ListInduction
<1> QED
  BY <1>3

-----------------------------------------------------------------------------
(* A list of a limiter and the history h of what it let through: the list  *)
(* is as long as the limit at most, and both agree on the window.          *)
ListFits(l, s, h) ==
  /\ s \in Seq(Ages) /\ h \in Seq(0..Window) /\ Len(s) <= Limit
  /\ Within(s, WindowOf(l)) = Within(h, WindowOf(l))

LEMMA FitsWindow ==
  ASSUME NEW l, NEW s, NEW h, ListFits(l, s, h)
  PROVE  /\ Within(s, WindowOf(l)) \in Seq(WindowOf(l)) /\ Within(s, WindowOf(l)) \in Seq(Ages)
         /\ Len(Within(s, WindowOf(l))) \in Nat
         /\ Len(Within(s, WindowOf(l))) <= Limit /\ Len(Within(h, WindowOf(l))) <= Limit
<1> DEFINE w == Within(s, WindowOf(l))
<1>1. s \in Seq(Ages) /\ Len(s) <= Limit /\ Len(s) \in Nat /\ Limit \in Nat
  BY RateAssumption DEF ListFits
<1>2. w \in Seq(Ages \cap WindowOf(l)) /\ Len(w) <= Len(s)
  BY <1>1, WithinBounds
<1>3. w \in Seq(WindowOf(l)) /\ w \in Seq(Ages) /\ Len(w) \in Nat
  BY <1>2
<1> QED
  BY <1>1, <1>2, <1>3 DEF ListFits

(* The loop may be run once more. *)
LEMMA FitsTrimmed ==
  ASSUME NEW l, NEW s, NEW h, ListFits(l, s, h)
  PROVE  ListFits(l, Within(s, WindowOf(l)), h)
<1> DEFINE W == WindowOf(l)
           w == Within(s, W)
<1>1. s \in Seq(Ages)
  BY DEF ListFits
<1>2. Within(w, W) = w
  BY <1>1, WithinWithin
<1> QED
  BY <1>2, FitsWindow DEF ListFits

LEMMA RecentAges == \A h \in Seq(0..Window) : h \in Seq(Ages)
<1>1. 0..Window \subseteq Ages
  BY WindowFacts
<1>2. Seq(0..Window) \subseteq Seq(Ages)
  BY <1>1, SeqMonotonic
<1> QED
  BY <1>2

(* A request is let through. *)
LEMMA FitsServed ==
  ASSUME NEW l, NEW s, NEW h, ListFits(l, s, h), ~(Len(Within(s, WindowOf(l))) >= Limit)
  PROVE  ListFits(l, Append(Within(s, WindowOf(l)), 0), Recent(Append(h, 0)))
<1> DEFINE W == WindowOf(l)
           w == Within(s, W)
<1>1. s \in Seq(Ages) /\ h \in Seq(0..Window) /\ w \in Seq(Ages) /\ Within(h, W) = w
  BY FitsWindow DEF ListFits
<1>2. 0 \in W /\ 0 \in Ages /\ 0 \in 0..Window
  BY WindowFacts
<1>3. Append(h, 0) \in Seq(0..Window) /\ Append(w, 0) \in Seq(Ages)
  BY <1>1, <1>2
<1>4. Recent(Append(h, 0)) = Append(h, 0)
  BY <1>3, WithinAll DEF Recent
<1>5. Within(w, W) = w
  BY <1>1, WithinWithin
<1>6. Within(Append(w, 0), W) = Append(w, 0)
  BY <1>1, <1>2, <1>5, WithinAppend
<1>7. Within(Append(h, 0), W) = Append(w, 0)
  <2>1. h \in Seq(Ages)
    BY <1>1, RecentAges
  <2> QED
    BY <1>1, <1>2, <2>1, WithinAppend
<1>8. Len(Append(w, 0)) <= Limit
  <2>1. Len(Append(w, 0)) = Len(w) + 1
    BY <1>1
  <2>2. Len(w) \in Nat /\ Limit \in Nat
    BY FitsWindow, RateAssumption
  <2> QED
    BY <2>1, <2>2
<1> QED
  BY <1>3, <1>4, <1>6, <1>7, <1>8 DEF ListFits

(* A tick passes. *)
LEMMA FitsAged ==
  ASSUME NEW l, NEW s, NEW h, ListFits(l, s, h)
  PROVE  ListFits(l, Aged(s), Recent(Aged(h)))
<1> DEFINE W == WindowOf(l)
           R == {a \in Ages : Older(a) \in W}
           g == Recent(Aged(h))
<1>1. s \in Seq(Ages) /\ h \in Seq(0..Window) /\ Within(s, W) = Within(h, W)
  BY DEF ListFits
<1>2. h \in Seq(Ages)
  BY <1>1, RecentAges
<1>3. \A a \in Ages : a \in R <=> a \in W /\ a \in R
  <2>1. ASSUME NEW a \in R PROVE a \in W
    <3>1. Window \in Nat /\ Oldest \in Nat /\ Window < Oldest
      BY WindowFacts
    <3> QED
      BY <2>1, <3>1 DEF WindowOf, Older, Ages
  <2> QED
    BY <2>1
<1>4. \A u \in Seq(Ages) : Within(Aged(u), W) = Aged(Within(Within(u, W), R))
  <2> SUFFICES ASSUME NEW u \in Seq(Ages) PROVE Within(Aged(u), W) = Aged(Within(Within(u, W), R))
    OBVIOUS
  <2>1. \A a \in Ages : Older(a) \in W <=> a \in R
    OBVIOUS
  <2> HIDE DEF W, R
  <2>2. Within(Aged(u), W) = Aged(Within(u, R))
    BY <2>1, WithinAged
  <2>3. Within(Within(u, W), R) = Within(u, R)
    BY <1>3, WithinWithin
  <2> QED
    BY <2>2, <2>3
<1>5. Aged(s) \in Seq(Ages) /\ Len(Aged(s)) = Len(s) /\ Aged(h) \in Seq(Ages)
  BY <1>1, <1>2, AgedFacts
<1>6. g \in Seq(0..Window)
  <2> DEFINE V == 0..Window
  <2>1. g = Within(Aged(h), V)
    BY DEF Recent
  <2> HIDE DEF V, g
  <2>2. g \in Seq(Ages \cap V)
    BY <1>5, <2>1, WithinBounds
  <2>3. Ages \cap V \subseteq V
    OBVIOUS
  <2>4. g \in Seq(V)
    BY <2>2, <2>3, SeqMonotonic
  <2> QED
    BY <2>4 DEF V
<1>7. Within(g, W) = Within(Aged(h), W)
  <2>1. \A a \in Ages : a \in W <=> a \in 0..Window /\ a \in W
    BY WindowFacts
  <2>2. \A u \in Seq(Ages) : Within(Within(u, 0..Window), W) = Within(u, W)
    <3> DEFINE V == 0..Window
    <3>1. \A a \in Ages : a \in W <=> a \in V /\ a \in W
      BY <2>1
    <3> HIDE DEF W, V
    <3>2. \A u \in Seq(Ages) : Within(Within(u, V), W) = Within(u, W)
      BY <3>1, WithinWithin
    <3> QED
      BY <3>2 DEF V
  <2> QED
    BY <1>5, <2>2 DEF Recent
<1>8. Within(Aged(s), W) = Within(g, W)
  BY <1>1, <1>2, <1>4, <1>7
<1> QED
  BY <1>5, <1>6, <1>8 DEF ListFits

-----------------------------------------------------------------------------
(* Entries of the middleware's map are older than a window only by what    *)
(* passed since the last eviction.                                         *)
Evicted(s, d) == \A i \in DOMAIN s : s[i] <= Window + (Period - d)

RateInv ==
  /\ requests \in [Clients -> Seq(Ages)]
  /\ inbound \in [Tables -> [Senders -> Seq(Ages)]]
  /\ failures \in [Senders -> 0..MaxFailures]
  /\ due \in 0..Period
  /\ served = [l \in Limiters |-> served[l]]
  /\ \A l \in Limiters : served[l] \in [Users(l) -> Seq(0..Window)]
  /\ \A c \in Clients : ListFits("api", requests[c], served["api"][c])
  /\ \A c \in Clients : Evicted(requests[c], due)
  /\ \A t \in Tables : \A c \in Senders : ListFits(t, inbound[t][c], served[t][c])
  /\ RefusedAtLimit

LEMMA LimiterFacts ==
  /\ "api" \in Limiters /\ Users("api") = Clients /\ Tables \subseteq Limiters
  /\ \A t \in Tables : t # "api" /\ Users(t) = Senders
  /\ "connections" \in Tables /\ "messages" \in Tables
BY DEF Limiters, Tables, Users

(* The empty list of a client that nobody saw yet. *)
LEMMA FitsEmpty == \A l : ListFits(l, <<>>, <<>>) /\ Evicted(<<>>, Period)
<1> TAKE l
<1>1. <<>> \in Seq(Ages) /\ <<>> \in Seq(0..Window) /\ Len(<<>>) = 0
  OBVIOUS
<1>2. 0 <= Limit
  BY RateAssumption
<1>3. Evicted(<<>>, Period)
  BY DEF Evicted
<1> QED
  BY <1>1, <1>2, <1>3 DEF ListFits

LEMMA InitRateInv == RateInit => RateInv
<1> SUFFICES ASSUME RateInit PROVE RateInv
  OBVIOUS
<1>1. \A S : <<>> \in Seq(S)
  OBVIOUS
<1>2. requests \in [Clients -> Seq(Ages)] /\ inbound \in [Tables -> [Senders -> Seq(Ages)]]
  BY <1>1 DEF RateInit
<1>3. failures \in [Senders -> 0..MaxFailures] /\ due \in 0..Period
  BY RateAssumption, WindowFacts DEF RateInit
<1>4. /\ served = [l \in Limiters |-> served[l]]
      /\ \A l \in Limiters : served[l] = [c \in Users(l) |-> <<>>]
  BY DEF RateInit
<1>5. \A l \in Limiters : served[l] \in [Users(l) -> Seq(0..Window)]
  BY <1>1, <1>4
<1>6. \A c \in Clients : ListFits("api", requests[c], served["api"][c]) /\ Evicted(requests[c], due)
  <2>1. \A c \in Clients : served["api"][c] = <<>> /\ requests[c] = <<>> /\ due = Period
    BY <1>4, LimiterFacts DEF RateInit
  <2> QED
    BY <2>1, FitsEmpty
<1>7. \A t \in Tables : \A c \in Senders : ListFits(t, inbound[t][c], served[t][c])
  <2>1. \A t \in Tables : \A c \in Senders : served[t][c] = <<>> /\ inbound[t][c] = <<>>
    BY <1>4, LimiterFacts DEF RateInit
  <2> QED
    BY <2>1, FitsEmpty
<1>8. RefusedAtLimit
  BY DEF RateInit, NoRefusal, RefusedAtLimit
<1> QED
  BY <1>2, <1>3, <1>4, <1>5, <1>6, <1>7, <1>8, Zenon DEF RateInv

(* What one request of a client of limiter l changes in the history. *)
LEMMA ServeKeeps ==
  ASSUME RateInv, NEW l \in Limiters, NEW c \in Users(l), Serve(l, c)
  PROVE  /\ served' = [k \in Limiters |-> served'[k]]
         /\ \A k \in Limiters : served'[k] \in [Users(k) -> Seq(0..Window)]
         /\ served'[l][c] = Recent(Append(served[l][c], 0))
         /\ \A k \in Limiters : \A d \in Users(k) : k # l \/ d # c => served'[k][d] = served[k][d]
<1> DEFINE h == Recent(Append(served[l][c], 0))
<1>1. DOMAIN served = Limiters
  <2>1. served = [k \in Limiters |-> served[k]]
    BY Zenon DEF RateInv
  <2> QED
    BY <2>1
<1>2. served' = [served EXCEPT ![l][c] = h]
  BY DEF Serve
<1>3. \A k \in Limiters : served[k] \in [Users(k) -> Seq(0..Window)]
  BY Zenon DEF RateInv
<1>4. h \in Seq(0..Window)
  <2> DEFINE V == 0..Window
             g == Append(served[l][c], 0)
  <2>1. 0 \in V
    BY WindowFacts
  <2>2. g \in Seq(V)
    BY <1>3, <2>1
  <2>3. h = Within(g, V)
    BY DEF Recent
  <2> HIDE DEF V, g, h
  <2>4. h \in Seq(V)
    BY <2>2, <2>3, WithinIsSeq
  <2> QED
    BY <2>4 DEF V
<1> HIDE DEF h
<1>5. DOMAIN served' = Limiters
  BY <1>1, <1>2
<1>6. served'[l] = [served[l] EXCEPT ![c] = h] /\ \A k \in Limiters \ {l} : served'[k] = served[k]
  BY <1>1, <1>2
<1>7. served'[l] \in [Users(l) -> Seq(0..Window)]
  BY <1>3, <1>4, <1>6
<1>8. served'[l][c] = h /\ \A d \in Users(l) \ {c} : served'[l][d] = served[l][d]
  BY <1>3, <1>6
<1>9. served' = [k \in Limiters |-> served'[k]]
  BY <1>1, <1>2
<1> QED
  BY <1>3, <1>6, <1>7, <1>8, <1>9 DEF h

(* A list that was just trimmed is within the window. *)
LEMMA TrimmedIsEvicted ==
  ASSUME NEW s, NEW h, ListFits("api", s, h), NEW d \in 0..Period
  PROVE  /\ Evicted(Within(s, WindowOf("api")), d)
         /\ Evicted(Append(Within(s, WindowOf("api")), 0), d)
<1> DEFINE w == Within(s, WindowOf("api"))
<1>1. w \in Seq(WindowOf("api"))
  BY FitsWindow
<1> HIDE DEF w
<1>2. w \in Seq(0..Window)
  BY <1>1 DEF WindowOf
<1>3. Window \in Nat /\ Period \in Nat
  BY WindowFacts
<1>4. ASSUME NEW u \in Seq(0..Window) PROVE Evicted(u, d)
  BY <1>3 DEF Evicted
<1>5. Append(w, 0) \in Seq(0..Window)
  BY <1>2, <1>3
<1> QED
  BY <1>2, <1>4, <1>5 DEF w

LEMMA EvictStep == ASSUME RateInv, Evict PROVE RateInv'
<1>1. /\ requests' = [c \in Clients |-> Active("api", requests[c])] /\ due' = Period /\ refused' = {}
      /\ UNCHANGED <<inbound, failures, served>>
  BY DEF Evict, NoRefusal
<1>2. ASSUME NEW c \in Clients
      PROVE  ListFits("api", requests'[c], served["api"][c]) /\ Evicted(requests'[c], Period)
  <2>1. requests'[c] = Within(requests[c], WindowOf("api"))
    BY <1>1, ActiveIsWindow
  <2>2. ListFits("api", requests[c], served["api"][c])
    BY DEF RateInv
  <2>3. Period \in 0..Period
    BY WindowFacts
  <2> QED
    BY <2>1, <2>2, <2>3, FitsTrimmed, TrimmedIsEvicted
<1>3. requests' \in [Clients -> Seq(Ages)]
  BY <1>1, <1>2 DEF ListFits
<1>4. due' \in 0..Period
  BY <1>1, WindowFacts
<1>5. RefusedAtLimit'
  BY <1>1 DEF RefusedAtLimit
<1> QED
  BY <1>1, <1>2, <1>3, <1>4, <1>5 DEF RateInv

LEMMA APIRequestStep ==
  ASSUME RateInv, NEW r \in Clients, NEW f \in {<<>>} \cup {<<c>> : c \in Clients}, Request(r, f)
  PROVE  RateInv'
<1> DEFINE c == ClientKey(r, f)
           w == Within(requests[c], WindowOf("api"))
<1>1. c \in Clients
  BY DEF ClientKey
<1> HIDE DEF c
<1>2. ListFits("api", requests[c], served["api"][c]) /\ due \in 0..Period
  BY <1>1 DEF RateInv
<1>3. Active("api", requests[c]) = w
  BY ActiveIsWindow
<1>4. UNCHANGED <<inbound, failures, due>>
  BY DEF Request
<1>5. CASE Len(w) >= Limit
  <2>1. refused' = {<<"api", c>>} /\ UNCHANGED <<requests, served>>
    BY <1>3, <1>5 DEF Request, c
  <2>2. Len(InWindow("api", served["api"][c])) = Limit
    <3>1. Len(w) \in Nat /\ Len(w) <= Limit /\ w = Within(served["api"][c], WindowOf("api"))
      BY <1>2, FitsWindow DEF ListFits
    <3> QED
      BY <1>5, <3>1, RateAssumption, ActiveIsWindow
  <2>3. RefusedAtLimit'
    BY <2>1, <2>2 DEF RefusedAtLimit, InWindow
  <2> QED
    BY <1>4, <2>1, <2>3 DEF RateInv
<1>6. CASE ~(Len(w) >= Limit)
  <2>1. requests' = [requests EXCEPT ![c] = Append(w, 0)] /\ Serve("api", c) /\ refused' = {}
    BY <1>3, <1>6 DEF Request, NoRefusal, c
  <2>2. /\ ListFits("api", Append(w, 0), Recent(Append(served["api"][c], 0)))
        /\ Evicted(Append(w, 0), due)
    BY <1>2, <1>6, FitsServed, TrimmedIsEvicted
  <2>3. requests' \in [Clients -> Seq(Ages)]
    BY <2>1, <2>2 DEF RateInv, ListFits
  <2>4. /\ served' = [k \in Limiters |-> served'[k]]
        /\ \A k \in Limiters : served'[k] \in [Users(k) -> Seq(0..Window)]
        /\ served'["api"][c] = Recent(Append(served["api"][c], 0))
        /\ \A k \in Limiters : \A d \in Users(k) : k # "api" \/ d # c => served'[k][d] = served[k][d]
    BY <1>1, <2>1, LimiterFacts, ServeKeeps
  <2>5. \A d \in Clients : ListFits("api", requests'[d], served'["api"][d]) /\ Evicted(requests'[d], due)
    <3> SUFFICES ASSUME NEW d \in Clients
                 PROVE  ListFits("api", requests'[d], served'["api"][d]) /\ Evicted(requests'[d], due)
      OBVIOUS
    <3>1. CASE d = c
      BY <1>1, <2>1, <2>2, <2>4, <3>1 DEF RateInv
    <3>2. CASE d # c
      <4>1. requests'[d] = requests[d] /\ served'["api"][d] = served["api"][d]
        BY <2>1, <2>4, <3>2, LimiterFacts DEF RateInv
      <4> QED
        BY <4>1 DEF RateInv
    <3> QED
      BY <3>1, <3>2
  <2>6. \A t \in Tables : \A d \in Senders : ListFits(t, inbound[t][d], served'[t][d])
    BY <2>4, LimiterFacts DEF RateInv
  <2>7. RefusedAtLimit'
    BY <2>1 DEF RefusedAtLimit
  <2> QED
    BY <1>4, <2>3, <2>4, <2>5, <2>6, <2>7 DEF RateInv
<1> QED
  BY <1>5, <1>6

LEMMA AllowStep ==
  ASSUME RateInv, NEW t \in Tables, NEW c \in Senders, Allow(t, c)
  PROVE  RateInv'
<1> DEFINE w == Within(inbound[t][c], WindowOf(t))
<1>1. ListFits(t, inbound[t][c], served[t][c])
  BY DEF RateInv
<1>2. Active(t, inbound[t][c]) = w
  BY ActiveIsWindow
<1>3. UNCHANGED <<requests, failures, due>>
  BY DEF Allow
<1>4. ASSUME NEW u, u \in Seq(Ages), inbound' = [inbound EXCEPT ![t][c] = u]
      PROVE  /\ inbound' \in [Tables -> [Senders -> Seq(Ages)]] /\ inbound'[t][c] = u
             /\ \A k \in Tables : \A d \in Senders : k # t \/ d # c => inbound'[k][d] = inbound[k][d]
  BY <1>4 DEF RateInv
<1>5. CASE Len(w) >= Limit
  <2>1. refused' = {<<t, c>>} /\ inbound' = [inbound EXCEPT ![t][c] = w] /\ UNCHANGED served
    BY <1>2, <1>5 DEF Allow
  <2>2. ListFits(t, w, served[t][c])
    BY <1>1, FitsTrimmed
  <2>3. /\ inbound' \in [Tables -> [Senders -> Seq(Ages)]]
        /\ \A k \in Tables : \A d \in Senders : ListFits(k, inbound'[k][d], served[k][d])
    <3>1. w \in Seq(Ages)
      BY <2>2 DEF ListFits
    <3>2. /\ inbound' \in [Tables -> [Senders -> Seq(Ages)]] /\ inbound'[t][c] = w
          /\ \A k \in Tables : \A d \in Senders : k # t \/ d # c => inbound'[k][d] = inbound[k][d]
      BY <1>4, <2>1, <3>1
    <3> QED
      BY <2>2, <3>2 DEF RateInv
  <2>4. Len(InWindow(t, served[t][c])) = Limit
    <3>1. Len(w) \in Nat /\ Len(w) <= Limit /\ w = Within(served[t][c], WindowOf(t))
      BY <1>1, FitsWindow DEF ListFits
    <3> QED
      BY <1>5, <3>1, RateAssumption, ActiveIsWindow
  <2>5. RefusedAtLimit'
    BY <2>1, <2>4 DEF RefusedAtLimit, InWindow
  <2> QED
    BY <1>3, <2>1, <2>3, <2>5 DEF RateInv
<1>6. CASE ~(Len(w) >= Limit)
  <2>1. inbound' = [inbound EXCEPT ![t][c] = Append(w, 0)] /\ Serve(t, c) /\ refused' = {}
    BY <1>2, <1>6 DEF Allow, NoRefusal
  <2>2. ListFits(t, Append(w, 0), Recent(Append(served[t][c], 0)))
    BY <1>1, <1>6, FitsServed
  <2>3. /\ inbound' \in [Tables -> [Senders -> Seq(Ages)]] /\ inbound'[t][c] = Append(w, 0)
        /\ \A k \in Tables : \A d \in Senders : k # t \/ d # c => inbound'[k][d] = inbound[k][d]
    BY <1>4, <2>1, <2>2 DEF ListFits
  <2>4. /\ served' = [k \in Limiters |-> served'[k]]
        /\ \A k \in Limiters : served'[k] \in [Users(k) -> Seq(0..Window)]
        /\ served'[t][c] = Recent(Append(served[t][c], 0))
        /\ \A k \in Limiters : \A d \in Users(k) : k # t \/ d # c => served'[k][d] = served[k][d]
    BY <2>1, LimiterFacts, ServeKeeps
  <2>5. \A k \in Tables : \A d \in Senders : ListFits(k, inbound'[k][d], served'[k][d])
    <3> SUFFICES ASSUME NEW k \in Tables, NEW d \in Senders
                 PROVE  ListFits(k, inbound'[k][d], served'[k][d])
      OBVIOUS
    <3>1. CASE k = t /\ d = c
      BY <2>2, <2>3, <2>4, <3>1
    <3>2. CASE k # t \/ d # c
      <4>1. inbound'[k][d] = inbound[k][d] /\ served'[k][d] = served[k][d]
        BY <2>3, <2>4, <3>2, LimiterFacts
      <4> QED
        BY <4>1 DEF RateInv
    <3> QED
      BY <3>1, <3>2
  <2>6. \A d \in Clients : ListFits("api", requests[d], served'["api"][d])
    BY <2>4, LimiterFacts DEF RateInv
  <2>7. RefusedAtLimit'
    BY <2>1 DEF RefusedAtLimit
  <2> QED
    BY <1>3, <2>3, <2>4, <2>5, <2>6, <2>7 DEF RateInv
<1> QED
  BY <1>5, <1>6

LEMMA TickStep == ASSUME RateInv, Tick PROVE RateInv'
<1>1. /\ requests' = [c \in Clients |-> Aged(requests[c])]
      /\ inbound' = [t \in Tables |-> [c \in Senders |-> Aged(inbound[t][c])]]
      /\ served' = [l \in Limiters |-> [c \in Users(l) |-> Recent(Aged(served[l][c]))]]
      /\ refused' = {} /\ due > 0 /\ due' = due - 1 /\ UNCHANGED failures
  BY DEF Tick, NoRefusal
<1>2. /\ served' = [l \in Limiters |-> served'[l]]
      /\ \A l \in Limiters : served'[l] = [c \in Users(l) |-> Recent(Aged(served[l][c]))]
  BY <1>1
<1>3. ASSUME NEW c \in Clients
      PROVE  ListFits("api", requests'[c], served'["api"][c]) /\ Evicted(requests'[c], due')
  <2>1. ListFits("api", requests[c], served["api"][c]) /\ Evicted(requests[c], due)
    BY DEF RateInv
  <2>2. requests'[c] = Aged(requests[c]) /\ served'["api"][c] = Recent(Aged(served["api"][c]))
    BY <1>1, <1>2, LimiterFacts
  <2>3. Evicted(Aged(requests[c]), due')
    <3>1. requests[c] \in Seq(Ages)
      BY <2>1 DEF ListFits
    <3>2. ASSUME NEW i \in DOMAIN Aged(requests[c])
          PROVE  Aged(requests[c])[i] <= Window + (Period - due')
      <4>1. i \in 1..Len(requests[c]) /\ Aged(requests[c])[i] = Older(requests[c][i])
        BY <3>1, AgedFacts
      <4>2. requests[c][i] \in Ages /\ requests[c][i] <= Window + (Period - due)
        BY <2>1, <3>1, <4>1 DEF Evicted
      <4>3. /\ Older(requests[c][i]) \in Ages /\ Older(requests[c][i]) <= requests[c][i] + 1
        BY <4>2, OlderFacts
      <4>4. due \in 0..Period /\ Window \in Nat /\ Period \in Nat /\ Oldest \in Nat
        BY WindowFacts DEF RateInv
      <4>5. requests[c][i] \in Nat /\ Older(requests[c][i]) \in Nat
        BY <4>2, <4>3, <4>4 DEF Ages
      <4> QED
        BY <4>1, <4>2, <4>3, <4>4, <4>5, <1>1
    <3> QED
      BY <3>2 DEF Evicted
  <2> QED
    BY <2>1, <2>2, <2>3, FitsAged
<1>4. ASSUME NEW t \in Tables, NEW c \in Senders
      PROVE  ListFits(t, inbound'[t][c], served'[t][c])
  <2>1. ListFits(t, inbound[t][c], served[t][c])
    BY DEF RateInv
  <2>2. inbound'[t][c] = Aged(inbound[t][c]) /\ served'[t][c] = Recent(Aged(served[t][c]))
    BY <1>1, <1>2, LimiterFacts
  <2> QED
    BY <2>1, <2>2, FitsAged
<1>5. requests' \in [Clients -> Seq(Ages)]
  BY <1>1, <1>3 DEF ListFits
<1>6. inbound' \in [Tables -> [Senders -> Seq(Ages)]]
  BY <1>1, <1>4 DEF ListFits
<1>7. ASSUME NEW l \in Limiters PROVE served'[l] \in [Users(l) -> Seq(0..Window)]
  <2>1. l = "api" \/ l \in Tables
    BY DEF Limiters
  <2>2. ASSUME NEW c \in Users(l) PROVE served'[l][c] \in Seq(0..Window)
    BY <2>1, <1>3, <1>4, LimiterFacts DEF ListFits
  <2> QED
    BY <1>2, <2>2
<1>8. due' \in 0..Period
  BY <1>1, WindowFacts DEF RateInv
<1>9. RefusedAtLimit'
  BY <1>1 DEF RefusedAtLimit
<1>10. failures' \in [Senders -> 0..MaxFailures]
  BY <1>1 DEF RateInv
<1> QED
  BY <1>2, <1>3, <1>4, <1>5, <1>6, <1>7, <1>8, <1>9, <1>10 DEF RateInv

LEMMA NextRateInv == RateInv /\ [RateNext]_ratevars => RateInv'
<1> SUFFICES ASSUME RateInv, [RateNext]_ratevars PROVE RateInv'
  OBVIOUS
<1>1. CASE UNCHANGED ratevars
  <2>1. UNCHANGED <<requests, inbound, failures, served, refused, due>>
    BY <1>1 DEF ratevars
  <2>2. RefusedAtLimit'
    BY <2>1 DEF RateInv, RefusedAtLimit, InWindow
  <2> QED
    BY <2>1, <2>2 DEF RateInv
<1>2. CASE Tick
  BY <1>2, TickStep
<1>3. CASE APINext
  BY <1>3, EvictStep, APIRequestStep DEF APINext
<1>4. ASSUME NEW c \in Senders, AllowConnection(c) \/ AllowMessage(c)
      PROVE  RateInv'
  BY <1>4, AllowStep, LimiterFacts DEF AllowConnection, AllowMessage
<1>5. ASSUME NEW c \in Senders, RecordAuthFailure(c) PROVE RateInv'
  <2>1. /\ failures' = [failures EXCEPT ![c] = @ + 1] /\ failures[c] < MaxFailures /\ refused' = {}
        /\ UNCHANGED <<requests, inbound, served, due>>
    BY <1>5 DEF RecordAuthFailure, NoRefusal
  <2>2. failures' \in [Senders -> 0..MaxFailures]
    <3>1. failures \in [Senders -> 0..MaxFailures] /\ MaxFailures \in Nat
      BY RateAssumption DEF RateInv
    <3>2. failures[c] + 1 \in 0..MaxFailures
      BY <2>1, <3>1
    <3> QED
      BY <2>1, <3>1, <3>2
  <2>3. RefusedAtLimit'
    BY <2>1 DEF RefusedAtLimit
  <2> QED
    BY <2>1, <2>2, <2>3 DEF RateInv
<1> QED
  BY <1>1, <1>2, <1>3, <1>4, <1>5 DEF RateNext, InboundNext

LEMMA RateInvariant == RateSpec => []RateInv
<1>1. RateInit => RateInv
  BY InitRateInv
<1>2. RateInv /\ [RateNext]_ratevars => RateInv'
  BY NextRateInv
<1> QED
  BY <1>1, <1>2, PTL DEF RateSpec

LEMMA RateInvTypes == RateInv => RateTypeOK
<1> SUFFICES ASSUME RateInv PROVE RateTypeOK
  OBVIOUS
<1>1. \A c \in Clients : Len(requests[c]) <= Limit
  BY DEF RateInv, ListFits
<1>2. \A t \in Tables, c \in Senders : Len(inbound[t][c]) <= Limit
  BY DEF RateInv, ListFits
<1> QED
  BY <1>1, <1>2 DEF RateInv, RateTypeOK

LEMMA RateInvExact == RateInv => LimitIsExact
<1> SUFFICES ASSUME RateInv PROVE LimitIsExact
  OBVIOUS
<1>1. ASSUME NEW l \in Limiters, NEW c \in Users(l)
      PROVE  Len(InWindow(l, served[l][c])) <= Limit
  <2>1. \E s : ListFits(l, s, served[l][c])
    <3>1. CASE l = "api"
      BY <3>1, LimiterFacts DEF RateInv
    <3>2. CASE l \in Tables
      BY <3>2, LimiterFacts DEF RateInv
    <3> QED
      BY <3>1, <3>2 DEF Limiters
  <2>2. Len(Within(served[l][c], WindowOf(l))) <= Limit
    BY <2>1, FitsWindow
  <2> QED
    BY <2>2, ActiveIsWindow
<1>2. WithinLimit
  BY <1>1 DEF WithinLimit
<1>3. ForgottenInTime
  <2> SUFFICES ASSUME NEW c \in Clients, NEW i \in DOMAIN requests[c]
               PROVE  requests[c][i] <= Period + Window
    BY DEF ForgottenInTime
  <2>1. requests[c][i] <= Window + (Period - due) /\ requests[c] \in Seq(Ages) /\ due \in 0..Period
    BY DEF RateInv, Evicted
  <2>2. requests[c][i] \in Ages
    BY <2>1
  <2>3. requests[c][i] \in Nat /\ Window \in Nat /\ Period \in Nat
    BY <2>2, WindowFacts DEF Ages
  <2> QED
    BY <2>1, <2>3
<1> QED
  BY <1>2, <1>3 DEF LimitIsExact, RateInv

(* The lists of the limiters stay in their types: no list is longer than  *)
(* the limit, whatever the order of requests, ticks and evictions.         *)
THEOREM RateTypeCorrect == RateSpec => []RateTypeOK
BY RateInvTypes, RateInvariant, PTL

(* The limiters are exact: no client is served more than Limit times in a *)
(* window, a refusal happens only at the limit, and evictLoop leaves no    *)
(* entry older than a window and a period.                                 *)
THEOREM LimitsAreExact == RateSpec => []LimitIsExact
BY RateInvExact, RateInvariant, PTL

-----------------------------------------------------------------------------
(* SPF, and the header pass. *)

(* The loop of EvaluateSPF, and what it returns. *)
Matching(client, t, i) == client \in t[i].net
FirstMatch(client, t, i) == Matching(client, t, i) /\ \A j \in 1..(i - 1) : ~Matching(client, t, j)

Answers(client, t) ==
  CHOOSE f : f = [i \in 1..(Len(t) + 1) |->
    IF i > Len(t) THEN "neutral"
    ELSE IF client \in t[i].net THEN Verdict(t[i].q) ELSE f[i + 1]]

LEMMA SPFIsAnswer ==
  \A client, record : record.version = "v=spf1" =>
    EvaluateSPF(client, record) = Answers(client, record.terms)[1]
BY Zenon DEF EvaluateSPF, Answers

LEMMA AnswersLoop ==
  ASSUME NEW client, NEW T, NEW t \in Seq(T)
  PROVE  /\ Answers(client, t)[Len(t) + 1] = "neutral"
         /\ \A i \in 1..Len(t) : Answers(client, t)[i] =
              IF Matching(client, t, i) THEN Verdict(t[i].q) ELSE Answers(client, t)[i + 1]
<1> DEFINE n == Len(t)
           Next1(i, j) == j \in i..n /\ Matching(client, t, j)
                            /\ \A k \in i..(j - 1) : ~Matching(client, t, k)
           Found(i) == CHOOSE j : Next1(i, j)
           f == [i \in 1..(n + 1) |->
                  IF \E j : Next1(i, j) THEN Verdict(t[Found(i)].q) ELSE "neutral"]
           Body(g) == [i \in 1..(n + 1) |->
                  IF i > n THEN "neutral"
                  ELSE IF client \in t[i].net THEN Verdict(t[i].q) ELSE g[i + 1]]
<1>1. n \in Nat
  OBVIOUS
<1>2. ASSUME NEW i \in 1..n, Matching(client, t, i) PROVE f[i] = Verdict(t[i].q)
  <2>1. Next1(i, i)
    BY <1>1, <1>2
  <2>2. \A j : Next1(i, j) => j = i
    <3> SUFFICES ASSUME NEW j, Next1(i, j), j # i PROVE FALSE
      OBVIOUS
    <3>1. i \in i..(j - 1)
      BY <1>1
    <3> QED
      BY <3>1, <1>2
  <2>3. Found(i) = i
    BY <2>1, <2>2
  <2>4. i \in 1..(n + 1)
    BY <1>1
  <2> HIDE DEF Found, Next1
  <2> QED
    BY <2>1, <2>3, <2>4
<1>3. ASSUME NEW i \in 1..n, ~Matching(client, t, i) PROVE f[i] = f[i + 1]
  <2>1. ASSUME NEW j PROVE Next1(i, j) <=> Next1(i + 1, j)
    <3>1. ASSUME Next1(i, j) PROVE Next1(i + 1, j)
      <4>1. j # i /\ j \in (i + 1)..n
        BY <1>1, <1>3, <3>1
      <4> QED
        BY <1>1, <3>1, <4>1
    <3>2. ASSUME Next1(i + 1, j) PROVE Next1(i, j)
      <4>1. ASSUME NEW k \in i..(j - 1) PROVE ~Matching(client, t, k)
        <5>1. k = i \/ k \in (i + 1)..(j - 1)
          BY <1>1, <3>2
        <5> QED
          BY <5>1, <1>3, <3>2
      <4> QED
        BY <1>1, <3>2, <4>1
    <3> QED
      BY <3>1, <3>2
  <2>2. Found(i) = Found(i + 1)
    <3> HIDE DEF Next1
    <3> QED
      BY <2>1
  <2>3. i \in 1..(n + 1) /\ i + 1 \in 1..(n + 1)
    BY <1>1
  <2>4. (\E j : Next1(i, j)) <=> (\E j : Next1(i + 1, j))
    <3> HIDE DEF Next1
    <3> QED
      BY <2>1
  <2> HIDE DEF Found, Next1
  <2> QED
    BY <2>2, <2>3, <2>4
<1>4. f[n + 1] = "neutral"
  <2>1. ~\E j : Next1(n + 1, j)
    BY <1>1
  <2>2. n + 1 \in 1..(n + 1)
    BY <1>1
  <2> HIDE DEF Next1, Found
  <2> QED
    BY <2>1, <2>2
<1>5. DOMAIN f = 1..(n + 1) /\ f = [i \in 1..(n + 1) |-> f[i]]
  <2> HIDE DEF Next1, Found
  <2> QED
    OBVIOUS
<1> HIDE DEF f
<1>6. f = Body(f)
  <2>1. ASSUME NEW i \in 1..(n + 1) PROVE f[i] = Body(f)[i]
    <3>1. CASE i = n + 1
      BY <1>1, <1>4, <3>1
    <3>2. CASE i # n + 1
      <4>1. i \in 1..n /\ ~(i > n)
        BY <1>1, <3>2
      <4> QED
        BY <4>1, <1>2, <1>3 DEF Matching
    <3> QED
      BY <3>1, <3>2
  <2> QED
    BY <1>5, <2>1
<1> DEFINE A == Answers(client, t)
<1>7. A = Body(A)
  <2>1. \E g : g = Body(g)
    BY <1>6
  <2>2. A = CHOOSE g : g = Body(g)
    BY Zenon DEF Answers
  <2> HIDE DEF A, Body
  <2> QED
    BY <2>1, <2>2
<1> HIDE DEF A
<1>8. A[n + 1] = "neutral"
  <2>1. n + 1 \in 1..(n + 1) /\ n + 1 > n
    BY <1>1
  <2> QED
    BY <1>7, <2>1
<1>9. ASSUME NEW i \in 1..n
      PROVE  A[i] = IF Matching(client, t, i) THEN Verdict(t[i].q) ELSE A[i + 1]
  <2>1. i \in 1..(n + 1) /\ ~(i > n)
    BY <1>1
  <2> QED
    BY <1>7, <2>1 DEF Matching
<1> QED
  BY <1>8, <1>9 DEF A

(* The first term that matches decides. *)
LEMMA SPFDecides ==
  ASSUME NEW client, NEW T, NEW t \in Seq(T)
  PROVE  /\ \A i \in 1..Len(t) : FirstMatch(client, t, i) => Answers(client, t)[1] = Verdict(t[i].q)
         /\ (\A i \in 1..Len(t) : ~FirstMatch(client, t, i)) => Answers(client, t)[1] = "neutral"
<1> DEFINE n == Len(t)
           A == Answers(client, t)
           Passed(k) == \A j \in 1..k : ~Matching(client, t, j)
           P == {k \in Nat : k <= n /\ Passed(k) => A[1] = A[k + 1]}
<1>1. n \in Nat
  OBVIOUS
<1>2. /\ A[n + 1] = "neutral"
      /\ \A i \in 1..n : A[i] = IF Matching(client, t, i) THEN Verdict(t[i].q) ELSE A[i + 1]
  BY AnswersLoop
<1> HIDE DEF A
<1>3. 0 \in P
  OBVIOUS
<1>4. ASSUME NEW k \in Nat, k \in P PROVE k + 1 \in P
  <2> SUFFICES ASSUME k + 1 <= n, Passed(k + 1) PROVE A[1] = A[(k + 1) + 1]
    OBVIOUS
  <2>1. k <= n /\ Passed(k) /\ k + 1 \in 1..n /\ ~Matching(client, t, k + 1)
    BY <1>1
  <2>2. A[1] = A[k + 1]
    BY <1>4, <2>1
  <2> QED
    BY <1>2, <2>1, <2>2
<1>5. \A k \in Nat : k <= n /\ Passed(k) => A[1] = A[k + 1]
  <2>1. Nat \subseteq P
    <3> HIDE DEF P
    <3> QED
      BY <1>3, <1>4, Inductive
  <2> QED
    BY <2>1
<1>6. ASSUME NEW i \in 1..n, FirstMatch(client, t, i) PROVE A[1] = Verdict(t[i].q)
  <2>1. i - 1 \in Nat /\ i - 1 <= n /\ Passed(i - 1) /\ (i - 1) + 1 = i
    BY <1>1, <1>6 DEF FirstMatch
  <2>2. A[1] = A[i]
    BY <1>5, <2>1
  <2> QED
    BY <1>2, <1>6, <2>2 DEF FirstMatch
<1>7. ASSUME \A i \in 1..n : ~FirstMatch(client, t, i) PROVE A[1] = "neutral"
  <2> DEFINE Q == {k \in Nat : k <= n => Passed(k)}
  <2>1. 0 \in Q
    OBVIOUS
  <2>2. ASSUME NEW k \in Nat, k \in Q PROVE k + 1 \in Q
    <3> SUFFICES ASSUME k + 1 <= n PROVE Passed(k + 1)
      OBVIOUS
    <3>1. k + 1 \in 1..n /\ (k + 1) - 1 = k /\ Passed(k)
      BY <1>1, <2>2
    <3>2. ~Matching(client, t, k + 1)
      BY <1>7, <3>1 DEF FirstMatch
    <3>3. \A j \in 1..(k + 1) : j = k + 1 \/ j \in 1..k
      OBVIOUS
    <3> QED
      BY <3>1, <3>2, <3>3
  <2>3. Nat \subseteq Q
    <3> HIDE DEF Q
    <3> QED
      BY <2>1, <2>2, Inductive
  <2>4. Passed(n)
    BY <2>3, <1>1
  <2> QED
    BY <1>1, <1>2, <1>5, <2>4
<1> QED
  BY <1>6, <1>7 DEF A

(* EvaluateSPF, for every record and client: it passes, or fails, exactly  *)
(* if the first term that matches the client says so.                      *)
THEOREM SPFHolds ==
  ASSUME NEW client, NEW record, NEW Net,
         record.terms \in Seq([q : {"+", "-", "~", "?"}, net : Net])
  PROVE  SPFFirstMatch(client, record)
<1> DEFINE t == record.terms
           n == Len(t)
           v == EvaluateSPF(client, record)
<1> SUFFICES ASSUME record.version = "v=spf1"
             PROVE  /\ (v = "pass") <=> \E i \in DOMAIN t : FirstMatch(client, t, i) /\ t[i].q = "+"
                    /\ (v = "fail") <=> \E i \in DOMAIN t : FirstMatch(client, t, i) /\ t[i].q = "-"
  BY Zenon DEF SPFFirstMatch, FirstMatch, Matching
<1>1. v = Answers(client, t)[1]
  BY SPFIsAnswer
<1>2. \A i \in DOMAIN t : i \in 1..n /\ t[i].q \in {"+", "-", "~", "?"}
  <2> DEFINE R == [q : {"+", "-", "~", "?"}, net : Net]
  <2>1. t \in Seq(R)
    OBVIOUS
  <2>2. \A r \in R : r.q \in {"+", "-", "~", "?"}
    OBVIOUS
  <2> HIDE DEF R, t
  <2>3. \A i \in DOMAIN t : i \in 1..n /\ t[i] \in R
    BY <2>1
  <2> QED
    BY <2>2, <2>3
<1>3. /\ \A i \in 1..n : FirstMatch(client, t, i) => v = Verdict(t[i].q)
      /\ (\A i \in 1..n : ~FirstMatch(client, t, i)) => v = "neutral"
  BY <1>1, SPFDecides
<1> HIDE DEF v, n
<1>4. \A q \in {"+", "-", "~", "?"} : (Verdict(q) = "pass" <=> q = "+") /\ (Verdict(q) = "fail" <=> q = "-")
  BY DEF Verdict
<1>5. DOMAIN t = 1..n
  BY DEF n
<1> HIDE DEF t
<1>6. CASE \E i \in 1..n : FirstMatch(client, t, i)
  <2>1. PICK i \in 1..n : FirstMatch(client, t, i)
    BY <1>6
  <2>2. \A k \in 1..n : FirstMatch(client, t, k) => k = i
    <3> SUFFICES ASSUME NEW k \in 1..n, FirstMatch(client, t, k), k # i PROVE FALSE
      OBVIOUS
    <3>1. k \in 1..(i - 1) \/ i \in 1..(k - 1)
      OBVIOUS
    <3> QED
      BY <3>1, <2>1 DEF FirstMatch
  <2> QED
    BY <2>1, <2>2, <1>2, <1>3, <1>4, <1>5
<1>7. CASE \A i \in 1..n : ~FirstMatch(client, t, i)
  BY <1>3, <1>5, <1>7
<1> QED
  BY <1>6, <1>7
-----------------------------------------------------------------------------
(* The header a line belongs to, and the lines that stay. *)
HeadOf(lines, i) ==
  {j \in 1..i : lines[j] # "folded" /\ \A k \in (j + 1)..i : lines[k] = "folded"}
Stays(lines, i) == \A j \in HeadOf(lines, i) : lines[j] # "result"
Staying(lines, k) == {i \in 1..k : Stays(lines, i)}
UpTo(K, i) == {j \in K : j <= i}

Start == [skip |-> FALSE, out |-> <<>>]
Accs == [skip : BOOLEAN, out : Seq(LineKinds)]

Passes(lines) ==
  CHOOSE f : f = [i \in 0..Len(lines) |->
    IF i = 0 THEN [skip |-> FALSE, out |-> <<>>] ELSE PassLine(f[i - 1], lines[i])]

LEMMA SanitizedIsPassed == \A lines : SanitizeUntrustedHeaders(lines) = Passes(lines)[Len(lines)].out
BY Zenon DEF SanitizeUntrustedHeaders, Passes

LEMMA PassLineType ==
  ASSUME NEW acc \in Accs, NEW l \in LineKinds
  PROVE  /\ PassLine(acc, l) \in Accs
         /\ l = "result" => PassLine(acc, l).skip /\ PassLine(acc, l).out = acc.out
         /\ l = "folded" /\ acc.skip => PassLine(acc, l) = acc
         /\ l = "text" \/ (l = "folded" /\ ~acc.skip) =>
              ~PassLine(acc, l).skip /\ PassLine(acc, l).out = Append(acc.out, l)
<1>1. acc.out \in Seq(LineKinds) /\ Append(acc.out, l) \in Seq(LineKinds)
  BY DEF Accs
<1>2. CASE l = "result"
  <2>1. PassLine(acc, l) = [acc EXCEPT !.skip = TRUE]
    BY <1>2 DEF PassLine
  <2>2. [acc EXCEPT !.skip = TRUE] \in Accs
    BY DEF Accs
  <2>3. [acc EXCEPT !.skip = TRUE].skip /\ [acc EXCEPT !.skip = TRUE].out = acc.out
    BY DEF Accs
  <2> QED
    BY <1>2, <2>1, <2>2, <2>3
<1>3. CASE l = "folded" /\ acc.skip
  BY <1>3 DEF PassLine
<1>4. CASE l = "text" \/ (l = "folded" /\ ~acc.skip)
  <2>1. PassLine(acc, l) = [skip |-> FALSE, out |-> Append(acc.out, l)]
    BY <1>4 DEF PassLine
  <2>2. [skip |-> FALSE, out |-> Append(acc.out, l)] \in Accs
    BY <1>1 DEF Accs
  <2> QED
    BY <1>4, <2>1, <2>2
<1> QED
  BY <1>2, <1>3, <1>4 DEF LineKinds

LEMMA PassesLoop ==
  ASSUME NEW lines \in Seq(LineKinds)
  PROVE  /\ Passes(lines)[0] = Start
         /\ \A i \in 1..Len(lines) : Passes(lines)[i] = PassLine(Passes(lines)[i - 1], lines[i])
<1> DEFINE n == Len(lines)
           G == [i \in 1..n |-> [x \in Accs |-> PassLine(x, lines[i])]]
           Body(f) == [i \in 0..n |->
              IF i = 0 THEN [skip |-> FALSE, out |-> <<>>] ELSE PassLine(f[i - 1], lines[i])]
           C == Passes(lines)
<1>1. n \in Nat /\ \A i \in 1..n : lines[i] \in LineKinds
  OBVIOUS
<1>2. Start \in Accs
  BY DEF Start, Accs
<1>3. \A i \in 1..n : \A x \in Accs : G[i][x] = PassLine(x, lines[i])
  BY Zenon
<1> HIDE DEF G
<1>4. PICK f : IsLoop(f, n, Accs, Start, G)
  <2>1. IsStep(n, Accs, G)
    <3>1. \A x \in Accs : \A l \in LineKinds : PassLine(x, l) \in Accs
      BY PassLineType
    <3> QED
      BY <1>1, <1>3, <3>1 DEF IsStep
  <2> HIDE DEF n
  <2> QED
    BY <1>1, <1>2, <2>1, LoopStates, Zenon
<1>5. ASSUME NEW i \in 1..n PROVE f[i] = PassLine(f[i - 1], lines[i])
  <2>1. i - 1 \in 0..n
    BY <1>1
  <2> QED
    BY <2>1, <1>3, <1>4 DEF IsLoop
<1>6. f = Body(f)
  <2>1. ASSUME NEW i \in 0..n PROVE f[i] = Body(f)[i]
    <3>1. i = 0 \/ i \in 1..n
      BY <1>1
    <3> QED
      BY <3>1, <1>4, <1>5 DEF IsLoop, Start
  <2> QED
    BY <1>4, <2>1 DEF IsLoop
<1>7. C = Body(C)
  <2>1. \E g : g = Body(g)
    BY <1>6
  <2>2. C = CHOOSE g : g = Body(g)
    BY Zenon DEF Passes
  <2> HIDE DEF C, Body
  <2> QED
    BY <2>1, <2>2
<1> HIDE DEF C
<1>8. C[0] = Start
  BY <1>1, <1>7 DEF Start
<1>9. ASSUME NEW i \in 1..n PROVE C[i] = PassLine(C[i - 1], lines[i])
  <2>1. i \in 0..n /\ i # 0
    BY <1>1
  <2> QED
    BY <1>7, <2>1
<1> QED
  BY <1>8, <1>9 DEF C

(* What a line does to the header that is open. *)
LEMMA StaysStep ==
  ASSUME NEW lines \in Seq(LineKinds), NEW k \in Nat, k + 1 <= Len(lines)
  PROVE  /\ lines[k + 1] = "result" => ~Stays(lines, k + 1)
         /\ lines[k + 1] = "text" => Stays(lines, k + 1)
         /\ lines[k + 1] = "folded" => (Stays(lines, k + 1) <=> Stays(lines, k))
<1>1. ASSUME lines[k + 1] = "result" PROVE ~Stays(lines, k + 1)
  <2>1. k + 1 \in HeadOf(lines, k + 1)
    BY <1>1 DEF HeadOf
  <2> QED
    BY <1>1, <2>1 DEF Stays
<1>2. ASSUME lines[k + 1] = "text" PROVE Stays(lines, k + 1)
  <2>1. ASSUME NEW j \in HeadOf(lines, k + 1) PROVE j = k + 1
    <3>1. j \in 1..(k + 1) /\ \A i \in (j + 1)..(k + 1) : lines[i] = "folded"
      BY DEF HeadOf
    <3>2. j # k + 1 => k + 1 \in (j + 1)..(k + 1)
      BY <3>1
    <3> QED
      BY <1>2, <3>1, <3>2
  <2> QED
    BY <1>2, <2>1 DEF Stays
<1>3. ASSUME lines[k + 1] = "folded" PROVE Stays(lines, k + 1) <=> Stays(lines, k)
  <2>1. ASSUME NEW j PROVE j \in HeadOf(lines, k + 1) <=> j \in HeadOf(lines, k)
    <3>1. ASSUME j \in HeadOf(lines, k + 1) PROVE j \in HeadOf(lines, k)
      <4>1. /\ j \in 1..(k + 1) /\ lines[j] # "folded"
            /\ \A i \in (j + 1)..(k + 1) : lines[i] = "folded"
        BY <3>1 DEF HeadOf
      <4>2. j \in 1..k /\ \A i \in (j + 1)..k : i \in (j + 1)..(k + 1)
        BY <1>3, <4>1
      <4> QED
        BY <4>1, <4>2 DEF HeadOf
    <3>2. ASSUME j \in HeadOf(lines, k) PROVE j \in HeadOf(lines, k + 1)
      <4>1. /\ j \in 1..k /\ lines[j] # "folded" /\ \A i \in (j + 1)..k : lines[i] = "folded"
        BY <3>2 DEF HeadOf
      <4>2. j \in 1..(k + 1) /\ \A i \in (j + 1)..(k + 1) : i = k + 1 \/ i \in (j + 1)..k
        BY <4>1
      <4> QED
        BY <1>3, <4>1, <4>2 DEF HeadOf
    <3> QED
      BY <3>1, <3>2
  <2> QED
    BY <2>1 DEF Stays
<1> QED
  BY <1>1, <1>2, <1>3

(* The lines that stay, and their numbers. *)
LEMMA StayingFacts ==
  ASSUME NEW lines, NEW k \in Nat
  PROVE  /\ IsFiniteSet(Staying(lines, k)) /\ Cardinality(Staying(lines, k)) \in Nat
         /\ Staying(lines, 0) = {}
         /\ Stays(lines, k + 1) =>
              /\ Staying(lines, k + 1) = Staying(lines, k) \cup {k + 1}
              /\ Cardinality(Staying(lines, k + 1)) = Cardinality(Staying(lines, k)) + 1
         /\ ~Stays(lines, k + 1) => Staying(lines, k + 1) = Staying(lines, k)
         /\ \A i \in Staying(lines, k) :
              Cardinality(UpTo(Staying(lines, k), i)) \in 1..Cardinality(Staying(lines, k))
<1> DEFINE K == Staying(lines, k)
<1>1. IsFiniteSet(K) /\ Cardinality(K) \in Nat
  <2>1. IsFiniteSet(1..k) /\ K \subseteq 1..k
    BY FS_Interval DEF Staying
  <2> QED
    BY <2>1, FS_Subset, FS_CardinalityType
<1>2. Staying(lines, 0) = {}
  BY DEF Staying
<1>3. ASSUME Stays(lines, k + 1)
      PROVE  /\ Staying(lines, k + 1) = K \cup {k + 1}
             /\ Cardinality(Staying(lines, k + 1)) = Cardinality(K) + 1
  <2>1. Staying(lines, k + 1) = K \cup {k + 1} /\ k + 1 \notin K
    BY <1>3 DEF Staying
  <2> QED
    BY <1>1, <2>1, FS_AddElement
<1>4. ASSUME ~Stays(lines, k + 1) PROVE Staying(lines, k + 1) = K
  BY <1>4 DEF Staying
<1>5. ASSUME NEW i \in K PROVE Cardinality(UpTo(K, i)) \in 1..Cardinality(K)
  <2> DEFINE U == UpTo(K, i)
  <2>1. U \subseteq K /\ i \in U
    BY DEF UpTo, Staying
  <2> HIDE DEF U
  <2>2. IsFiniteSet(U) /\ Cardinality(U) <= Cardinality(K)
    BY <1>1, <2>1, FS_Subset
  <2>3. Cardinality(U) \in Nat /\ Cardinality(U) # 0
    BY <2>1, <2>2, FS_CardinalityType, FS_EmptySet
  <2> QED
    BY <1>1, <2>2, <2>3 DEF U
<1> QED
  BY <1>1, <1>2, <1>3, <1>4, <1>5

(* The state of the pass after k lines. *)
PassFits(x, lines, k) ==
  /\ x \in Accs /\ (x.skip <=> ~Stays(lines, k))
  /\ Len(x.out) = Cardinality(Staying(lines, k))
  /\ \A i \in Staying(lines, k) : x.out[Cardinality(UpTo(Staying(lines, k), i))] = lines[i]

LEMMA PassStep ==
  ASSUME NEW lines \in Seq(LineKinds), NEW k \in Nat, k + 1 <= Len(lines), NEW x,
         PassFits(x, lines, k)
  PROVE  PassFits(PassLine(x, lines[k + 1]), lines, k + 1)
<1> DEFINE l == lines[k + 1]
           y == PassLine(x, l)
           K == Staying(lines, k)
           J == Staying(lines, k + 1)
<1>1. l \in LineKinds /\ x \in Accs
  BY DEF PassFits
<1>2. /\ y \in Accs /\ (l = "result" => y.skip /\ y.out = x.out)
      /\ (l = "folded" /\ x.skip => y = x)
      /\ l = "text" \/ (l = "folded" /\ ~x.skip) => ~y.skip /\ y.out = Append(x.out, l)
  BY <1>1, PassLineType
<1> HIDE DEF y
<1>3. /\ l = "result" => ~Stays(lines, k + 1)
      /\ l = "text" => Stays(lines, k + 1)
      /\ l = "folded" => (Stays(lines, k + 1) <=> Stays(lines, k))
  BY StaysStep
<1>4. (x.skip <=> ~Stays(lines, k)) /\ Len(x.out) = Cardinality(K) /\ x.out \in Seq(LineKinds)
  BY DEF PassFits, Accs
<1>5. CASE ~Stays(lines, k + 1)
  <2>1. y.skip /\ y.out = x.out
    BY <1>1, <1>2, <1>3, <1>4, <1>5 DEF LineKinds
  <2>2. J = K
    BY <1>5, StayingFacts
  <2> QED
    BY <1>2, <1>5, <2>1, <2>2 DEF PassFits, y
<1>6. CASE Stays(lines, k + 1)
  <2>1. ~y.skip /\ y.out = Append(x.out, l)
    BY <1>1, <1>2, <1>3, <1>4, <1>6 DEF LineKinds
  <2>2. J = K \cup {k + 1} /\ Cardinality(J) = Cardinality(K) + 1 /\ Cardinality(K) \in Nat
    BY <1>6, StayingFacts
  <2>3. Len(y.out) = Cardinality(J)
    BY <1>4, <2>1, <2>2
  <2>4. ASSUME NEW i \in J PROVE y.out[Cardinality(UpTo(J, i))] = lines[i]
    <3>1. CASE i = k + 1
      <4>1. UpTo(J, i) = J
        BY <3>1 DEF UpTo, Staying
      <4>2. Cardinality(UpTo(J, i)) = Len(x.out) + 1
        BY <4>1, <2>2, <1>4
      <4> QED
        BY <4>2, <3>1, <1>4, <2>1
    <3>2. CASE i # k + 1
      <4>1. i \in K /\ i \in 1..k
        BY <2>2, <3>2 DEF Staying
      <4>2. UpTo(J, i) = UpTo(K, i)
        BY <2>2, <4>1 DEF UpTo
      <4>3. Cardinality(UpTo(K, i)) \in 1..Len(x.out)
        BY <4>1, <1>4, StayingFacts
      <4>4. x.out[Cardinality(UpTo(K, i))] = lines[i]
        BY <4>1 DEF PassFits
      <4> QED
        BY <4>2, <4>3, <4>4, <1>4, <2>1
    <3> QED
      BY <3>1, <3>2
  <2> HIDE DEF K, J
  <2>5. /\ \A i \in J : y.out[Cardinality(UpTo(J, i))] = lines[i]
        /\ y.skip <=> ~Stays(lines, k + 1)
    BY <2>4, <2>1, <1>6
  <2> QED
    BY <1>2, <2>3, <2>5 DEF PassFits, y, J
<1> QED
  BY <1>5, <1>6

(* SanitizeUntrustedHeaders, for every message: the pass removes every     *)
(* result header with its folded lines and nothing else, and keeps the     *)
(* order of what stays.                                                    *)
THEOREM ForgedGo ==
  ASSUME NEW lines \in Seq(LineKinds)
  PROVE  ForgedResultsGo(lines)
<1> DEFINE n == Len(lines)
           C == Passes(lines)
           P == {k \in Nat : k <= n => PassFits(C[k], lines, k)}
           out == SanitizeUntrustedHeaders(lines)
           K == Staying(lines, n)
<1>1. n \in Nat /\ DOMAIN lines = 1..n
  OBVIOUS
<1>2. C[0] = Start /\ \A i \in 1..n : C[i] = PassLine(C[i - 1], lines[i])
  BY PassesLoop
<1> HIDE DEF C
<1>3. 0 \in P
  <2>1. Start \in Accs /\ Start.skip = FALSE /\ Start.out = <<>> /\ Len(Start.out) = 0
    BY DEF Start, Accs
  <2>2. Stays(lines, 0) /\ Staying(lines, 0) = {}
    BY DEF Stays, HeadOf, Staying
  <2>3. Cardinality({}) = 0
    BY FS_EmptySet
  <2>4. PassFits(Start, lines, 0)
    BY <2>1, <2>2, <2>3 DEF PassFits
  <2> QED
    BY <1>2, <2>4
<1>4. ASSUME NEW k \in Nat, k \in P PROVE k + 1 \in P
  <2> SUFFICES ASSUME k + 1 <= n PROVE PassFits(C[k + 1], lines, k + 1)
    OBVIOUS
  <2>1. PassFits(C[k], lines, k) /\ k + 1 \in 1..n /\ (k + 1) - 1 = k
    BY <1>1, <1>4
  <2>2. C[k + 1] = PassLine(C[k], lines[k + 1])
    BY <1>2, <2>1
  <2> QED
    BY <2>1, <2>2, PassStep
<1>5. PassFits(C[n], lines, n)
  <2>1. Nat \subseteq P
    <3> HIDE DEF P
    <3> QED
      BY <1>3, <1>4, Inductive
  <2> QED
    BY <2>1, <1>1
<1>6. out = C[n].out
  BY SanitizedIsPassed DEF C
<1>7. Len(out) = Cardinality(K) /\ \A i \in K : out[Cardinality(UpTo(K, i))] = lines[i]
  BY <1>5, <1>6 DEF PassFits
<1> DEFINE head(i) == {j \in 1..i : lines[j] # "folded" /\ \A k \in (j + 1)..i : lines[k] = "folded"}
           stays(i) == \A j \in head(i) : lines[j] # "result"
           kept == [k \in {i \in DOMAIN lines : stays(i)} |-> lines[k]]
<1>8. DOMAIN kept = K /\ \A i \in K : kept[i] = lines[i]
  BY <1>1 DEF Staying, Stays, HeadOf
<1>9. \A i : {j \in DOMAIN kept : j <= i} = UpTo(K, i)
  <2> HIDE DEF kept, K
  <2> QED
    BY <1>8 DEF UpTo
<1>10. /\ Len(out) = Cardinality(DOMAIN kept)
       /\ \A i \in DOMAIN kept : out[Cardinality({j \in DOMAIN kept : j <= i})] = kept[i]
  <2> HIDE DEF kept, K, out
  <2> QED
    BY <1>7, <1>8, <1>9
<1> QED
  BY <1>10, Zenon DEF ForgedResultsGo

-----------------------------------------------------------------------------
(* DMARC alignment and the decision. *)

(* The test on reversed label sequences finds what lies at the end. *)
LEMMA SuffixIsTail ==
  ASSUME NEW S, NEW d \in Seq(S), NEW e \in Seq(S), IsSuffix(e, d)
  PROVE  \E n \in 0..Len(d) : SubSeq(d, n + 1, Len(d)) = e
<1> DEFINE n == Len(d) - Len(e)
           rd == Reverse(d)
           re == Reverse(e)
<1>1. Len(d) \in Nat /\ Len(e) \in Nat /\ DOMAIN d = 1..Len(d) /\ DOMAIN e = 1..Len(e)
  OBVIOUS
<1>2. /\ rd = [i \in 1..Len(d) |-> d[(Len(d) - i) + 1]]
      /\ re = [i \in 1..Len(e) |-> e[(Len(e) - i) + 1]]
  BY Zenon DEF Reverse
<1>3. /\ rd \in Seq(S) /\ Len(rd) = Len(d)
      /\ re \in Seq(S) /\ Len(re) = Len(e)
  <2>1. \A i \in 1..Len(d) : d[(Len(d) - i) + 1] \in S
    BY <1>1
  <2>2. \A i \in 1..Len(e) : e[(Len(e) - i) + 1] \in S
    BY <1>1
  <2> HIDE DEF rd, re
  <2> QED
    BY <1>1, <1>2, <2>1, <2>2, IsASeq
<1>4. \A i \in 1..Len(d) : rd[i] = d[(Len(d) - i) + 1]
  BY <1>2
<1>5. \A i \in 1..Len(e) : re[i] = e[(Len(e) - i) + 1]
  BY <1>2
<1> HIDE DEF rd, re
<1>6. Len(e) <= Len(d) /\ SubSeq(re, 1, Len(e)) = SubSeq(rd, 1, Len(e))
  BY <1>3 DEF IsSuffix, IsPrefix, rd, re
<1>7. \A i \in 1..Len(e) : re[i] = rd[i]
  <2> SUFFICES ASSUME NEW i \in 1..Len(e) PROVE re[i] = rd[i]
    OBVIOUS
  <2>1. SubSeq(re, 1, Len(e))[i] = re[i] /\ SubSeq(rd, 1, Len(e))[i] = rd[i]
    BY <1>1, <1>3, <1>6
  <2> QED
    BY <2>1, <1>6
<1>8. n \in 0..Len(d)
  BY <1>1, <1>6
<1>9. SubSeq(d, n + 1, Len(d)) \in Seq(S) /\ Len(SubSeq(d, n + 1, Len(d))) = Len(e)
  BY <1>1, <1>6
<1>10. ASSUME NEW j \in 1..Len(e) PROVE SubSeq(d, n + 1, Len(d))[j] = e[j]
  <2> DEFINE i == Len(e) - j + 1
  <2>1. i \in 1..Len(e) /\ i \in 1..Len(d) /\ Len(e) - i + 1 = j /\ Len(d) - i + 1 = n + j
    BY <1>1, <1>6
  <2>2. e[j] = d[n + j]
    BY <2>1, <1>4, <1>5, <1>7
  <2>3. SubSeq(d, n + 1, Len(d))[j] = d[n + j]
    BY <1>1, <1>6
  <2> QED
    BY <2>2, <2>3
<1>11. SubSeq(d, n + 1, Len(d)) = e
  BY <1>9, <1>10, SeqEqual
<1> QED
  BY <1>8, <1>11

(* EvaluateDMARC and the gates, for every three domains: a message whose   *)
(* From domain publishes p=reject, and for which no passing identity is    *)
(* that domain, one above or one below it, is not delivered.               *)
THEOREM ForgeryKeptOut ==
  ASSUME NEW S, NEW ev, ev.from \in Seq(S), ev.spf.domain \in Seq(S), ev.dkim.domain \in Seq(S)
  PROVE  ForgeryIsKeptOut(ev)
<1> DEFINE below(d, e) == \E n \in 0..Len(d) : SubSeq(d, n + 1, Len(d)) = e
           related(d) == d # <<>> /\ (below(d, ev.from) \/ below(ev.from, d))
           vouched == \E x \in {ev.spf, ev.dkim} : x.status = "pass" /\ related(x.domain)
<1>1. ASSUME NEW x, x = ev.spf \/ x = ev.dkim, Aligned(x, ev.from)
      PROVE  x.status = "pass" /\ related(x.domain)
  <2>1. x.domain \in Seq(S) /\ ev.from \in Seq(S)
    BY <1>1
  <2>2. x.status = "pass" /\ x.domain # <<>> /\ (IsSuffix(ev.from, x.domain) \/ IsSuffix(x.domain, ev.from))
    BY <1>1 DEF Aligned, IsDomainAligned
  <2>3. IsSuffix(ev.from, x.domain) => below(x.domain, ev.from)
    BY <2>1, SuffixIsTail
  <2>4. IsSuffix(x.domain, ev.from) => below(ev.from, x.domain)
    BY <2>1, SuffixIsTail
  <2> HIDE DEF below
  <2> QED
    BY <2>2, <2>3, <2>4
<1>2. Aligned(ev.spf, ev.from) \/ Aligned(ev.dkim, ev.from) => vouched
  BY <1>1, Zenon
<1> DEFINE dmarc == EvaluateDMARC(ev.from, ev.spf, ev.dkim, ev.policy)
<1>3. ASSUME ev.policy = "reject", ~vouched PROVE Evaluate(ev).action # "deliver"
  <2>1. dmarc.action = "reject"
    BY <1>2, <1>3 DEF EvaluateDMARC
  <2> HIDE DEF dmarc
  <2>2. EvaluateInboundSecurity(ev, dmarc) # "deliver"
    BY <2>1 DEF EvaluateInboundSecurity
  <2> QED
    BY <2>2 DEF Evaluate, dmarc
<1> QED
  BY <1>3, Zenon DEF ForgeryIsKeptOut

(* Evaluate, for every score, threshold and size: what is delivered has a  *)
(* known recipient, is clean, is no larger than MaxSize and scored below   *)
(* every threshold that is switched on.                                    *)
THEOREM DeliveredPassed ==
  ASSUME NEW ev, ev.score \in Nat, ev.spam \in Nat, ev.reject \in Nat, ev.size \in Nat,
         ev.clean \in BOOLEAN, ev.known \in BOOLEAN
  PROVE  DeliveredPassedAll(ev)
<1> SUFFICES ASSUME Evaluate(ev).action = "deliver"
             PROVE  /\ ev.known /\ ev.clean /\ ev.size <= MaxSize
                    /\ \A limit \in {ev.spam, ev.reject} : limit = 0 \/ ev.score < limit
  BY DEF DeliveredPassedAll
<1> DEFINE dmarc == EvaluateDMARC(ev.from, ev.spf, ev.dkim, ev.policy)
<1>1. ev.known
  BY DEF Evaluate
<1>2. EvaluateInboundSecurity(ev, dmarc) = "deliver"
  BY <1>1 DEF Evaluate
<1> HIDE DEF dmarc
<1> QED
  BY <1>1, <1>2 DEF EvaluateInboundSecurity, MaxSize

-----------------------------------------------------------------------------
(* Quota decisions and the roles. *)

(* ComputeStatus and CheckCanAccept, for every usage and quota: a mailbox  *)
(* that is shown as full accepts nothing.                                  *)
THEOREM FullIsRefused ==
  \A used, quota \in Nat : FullMeansRefused(used, quota)
<1> TAKE used, quota \in Nat
<1>1. CASE quota = 0
  BY <1>1 DEF FullMeansRefused, ComputeStatus, CheckCanAccept
<1>2. CASE quota # 0
  <2>1. ComputeStatus(used, quota) = "FULL" <=> used >= quota
    BY <1>2 DEF ComputeStatus
  <2>2. CheckCanAccept(used, quota, 1) <=> used + 1 <= quota
    BY <1>2 DEF CheckCanAccept
  <2> QED
    BY <2>1, <2>2 DEF FullMeansRefused
<1> QED
  BY <1>1, <1>2

(* What a route's roles must be, whatever else it is. *)
ClosedToAuditors == Operated \cup Changing.mail \cup Changing.password

RouteFits(x) ==
  /\ "auditor" \in x.roles => x.route \notin ClosedToAuditors
  /\ "user" \in x.roles => x.route \in Personal
  /\ x.route \in Operated => x.roles \subseteq Operators
  /\ x.route \in Administered => x.roles = {"admin"}

(* The routes that change something, one by one. *)
LEMMA ChangingRoutes ==
  /\ ClosedToAuditors =
       Operated \cup {"POST send", "PUT read", "POST move", "DELETE message", "POST password"}
  /\ Operated =
       {"POST mailboxes", "DELETE mailbox", "POST suspend", "POST resume", "POST provision",
        "PUT quota", "POST quota reconcile", "POST ldap sync", "DELETE domain", "POST aliases",
        "DELETE alias", "POST dkim", "POST dkim activate", "POST dkim revoke", "POST smtp-keys",
        "POST smtp-keys revoke", "PUT policy", "POST queue retry", "POST queue hold",
        "POST queue release", "DELETE queue message", "POST queue flush", "POST domains",
        "POST tls", "PUT config"}
  /\ Administered =
       {"POST domains", "DELETE domain", "POST tls", "PUT config", "DELETE mailbox",
        "DELETE queue message", "POST queue flush", "POST dkim revoke", "POST ldap sync"}
<1>1. /\ Changing.mail = {"POST send", "PUT read", "POST move", "DELETE message"}
      /\ Changing.password = {"POST password"}
      /\ Changing.mailboxes = {"POST mailboxes", "DELETE mailbox", "POST suspend",
                               "POST resume", "POST provision", "PUT quota",
                               "POST quota reconcile", "POST ldap sync",
                               "DELETE domain"}
      /\ Changing.aliases = {"POST aliases", "DELETE alias", "DELETE domain"}
      /\ Changing.signingKeys = {"POST dkim", "POST dkim activate", "POST dkim revoke",
                                 "DELETE domain"}
      /\ Changing.smtpKeys = {"POST smtp-keys", "POST smtp-keys revoke",
                              "DELETE domain"}
      /\ Changing.policy = {"PUT policy", "DELETE domain"}
      /\ Changing.queue = {"POST queue retry", "POST queue hold", "POST queue release",
                           "DELETE queue message", "POST queue flush"}
      /\ Changing.domains = {"POST domains", "DELETE domain"}
      /\ Changing.certificate = {"POST tls"}
      /\ Changing.settings = {"PUT config"}
  BY DEF Changing
<1> QED
  BY <1>1 DEF ClosedToAuditors, Operated, Administered

LEMMA NamedFit ==
  ASSUME NEW roles, NEW own, NEW routes,
         "auditor" \in roles => routes \cap ClosedToAuditors = {},
         "user" \in roles => routes \subseteq Personal,
         roles \subseteq Operators \/ routes \cap Operated = {},
         roles = {"admin"} \/ routes \cap Administered = {}
  PROVE  \A x \in Named(roles, own, routes) : RouteFits(x)
<1> SUFFICES ASSUME NEW r \in routes
             PROVE  RouteFits([route |-> r, roles |-> roles, own |-> own])
  BY DEF Named
<1> DEFINE x == [route |-> r, roles |-> roles, own |-> own]
<1>1. x.route = r /\ x.roles = roles
  OBVIOUS
<1> HIDE DEF x
<1>2. RouteFits(x)
  BY <1>1 DEF RouteFits
<1> QED
  BY <1>2 DEF x

(* The routes of NewRouter, group by group. *)
LEMMA RoutesFit == \A x \in Routes : RouteFits(x)
<1>1. /\ "auditor" \in Staff /\ "user" \notin Staff /\ "auditor" \notin Operators
      /\ "user" \notin Operators /\ "auditor" \in Roles /\ "user" \in Roles
      /\ {"admin"} \subseteq Operators
  BY DEF Staff, Operators, Roles
<1>2. \A x \in DomainRoutes : RouteFits(x)
  <2> DEFINE read == {"GET domains", "GET domain", "GET doctor", "GET dns", "GET dkim",
                      "GET smtp-keys", "GET tls", "GET policy"}
             act == {"POST dkim", "POST dkim verify", "POST dkim activate",
                     "POST smtp-keys", "POST smtp-keys revoke", "PUT policy"}
             manage == {"POST domains", "DELETE domain", "POST dkim revoke", "POST tls"}
  <2>1. DomainRoutes = Named(Staff, FALSE, read) \cup Named(Operators, FALSE, act)
                         \cup Named({"admin"}, FALSE, manage)
    BY Zenon DEF DomainRoutes
  <2>2. /\ read \cap ClosedToAuditors = {} /\ read \cap Operated = {}
        /\ (read \cup act) \cap Administered = {}
    BY ChangingRoutes
  <2> HIDE DEF read, act, manage
  <2>3. \A x \in Named(Staff, FALSE, read) : RouteFits(x)
    BY <1>1, <2>2, NamedFit
  <2>4. \A x \in Named(Operators, FALSE, act) : RouteFits(x)
    BY <1>1, <2>2, NamedFit
  <2>5. \A x \in Named({"admin"}, FALSE, manage) : RouteFits(x)
    BY <1>1, NamedFit
  <2> QED
    BY <2>1, <2>3, <2>4, <2>5
<1>3. \A x \in MailboxRoutes : RouteFits(x)
  <2> DEFINE own == {"GET mailbox", "GET aliases", "GET quota"}
             act == {"POST mailboxes", "POST suspend", "POST resume", "POST provision",
                     "POST aliases", "DELETE alias", "PUT quota", "POST quota reconcile"}
  <2>1. MailboxRoutes = Named(Staff, FALSE, {"GET mailboxes"}) \cup Named(Roles, TRUE, own)
                          \cup Named(Operators \cup {"user"}, TRUE, {"POST password"})
                          \cup Named(Operators, FALSE, act)
                          \cup Named({"admin"}, FALSE, {"DELETE mailbox"})
    BY Zenon DEF MailboxRoutes
  <2>2. /\ (own \cup {"GET mailboxes"}) \cap ClosedToAuditors = {}
        /\ (own \cup {"GET mailboxes", "POST password"}) \cap Operated = {}
        /\ (own \cup act \cup {"GET mailboxes", "POST password"}) \cap Administered = {}
    BY ChangingRoutes
  <2>3. own \cup {"POST password"} \subseteq Personal
    BY DEF Personal
  <2> HIDE DEF own, act
  <2>4. \A x \in Named(Staff, FALSE, {"GET mailboxes"}) : RouteFits(x)
    BY <1>1, <2>2, NamedFit
  <2>5. \A x \in Named(Roles, TRUE, own) : RouteFits(x)
    BY <1>1, <2>2, <2>3, NamedFit
  <2>6. \A x \in Named(Operators \cup {"user"}, TRUE, {"POST password"}) : RouteFits(x)
    BY <1>1, <2>2, <2>3, NamedFit
  <2>7. \A x \in Named(Operators, FALSE, act) : RouteFits(x)
    BY <1>1, <2>2, NamedFit
  <2>8. \A x \in Named({"admin"}, FALSE, {"DELETE mailbox"}) : RouteFits(x)
    BY <1>1, NamedFit
  <2> QED
    BY <2>1, <2>4, <2>5, <2>6, <2>7, <2>8
<1>4. \A x \in SystemRoutes : RouteFits(x)
  <2> DEFINE read == {"GET providers", "GET ldap status", "POST ldap doctor", "GET queue",
                      "GET queue message", "GET config", "GET system status",
                      "GET system doctor"}
             act == {"POST queue retry", "POST queue hold", "POST queue release"}
             manage == {"POST ldap sync", "DELETE queue message", "POST queue flush", "PUT config"}
  <2>1. SystemRoutes = Named(Staff, FALSE, read) \cup Named(Operators, FALSE, act)
                         \cup Named({"admin"}, FALSE, manage)
                         \cup Named({"admin", "auditor"}, FALSE, {"GET audit"})
    BY Zenon DEF SystemRoutes
  <2>2. /\ (read \cup {"GET audit"}) \cap ClosedToAuditors = {}
        /\ (read \cup {"GET audit"}) \cap Operated = {}
        /\ (read \cup act \cup {"GET audit"}) \cap Administered = {}
    BY ChangingRoutes
  <2> HIDE DEF read, act, manage
  <2>3. \A x \in Named(Staff, FALSE, read) : RouteFits(x)
    BY <1>1, <2>2, NamedFit
  <2>4. \A x \in Named(Operators, FALSE, act) : RouteFits(x)
    BY <1>1, <2>2, NamedFit
  <2>5. \A x \in Named({"admin"}, FALSE, manage) : RouteFits(x)
    BY <1>1, NamedFit
  <2>6. \A x \in Named({"admin", "auditor"}, FALSE, {"GET audit"}) : RouteFits(x)
    BY <2>2, NamedFit
  <2> QED
    BY <2>1, <2>3, <2>4, <2>5, <2>6
<1>5. \A x \in WebmailRoutes : RouteFits(x)
  <2> DEFINE read == {"GET folders", "GET messages", "GET message", "GET attachment"}
             act == {"POST send", "PUT read", "POST move", "DELETE message"}
  <2>1. WebmailRoutes = Named(Roles, FALSE, read) \cup Named(Operators \cup {"user"}, FALSE, act)
    BY Zenon DEF WebmailRoutes
  <2>2. /\ read \cap ClosedToAuditors = {}
        /\ (read \cup act) \cap Operated = {} /\ (read \cup act) \cap Administered = {}
    BY ChangingRoutes
  <2> HIDE DEF read, act
  <2>3. ASSUME NEW r \in read PROVE r \in Personal
    <3> DEFINE x == [route |-> r, roles |-> Roles, own |-> FALSE]
    <3>1. x \in WebmailRoutes
      BY <2>1 DEF Named
    <3>2. x.route = r
      OBVIOUS
    <3> HIDE DEF x
    <3> QED
      BY <3>1, <3>2 DEF Personal
  <2>4. ASSUME NEW r \in act PROVE r \in Personal
    <3> DEFINE x == [route |-> r, roles |-> Operators \cup {"user"}, own |-> FALSE]
    <3>1. x \in WebmailRoutes
      BY <2>1 DEF Named
    <3>2. x.route = r
      OBVIOUS
    <3> HIDE DEF x
    <3> QED
      BY <3>1, <3>2 DEF Personal
  <2>5. \A x \in Named(Roles, FALSE, read) : RouteFits(x)
    BY <1>1, <2>2, <2>3, NamedFit
  <2>6. \A x \in Named(Operators \cup {"user"}, FALSE, act) : RouteFits(x)
    BY <1>1, <2>2, <2>4, NamedFit
  <2> QED
    BY <2>1, <2>5, <2>6
<1>6. \A x \in ProfileRoutes : RouteFits(x)
  <2> DEFINE own == {"POST logout", "GET me"}
  <2>1. ProfileRoutes = Named(Roles, FALSE, own)
    BY Zenon DEF ProfileRoutes
  <2>2. own \cap ClosedToAuditors = {} /\ own \cap Operated = {} /\ own \cap Administered = {}
    BY ChangingRoutes
  <2> HIDE DEF own
  <2>3. ASSUME NEW r \in own PROVE r \in Personal
    <3> DEFINE x == [route |-> r, roles |-> Roles, own |-> FALSE]
    <3>1. x \in ProfileRoutes
      BY <2>1 DEF Named
    <3>2. x.route = r
      OBVIOUS
    <3> HIDE DEF x
    <3> QED
      BY <3>1, <3>2 DEF Personal
  <2> QED
    BY <1>1, <2>1, <2>2, <2>3, NamedFit
<1> QED
  BY <1>2, <1>3, <1>4, <1>5, <1>6 DEF Routes

(* Every request that can be made. *)
Requests ==
  [route : Routes, valid : BOOLEAN, target : Accounts \cup {NoTarget},
   claims : [email : Accounts, role : Roles]]

(* RequireRole and RequireMailboxOwnership, for every route, token and     *)
(* target: auditors change nothing but sessions and what opening their own *)
(* mail does, users stay with their own account, operators change what     *)
(* belongs to the server and administrators alone what is left to them.    *)
THEOREM Access ==
  ASSUME NEW r \in Requests, r.route.own <=> r.target # NoTarget
  PROVE  AuditorsOnlyRead(r) /\ UsersStayHome(r) /\ StaffManage(r)
<1>1. r.route \in Routes /\ r.claims.role \in Roles
  BY DEF Requests
<1>2. RouteFits(r.route)
  BY <1>1, RoutesFit
<1>3. Authorized(r) => r.claims.role = "admin" \/ r.claims.role \in r.route.roles
  BY DEF Authorized, RequireRole
<1>4. AuditorsOnlyRead(r)
  BY <1>2, <1>3 DEF RouteFits, AuditorsOnlyRead, ClosedToAuditors
<1>5. StaffManage(r)
  BY <1>2, <1>3 DEF RouteFits, StaffManage, Operators
<1>6. UsersStayHome(r)
  <2> SUFFICES ASSUME Authorized(r), r.claims.role = "user"
               PROVE  /\ r.route.route \in Personal \ Operated
                      /\ r.target \in {NoTarget, r.claims.email}
    BY DEF UsersStayHome
  <2>1. r.route.route \in Personal \ Operated
    BY <1>2, <1>3 DEF RouteFits, Operators
  <2>2. r.target \in {NoTarget, r.claims.email}
    BY DEF Authorized, RequireMailboxOwnership, Staff
  <2> QED
    BY <2>1, <2>2
<1> QED
  BY <1>4, <1>5, <1>6

-----------------------------------------------------------------------------
(* The composition that TLC runs: a behaviour is about one topic, and the  *)
(* argument of a pure function stays what it was.                          *)

allvars == <<ratevars, policyvars, scanvars, backupvars, topic, sample>>

SampleFits ==
  /\ topic = "spf" => sample \in SPFSamples
  /\ topic = "verdict" => sample \in EvaluationSamples
  /\ topic = "lines" => sample \in LineSamples
  /\ topic = "access" => sample \in RequestSamples
  /\ topic = "quota" => sample \in (0..21) \X (0..20)

LEMMA SamplesStay == Spec => []SampleFits
<1>1. Init => SampleFits
  BY DEF Init, SampleFits
<1>2. SampleFits /\ [Next]_allvars => SampleFits'
  <2> SUFFICES ASSUME SampleFits, [Next]_allvars PROVE SampleFits'
    OBVIOUS
  <2>1. topic' = topic /\ sample' = sample
    BY DEF Next, allvars
  <2> QED
    BY <2>1, Zenon DEF SampleFits
<1> QED
  BY <1>1, <1>2, PTL DEF Spec, allvars

(* Each module's part of a step is a step of that module, or none. *)
LEMMA PartsStep ==
  ASSUME [Next]_allvars
  PROVE  [RateNext]_ratevars /\ [PolicyNext]_policyvars /\ [ScanNext]_scanvars /\ [BackupNext]_backupvars
<1>1. CASE UNCHANGED allvars
  BY <1>1, Zenon DEF allvars
<1>2. CASE Next
  <2>1. APINext \/ Tick \/ InboundNext \/ Evict => RateNext
    BY Zenon DEF RateNext, APINext
  <2> QED
    BY <1>2, <2>1, Zenon DEF Next
<1> QED
  BY <1>1, <1>2

LEMMA PartsImplemented == Spec => RateSpec /\ PolicySpec /\ ScanSpec /\ BackupSpec
<1>1. Init => RateInit /\ PolicyInit /\ ScanInit /\ BackupInit
  BY Zenon DEF Init
<1>2. [Next]_allvars => /\ [RateNext]_ratevars /\ [PolicyNext]_policyvars
                        /\ [ScanNext]_scanvars /\ [BackupNext]_backupvars
  BY PartsStep
<1> QED
  BY <1>1, <1>2, PTL DEF Spec, allvars, RateSpec, PolicySpec, ScanSpec, BackupSpec

(* Windows, policies, walks and archives stay in their types. *)
THEOREM PoliciesTypes == Spec => []TypeOK
<1>1. RateTypeOK /\ PolicyTypeOK /\ ScanTypeOK /\ BackupTypeOK => TypeOK
  BY Zenon DEF TypeOK
<1> QED
  BY <1>1, PartsImplemented, RateTypeCorrect, PolicyTypeCorrect, ScanTypeCorrect, BackupTypeCorrect, PTL

(* The usage of a mailbox: a finished walk and the usage stored from it    *)
(* are off by messages that changed meanwhile, or that an unreported error *)
(* hid, and by no others; and a mailbox that ComputeStatus calls full is   *)
(* refused by CheckCanAccept.                                              *)
THEOREM AccountingStaysRight == Spec => []AccountingHolds
<1>1. SampleFits /\ StillMailIsMet /\ UsageIsExplained => AccountingHolds
  <2> SUFFICES ASSUME SampleFits, topic = "quota" PROVE FullMeansRefused(sample[1], sample[2])
    BY DEF AccountingHolds
  <2>1. sample \in (0..21) \X (0..20)
    BY Zenon DEF SampleFits
  <2>2. sample[1] \in Nat /\ sample[2] \in Nat
    BY <2>1
  <2> QED
    BY <2>2, FullIsRefused
<1> QED
  BY <1>1, SamplesStay, PartsImplemented, WalksMeetStillMail, UsageStaysExplained, PTL

LEMMA SPFSampleTerms ==
  ASSUME NEW r \in SPFSamples PROVE r.terms \in Seq([q : {"+", "-", "~", "?"}, net : {{"ip"}, {"other"}, {"ip", "other"}}])
<1> DEFINE R == [q : {"+", "-", "~", "?"}, net : {{"ip"}, {"other"}, {"ip", "other"}}]
           Short == UNION {[1..n -> Terms] : n \in 0..2}
           Some == [q : {"+", "-"}, net : {{"ip"}, {"other"}}]
           Long == [1..3 -> Some]
<1>1. Terms \subseteq R /\ Some \subseteq R
  BY DEF Terms
<1> HIDE DEF R, Some
<1>2. Short \subseteq Seq(R)
  <2> SUFFICES ASSUME NEW n \in 0..2, NEW s \in [1..n -> Terms] PROVE s \in Seq(R)
    OBVIOUS
  <2> QED
    BY <1>1
<1>3. Long \subseteq Seq(R)
  <2>1. ASSUME NEW n \in 0..3, NEW s \in [1..n -> Some] PROVE s \in Seq(R)
    BY <1>1
  <2>2. 3 \in 0..3
    OBVIOUS
  <2> QED
    BY <2>1, <2>2, Zenon
<1>4. r.terms \in Short \cup Long
  <2> HIDE DEF Short, Long
  <2>1. SPFSamples = [version : {"v=spf1", "empty", "text"}, terms : Short] \cup [version : {"v=spf1"}, terms : Long]
    BY Zenon DEF SPFSamples, Short, Long, Some
  <2> QED
    BY <2>1
<1> QED
  BY <1>2, <1>3, <1>4 DEF R

Labels == {"example", "com", "mail", "news", "badexample"}

LEMMA EvaluationSampleTypes ==
  ASSUME NEW ev \in EvaluationSamples
  PROVE  /\ ev.from \in Seq(Labels) /\ ev.spf.domain \in Seq(Labels) /\ ev.dkim.domain \in Seq(Labels)
         /\ ev.score \in Nat /\ ev.spam \in Nat /\ ev.reject \in Nat /\ ev.size \in Nat
         /\ ev.clean \in BOOLEAN /\ ev.known \in BOOLEAN
<1> DEFINE Ids == [status : {"pass", "fail"}, domain : Seq(Labels)]
           Pols == {"none", "quarantine", "reject"}
           Evs == [from : Seq(Labels), spf : Ids, dkim : Ids, policy : Pols,
                   score : Nat, spam : Nat, reject : Nat, clean : BOOLEAN, known : BOOLEAN, size : Nat]
<1>1. com \in Seq(Labels) /\ <<"mail">> \o com \in Seq(Labels) /\ <<"news">> \o com \in Seq(Labels)
  <2>1. com \in Seq(Labels) /\ <<"mail">> \in Seq(Labels) /\ <<"news">> \in Seq(Labels)
    BY DEF com, Labels
  <2> QED
    BY <2>1
<1>2. <<>> \in Seq(Labels) /\ <<"badexample", "com">> \in Seq(Labels)
  BY DEF Labels
<1>3. DomainNames \subseteq Seq(Labels)
  BY <1>1, <1>2 DEF DomainNames
<1> DEFINE F1 == {com, <<"mail">> \o com}
           F2 == {com}
           A == [status |-> "pass", domain |-> com]
           B == [status |-> "fail", domain |-> <<>>]
           Sizes == {MaxSize - 1, MaxSize, MaxSize + 1}
<1>4. Identity \subseteq Ids /\ A \in Ids /\ B \in Ids
  BY <1>1, <1>2, <1>3 DEF Identity
<1>5. F1 \subseteq Seq(Labels) /\ F2 \subseteq Seq(Labels)
  BY <1>1
<1>6. Sizes \subseteq Nat
  BY DEF MaxSize
<1> HIDE DEF Ids, F1, F2, A, B, Sizes, Pols
<1>7. EvaluationSamples =
        [from : F1, spf : Identity, dkim : Identity, policy : Pols,
         score : {0, 6, 15}, spam : {0, 6}, reject : {0, 15}, clean : {TRUE}, known : {TRUE}, size : {0}]
        \cup
        [from : F2, spf : {A}, dkim : {B}, policy : {"none", "reject"},
         score : {0, 6, 15}, spam : {0, 6}, reject : {0, 15}, clean : BOOLEAN, known : BOOLEAN, size : Sizes]
  BY Zenon DEF EvaluationSamples, F1, F2, A, B, Sizes, Pols
<1>8. /\ ev.from \in F1 \cup F2 /\ ev.spf \in Identity \cup {A} /\ ev.dkim \in Identity \cup {B}
      /\ ev.score \in {0, 6, 15} /\ ev.spam \in {0, 6} /\ ev.reject \in {0, 15}
      /\ ev.clean \in BOOLEAN /\ ev.known \in BOOLEAN /\ ev.size \in Sizes \cup {0}
  BY <1>7
<1>9. \A x \in Ids : x.domain \in Seq(Labels)
  BY DEF Ids
<1>10. ev.from \in Seq(Labels)
  BY <1>5, <1>8
<1>11. ev.spf \in Ids /\ ev.dkim \in Ids
  BY <1>4, <1>8
<1>12. ev.score \in Nat /\ ev.spam \in Nat /\ ev.reject \in Nat
  BY <1>8
<1>13. ev.size \in Nat
  <2>1. 0 \in Nat
    OBVIOUS
  <2> QED
    BY <1>6, <1>8, <2>1, Zenon
<1> QED
  BY <1>8, <1>9, <1>10, <1>11, <1>12, <1>13, Zenon

LEMMA LineSampleTypes == LineSamples \subseteq Seq(LineKinds)
<1> SUFFICES ASSUME NEW n \in 0..6, NEW s \in [1..n -> LineKinds] PROVE s \in Seq(LineKinds)
  BY DEF LineSamples
<1> QED
  OBVIOUS

(* The inbound checks, at the sample of the behaviour.  The lemmas behind  *)
(* it are about every record, every triple of domains and every header.    *)
THEOREM InboundStaysRight == Spec => []InboundHolds
<1>1. SampleFits => InboundHolds
  <2> SUFFICES ASSUME SampleFits PROVE InboundHolds
    OBVIOUS
  <2>1. topic = "spf" => SPFFirstMatch("ip", sample)
    <3> SUFFICES ASSUME topic = "spf" PROVE SPFFirstMatch("ip", sample)
      OBVIOUS
    <3>1. sample \in SPFSamples
      BY Zenon DEF SampleFits
    <3>2. sample.terms \in Seq([q : {"+", "-", "~", "?"}, net : {{"ip"}, {"other"}, {"ip", "other"}}])
      BY <3>1, SPFSampleTerms, Zenon
    <3> QED
      BY <3>2, SPFHolds, Zenon
  <2>2. topic = "verdict" => ForgeryIsKeptOut(sample) /\ DeliveredPassedAll(sample)
    <3> SUFFICES ASSUME topic = "verdict" PROVE ForgeryIsKeptOut(sample) /\ DeliveredPassedAll(sample)
      OBVIOUS
    <3>1. sample \in EvaluationSamples
      BY Zenon DEF SampleFits
    <3>2. /\ sample.from \in Seq(Labels) /\ sample.spf.domain \in Seq(Labels)
          /\ sample.dkim.domain \in Seq(Labels)
          /\ sample.score \in Nat /\ sample.spam \in Nat /\ sample.reject \in Nat /\ sample.size \in Nat
          /\ sample.clean \in BOOLEAN /\ sample.known \in BOOLEAN
      BY <3>1, EvaluationSampleTypes, Zenon
    <3>3. ForgeryIsKeptOut(sample)
      BY <3>2, ForgeryKeptOut, Zenon
    <3>4. DeliveredPassedAll(sample)
      BY <3>2, DeliveredPassed, Zenon
    <3> QED
      BY <3>3, <3>4
  <2>3. topic = "lines" => ForgedResultsGo(sample)
    <3> SUFFICES ASSUME topic = "lines" PROVE ForgedResultsGo(sample)
      OBVIOUS
    <3>1. sample \in Seq(LineKinds)
      BY LineSampleTypes, Zenon DEF SampleFits
    <3> QED
      BY <3>1, ForgedGo, Zenon
  <2> QED
    BY <2>1, <2>2, <2>3, Zenon DEF InboundHolds
<1> QED
  BY <1>1, SamplesStay, PTL

(* The routes of NewRouter, with every token: what each role can change. *)
THEOREM AccessStaysRight == Spec => []AccessHolds
<1>1. SampleFits => AccessHolds
  <2> SUFFICES ASSUME SampleFits, topic = "access"
               PROVE  AuditorsOnlyRead(sample) /\ UsersStayHome(sample) /\ StaffManage(sample)
    BY Zenon DEF AccessHolds
  <2>1. sample \in RequestSamples
    BY Zenon DEF SampleFits
  <2>2. sample \in Requests /\ (sample.route.own <=> sample.target # NoTarget)
    BY <2>1 DEF RequestSamples, Requests
  <2> QED
    BY <2>2, Access, Zenon
<1> QED
  BY <1>1, SamplesStay, PTL

(* The limiters, in the composition. *)
THEOREM LimitsStayExact == Spec => []LimitIsExact
BY PartsImplemented, LimitsAreExact, PTL

(* The policy row and the archives, in the composition. *)
THEOREM PoliciesAreSound == Spec => [](PoliciesAreKept /\ ArchivesAreSound)
BY PartsImplemented, PoliciesStayKept, ArchivesStaySound, PTL

=============================================================================
