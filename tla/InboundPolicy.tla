---------------------------- MODULE InboundPolicy ----------------------------
(***************************************************************************)
(* The verdict on an inbound message: SPF, DMARC alignment, the pipeline   *)
(* of gates, and the removal of forged result headers.                     *)
(*                                                                         *)
(* A domain is the sequence of its labels, so that "ends in a dot and the  *)
(* other domain" is the suffix of a sequence.  A term of an SPF record is  *)
(* its qualifier and the addresses it matches; "mx", "a", unknown terms    *)
(* and malformed addresses match none.  A line of a message is its kind.   *)
(***************************************************************************)
EXTENDS Naturals, Sequences, FiniteSets, SequencesExt

Verdict(q) ==
  CASE q = "+" -> "pass" [] q = "-" -> "fail" [] q = "~" -> "softfail" [] q = "?" -> "neutral"

(* EvaluateSPF: the loop over the terms returns at the first match. *)
EvaluateSPF(client, record) ==
  LET n == Len(record.terms)
      from[i \in 1..(n + 1)] ==
        IF i > n THEN "neutral"
        ELSE IF client \in record.terms[i].net THEN Verdict(record.terms[i].q)
        ELSE from[i + 1]
  IN  IF record.version = "empty" THEN "none"
      ELSE IF record.version # "v=spf1" THEN "permerror"
      ELSE from[1]

(* "sub.example.com" is also taken to align with "example.net". *)
MutIsDomainAligned(auth, from) ==
  auth # <<>> /\ from # <<>> /\ auth[Len(auth)] = from[Len(from)]

(* IsDomainAligned, relaxed: equal, or one lies below the other. *)
IsDomainAligned(auth, from) ==
  auth # <<>> /\ from # <<>> /\ (IsSuffix(from, auth) \/ IsSuffix(auth, from))

Aligned(x, from) == x.status = "pass" /\ IsDomainAligned(x.domain, from)

(* EvaluateDMARC; an absent policy is "none", an unknown one delivers. *)
EvaluateDMARC(from, spf, dkim, policy) ==
  IF Aligned(spf, from) \/ Aligned(dkim, from)
  THEN [status |-> "pass", policy |-> policy, action |-> "deliver"]
  ELSE [status |-> "fail", policy |-> policy,
        action |-> IF policy \in {"reject", "quarantine"} THEN policy ELSE "deliver"]

MaxSize == 26214400

(* EvaluateInboundSecurity: the gates in the order of the code.  A         *)
(* threshold of zero switches its gate off; the spam folder is chosen      *)
(* before the DMARC policy is looked at.                                   *)
EvaluateInboundSecurity(ev, dmarc) ==
  IF ~ev.clean THEN "reject"
  ELSE IF ev.size > MaxSize THEN "reject"
  ELSE IF ev.reject > 0 /\ ev.score >= ev.reject THEN "reject"
  ELSE IF ev.spam > 0 /\ ev.score >= ev.spam THEN "junk"
  ELSE dmarc.action

(* service.Evaluate: nothing is evaluated for an unknown recipient; the    *)
(* results that are stamped on the message are those of this evaluation.   *)
Evaluate(ev) ==
  IF ~ev.known THEN [action |-> "unknown recipient", results |-> <<>>]
  ELSE LET dmarc == EvaluateDMARC(ev.from, ev.spf, ev.dkim, ev.policy)
       IN [action |-> EvaluateInboundSecurity(ev, dmarc),
           results |-> <<ev.spf.status, ev.dkim.status, dmarc.status>>]

-----------------------------------------------------------------------------
(* Lines: "result" begins, after any blanks, with one of the two header    *)
(* names; "folded" begins with a blank; "text" does neither.               *)
LineKinds == {"result", "folded", "text"}

(* One line in the pass: a result header and what is folded below it go. *)
PassLine(acc, l) ==
  IF l = "result" THEN [acc EXCEPT !.skip = TRUE]
  ELSE IF acc.skip /\ l = "folded" THEN acc
  ELSE [skip |-> FALSE, out |-> Append(acc.out, l)]

(* SanitizeUntrustedHeaders: one pass with a flag. *)
SanitizeUntrustedHeaders(lines) ==
  LET pass[i \in 0..Len(lines)] ==
        IF i = 0 THEN [skip |-> FALSE, out |-> <<>>] ELSE PassLine(pass[i - 1], lines[i])
  IN  pass[Len(lines)].out

-----------------------------------------------------------------------------
(* EvaluateSPF passes exactly when a passing term matches and no term in   *)
(* front of it does: a record that ends in -all lets nobody else through.  *)
SPFFirstMatch(client, record) ==
  LET t == record.terms
      first(i) == client \in t[i].net /\ \A j \in 1..(i - 1) : client \notin t[j].net
      v == EvaluateSPF(client, record)
  IN  record.version = "v=spf1" =>
        /\ (v = "pass") <=> \E i \in DOMAIN t : first(i) /\ t[i].q = "+"
        /\ (v = "fail") <=> \E i \in DOMAIN t : first(i) /\ t[i].q = "-"

(* A message whose From domain publishes p=reject, and for which no        *)
(* passing SPF or DKIM identity is that domain, one above or one below it, *)
(* never reaches the inbox, whatever its score and the thresholds are.     *)
(* (It may reach the spam folder: the junk gate comes first.)              *)
ForgeryIsKeptOut(ev) ==
  LET below(d, e) == \E n \in 0..Len(d) : SubSeq(d, n + 1, Len(d)) = e
      related(d) == d # <<>> /\ (below(d, ev.from) \/ below(ev.from, d))
      vouched == \E x \in {ev.spf, ev.dkim} : x.status = "pass" /\ related(x.domain)
  IN  (ev.policy = "reject" /\ ~vouched) => Evaluate(ev).action # "deliver"

(* What is delivered passed every gate: no malware, within the size limit, *)
(* below both thresholds that are set, and a recipient that exists.        *)
DeliveredPassedAll(ev) ==
  Evaluate(ev).action = "deliver" =>
    /\ ev.known /\ ev.clean /\ ev.size <= MaxSize
    /\ \A limit \in {ev.spam, ev.reject} : limit = 0 \/ ev.score < limit

(* The pass over the lines removes every result header with its folded     *)
(* lines and nothing else: a line survives iff the nearest line before it  *)
(* (itself included) that is not folded is no result header.               *)
ForgedResultsGo(lines) ==
  LET head(i) == {j \in 1..i : lines[j] # "folded" /\ \A k \in (j + 1)..i : lines[k] = "folded"}
      stays(i) == \A j \in head(i) : lines[j] # "result"
      kept == [k \in {i \in DOMAIN lines : stays(i)} |-> lines[k]]
      out == SanitizeUntrustedHeaders(lines)
  IN  /\ Len(out) = Cardinality(DOMAIN kept)
      /\ \A i \in DOMAIN kept : out[Cardinality({j \in DOMAIN kept : j <= i})] = kept[i]
=============================================================================
