----------------------------- MODULE MailPolicy -----------------------------
(***************************************************************************)
(* The SPF and DMARC policy of a domain: one row, whose two columns        *)
(* SetSPFPolicy and SetDMARCPolicy change by reading the whole row and     *)
(* writing all of it back.  PUT .../policy calls one after the other, and  *)
(* the commands call one of them; nothing keeps two requests apart.        *)
(***************************************************************************)
EXTENDS Naturals, FiniteSets

CONSTANTS
  Editors,      \* requests and commands in progress
  Policies,     \* what operators choose
  NoPolicy,     \* no row; also: the request leaves the column alone
  Initial,      \* what GetPolicy answers for a domain without a row
  Fallback,     \* what a setter writes into the other column if its read failed
  MaxDomainIds, \* how often the domain is created
  MaxReadErrors

Columns == {"spf", "dmarc"}

(* What a column may hold, and the row. *)
Values == Policies \cup {Initial, Fallback}
PolicyRows == [id : Nat, spf : Values, dmarc : Values]

ASSUME PolicyAssumption ==
  /\ MaxDomainIds \in Nat /\ MaxReadErrors \in Nat
  /\ {NoPolicy, Initial, Fallback} \cap Policies = {}
  /\ NoPolicy \notin PolicyRows

VARIABLES
  domainId,     \* the id of the domain's row, 0 if there is none
  lastId,
  policyRow,    \* the row of domain_mail_policy: [id, spf, dmarc], or NoPolicy
  editor,       \* per request: pc, what it wants, the row it read
  wanted,       \* history: the value each column was last told to take
  lost,         \* history: columns that may have lost a value, by a race or a failed read
  readErrors

policyvars == <<domainId, lastId, policyRow, editor, wanted, lost, readErrors>>

Unset == [c \in Columns |-> Initial]
Idle == [pc |-> "idle", want |-> [c \in Columns |-> NoPolicy], dom |-> 0, id |-> 0, row |-> Unset,
         fresh |-> Columns]

PolicyInit ==
  /\ domainId = 0 /\ lastId = 0 /\ policyRow = NoPolicy
  /\ editor = [e \in Editors |-> Idle]
  /\ wanted = Unset /\ lost = {} /\ readErrors = 0

(* What GET .../policy shows. *)
Shown == [c \in Columns |-> IF policyRow = NoPolicy THEN Initial ELSE policyRow[c]]

(* Requests under way remember which columns nobody wrote since they read. *)
Spoil(f, c) == [e \in Editors |-> [f[e] EXCEPT !.fresh = @ \ {c}]]

-----------------------------------------------------------------------------
CreateDomainRow ==
  /\ domainId = 0 /\ lastId < MaxDomainIds
  /\ lastId' = lastId + 1 /\ domainId' = lastId + 1
  /\ UNCHANGED <<policyRow, editor, wanted, lost, readErrors>>

(* The row of the policy goes with the row of its domain. *)
DeleteDomainRow ==
  /\ domainId # 0
  /\ domainId' = 0 /\ policyRow' = NoPolicy
  /\ wanted' = Unset /\ lost' = {}
  /\ UNCHANGED <<lastId, editor, readErrors>>

(* PUT .../policy, mailopen domain spf set and dmarc set. *)
Update(e, want) ==
  /\ editor[e].pc = "idle" /\ \E c \in Columns : want[c] # NoPolicy
  /\ editor' = [editor EXCEPT ![e] = [Idle EXCEPT !.pc = "domain", !.want = want]]
  /\ UNCHANGED <<domainId, lastId, policyRow, wanted, lost, readErrors>>

(* SPF before DMARC; a column that was not asked for is left alone. *)
Column(e) == IF editor[e].want["spf"] # NoPolicy THEN "spf" ELSE "dmarc"

(* The setter looks up the domain. *)
FindDomain(e) ==
  /\ editor[e].pc = "domain"
  /\ editor' = [editor EXCEPT ![e] =
       IF domainId = 0 THEN Idle ELSE [@ EXCEPT !.pc = "read", !.dom = domainId]]
  /\ UNCHANGED <<domainId, lastId, policyRow, wanted, lost, readErrors>>

(* The setter starts from the default row instead of the stored one. *)
MutReadPolicy(e) ==
  /\ editor[e].pc = "read" /\ domainId # 0
  /\ editor' = [editor EXCEPT ![e] =
       [@ EXCEPT !.pc = "write", !.id = domainId, !.row = Unset, !.fresh = Columns]]
  /\ UNCHANGED <<domainId, lastId, policyRow, wanted, lost, readErrors>>

(* GetPolicy resolves the name once more; its second query, for the row of *)
(* that id, is in the same step, since no other id ever gets that row.     *)
(* Any error of the two, a domain that is gone included, is answered by a  *)
(* nearly empty row for the first id.                                      *)
ReadPolicy(e) ==
  /\ editor[e].pc = "read"
  /\ \/ /\ domainId # 0
        /\ editor' = [editor EXCEPT ![e] =
             [@ EXCEPT !.pc = "write", !.id = domainId, !.row = Shown, !.fresh = Columns]]
        /\ UNCHANGED readErrors
     \/ /\ domainId = 0 \/ readErrors < MaxReadErrors
        /\ readErrors' = IF domainId = 0 THEN readErrors ELSE readErrors + 1
        /\ editor' = [editor EXCEPT ![e] =
             [@ EXCEPT !.pc = "write", !.id = editor[e].dom, !.fresh = {},
                       !.row = [c \in Columns |-> Fallback]]]
  /\ UNCHANGED <<domainId, lastId, policyRow, wanted, lost>>

(* UpsertPolicy writes both columns; the foreign key refuses an id that is *)
(* gone, and PUT stops there.                                              *)
WritePolicy(e) ==
  LET c == Column(e)
      written == [editor[e].row EXCEPT ![c] = editor[e].want[c]]
      more == c = "spf" /\ editor[e].want["dmarc"] # NoPolicy
  IN
  /\ editor[e].pc = "write"
  /\ IF editor[e].id # domainId
     THEN /\ editor' = [editor EXCEPT ![e] = Idle]
          /\ UNCHANGED <<policyRow, wanted, lost>>
     ELSE /\ policyRow' = [id |-> domainId, spf |-> written["spf"], dmarc |-> written["dmarc"]]
          /\ wanted' = [wanted EXCEPT ![c] = editor[e].want[c]]
          /\ lost' = (lost \ {c}) \cup ((Columns \ {c}) \ editor[e].fresh)
          /\ editor' = Spoil([editor EXCEPT ![e] =
               IF more THEN [@ EXCEPT !.want[c] = NoPolicy, !.pc = "domain"] ELSE Idle], c)
  /\ UNCHANGED <<domainId, lastId, readErrors>>

PolicyNext ==
  \/ CreateDomainRow \/ DeleteDomainRow
  \/ \E e \in Editors : \/ \E want \in [Columns -> Policies \cup {NoPolicy}] : Update(e, want)
                        \/ FindDomain(e) \/ ReadPolicy(e) \/ WritePolicy(e)

PolicySpec == PolicyInit /\ [][PolicyNext]_policyvars

-----------------------------------------------------------------------------
PolicyTypeOK ==
  /\ domainId \in 0..MaxDomainIds /\ lastId \in 0..MaxDomainIds /\ domainId <= lastId
  /\ Shown \in [Columns -> Values]
  /\ \A e \in Editors :
       /\ editor[e].pc \in {"idle", "domain", "read", "write"}
       /\ editor[e].want \in [Columns -> Policies \cup {NoPolicy}]
       /\ editor[e].fresh \subseteq Columns
  /\ lost \subseteq Columns /\ readErrors \in 0..MaxReadErrors

(* A column shows what it was last told to take, unless another setter     *)
(* read the row before that and wrote it back after, or wrote without      *)
(* having been able to read it: the lost update of SetSPFPolicy and        *)
(* SetDMARCPolicy has no other way to happen, in particular not between    *)
(* the two setters of one request.                                         *)
LostOnlyByRace == \A c \in Columns \ lost : Shown[c] = wanted[c]

(* The row belongs to the domain that exists: a request that began before  *)
(* the domain was deleted and created again never leaves its policy, or    *)
(* that of the old domain, to the new one by way of the old id.            *)
PolicyOfTheDomain == policyRow # NoPolicy => domainId # 0 /\ policyRow.id = domainId

(* What a setter was told is what is shown, for the domain that exists, or *)
(* it was lost to a setter that overlapped it.                             *)
PoliciesAreKept == LostOnlyByRace /\ PolicyOfTheDomain
=============================================================================
