----------------------------- MODULE MCPolicies -----------------------------
(***************************************************************************)
(* Instances of the limiters, the policies, the walks over a Maildir and   *)
(* the backup for TLC.  They share no state: a behaviour is about one of   *)
(* them, or about one argument of one of the pure functions.               *)
(***************************************************************************)
EXTENDS RateLimits, InboundPolicy, AccessControl, MailPolicy, MaildirScan, BackupArchive, TLC

VARIABLES topic, sample

(* SPF records of up to three terms, seen from the address "ip". *)
Terms == [q : {"+", "-", "~", "?"}, net : {{"ip"}, {"other"}, {"ip", "other"}}]
SPFSamples == [version : {"v=spf1", "empty", "text"}, terms : UNION {[1..n -> Terms] : n \in 0..2}]
              \cup [version : {"v=spf1"}, terms : [1..3 -> [q : {"+", "-"}, net : {{"ip"}, {"other"}}]]]

com == <<"example", "com">>
DomainNames == {<<>>, com, <<"mail">> \o com, <<"news">> \o com, <<"badexample", "com">>}
Identity == [status : {"pass", "fail"}, domain : DomainNames]
EvaluationSamples ==
  [from : {com, <<"mail">> \o com}, spf : Identity, dkim : Identity,
   policy : {"none", "quarantine", "reject"},
   score : {0, 6, 15}, spam : {0, 6}, reject : {0, 15},
   clean : {TRUE}, known : {TRUE}, size : {0}]
  \cup
  [from : {com}, spf : {[status |-> "pass", domain |-> com]},
   dkim : {[status |-> "fail", domain |-> <<>>]}, policy : {"none", "reject"},
   score : {0, 6, 15}, spam : {0, 6}, reject : {0, 15},
   clean : BOOLEAN, known : BOOLEAN, size : {MaxSize - 1, MaxSize, MaxSize + 1}]

LineSamples == UNION {[1..n -> LineKinds] : n \in 0..6}

RequestSamples ==
  {r \in [route : Routes, valid : BOOLEAN, target : Accounts \cup {NoTarget},
          claims : [email : Accounts, role : Roles]] :
     r.route.own <=> r.target # NoTarget}

Pure == {"spf", "verdict", "lines", "access", "quota"}

Init ==
  /\ RateInit /\ PolicyInit /\ ScanInit /\ BackupInit
  /\ \/ topic \in {"api", "inbound", "policy", "backup"} /\ sample = 0
        /\ place = [m \in Mails |-> "none"]
     \/ topic \in {"scan", "walk"} /\ sample = 0
     \/ /\ place = [m \in Mails |-> "none"]
        /\ \/ topic = "spf" /\ sample \in SPFSamples
           \/ topic = "verdict" /\ sample \in EvaluationSamples
           \/ topic = "lines" /\ sample \in LineSamples
           \/ topic = "access" /\ sample \in RequestSamples
           \/ topic = "quota" /\ sample \in (0..21) \X (0..20)

Next ==
  /\ \/ /\ \/ topic = "api" /\ (APINext \/ Tick)
           \/ topic = "inbound" /\ (InboundNext \/ Tick \/ Evict)
        /\ UNCHANGED <<policyvars, scanvars, backupvars>>
     \/ topic = "policy" /\ PolicyNext /\ UNCHANGED <<ratevars, scanvars, backupvars>>
     \/ /\ \/ topic = "scan" /\ ScanNext /\ \A s \in Backups : scan'[s] = IdleScan
           \/ topic = "walk" /\ ScanNext /\ \A s \in Reconcilers : scan'[s] = IdleScan
        /\ UNCHANGED <<ratevars, policyvars, backupvars>>
     \/ topic = "backup" /\ BackupNext /\ UNCHANGED <<ratevars, policyvars, scanvars>>
     \/ topic \in Pure /\ UNCHANGED <<ratevars, policyvars, scanvars, backupvars>>
  /\ UNCHANGED <<topic, sample>>

Spec == Init /\ [][Next]_<<ratevars, policyvars, scanvars, backupvars, topic, sample>>

(* Windows, policies, walks and archives stay in their types. *)
TypeOK == RateTypeOK /\ PolicyTypeOK /\ ScanTypeOK /\ BackupTypeOK

(* The inbound checks, at the sample of the behaviour: the first matching  *)
(* SPF term decides, a forged sender is kept out where its domain asks for *)
(* that, what is delivered passed every check, and no header that claims   *)
(* results of ours comes through.                                          *)
InboundHolds ==
  /\ topic = "spf" => SPFFirstMatch("ip", sample)
  /\ topic = "verdict" => ForgeryIsKeptOut(sample) /\ DeliveredPassedAll(sample)
  /\ topic = "lines" => ForgedResultsGo(sample)

(* Every route with every token: auditors change nothing but their session *)
(* and what opening their mail does, users reach their own account only,   *)
(* operators change what belongs to the server, and administrators alone   *)
(* the domains, certificates and settings and what is removed for good.    *)
AccessHolds ==
  topic = "access" => AuditorsOnlyRead(sample) /\ UsersStayHome(sample) /\ StaffManage(sample)

(* A walk over a Maildir that changes under it, the usage that is stored   *)
(* from it and the decision taken from that usage: each is off by messages *)
(* that changed meanwhile, or that an unreported error of the file system  *)
(* hid from the walk, and by no others; and a full mailbox is refused.     *)
AccountingHolds ==
  /\ StillMailIsMet /\ UsageIsExplained
  /\ topic = "quota" => FullMeansRefused(sample[1], sample[2])

Symmetry == Permutations(Mails) \cup Permutations(Reconcilers)
=============================================================================
