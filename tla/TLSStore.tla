------------------------------ MODULE TLSStore ------------------------------
(***************************************************************************)
(* The certificate and the private key of one host, two files that Install *)
(* replaces one after the other, while other installations run, readers    *)
(* (Validate, Load, the doctor) read the two files one after the other and *)
(* the daemons reload them.                                                *)
(***************************************************************************)
EXTENDS Integers, FiniteSets

CONSTANTS
  Absent,
  Garbage,      \* bytes that are neither a certificate nor a key
  Installers,   \* processes that install: HTTP requests or mailopen commands
  PublicKeys,   \* key pairs
  Daemons,      \* Postfix and Dovecot: they load the files independently
  Validities,   \* records [from, until], in days
  MaxNow,       \* how far the clock goes
  MaxBreaks     \* writes that fail and processes that die

VARIABLES
  certFile, keyFile,   \* Absent or what the file holds
  inst,                \* per installer: the request
  view,                \* one reader: what it has read and concluded
  served,              \* per daemon: Absent or whether the pair it loaded fits
  torn,                \* history: the two files may be of different installations
  now, breaks

tlsvars == <<certFile, keyFile, inst, view, served, torn, now, breaks>>

(* A certificate: its public key, whether it names the host, when it is    *)
(* valid.                                                                  *)
Certificates == [pub : PublicKeys, host : BOOLEAN, valid : Validities]

ASSUME TLSAssumption ==
  /\ MaxNow \in Nat /\ MaxBreaks \in Nat
  /\ Validities \subseteq [from : Int, until : Int]
  /\ Absent \notin Certificates \cup PublicKeys \cup {Garbage, "torn", "fits", "mismatch"}
  /\ Garbage \notin Certificates \cup PublicKeys

(* ParseCertificates: at least one certificate, all of them readable. *)
ParseCertificates(c) == c # Garbage

(* ParsePrivateKey: one of three encodings. *)
ParsePrivateKey(k) == k # Garbage

(* PublicKeyMatches on the first certificate of the chain. *)
PublicKeyMatches(c, k) == c.pub = k

Expired(c) == now < c.valid.from \/ now > c.valid.until

MutValidateBytes(c, k) ==
  IF ~ParseCertificates(c) THEN "invalid PEM"
  ELSE IF ~ParsePrivateKey(k) THEN "invalid key"
  ELSE IF ~c.host THEN "wrong host"
  ELSE IF Expired(c) THEN "expired"
  ELSE "ok"

(* ValidateBytes: the first check that fails gives the verdict. *)
ValidateBytes(c, k) ==
  IF ~ParseCertificates(c) THEN "invalid PEM"
  ELSE IF ~ParsePrivateKey(k) THEN "invalid key"
  ELSE IF ~PublicKeyMatches(c, k) THEN "mismatch"
  ELSE IF ~c.host THEN "wrong host"
  ELSE IF Expired(c) THEN "expired"
  ELSE "ok"

NoInstall == [pc |-> "idle", cert |-> Absent, key |-> Absent, cli |-> FALSE, alone |-> TRUE]
NoView == [pc |-> "idle", cert |-> Absent, fits |-> FALSE, calm |-> TRUE, days |-> 0, verdict |-> "none"]

TLSInit ==
  /\ certFile = Absent /\ keyFile = Absent
  /\ inst = [i \in Installers |-> NoInstall]
  /\ view = NoView
  /\ served = [d \in Daemons |-> Absent]
  /\ torn = FALSE /\ now = 0 /\ breaks = 0

Busy == {i \in Installers : inst[i].pc # "idle"}

-----------------------------------------------------------------------------
(* The request and its validation, before anything is written. *)
Accept(i, c, k, cli) ==
  /\ inst[i].pc = "idle"
  /\ ValidateBytes(c, k) = "ok"
  /\ inst' = [j \in Installers |->
       IF j = i THEN [pc |-> "key", cert |-> c, key |-> k, cli |-> cli, alone |-> Busy = {}]
       ELSE IF j \in Busy THEN [inst[j] EXCEPT !.alone = FALSE] ELSE inst[j]]
  /\ UNCHANGED <<certFile, keyFile, view, served, torn, now, breaks>>

Inputs == [cert : Certificates \cup {Garbage}, key : PublicKeys \cup {Garbage}]

(* POST /domains/{domain}/tls: installs and tells no daemon. *)
InstallRequest(i) == \E in \in Inputs : Accept(i, in.cert, in.key, FALSE)

(* mailopen tls install: reads the two files and installs them. *)
InstallCommand(i) == \E in \in Inputs : Accept(i, in.cert, in.key, TRUE)

(* A reader that is under way no longer sees one installation. *)
Disturb(v) == IF v.pc = "idle" THEN v ELSE [v EXCEPT !.calm = FALSE]

(* atomicWriteSecret of the key: a temporary file, then the rename. *)
InstallKey(i) ==
  /\ inst[i].pc = "key"
  /\ keyFile' = inst[i].key
  /\ torn' = TRUE
  /\ inst' = [inst EXCEPT ![i].pc = "cert"]
  /\ view' = Disturb(view)
  /\ UNCHANGED <<certFile, served, now, breaks>>

(* atomicWriteSecret of the certificate; alone, the pair is whole again. *)
InstallCert(i) ==
  /\ inst[i].pc = "cert"
  /\ certFile' = inst[i].cert
  /\ torn' = ~inst[i].alone
  /\ inst' = [inst EXCEPT ![i] = IF @.cli THEN [@ EXCEPT !.pc = "reload"] ELSE NoInstall]
  /\ view' = Disturb(view)
  /\ UNCHANGED <<keyFile, served, now, breaks>>

(* A write fails, or the process dies: what was renamed stays. *)
InstallBreaks(i) ==
  /\ inst[i].pc # "idle" /\ breaks < MaxBreaks
  /\ breaks' = breaks + 1
  /\ inst' = [inst EXCEPT ![i] = NoInstall]
  /\ UNCHANGED <<certFile, keyFile, view, served, torn, now>>

(* What a daemon gets that loads the two files now. *)
Pair ==
  IF torn THEN "torn" ELSE IF PublicKeyMatches(certFile, keyFile) THEN "fits" ELSE "mismatch"

(* The command reloads Postfix, then Dovecot, and drops both errors: each  *)
(* of them may keep what it has.                                           *)
ReloadDaemons(i) ==
  /\ inst[i].pc = "reload"
  /\ \E D \in SUBSET Daemons :
       served' = [d \in Daemons |-> IF d \in D THEN Pair ELSE served[d]]
  /\ inst' = [inst EXCEPT ![i] = NoInstall]
  /\ UNCHANGED <<certFile, keyFile, view, torn, now, breaks>>

(* A daemon starts, or an administrator reloads it. *)
DaemonLoads ==
  /\ certFile # Absent /\ keyFile # Absent
  /\ \E d \in Daemons : served' = [served EXCEPT ![d] = Pair]
  /\ UNCHANGED <<certFile, keyFile, inst, view, torn, now, breaks>>

-----------------------------------------------------------------------------
(* Validate, Load and the doctor read the certificate, then the key. *)
ReadCert ==
  /\ view.pc = "idle"
  /\ view' = IF certFile = Absent
               THEN [NoView EXCEPT !.verdict = "not found"]
               ELSE [NoView EXCEPT !.pc = "key", !.cert = certFile, !.calm = ~torn]
  /\ UNCHANGED <<certFile, keyFile, inst, served, torn, now, breaks>>

(* FilesystemProvider.Validate *)
ReadKey ==
  /\ view.pc = "key"
  /\ view' = [view EXCEPT
       !.pc = "idle", !.cert = Absent,
       !.fits = keyFile # Absent /\ PublicKeyMatches(view.cert, keyFile),
       !.days = view.cert.valid.until - now,
       !.verdict = IF keyFile = Absent THEN "not found" ELSE ValidateBytes(view.cert, keyFile)]
  /\ UNCHANGED <<certFile, keyFile, inst, served, torn, now, breaks>>

(* FilesystemProvider.Load: the certificate only when it is valid. *)
Load(v) == v.verdict = "ok"

(* GET /domains/{domain}/tls: any verdict but ok is an error. *)
Get(v) == v.verdict = "ok"

(* mailopen tls validate *)
ValidateCommand(v) == IF v.verdict = "ok" THEN "VALID" ELSE "exit 1"

(* The days that are left, from the hours: int() cuts towards zero. *)
Days(hours) == IF hours >= 0 THEN hours \div 24 ELSE -((-hours) \div 24)

MutCalculateExpirationStatus(days, expired) ==
  IF expired THEN "EXPIRED"
  ELSE IF days <= 7 THEN "CRITICAL"
  ELSE IF days < 30 THEN "WARNING"
  ELSE "HEALTHY"

(* CalculateExpirationStatus *)
CalculateExpirationStatus(days, expired) ==
  IF expired \/ days <= 0 THEN "EXPIRED"
  ELSE IF days <= 7 THEN "CRITICAL"
  ELSE IF days <= 30 THEN "WARNING"
  ELSE "HEALTHY"

(* mailopen tls status: a report that stopped early has no status. *)
Status(v) ==
  CASE v.verdict = "not found" -> "MISSING"
    [] v.verdict \in {"ok", "expired"} -> CalculateExpirationStatus(v.days, v.verdict = "expired")
    [] OTHER -> "EXPIRED"

(* tls.RunDoctor: each check of the report on its own; a report that was   *)
(* cut short leaves the later fields at their zero values, and "expired"   *)
(* is the one whose zero value passes.  A configuration file that is       *)
(* missing is not looked at.                                               *)
DoctorChecks(v, conf) ==
  [exists   |-> v.verdict # "not found",
   pem      |-> v.verdict \notin {"not found", "invalid PEM"},
   private  |-> v.verdict \notin {"not found", "invalid PEM", "invalid key"},
   match    |-> v.verdict \notin {"not found", "invalid PEM", "invalid key", "mismatch"},
   hostname |-> v.verdict \in {"ok", "expired"},
   expiry   |-> v.verdict # "expired",
   config   |-> conf \in {"generated", "missing"}]

RunDoctor(v, conf) == \A c \in DOMAIN DoctorChecks(v, conf) : DoctorChecks(v, conf)[c]

(* mailopen tls doctor *)
Doctor(v, conf) == IF RunDoctor(v, conf) THEN "HEALTHY" ELSE "UNHEALTHY"

Tick ==
  /\ now < MaxNow /\ now' = now + 1
  /\ UNCHANGED <<certFile, keyFile, inst, view, served, torn, breaks>>

TLSNext ==
  \/ \E i \in Installers : InstallRequest(i) \/ InstallCommand(i) \/ InstallKey(i)
                             \/ InstallCert(i) \/ InstallBreaks(i) \/ ReloadDaemons(i)
  \/ DaemonLoads \/ ReadCert \/ ReadKey \/ Tick

TLSSpec == TLSInit /\ [][TLSNext]_tlsvars

-----------------------------------------------------------------------------
(* What the constants' comments in tls/model.go promise, in hours: the     *)
(* last day of a valid certificate already counts as expired.              *)
StatusBands(hours) ==
  CalculateExpirationStatus(Days(hours), hours < 0) =
    IF hours < 24 THEN "EXPIRED"
    ELSE IF hours < 8 * 24 THEN "CRITICAL"
    ELSE IF hours < 31 * 24 THEN "WARNING"
    ELSE "HEALTHY"

-----------------------------------------------------------------------------
(* Every variable has its type. *)
TLSTypeOK ==
  /\ certFile \in Certificates \cup {Absent}
  /\ keyFile \in PublicKeys \cup {Absent}
  /\ \A i \in Installers : inst[i].pc \in {"idle", "key", "cert", "reload"}
  /\ torn \in BOOLEAN /\ now \in 0..MaxNow /\ breaks \in 0..MaxBreaks

(* The pair on disk is one installation's, and fits, unless an             *)
(* installation stopped or was crossed between its two renames; the next   *)
(* one that runs alone to its end repairs it.  Nor does a daemon serve a   *)
(* pair that does not fit, unless it loaded the files in such a state.     *)
PairMatches ==
  /\ ~torn =>
       \/ certFile = Absent /\ keyFile = Absent
       \/ /\ certFile # Absent /\ keyFile # Absent
          /\ certFile.pub = keyFile
  /\ \A d \in Daemons : served[d] # "mismatch"

(* A reader that no installation crosses, over files that none has torn,   *)
(* finds them valid or expired; it never raises a false alarm.             *)
NoFalseAlarm ==
  view.pc = "idle" /\ view.verdict # "none" /\ view.calm
    => view.verdict \in {"ok", "expired", "not found"}

(* The doctor, the API, the loader and the status command agree: what the  *)
(* first finds healthy the second answers and the third returns, with a    *)
(* key that fits; the fourth calls it expired on its last day only.        *)
DoctorAgrees ==
  \A conf \in {"generated", "missing", "foreign"} :
    view.pc = "idle" /\ Doctor(view, conf) = "HEALTHY" /\ view.verdict # "none"
      => /\ Get(view) /\ ValidateCommand(view) = "VALID" /\ Load(view) /\ view.fits
         /\ Status(view) # "MISSING"
         /\ Status(view) = "EXPIRED" <=> view.days = 0

(* Key and certificate, replaced by two renames, are a pair unless an      *)
(* installation stopped or was crossed in between, and those who read them *)
(* in two steps neither raise a false alarm nor contradict each other.     *)
CertificatesAreSound == PairMatches /\ NoFalseAlarm /\ DoctorAgrees
=============================================================================
