---------------------------- MODULE ServerConfig ----------------------------
(***************************************************************************)
(* The configuration files of Postfix and Dovecot: generated one after the *)
(* other into a directory the daemon also reads, then looked over by       *)
(* Validate and the doctors, and loaded by a reload or a restart.          *)
(* Each file is replaced by a rename; the directory as a whole is not.     *)
(* A file's content is the part of the options that it was made from.      *)
(***************************************************************************)
EXTENDS Naturals, Sequences, FiniteSets, SequencesExt

CONSTANTS
  None,
  Writers,     \* processes that run a configuration command
  Options,     \* records with the fields host, vmail and db
  BadHosts,    \* hosts whose main.cf or 10-ssl.conf the daemon refuses
  MaxFaults    \* writes that fail and processes that die

VARIABLES
  disk,        \* per service: what each file holds, None when it is missing
  job,         \* per writer: the command it runs
  daemon,      \* per service: whether it runs, how it came to its files and
               \* whether they were one whole set that it accepts
  whole,       \* history: the options the whole directory was made from, or None
  faults

confvars == <<disk, job, daemon, whole, faults>>

Services == {"postfix", "dovecot"}

(* GeneratedConfigs of postfix, in the order in which they are written. *)
PostfixFiles == <<"main.cf", "master.cf", "domains.cf", "mailbox.cf", "alias.cf", "sender.cf">>

(* GeneratedConfigs of dovecot, in the order in which they are written. *)
DovecotFiles ==
  <<"dovecot.conf", "10-mail.conf", "10-ssl.conf", "10-auth.conf",
    "10-master.conf", "auth-sql.conf", "pgsql.conf">>

Files(s) == IF s = "postfix" THEN PostfixFiles ELSE DovecotFiles

(* What main.cf holds of the options, apart from constant text. *)
MainCF == {"host", "vmail"}

(* master.cf holds nothing but constant text and paths. *)
MasterCF == {}

(* Connection and query of the four lookup tables. *)
MapCF == {"db"}

PostfixContent(f) ==
  IF f = "main.cf" THEN MainCF ELSE IF f = "master.cf" THEN MasterCF ELSE MapCF

(* What the Dovecot files hold of the options. *)
DovecotContent(f) ==
  CASE f = "10-mail.conf" -> {"vmail"}
    [] f = "10-ssl.conf" -> {"host"}
    [] f = "pgsql.conf" -> {"db", "vmail"}
    [] OTHER -> {}

(* GenerateConfigs: the content of file f under options o. *)
Generate(s, f, o) ==
  [d \in IF s = "postfix" THEN PostfixContent(f) ELSE DovecotContent(f) |-> o[d]]

(* A missing file is told from every generated one. *)
ASSUME ServerAssumption ==
  /\ MaxFaults \in Nat
  /\ \A o \in Options : DOMAIN o = {"host", "vmail", "db"}
  /\ \A s \in Services, o \in Options : \A f \in ToSet(Files(s)) : Generate(s, f, o) # None

(* The directory that one undisturbed generation leaves. *)
Made(s, o) == [f \in ToSet(Files(s)) |-> Generate(s, f, o)]

Missing(s, d) == {f \in ToSet(Files(s)) : d[f] = None}

-----------------------------------------------------------------------------
(* The files whose existence Validate asks for: not the sender map. *)
PostfixChecked == {"main.cf", "master.cf", "domains.cf", "mailbox.cf", "alias.cf"}

(* Not 10-ssl.conf. *)
DovecotChecked ==
  {"dovecot.conf", "10-mail.conf", "10-auth.conf", "10-master.conf", "auth-sql.conf", "pgsql.conf"}

(* postfix check and doveconf -n: they refuse what names a bad host. *)
Refuses(d) ==
  \E f \in {"main.cf", "10-ssl.conf"} \cap DOMAIN d : d[f] # None /\ d[f].host \in BadHosts

(* postfix Validate: files, then postfix check when it is installed and     *)
(* the caller is root ("binary").                                          *)
PostfixValidate(d, binary) ==
  /\ \A f \in PostfixChecked : d[f] # None
  /\ binary => ~Refuses(d)

(* dovecot Validate: files, then doveconf when it is installed. *)
DovecotValidate(d, binary) ==
  /\ \A f \in DovecotChecked : d[f] # None
  /\ binary => ~Refuses(d)

Validate(s, d, binary) ==
  IF s = "postfix" THEN PostfixValidate(d, binary) ELSE DovecotValidate(d, binary)

-----------------------------------------------------------------------------
Idle == [pc |-> "idle", svc |-> None, kind |-> None, opts |-> None, next |-> 1,
         alone |-> TRUE]

AtRest(state) == [state |-> state, how |-> "none", accepted |-> FALSE]

(* A directory that was never written to, or one that is whole. *)
Directories(s) == {[f \in ToSet(Files(s)) |-> None]} \cup {Made(s, o) : o \in Options}

ConfInit ==
  /\ disk \in [Services -> UNION {Directories(s) : s \in Services}]
  /\ \A s \in Services : disk[s] \in Directories(s)
  /\ job = [w \in Writers |-> Idle]
  /\ daemon \in [Services -> {AtRest("not installed"), AtRest("stopped")}]
  /\ whole = [s \in Services |->
       IF \E o \in Options : disk[s] = Made(s, o)
         THEN CHOOSE o \in Options : disk[s] = Made(s, o) ELSE None]
  /\ faults = 0

Writing(s) == {v \in Writers : job[v].svc = s /\ job[v].pc # "idle"}

(* A command that writes starts; what runs already is not alone any more. *)
Start(w, s, kind, o) ==
  /\ job[w].pc = "idle"
  /\ job' = [v \in Writers |->
       IF v = w
         THEN [Idle EXCEPT !.pc = "write", !.svc = s, !.kind = kind, !.opts = o,
                           !.alone = Writing(s) = {}]
         ELSE IF v \in Writing(s) THEN [job[v] EXCEPT !.alone = FALSE] ELSE job[v]]
  /\ UNCHANGED <<disk, daemon, whole, faults>>

(* mailopen postfix config generate *)
PostfixGenerateCommand(w) == \E o \in Options : Start(w, "postfix", "generate", o)

(* mailopen dovecot config generate *)
DovecotGenerateCommand(w) == \E o \in Options : Start(w, "dovecot", "generate", o)

(* postfix.Service.ApplyConfig *)
PostfixApplyConfig(w) == \E o \in Options : Start(w, "postfix", "apply", o)

(* dovecot.Service.ApplyConfig *)
DovecotApplyConfig(w) == \E o \in Options : Start(w, "dovecot", "apply", o)

(* An error ends the command. *)
Fail(w) == job' = [job EXCEPT ![w] = Idle]

(* WriteConfigsAtomically, one file at a time: after the last one generate *)
(* is done and apply goes on.                                              *)
WriteNext(w, s) ==
  /\ job[w].pc = "write" /\ job[w].svc = s
  /\ LET f == Files(s)[job[w].next]
         last == job[w].next = Len(Files(s))
     IN  /\ disk' = [disk EXCEPT ![s][f] = Generate(s, f, job[w].opts)]
         /\ whole' = [whole EXCEPT ![s] = IF last /\ job[w].alone THEN job[w].opts ELSE None]
         /\ job' = [job EXCEPT ![w] =
              IF ~last THEN [@ EXCEPT !.next = job[w].next + 1]
              ELSE IF @.kind = "generate" THEN Idle ELSE [@ EXCEPT !.pc = "validate"]]
  /\ UNCHANGED <<daemon, faults>>

(* atomicWriteFile: the temporary file cannot be written, or the process   *)
(* dies before the rename.  The target stays as it was.                    *)
WriteFails(w, s) ==
  /\ job[w].pc = "write" /\ job[w].svc = s
  /\ faults < MaxFaults /\ faults' = faults + 1
  /\ Fail(w)
  /\ UNCHANGED <<disk, daemon, whole>>

(* The same two functions stand in each of the two packages. *)
PostfixWriteConfigs(w) == WriteNext(w, "postfix")
PostfixAtomicWrite(w) == WriteFails(w, "postfix")
DovecotWriteConfigs(w) == WriteNext(w, "dovecot")
DovecotAtomicWrite(w) == WriteFails(w, "dovecot")

Installed(s) == daemon[s].state # "not installed"

MutApplyValidate(w) ==
  /\ job[w].pc = "validate"
  /\ job' = [job EXCEPT ![w].pc = "status"]
  /\ UNCHANGED <<disk, daemon, whole, faults>>

(* The new files stand already; a refusal changes nothing on disk. *)
ApplyValidate(w) ==
  /\ job[w].pc = "validate"
  /\ LET s == job[w].svc IN
       IF Validate(s, disk[s], Installed(s))
         THEN job' = [job EXCEPT ![w].pc = "status"]
         ELSE Fail(w)
  /\ UNCHANGED <<disk, daemon, whole, faults>>

(* Only a daemon that runs is reloaded. *)
ApplyStatus(w) ==
  /\ job[w].pc = "status"
  /\ IF daemon[job[w].svc].state = "running"
       THEN job' = [job EXCEPT ![w].pc = "reload"]
       ELSE Fail(w)
  /\ UNCHANGED <<disk, daemon, whole, faults>>

(* The daemon reads the directory as it is now. *)
Loaded(s, how) ==
  [daemon EXCEPT ![s] =
    [state |-> "running", how |-> how,
     accepted |-> ~Refuses(disk[s]) /\ \E o \in Options : disk[s] = Made(s, o)]]

ApplyReload(w) ==
  /\ job[w].pc = "reload"
  /\ LET s == job[w].svc IN
       daemon' = IF daemon[s].state # "running" THEN daemon
                 ELSE Loaded(s, IF job[w].alone THEN "apply" ELSE "shared")
  /\ job' = [job EXCEPT ![w] = Idle]
  /\ UNCHANGED <<disk, whole, faults>>

(* postfix reload, dovecot reload: no validation.  A daemon that does not  *)
(* run cannot be reloaded.                                                 *)
PostfixReload ==
  /\ daemon["postfix"].state = "running"
  /\ daemon' = Loaded("postfix", "command")
  /\ UNCHANGED <<disk, job, whole, faults>>

DovecotReload ==
  /\ daemon["dovecot"].state = "running"
  /\ daemon' = Loaded("dovecot", "command")
  /\ UNCHANGED <<disk, job, whole, faults>>

(* The daemon starts when it does not refuse its files. *)
PostfixStart ==
  /\ daemon["postfix"].state = "stopped"
  /\ disk["postfix"]["main.cf"] # None /\ ~Refuses(disk["postfix"])
  /\ daemon' = Loaded("postfix", "start")
  /\ UNCHANGED <<disk, job, whole, faults>>

DovecotStart ==
  /\ daemon["dovecot"].state = "stopped"
  /\ disk["dovecot"]["dovecot.conf"] # None /\ ~Refuses(disk["dovecot"])
  /\ daemon' = Loaded("dovecot", "start")
  /\ UNCHANGED <<disk, job, whole, faults>>

Stopped(s) ==
  /\ daemon[s].state = "running"
  /\ daemon' = [daemon EXCEPT ![s] = AtRest("stopped")]
  /\ UNCHANGED <<disk, job, whole, faults>>

PostfixStop == Stopped("postfix")
DovecotStop == Stopped("dovecot")

PostfixNext ==
  \/ \E w \in Writers : PostfixGenerateCommand(w) \/ PostfixApplyConfig(w)
                          \/ PostfixAtomicWrite(w) \/ PostfixWriteConfigs(w)
                          \/ ApplyValidate(w) \/ ApplyStatus(w) \/ ApplyReload(w)
  \/ PostfixReload \/ PostfixStart \/ PostfixStop

DovecotNext ==
  \/ \E w \in Writers : DovecotGenerateCommand(w) \/ DovecotApplyConfig(w)
                          \/ DovecotAtomicWrite(w) \/ DovecotWriteConfigs(w)
                          \/ ApplyValidate(w) \/ ApplyStatus(w) \/ ApplyReload(w)
  \/ DovecotReload \/ DovecotStart \/ DovecotStop

ConfNext == PostfixNext \/ DovecotNext

ConfSpec == ConfInit /\ [][ConfNext]_confvars

-----------------------------------------------------------------------------
(* The doctors, on one state of the directories; "env" is the rest of what *)
(* they look at.  Every one answers whether it calls the system healthy.   *)

(* postfix.RunDoctor: without the binary Validate's verdict is ignored. *)
PostfixDoctor(d, env) ==
  /\ \A f \in {"main.cf", "domains.cf", "mailbox.cf", "alias.cf"} : d[f] # None
  /\ env.vmail /\ env.database
  /\ env.binary => PostfixValidate(d, env.binary)

(* RunSubmissionDoctor: only master.cf and the listener count. *)
SubmissionDoctor(d, env) == d["master.cf"] # None /\ env.listening

(* dovecot.RunDoctor: the listener and the binary do not count. *)
DovecotDoctor(d, env) ==
  /\ \A f \in {"dovecot.conf", "10-mail.conf", "10-auth.conf", "pgsql.conf"} : d[f] # None
  /\ env.database /\ env.vmail

(* What the commands print; they exit with 0 either way. *)
Result(healthy) == IF healthy THEN "HEALTHY" ELSE "ATTENTION REQUIRED"

(* mailopen postfix doctor *)
PostfixDoctorCommand(d, env) == Result(PostfixDoctor(d, env))

(* mailopen postfix submission doctor *)
SubmissionDoctorCommand(d, env) == Result(SubmissionDoctor(d, env))

(* mailopen dovecot doctor *)
DovecotDoctorCommand(d, env) == Result(DovecotDoctor(d, env))

(* mailopen postfix config validate *)
PostfixValidateCommand(d, env) == IF PostfixValidate(d, env.binary) THEN "VALID" ELSE "error"

(* mailopen dovecot config validate *)
DovecotValidateCommand(d, env) == IF DovecotValidate(d, env.binary) THEN "VALID" ELSE "error"

Env(s) ==
  [binary |-> Installed(s), listening |-> daemon[s].state = "running",
   vmail |-> TRUE, database |-> TRUE]

-----------------------------------------------------------------------------
(* Every variable has its type. *)
ConfTypeOK ==
  /\ \A s \in Services :
       /\ DOMAIN disk[s] = ToSet(Files(s))
       /\ daemon[s].state \in {"not installed", "stopped", "running"}
       /\ whole[s] \in Options \cup {None}
  /\ \A w \in Writers :
       job[w].pc # "idle" => /\ job[w].opts \in Options
                             /\ job[w].next \in 1..Len(Files(job[w].svc))
  /\ faults \in 0..MaxFaults

(* A generation that ran to its end and that no other one crossed leaves   *)
(* files that all come from its own options, whatever failed before it.    *)
OneMaking == \A s \in Services : whole[s] # None => disk[s] = Made(s, whole[s])

(* What ApplyConfig, left alone, makes a daemon load is one whole set of   *)
(* files that the daemon's own check accepts.  (reload, and a second       *)
(* writer, give no such promise.)                                          *)
AppliedIsAccepted ==
  \A s \in Services :
    daemon[s].how = "apply" => daemon[s].accepted

(* Validate does not ask for every file, but the files appear in the order *)
(* in which they are written: Dovecot's Validate accepts no incomplete     *)
(* directory, Postfix's only one that lacks the sender map, its last file. *)
ValidMeansComplete ==
  /\ DovecotValidateCommand(disk["dovecot"], Env("dovecot")) = "VALID" =>
       Missing("dovecot", disk["dovecot"]) = {}
  /\ PostfixValidateCommand(disk["postfix"], Env("postfix")) = "VALID" =>
       Missing("postfix", disk["postfix"]) \subseteq {"sender.cf"}

(* The same for the doctors: neither reports health over the leftovers of  *)
(* an interrupted first generation, the sender map apart.                  *)
HealthyMeansComplete ==
  /\ DovecotDoctorCommand(disk["dovecot"], Env("dovecot")) = "HEALTHY" =>
       Missing("dovecot", disk["dovecot"]) = {}
  /\ PostfixDoctorCommand(disk["postfix"], Env("postfix")) = "HEALTHY" =>
       Missing("postfix", disk["postfix"]) \subseteq {"sender.cf"}
  /\ SubmissionDoctorCommand(disk["postfix"], Env("postfix")) = "HEALTHY" =>
       disk["postfix"]["main.cf"] # None

(* Files that are replaced one by one and validated afterwards: one set    *)
(* after a generation left alone, an accepted one in a daemon after        *)
(* ApplyConfig, and no check that is content with a part of the first set. *)
ConfigurationIsWhole ==
  OneMaking /\ AppliedIsAccepted /\ ValidMeansComplete /\ HealthyMeansComplete
=============================================================================
