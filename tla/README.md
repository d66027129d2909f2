# MailOpen: verification project

MailOpen is a mail server control plane in Go: one binary, `mailopen`, that is
both a command line and an HTTP API. It keeps domains, mailboxes, keys and
sessions in PostgreSQL, writes Maildirs, DKIM keys, certificates and the
configuration of Postfix, Dovecot and OpenDKIM to the file system, and leaves
SMTP and IMAP to those daemons. This directory models its parts in TLA+, checks
them with TLC and proves the most important results with TLAPS.

One theme runs through the code. **State lives in two places, nothing spans
them, and nothing serialises callers.** A message is a row and a blob, a mailbox
is a row and a directory tree, a DKIM key is a row and a file, a session is a
series of rows written by separate statements. There are no transactions over
more than one statement, no locks between requests, and several errors are
dropped (`_ = ...`). What a sequence of statements and system calls leaves
behind when it is interleaved, interrupted or repeated is therefore the question
each module asks.

## 1. Inventory

For each part: its state, its operations, whom it meets, what is hard about it,
and what would make it correct. Parts marked (M) are modelled here.

| Part | State | Operations | Hard behaviour | Correct means |
|---|---|---|---|---|
| Message ingestion (M) `internal/message` | table `messages` | Store, Get, GetContent, List, Delete | blob before row, row before blob, compensation of a failed INSERT, mailbox deleted meanwhile | a row has its blob; a message changes or disappears only by deletion |
| Blob store, gc (M) `internal/storage` | files named by their SHA-256 | Put, Get, Delete, ListIDs, GarbageCollect | gc reads references, then files, then deletes; blobs are shared by content | gc deletes orphans only; orphans go eventually |
| API sessions (M) `internal/api/token`, `handler/auth.go` | table `api_tokens` | Login, Refresh, Logout, ValidateAccessToken | check and revocation are two statements; a lost response; a Logout next to a Refresh | one exchange per refresh token; ended sessions stay ended |
| Mailboxes (M) `internal/mailbox` | table `mailboxes` | Create, Provision, Delete, Suspend, Resume, SetPassword | five or more steps each, keyed partly by address and partly by id | ready means the Maildir is complete; deleted means gone; one mailbox per address |
| Maildir provisioning (M) `internal/provisioning` | directories | Provision, Deprovision, Inspect | directory by directory, idempotent retry | retrying recovers from any interruption |
| Domains (M) `internal/domain` | table `domains` | Create, Delete, List | cascades to mailboxes and keys, not to files | rows belong to the domain registered now |
| LDAP sync (M, per mailbox) `internal/identity` | `mailboxes.identity_provider` | Sync, Authenticate, SetPassword | Sync races administrators | no local mailbox is taken over |
| DKIM (M) `internal/dkim` | table `domain_dkim`, key files, OpenDKIM tables | GenerateKey, ActivateKey, RevokeKey, `opendkim generate` (VerifyDNS and the shown DNS record only read and are left out) | file before row, compensation deletes by path, two tables replaced one by one | a row has its key; tables name existing keys |
| Logins (M) `internal/identity` | `mailboxes`, the LDAP directory | Authenticate, SetPassword, Sync's selection of entries | gate, provider and second gate are apart; duplicate and changing entries | only who was let in by the assigned provider gets a session |
| Mail policy (M) `internal/dkim` | table `domain_mail_policy` | SetSPFPolicy, SetDMARCPolicy, SetSpamPolicy | read, change, write back all columns | an update is lost by a race only |
| Routing (M): domains, aliases, SMTP keys `internal/domain`, `internal/mailbox/alias.go`, `internal/smtpkey`, the SQL of `internal/postfix`, `internal/dovecot` | tables `domains`, `aliases`, `smtp_credentials` | create, delete, revoke, list; lookups | look up, then insert; five readers of the same tables | the readers agree; what is deleted or revoked routes and sends nothing |
| Webmail (M) `internal/webmail` | the Maildir, shared with Dovecot | list, read, flag, move, delete, send | find a file, then rename it; six SMTP targets tried in turn | no message is lost or doubled; every copy is accounted for |
| Inbound policy (M) `internal/inbound` | in-memory windows | SPF, DMARC, recipient checks, rate limits | precedence of verdicts, window boundaries | forgeries are kept out; limits hold |
| TLS (M) `internal/tls` | certificate and key file | Install, Load, Validate, doctor | two renames | key and certificate match |
| Postfix, Dovecot configuration (M) `internal/postfix`, `internal/dovecot` | generated files | generate, ApplyConfig, Validate, Reload, doctor | files replaced one by one, validated afterwards | what the daemon runs is of one making and passed validation |
| Quota (M) `internal/quota` | `used_bytes` | CheckCanAccept, Reconcile, UpdateQuota | a cached sum of a walk that drops its errors | usage differs only by what changed since the walk, or what an error hid from it |
| Backup (M) `internal/backup` | an archive | CreateBackup, VerifyBackup, RestoreBackup | no snapshot; tables read in part; a walk that skips or stops half way; a file written in place | verified archives are complete; a restore is of one archive |
| API rate limiter, RBAC (M) `internal/api/middleware`, `internal/api/router.go` | map of timestamps | one mutex, one evicting goroutine | boundary of the window | at most `limit` requests per window; every route changes only what the role may |
| Queue, bounces `internal/queue`, `internal/bounce` | Postfix's queue | list, retry, hold, release, delete, classify | parsing | parsed is what was printed |
| Abuse limits `internal/abuse` | `mailbox_limits` | GetLimits, SetLimits | none | - |
| Audit, metrics, health, DNS doctors, settings, logging, CLI | append-only or none | reports | - | - |

**How they meet.** The API handlers and the commands call the services; every
request has its own goroutine, every command its own process. Services share the
database (UNIQUE constraints, foreign keys and `ON DELETE CASCADE` are the only
synchronisation) and the file system (rename is the only atomic step). Postfix,
Dovecot and OpenDKIM read both without telling anybody. `identity.Service.Sync`
and the POST handler go through `mailbox.Service.Create`; deleting a mailbox
cascades to `messages`, deleting a domain to `mailboxes` and `domain_dkim`.

The hazards in `PROJECT.json` list the lines where this goes wrong or could, with
the properties that watch them.

## 2. Modules

| Module | Models | Composes |
|---|---|---|
| `MessageStore` | `message.Service`, `storage.FilesystemStore`, `storage.GarbageCollect` | instantiates `MailArchive` |
| `MessageExposure` | the history of what may cost a row its blob, in any use of the store | extends `MessageStore` |
| `MailArchive` | what `message.Service` promises: an abstract specification | |
| `TokenManager` | `token.Manager`, `AuthHandler` | |
| `MailboxLifecycle` | `domain.Service`, `mailbox.Service`, `provisioning`, the per-mailbox part of `identity.Service.Sync`; delivery by Postfix/Dovecot as environment | three components over two tables and the vmail tree |
| `DKIMSigning` | `dkim.Service`, the keystore, `opendkim generate` | service, keystore and generator |
| `Identities` | the rows and directory entries that logins and Sync read, `ldap/mapper.go`; administrators and directory as environment | |
| `Authentication` | `identity.Service.Authenticate`, the local and LDAP providers, SetPassword, Login up to the session | extends `Identities` |
| `DirectorySync` | `identity.Service.Sync`: selection of entries and every statement | extends `Identities` |
| `Identity` | logins, password changes and Sync taking turns statement by statement | composes `Authentication` and `DirectorySync` |
| `WebmailMaildir` | `webmail.MaildirService` on the files of a mailbox, Dovecot as environment | instantiates `MailFolders` |
| `WebmailSend` | `SendMessage`: SMTP dialogues, targets, Sent copy | |
| `MailFolders` | what a mailbox promises its owner: an abstract specification | |
| `Webmail` | folders and submission in one specification | composes `WebmailMaildir` and `WebmailSend` |
| `WebmailContent` | MIME building and parsing, attachments, snippets, pages: operators | |
| `ServerConfig` | generation, validation and loading of Postfix's and Dovecot's files | |
| `TLSStore` | `tls.FilesystemProvider`, validator, doctor, status; the daemons that load | |
| `MailRouting` | alias, SMTP key and domain requests; all lookups over their tables | |
| `RateLimits` | the API's and the inbound limiter | |
| `InboundPolicy` | SPF, alignment, DMARC, the gates, header sanitising: operators | |
| `AccessControl` | routes, roles, mailbox ownership: operators | |
| `MailPolicy` | SetSPFPolicy, SetDMARCPolicy and their callers | |
| `MaildirScan` | the walks of `quota.Reconcile` and `CreateBackup`; quota status | |
| `BackupArchive` | dump, archive file, verify, restore | |
| `MCIdentity` | logins beside a changing table, and Sync beside one, in one run | extends `Identity` |
| `MCWebmail`, `MCServer`, `MCPolicies` | several modules without common state in one run each | |
| other `MC<module>` | symmetry sets and functions for TLC | extends the module |
| `<module>Proofs` | theorems and lemmas; `IdentityProofs`, `ServerProofs`, `PoliciesProofs` and `WebmailProofs` about the modules that one run puts together | extends the module and `TLAPS` |

Conventions shared by all of them:

- A **worker** is a request or a command. Its local variables are the record
  `job[w]`; `pc` names the statement it will execute next. One action is one SQL
  statement or one system call, because that is what the code makes atomic; an
  action that answers from local data only is merged with its neighbour.
- **Fault** is a crash or a failed call; `MaxFaults` bounds how many there are in
  a behaviour. A crash (`Crash`, `Abort`, `GCAbort`, `GenAbort`) drops the worker's
  local variables and leaves what was written. A call whose error is returned
  and needs no cleanup behaves like a crash and shares its action; a call whose
  error is *dropped* has an alternative that does nothing and goes on.
- **Constants choose the regime**, so that one module answers both "is it right"
  and "what does it rely on": `Resend`, `OnlineGC`, `LostReply` (message store);
  `RevokeMayFail` (tokens); `Exclusive`, `DropDomains`, `IgnoredErrors`
  (mailboxes). `SafeUse` and `SerialUse` name the regimes the theorems assume.
  They restrict when calls *begin* or which errors occur; they change no step of
  the code.
- **History variables** (`sent`, `issued`, `ended`, `late`, `missed`,
  `overtaken`; `origin` of a row; `again`, `exposed`, `last`, `run`; `delivered`; `touched`,
  `skipped` and `hidden` of a walk)
  record what happened; no guard that stands for code reads them. UUIDs and
  random tokens are drawn fresh: `issued` says which.
- Definitions named `Mut...` are plausible mistakes in the definition that
  follows them. None is used by a specification. Each shows, when put in the
  place of the original, that a property notices.

### MessageStore

`blobs` is the set of files, `messages` the table. `Put` is `PutTemp` (bytes into
`tmp/`, invisible to `ListIDs`) and `PutRename`. `Create` is the INSERT, guarded
by the foreign key on the mailbox; when it fails, `Compensate` deletes the blob
as ADR 0001 prescribes and drops the error. `Delete` is `DeleteBegin` (read the
row), `DeleteRow`, `DeleteBlob`. `GarbageCollect` is `GCRefs` (all referenced
ids), `GCList` one shard at a time, `GCSweep` one id at a time. A blob is named
by the hash of its content, so a content *is* its identifier.

`MessageExposure` adds a history of the three things that `SafeUse` forbids: the same
bytes stored while a row or a call still holds them, a Store next to a collection, and
an INSERT whose answer is lost. `LostOnlyIfExposed` says that there is no fourth way to
lose a blob, and that none of the three harms another content. All three are needed: when
`Expose` leaves one of them out, TLC finds a row that lost its blob.

`MailArchive` has one variable: what a caller retrieves under each identity: not
stored yet, a content, or gone. `ImplementsArchive` maps the two stores to it,
with a row whose blob is missing mapped to a value no archive knows.

### TokenManager

`row`, `revoked` and `expired` are `api_tokens`; `known` is what clients hold.
`RefreshBegin` is the SELECT and the checks on what it returned, `RevokeOld` the
UPDATE, `StoreAccess`/`StoreRefresh` the two INSERTs, `Reply` the response, which
may be lost. Presenting a revoked token goes to `RevokeFamily`. Time is the
environment's action `Expire`.

### MailboxLifecycle

`mailbox` is the table by id, `maildir` and `mail` are the directories and
whose mail is in them, by address. `Create` is `CreateBegin` (domain resolved),
`CreateCheck` (address free, UUID drawn), `CreateInsert` (UNIQUE and foreign key
decide), then the tail it shares with `Provision`: `MarkProvisioning`, four times
`Mkdir`, `MarkReady`, or `MkdirFail` and `MarkFailed`. The POST handler then calls
Provision, Sync sets the provider and calls Provision (`caller`). `Delete` is
`DeleteBegin`, `MarkDeleting`, `MarkDeprovisioning`, `Deprovision`, `DeleteRow`: the
row is looked up by address, updated by id, and deleted by address. `Suspend`,
`Resume` and what Sync does to a disabled entry read the row and update it later.

### DKIMSigning

One domain. `key` is `domain_dkim` by selector, `file` the private keys by
selector, `table` the two files OpenDKIM reads. `GenerateKey` is `GenerateBegin`,
`StorePrivateKey` (the rename, which replaces whatever is there),
`CreateDKIMKey` or its failures, and `DeletePrivateKey` as compensation; then the
command prints the pair and the handler reads the file again, which changes nothing and
is left out, as is VerifyDNS. A generator lists the keys with status active or pending
(`opendkim.go:78` includes pending ones) and renames the two files in the order of
a Go map. `cli/postfix.go:417` fixes the base directory of the generated tables
to `/etc/mailopen/dkim`; the module assumes the keystore uses the same one, which
is the default.

### Identities, Authentication, DirectorySync

`mailbox` is the table by address, `directory` the entries by distinguished name.
A login (`login[w]`) goes through the first gatekeeper, the provider it chose,
and the second one: the lookup that chooses the provider (`Assign`), the local read of
the hash or LDAP's search and bind, and the status check afterwards (`Gate`). Each is one
action, and between any
two the environment suspends, deletes, re-creates and changes passwords and
entries. History fields of the request record what was true at some moment of it,
because that is all a request of several reads can promise. `DirectorySync` takes
the listing first and works through it entry by entry: format, collisions,
foreign and inactive domains, lookup, create or suspend. Create and the Provision that
follows the marking are one action each, with the ways in which they fail; their
statements are `MailboxLifecycle`'s subject. In `Authentication` and in
`DirectorySync` the other one is part of an environment that may change the tables at
any moment; `Identity` puts the real one in its place. Its statements interleave to more
states than a run can hold, so `MCIdentity` checks the two beside their environments, and
the interleaving is proved.

### WebmailMaildir, WebmailSend, WebmailContent

`files` are (key, folder, subdirectory, flags); a request searches `cur`, then
`new`, and acts later on the name it found. Dovecot marks, moves and expunges in
between. The module assumes what Maildir delivery guarantees: keys are unique and
none is a prefix of another, which the prefix search of `findMessageFile` relies on.
`SendMessage` is one action per SMTP reply; a connection may break before or after
the MTA took the message; any reply to QUIT other than 221 is an error as well, after the
message was accepted. An empty `to` is refused, whoever is in copy. The content functions are operators on
sequences, checked over all small inputs and proved for all. The recursion of
`parseMultipart` is written level by level: `ReaderTo[n]` reads parts with `n` levels of
multiparts inside each other, and `MaxNesting` bounds the levels of the texts considered.

`MailFolders` has one variable: the folder and the flags of each message, or that it was
not delivered, was deleted or was expunged. `ImplementsFolders` maps the files to it: a
message is where its file is, with the flags in the name. Which messages were ever
delivered is a history of its own (`delivered`), so that a file which vanishes without a
deletion is a loss, both to `NothingLost` and to the refinement (`"lost"`).

### ServerConfig, TLSStore, MailRouting

`disk` holds the files of each daemon in the order in which
`WriteConfigsAtomically` renames them; a file's content is the part of the options it
was made from. Postfix's Validate asks for the binary and for root
(`postfix/provisioner.go:49`); the model has one condition for both. `daemon` is what the
daemon runs. `TLSStore` has the two files of a
host, any number of `Install` calls between their two renames, one reader between
its two reads, and the daemons. Its history variable `torn` says that an
installation stopped or was crossed between the renames. `MailRouting` has the
tables and, as operators over them, five readings: the SQL given to Postfix, the SQL
given to Dovecot, `postfix.Service`, `dovecot.Service` and `inbound`'s verifier.

### RateLimits, InboundPolicy, AccessControl

A time is modelled by its age in ticks. `Serve` is the middleware under its mutex,
`Evict` the goroutine. `InboundPolicy` keeps a domain as the sequence of its labels
and an SPF term as its qualifier and the addresses it matches. `AccessControl` lists
the routes of `NewRouter` by the roles they name, and says of each, by the part of the
system, what its handler changes (`Changing`, read off the handlers: opening an
attachment marks the message, logging out revokes tokens). `AuditorsOnlyRead`, `UsersStayHome` and `StaffManage`
say which of these effects the roles can reach.

### MailPolicy, MaildirScan, BackupArchive

A setter of `MailPolicy` looks the domain up, reads the row (resolving the name
once more) and writes all columns; PUT runs one setter after the other. `MaildirScan`
is `filepath.Walk` directory by directory and name by name over files that move, and over
directories and files that cannot be read: the callbacks drop those errors, so the walk
skips them and goes on. `skipped` remembers what was hidden, and the properties
claim nothing about it. `BackupArchive` is the dump SELECT by SELECT, each of which may end early
unnoticed and leave a part of the rows, the archive file emptied and then
filled, and the restore, which verifies the file and reads it again.

## 3. Runs

Eleven runs pass; one, `store_resend`, expects a violation and shows where the code
does something its documentation says it does not.

| Run | Shows |
|---|---|
| `store_safe` | Under SafeUse (no bytes stored twice, gc not next to Store, no lost INSERT reply) with a crash or failed call anywhere: rows have their blobs, reads miss only what was deleted, gc deletes only orphans, and the stores implement `MailArchive`. |
| `store_hostile` | With all three allowed: a row loses its blob only if one of the three happened to its content while somebody held it; and (liveness) every orphan is collected eventually. |
| `store_resend` (violation) | Storing the same bytes twice and deleting one message takes the blob of the other: blobs are shared, `Delete` counts no references. |
| `tokens_concurrent` | Two concurrent requests with a crash, a lost response or a failed revocation: an exchanged refresh token is revoked; two pairs for one token come from two requests in flight together; an ended session is continued only by requests already in flight. |
| `mailbox_serial` | Calls on one address one at a time, two addresses in parallel, a crash anywhere: ready mailboxes have their Maildir, no mail is inherited, Delete leaves nothing and deletes what it read. |
| `mailbox_hostile` | Everything on one address at once, domains dropped, errors dropped: addresses stay unique, rows keep their domain, Sync takes over nothing and marks what it created. |
| `mailbox_recovery` | Liveness: wherever Create or Provision stopped, retrying Provision brings the mailbox up. |
| `dkim_keys` | Two callers, two generators, a fault, the domain deleted and re-created: a row loses its key only if its selector was generated while in use or the answer to its INSERT was lost; tables name existing keys; a generator that runs alone repairs the tables. |
| `identity` | Logins by password and by directory next to Sync, administrators and a changing directory: no session for a mailbox that was closed throughout, or without a password that was good at some moment, or by another provider than an assigned one; Sync creates for unambiguous entries only, suspends LDAP mailboxes only, and (liveness) suspends whoever stays disabled. |
| `webmail` | Two requests and Dovecot on one mailbox: a message that was delivered keeps exactly one file and goes only by deletion, and a request fails or a listing misses only what somebody else moved meanwhile. One submission over three targets: every copy goes to all recipients, and there is more than one only if an acceptance was not heard. The files implement `MailFolders`: a mark never moves a message, a move never takes back a mark, what has gone stays away. Bodies, attachments, snippets and pages over all small inputs. |
| `server_config` | Two generators, validation, reload, start and stop: an undisturbed generation is of one making, an undisturbed ApplyConfig loads only what the daemon accepts, Validate and the doctors accept no leftovers. Two installations of a certificate with readers and daemons: the pair fits unless torn, no false alarm. Alias and key requests against deletion of domains: the five readers agree. |
| `policies` | The limiters with ticks and eviction; two policy setters and a re-created domain; two reconciliations or a backup over a changing Maildir, with a read that fails; two backups and a restore on one path; SPF, DMARC, the gates, headers, what every route changes under every role, and the quota status over all bounded inputs. |

A property that stands for one idea with several sides is a conjunction of named
parts: `RoutingIsSound`, for instance, of the soundness of the rows and the agreement of
the readers. Invariants that are only there to make another one inductive, and the
type invariants of the modules with proofs, are left to TLAPS; the runs that put
several modules together check the types of all of them (`TypeOK` of the MC module), but
for `server_config`, whose types are proved (`ServerTypes`).

`tokens_concurrent` and `NoRevival` also describe what the code does *not*
promise: a Refresh that had read its token before Logout stores a new, valid pair
after it (the variable `late`).

### Disagreements

Four more places where the code does not do what a comment or document says. Each
is reproduced by changing one line of a cfg; the runs above show the conditions
under which the statement is true.

- *Online gc.* ADR 0001 (`docs/adr/0001-...md:56`) says gc "Deletes unreferenced
  (orphaned) blobs". A Store between gc's query (`storage/gc.go:21`) and its sweep
  loses its blob: `store_safe` with `OnlineGC = TRUE` violates `GCDeletesOnlyOrphans`.
- *One-time rotation.* `token/manager.go:183`. Two simultaneous exchanges both pass
  the check: `OneTimeRotation` fails in `tokens_concurrent` once it has a sixth token
  (login and two exchanges draw two each), while `SerialRotationIsOneTime` proves it
  for one request at a time.
- *Delete next to Provision.* `README.md:219`, "Delete mailbox (deprovisions Maildir and
  removes from DB)". `MkdirAll` after `RemoveAll` leaves a Maildir without a
  mailbox: `mailbox_serial` with `Exclusive = FALSE` violates `DeletedLeavesNothing`.
- *GenerateKey for an existing selector* replaces, then deletes, the key in use
  (`dkim/service.go:79`, `:97`), and returns `ErrDKIMKeyExists`: `RowsHaveTheirKey`
  fails in `dkim_keys`.

### Observations

Met while translating; each is in the model as the code has it.

- Logins: when the query of the mailbox fails, the first gatekeeper is skipped and
  the default provider decides. Sync never resumes a mailbox it suspended, and has
  no option for users that disappeared, which a comment (`identity/service.go:30`)
  announces.
- Sessions outlive their mailbox and their role. Listing a folder creates
  directories (`webmail/service.go:117`), so such a session brings back an empty
  Maildir, and an auditor's GET marks their own mail as read (`:406`).
- `MarkMessageRead` drops all flags but S; the error of its rename is dropped. An
  "S" anywhere in a name with ":2," counts as read. Attachments are returned as
  base64 text. The SMTP dialogue has no read deadline. The copy in Sent is written
  in place and its errors are dropped.
- Postfix's Validate and doctor do not ask for `pgsql-sender-login-maps.cf`, Dovecot's
  Validate not for `10-ssl.conf`; the order of the writes saves the second, and the first
  is the last file written. ApplyConfig, Start and Stop have no caller in the CLI;
  `generate` and `reload` validate nothing.
- GetAttachment compares the id with the number and with the file name of each part
  (`webmail/service.go:774`), and takes the first that fits: an attachment whose name
  is "att-3" hides the one with that number. An attachment of a type `multipart/...` is
  not listed. Parts of a nested multipart are numbered from one again.
- The last day of a valid certificate has status EXPIRED. Installing through the
  API reloads no daemon.
- The inbound verifier reads `aliases.status`, a column no migration creates, and so
  refuses every alias. `CanSendAs` does not ask for the status of the domain.
  Mailboxes of suspended domains can log in. Deleting a mailbox leaves its aliases.
- The API limiter's key is always the address, because no claims are there yet;
  `Retry-After` is always 60. Inbound authentication failures are counted, never
  forgotten and never read. A junk verdict precedes a DMARC reject. SPF's `mx` and
  `a` match nothing. The inbound evaluation, its limiters, CheckCanAccept and the
  header pass have no production caller.
- The first setter of a policy replaces the defaults of the other columns by zero
  values; a setter whose read failed replaces the whole row.
- The walks drop every error that `filepath.Walk` hands them (`quota/calculator.go:27`,
  `backup.go:67`): mail in a directory that cannot be read is left out while the manifest
  says `Maildir: true`, and Reconcile, which drops the error of `CalculatePath` and of
  the walk as well (`quota/service.go:71`), stores a sum that is too small, or 0.
- A backup takes a failed SELECT for a missing table and still reports
  `Database: true`; rows that cannot be scanned, or a result that ends early, are left out
  (`backup.go:162`); `os.WriteFile` empties the previous archive first; `restore` prints
  success whatever `result.Errors` holds.

### Bounds, and why they suffice

- *Workers = 2.* Every interference in the code is between two callers: no step
  waits for, or reads the progress of, a second other caller. The theorems hold
  for any number.
- *MaxFaults = 1.* One fault at every possible step. The invariants are proved
  for every bound; the liveness runs use it because retry is what is under test.
- *Messages, contents = 3, mailboxes = 2* in `store_safe`: two Stores in flight
  and one stored message that a Delete or gc works on. `store_hostile` has two
  contents and two messages: one content shared, or one beside another.
- *Tokens = 5* lets a Login be followed by an exchange and half of a second.
- *IDs = 2 or 3, Emails = 1 or 2*: an address is used, deleted and used again,
  with a second address beside it in `mailbox_serial`. `Domains = 1` with two
  domain ids lets a domain be deleted and created anew.
- *Selectors = 1, Keys = 2, DomainIDs = 2*: selectors meet only in the tables,
  where they are members of a set that is replaced as a whole; two keys are one
  generation and one more.

- *identity*: one address, two directory entries that both claim it, two passwords
  and two UUIDs: an address changes hands, an entry changes its mind, and two entries
  collide. One login in flight, since logins share nothing but the tables, which the
  environment changes at every step.
- *webmail*: one message and two requests: the operations look for one message, and
  meet each other only there. Three targets with two broken connections: a first, a
  middle and a last one; the code's list of six is handled by the same loop. Texts of two
  levels of multiparts (`MaxNesting = 1`), the deepest that SendMessage writes.
- *server_config*: two writers, one good and one refused set of options, one fault;
  two installers and two keys with validities that begin and end within the clock; two
  domains with one address each, and three rows, so that a domain is deleted and
  created again while a request holds its old id.
- *policies*: a limit of two in a window of two ticks, with ages up to three windows
  (`Oldest`), after which an entry is evicted; two setters, two ids of the domain, one failed
  read; two messages, two changes and one error of the file system under a walk of four
  directories; two creates with
  one crash and three edits of the tables.

Symmetry is used for interchangeable workers, addresses, contents and keys, never
in runs with liveness properties, and not for UUIDs drawn by `CHOOSE`.

### Deadlock

`store_*`, `dkim_keys`, `identity`, `webmail`, `server_config` and `policies` are checked
for deadlock. The token and mailbox runs may stop: when all UUIDs or tokens of the
instance have been drawn a Create or an exchange has nothing left to draw, which is a
limit of the bound.

### Fairness

- `WF(WorkerStep(w))`: a request that was started runs on. A goroutine is
  scheduled, and every statement and system call returns, successfully or not.
- `SF(GCRefs("delete"))` and `WF(GCStep)`: ADR 0001 makes "Periodic Garbage
  Collection (`mailopen storage gc`)" part of the design; strong fairness because a
  collection under way disables the next one.
- `SF(\E w : ProvisionBegin(w, e))`: README.md, "Retry / Trigger idempotent
  provisioning": the administrator retries until the mailbox is up. Strong
  fairness because other calls occupy the workers in between. `MaxFaults` bounds
  the failures such retries meet.

- `WF(SyncStep)` and `SF(SyncBegin)` in `identity`: a synchronisation that was started runs
  on, and the operator runs `mailopen identity sync` again and again
  (`docs/operations/ldap-directory.md:71`); nothing in the code schedules it, so
  `SyncCatchesUp` is a promise to whoever does.

## 4. Proofs

TLAPS proves these for every value of the constants, from the named assumptions
of each module (`MessageStoreAssumption`, `TokenAssumption`, `MailboxAssumption`,
`DKIMAssumption`, `IdentityAssumption`, `ServerAssumption`, `TLSAssumption`, `RouteAssumption`,
`RateAssumption`, `PolicyAssumption`, `ScanAssumption`, `BackupAssumption`, `MaildirAssumption`,
`SendAssumption`, `ContentAssumption`, and `SampleAssumption` of the run), which say no more than that `None` is no ordinary value, that bounds and
switches have their type, that limits, windows and the list of SMTP targets are not empty,
that the media types and encodings which the code compares with are among the texts,
and that options and directory entries are records of the expected shape.

**MessageStoreProofs.** `TypeCorrect` and `RowsOfLiveMailboxes` (inductive as it stands:
the foreign key decides at the INSERT) in every regime. Under `SafeUse`:
`RowsHaveBlobs` ([]NoDanglingMetadata), `ReadersSeeWhatIsListed`,
`CollectsOnlyOrphans` (an action property) and `StoreImplementsArchive`
(refinement). "Rows have blobs" is not inductive: a compensation or Delete in
flight could own the blob of somebody else's row. The inductive invariant
`Consistency` adds that an identity and a content belong to one Store in flight
or one row and never to two (`OneOwner`), that a Delete or GetContent still agrees
with the row it read (`ReadersAgree`), that a Store about to insert has its blob
(`BlobBeforeRow`), and that the references a gc has read cover the table
(`GCCovers`). There is one lemma per group of actions; the refinement has one step
per action that is visible in the archive (`Added`, `Refused`, `Removed`) and a
lemma (`Invisible`) for the others. In every regime: `BlobsLostOnlyIfExposed`, about the
history that `MessageExposure` adds. A content that no exposing step has touched is
`Intact`: it has at most one row, and that row its blob; a Store under way with it is
the only one and meets no gc; a Delete under way with it is about its row; a gc
has its references in view. What nobody holds (`NotHeld`) has neither row nor call.

**TokenManagerProofs.** `TypeCorrect`, `ExchangedTokensAreRevoked`,
`ForksNeedARace` and `EndedSessionsAreNotRevived` for any number of requests and
faults. `ExchangeInFlight` makes the first two inductive: an exchange has revoked
its token before it stores a row, and has stored no row of the kind it will store
next. `EndingInFlight` makes the third one so: an ended token is revoked or its
revocation failed, an exchange serves the account of its token, and one whose
token ended meanwhile is in `overtaken`. `SerialRotationIsOneTime`: with a single
worker and no failing revocation, rotation *is* one-time.

**MailboxLifecycleProofs.** `TypeCorrect`, `AddressesAreUnique`, `LocalStaysLocal`,
`MailboxesHaveTheirDomain` in every regime. `Ownership` says that the UUID a Create
is about to insert is its own and that Sync works on rows it inserted;
`DomainInv` that a domain id stands for one name for ever, so that the foreign key
lets through exactly the Creates whose domain is the one registered now. Under
`SerialUse`: `ReadyMailboxesHaveMaildirs`, `MailIsNotInherited`,
`DeleteRemovesTheMaildir` and `DeleteRemovesWhatItRead` (an action property).
`SerialInv` adds that a call has its address to itself, that the row it read is
still there, which directories exist at which step, and that an address without
a row has no files. The proof is local: `OwnOK(w, e)` is the invariant at the one
address a call works on, `OwnStep` shows that each step re-establishes it,
`FrameStep` that the step leaves every other address alone, and `NextSerial` puts
the two together.

**DKIMSigningProofs.** `TypeCorrect`, `KeysSurvive`, `TablesNameKeys`,
`GeneratorsRepair`. `KeyInv`: for a selector that is not exposed
a GenerateKey in flight is the only one and there is no row, so its file is still
there when it inserts and its compensation removes nobody's key. `TableInv`: what
a table or a generator names was generated. `AgreeInv`: what a generator that runs
alone has written so far is what it listed.

In the first four modules the strengthenings are theorems of their own as well:
`StoresStayConsistent` (Consistency), `ExchangesInFlight`, `EndingsInFlight`,
`CallsOwnTheirRows` (Ownership) and `SerialCallsKeepTheirRow` (SerialInv). Where a run checks a
conjunction, a last theorem puts the parts together: `RowsStaySound`, `LdapManagesItsOwn` (of
`LocalStaysLocal` and `SyncFinishesWhatItCreates`), `TablesStayUsable`, and below
`RoutingStaysSound`, `CertificatesStaySound`, `PoliciesStayKept` and `ArchivesStaySound`. For the
specifications that put several modules together, `ServerIsSound`, `PoliciesAreSound` and
`WebmailIsSound` say that none of them disturbs another.

**IdentityProofs.** `SessionsJustified` and `SyncIsBounded`, for any number of logins, entries,
mailboxes and faults, and `IdentityTypes` for the two together. A login knows only what it
read: `Remembers` says of each step what the request's history must contain by then (once a
provider is chosen that it was assigned, after the bind that the password was good and the
entry enabled, before the session that the mailbox was open), and `Seen` that the history
covers what is true now; nothing the environment does takes away from a history.
`SyncHolds` says the same of Sync: from the moment an entry was selected until its last statement the listing
it was selected from has no second claimant, and whoever is about to be suspended is
LDAP's, for only Sync itself changes the provider of an existing row.
`SessionsJustifiedTogether` and `SyncBoundedTogether` are the same two for `Identity`, where
the real Sync runs between the statements of a login and the real logins between those of a
Sync. Neither follows from the other two: a Sync spends faults while a login is in
flight, a SetPassword changes rows while Sync is under way, and neither environment
includes that. The invariant is the conjunction of both (`TogetherInv`); `TogetherStep`
shows that a step of either keeps the other's half, a login because it changes no provider,
domain or entry (`LoginsChangeHashes`), Sync because the histories of the logins witness each
of its statements.

**ServerProofs.** Three parts and their composition (`ServerTypes`).
*Configuration*: `ConfTypeCorrect`, `ConfigurationStaysWhole`. The inductive invariant
`ConfInv` adds that files appear in the order of the writes (`InOrder`), that those behind a
generator that met no other are its own, and that an ApplyConfig that met no other is about to
load the very files it validated (`LeftAlone`).
*Certificates*: `TLSTypeCorrect`, `InstalledPairsMatch`, `ValidateRaisesNoFalseAlarm`,
`DoctorsAgree`, and `ExpiryBands` for every number of hours. `Validated`: what is on its way or
on disk fits and names the host. `Alone`: an installer that has met no other finds
its own key on disk when it writes the certificate. `Reading`: what an undisturbed
reader holds is still on disk.
*Routing*: `RouteTypeCorrect`, `RowsKeepTheirDomains`, `KeyNamesAreUnique`, and the agreement of
the readers: `RecipientsAlwaysAgree`, `SendersAlwaysAgree`, `KeysAlwaysStayAtHome`,
`DeliveredMailIsReadable`. The invariant `RouteInv` adds that ids are never shared (`Numbered`)
and that the id a request in flight carries, if it is still some domain's, is that of
the domain of its source (`InFlight`): then the foreign key refuses exactly the requests
that come too late.

**PoliciesProofs.** The parts first, each for its own specification, then the one specification
that is checked (`PartsImplemented`): `PoliciesTypes`, `LimitsStayExact`, `AccountingStaysRight`,
`InboundStaysRight`, `AccessStaysRight`.
*Mail policy*: `PolicyTypeCorrect`, `PoliciesAreLostOnlyByRace`, `PoliciesBelongToTheirDomain`.
`ReadsAreFresh`: in the columns that nobody wrote since, and that are not lost already, what
a setter has read of the domain that exists is what is shown. `UnderWay`: an id that a
setter holds was given out, so a domain that is created later has another one.
*Backup*: `BackupTypeCorrect`, `DumpsAreClosed`, `VerifiedArchivesAreComplete`,
`RestoresAreOneArchive`. `DumpFits`: between the two SELECTs every domain in the table is in
the dump or was born since. `WholeIsComplete`: a file that reads to its end was completed by
the create it names. `Unpacking`: what is done of a restore is of the archive it read.
*Walks and quota*: `ScanTypeCorrect`, `WalksMeetStillMail`, `UsageStaysExplained`, `FullIsRefused`. `ScanInv`
says of a walk half way where it can be (`WalkShape`) and, of mail that nobody touched and no
dropped error hid, that it was counted once, is in the listing still to be read, or in a directory still to come,
and in one of these only (`WalkKnows`).
*Limiters*: `RateTypeCorrect`, `LimitsAreExact`, for every limit, window and number of
clients. `RateInv`: the part of the list that counts and the part of the served history that
counts are the same sequence (`ListFits`), which pruning, eviction and the passing of time
preserve, and no entry is older than the evictor allows (`Evicted`).
*Pure functions*, for every input and not only the bounded ones: `SPFHolds`, `ForgedGo`,
`ForgeryKeptOut`, `DeliveredPassed`, `FullIsRefused`, `Access`.
These need induction over sequences. The library's induction rules take a predicate as a
parameter, which the provers cannot instantiate; here the parameter is a *set* of
indices (`Inductive`, `ListInduction`), and `LoopStates` derives from it that a loop written
as a recursive function has the values its equations say. `Copied` and the lemmas about `Within`
are the theory of "copy the elements that are in S" that the limiters rest on.

**WebmailProofs.** `MaildirTypeCorrect`, `NoMessageLost`, `FailuresHaveCause`, `ListingsStayTrue` for
any number of messages, requests and steps of Dovecot; `SendTypeCorrect`,
`SubmissionsExplained` for any number of targets and broken connections; `FoldersAreAMailbox`
(refinement); `ContentIsSound`; `WebmailTypes` and `WebmailIsSound` for the composition. `MaildirInv` has three parts. `FilesFit`: a message that was
delivered (`delivered` is a history, which only the delivery extends) has one file, or is
recorded as removed or expunged and has none, and any other message has no file. `FindFits`: what a request found, if its message has
stayed where it was, is the path of its message, the only one. `ListFits`: what a listing has seen in
`new` and is no longer there never comes back, so that reading the second directory adds no
second copy. `SendInv`: the recipients named and those left in a dialogue are the whole
envelope (`Dialogue`), and the MTA has as many copies as acceptances were not heard, and one more
once one was (`Copies`).

*Refinement*: `FoldersAreAMailbox` has one lemma for each step that the owner of the mailbox
can see (a delivery, a flag, a move, a removal, an expunge); all other steps, among them every search and
a rename that found its file gone, map to stutters. It rests on `MaildirInv`: only since a
message has one file is "the folder of its file" well defined, and only since `found` is that file
does a rename change the message the request was for.
*Content*: `BodiesComeBack`, `NumbersLead`, `TagsGo`, `SnippetsAreClean`, `PagesAreTheList` and, of
the run's specification, `ContentIsSound`: for all texts, any number of attachments, and listings of any
length. The library's induction rules cannot be instantiated here, so an induction runs over a
*set* of numbers (`Inductive`), and a loop of the code is the last of the states it goes
through; what holds of each round is proved of that set.

**Only model-checked.** The three liveness properties `OrphansCollected`,
`ProvisioningRecovers` and `SyncCatchesUp`: the prover has no support for fairness and
ENABLED. Every other property of a passing run is a theorem.

## 5. Plan

Done, in this order: message store and its abstract specification, sessions,
mailboxes with provisioning and sync, DKIM; logins and directory synchronisation;
webmail; server configuration, certificates and routing; limiters, inbound and mail
policies, access control, quota and backup; the theorems above.

Then the content functions for every input, logins and Sync step by step, and the mailbox
that the folders implement.

Left, most important first:

1. An abstract specification, "the daemon runs a configuration of one making", that
   `ServerConfig`, `TLSStore` and the OpenDKIM tables all refine.
2. `Authentication` composed with `TokenManager`: how long a suspended account keeps
   its session.

## 6. Not modelled

- Queue (service, parser, driver, commands) and bounces: text that Postfix prints,
  taken apart character by character; the queue itself is Postfix's. The queue
  commands may run twice, locally and then in a container.
- Abuse limits, system settings, the configuration validator, `UpdateQuota`: single
  upserts or checks of environment variables, with nothing to interleave with.
- Audit log, DNS checks, the system doctor, health, metrics, logging: append-only or
  read-only reports. Reputation lookups of `inbound/reputation.go`: DNS queries.
- Spam and virus scanners: thin clients of external daemons.
- Header parsing, HTML sanitising, formatting (data no property distinguishes);
  password hashing, key generation, encryption, compression and the arithmetic of
  certificates (abstract values); migrations (a library); argument parsing.
- `last_used_at` of tokens and keys; temporary files in the blob store's `tmp/`, which
  nothing ever removes after a crash; the spam columns of the policy row.
