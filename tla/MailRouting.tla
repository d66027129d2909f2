----------------------------- MODULE MailRouting -----------------------------
(***************************************************************************)
(* Which addresses receive mail, who reads it and who may send as whom.    *)
(* The same tables are asked four times over: by the SQL in Postfix's      *)
(* lookup tables, by the SQL in Dovecot's, by the Go services and by the   *)
(* inbound verifier.  The rows change under them: aliases and SMTP keys by *)
(* the requests modelled here, domains and mailboxes by their services.    *)
(***************************************************************************)
EXTENDS Naturals, FiniteSets

CONSTANTS
  NoRow,
  Domains,      \* domain names
  Addresses,    \* records [local, domain]
  KeyNames,     \* names given to SMTP keys
  Requesters,   \* concurrent API requests
  MaxRows,      \* how many domain and key rows are ever inserted
  MaxAliases    \* no new alias is asked for while there are so many

DomainRow == [id : Nat, status : {"active", "suspended"}]
KeyRow == [id : Nat, dom : Nat, name : KeyNames, status : {"active", "revoked"}]
AliasRow == [dom : Nat, source : Addresses, dest : Addresses]

ASSUME RouteAssumption ==
  /\ MaxRows \in Nat /\ MaxAliases \in Nat
  /\ \A a \in Addresses : DOMAIN a = {"local", "domain"} /\ a.domain \in Domains
  /\ NoRow \notin DomainRow
  /\ \A S \in SUBSET Addresses : NoRow # S
  /\ \A a \in Addresses : NoRow # <<a.domain, a.local>>

VARIABLES
  domains,      \* per name: NoRow or [id, status]
  boxes,        \* per address: NoRow or [status, prov, home]
  aliases,      \* rows [dom, source, dest]
  keys,         \* rows [id, dom, name, status]
  req,          \* per requester: the request under way
  ids           \* the last row id given out

routevars == <<domains, boxes, aliases, keys, req, ids>>

NoReq == [pc |-> "idle", source |-> NoRow, dest |-> NoRow, name |-> NoRow, dom |-> NoRow]

DomainIds == {domains[n].id : n \in {m \in Domains : domains[m] # NoRow}}

RouteInit ==
  /\ domains = [n \in Domains |-> NoRow]
  /\ boxes = [a \in Addresses |-> NoRow]
  /\ aliases = {} /\ keys = {}
  /\ req = [r \in Requesters |-> NoReq]
  /\ ids = 0

-----------------------------------------------------------------------------
(* POST /domains and mailopen domain create: a new row, a new id. *)
CreateDomain(n) ==
  /\ domains[n] = NoRow /\ ids < MaxRows
  /\ ids' = ids + 1
  /\ domains' = [domains EXCEPT ![n] = [id |-> ids + 1, status |-> "active"]]
  /\ UNCHANGED <<boxes, aliases, keys, req>>

(* The status of a domain is only ever changed in the database. *)
SuspendDomain(n) ==
  /\ domains[n] # NoRow
  /\ domains' = [domains EXCEPT ![n].status = IF @ = "active" THEN "suspended" ELSE "active"]
  /\ UNCHANGED <<boxes, aliases, keys, req, ids>>

(* DELETE /domains/{domain}: mailboxes, aliases and keys go with the row. *)
DeleteDomain(n) ==
  /\ domains[n] # NoRow
  /\ domains' = [domains EXCEPT ![n] = NoRow]
  /\ boxes' = [a \in Addresses |-> IF a.domain = n THEN NoRow ELSE boxes[a]]
  /\ aliases' = {x \in aliases : x.dom # domains[n].id}
  /\ keys' = {k \in keys : k.dom # domains[n].id}
  /\ UNCHANGED <<req, ids>>

(* GET, DELETE and the rest of /domains/{domain} for a name without a row. *)
UnknownDomain(n) == domains[n] = NoRow /\ UNCHANGED routevars

(* mailopen domain delete *)
DomainDeleteCommand(n) == DeleteDomain(n)

(* The rows that the lookups tell apart: each of the two conditions fails. *)
MailboxRows ==
  {[status |-> "active", prov |-> "ready"], [status |-> "suspended", prov |-> "ready"],
   [status |-> "active", prov |-> "pending"]}

(* The mailbox service, in one step: see MailboxLifecycle. *)
ChangeMailbox(a) ==
  /\ domains[a.domain] # NoRow
  /\ \E row \in MailboxRows \cup {NoRow} :
       boxes' = [boxes EXCEPT ![a] = row]
  /\ UNCHANGED <<domains, aliases, keys, req, ids>>

-----------------------------------------------------------------------------
(* POST /mailboxes/{email}/aliases: the mailbox, ... *)
AliasRequest(r, src, dst) ==
  /\ req[r].pc = "idle"
  /\ boxes[dst] # NoRow /\ Cardinality(aliases) < MaxAliases
  /\ req' = [req EXCEPT ![r] = [NoReq EXCEPT !.pc = "domain", !.source = src, !.dest = dst]]
  /\ UNCHANGED <<domains, boxes, aliases, keys, ids>>

MutAliasDomain(r) ==
  /\ req[r].pc = "domain"
  /\ LET d == domains[req[r].dest.domain] IN
       req' = [req EXCEPT ![r] =
         IF d # NoRow /\ d.status = "active" THEN [@ EXCEPT !.pc = "alias", !.dom = d.id] ELSE NoReq]
  /\ UNCHANGED <<domains, boxes, aliases, keys, ids>>

(* ... then the domain of the new source, which must be active, ... *)
AliasDomain(r) ==
  /\ req[r].pc = "domain"
  /\ LET d == domains[req[r].source.domain] IN
       req' = [req EXCEPT ![r] =
         IF d # NoRow /\ d.status = "active" THEN [@ EXCEPT !.pc = "alias", !.dom = d.id] ELSE NoReq]
  /\ UNCHANGED <<domains, boxes, aliases, keys, ids>>

(* ... then the row: the domain must still be there, a second equal row is *)
(* refused.                                                                *)
CreateAlias(r) ==
  /\ req[r].pc = "alias"
  /\ aliases' = IF req[r].dom \in DomainIds
       THEN aliases \cup {[dom |-> req[r].dom, source |-> req[r].source, dest |-> req[r].dest]}
       ELSE aliases
  /\ req' = [req EXCEPT ![r] = NoReq]
  /\ UNCHANGED <<domains, boxes, keys, ids>>

(* DELETE /mailboxes/{email}/aliases/{alias}: the pair, whatever its domain. *)
DeleteAlias(src, dst) ==
  /\ \E x \in aliases : x.source = src /\ x.dest = dst
  /\ aliases' = {x \in aliases : x.source # src \/ x.dest # dst}
  /\ UNCHANGED <<domains, boxes, keys, req, ids>>

(* GET /mailboxes/{email}/aliases *)
ListAliases(dst) == {x \in aliases : x.dest = dst}

-----------------------------------------------------------------------------
(* POST /domains/{domain}/smtp-keys: an active domain, ... *)
KeyRequest(r, n, name) ==
  /\ req[r].pc = "idle"
  /\ domains[n] # NoRow /\ domains[n].status = "active"
  /\ req' = [req EXCEPT ![r] = [NoReq EXCEPT !.pc = "key", !.dom = domains[n].id, !.name = name]]
  /\ UNCHANGED <<domains, boxes, aliases, keys, ids>>

(* The unique index allows one active key of a name. *)
KeyExists(dom, name) ==
  \E k \in keys : k.dom = dom /\ k.name = name /\ k.status = "active"

(* ... then the row, with a secret that is told once. *)
CreateKey(r) ==
  /\ req[r].pc = "key"
  /\ IF req[r].dom \in DomainIds /\ ~KeyExists(req[r].dom, req[r].name) /\ ids < MaxRows
       THEN /\ ids' = ids + 1
            /\ keys' = keys \cup {[id |-> ids + 1, dom |-> req[r].dom, name |-> req[r].name,
                                   status |-> "active"]}
       ELSE UNCHANGED <<keys, ids>>
  /\ req' = [req EXCEPT ![r] = NoReq]
  /\ UNCHANGED <<domains, boxes, aliases>>

(* The row that an update by domain and key id finds. *)
Revocable(n, k) == k \in keys /\ k.dom = domains[n].id /\ k.status = "active"

(* POST /domains/{domain}/smtp-keys/{id}/revoke: a key of this domain. *)
RevokeKey(n, k) ==
  /\ domains[n] # NoRow /\ Revocable(n, k)
  /\ keys' = (keys \ {k}) \cup {[k EXCEPT !.status = "revoked"]}
  /\ UNCHANGED <<domains, boxes, aliases, req, ids>>

(* GET /domains/{domain}/smtp-keys *)
ListKeys(n) == {k \in keys : domains[n] # NoRow /\ k.dom = domains[n].id}

RouteNext ==
  \/ \E n \in Domains : CreateDomain(n) \/ SuspendDomain(n) \/ DomainDeleteCommand(n)
                           \/ UnknownDomain(n)
  \/ \E a \in Addresses : ChangeMailbox(a)
  \/ \E r \in Requesters :
       \/ \E src, dst \in Addresses : AliasRequest(r, src, dst)
       \/ AliasDomain(r) \/ CreateAlias(r) \/ CreateKey(r)
       \/ \E n \in Domains, name \in KeyNames : KeyRequest(r, n, name)
  \/ \E src, dst \in Addresses : DeleteAlias(src, dst)
  \/ \E n \in Domains, k \in keys : RevokeKey(n, k)

RouteSpec == RouteInit /\ [][RouteNext]_routevars

-----------------------------------------------------------------------------
(* The Go lookups. *)
LookupVirtualDomain(n) == domains[n] # NoRow /\ domains[n].status = "active"

Ready(a) == boxes[a] # NoRow /\ boxes[a].status = "active" /\ boxes[a].prov = "ready"

LookupVirtualMailbox(a) == Ready(a)

ActiveId(id) == \E n \in Domains : domains[n] # NoRow /\ domains[n].id = id /\ domains[n].status = "active"

LookupVirtualAlias(a) == {x.dest : x \in {y \in aliases : y.source = a /\ ActiveId(y.dom)}}

(* mailopen postfix lookup domain, mailbox and alias *)
LookupDomainCommand(n) == IF LookupVirtualDomain(n) THEN "FOUND" ELSE "NOT FOUND"
LookupMailboxCommand(a) == IF LookupVirtualMailbox(a) THEN "FOUND" ELSE "NOT FOUND"
LookupAliasCommand(a) == IF LookupVirtualAlias(a) # {} THEN LookupVirtualAlias(a) ELSE NoRow

(* postfix.Service.ValidateRecipient: an error of the alias query is       *)
(* taken for "no alias".                                                   *)
ValidateRecipient(a, aliasError) ==
  /\ LookupVirtualDomain(a.domain)
  /\ \/ ~aliasError /\ LookupVirtualAlias(a) # {}
     \/ LookupVirtualMailbox(a)

(* inbound.VerifyRecipient: its alias query names a column, status, that   *)
(* the table does not have, so it always fails and counts as no alias.     *)
VerifyRecipient(a) == LookupVirtualDomain(a.domain) /\ Ready(a)

(* postfix.CanSendAs *)
CanSendAs(user, sender) ==
  IF user = sender THEN Ready(user)
  ELSE Ready(user) /\ \E x \in aliases : x.source = sender /\ x.dest = user

(* dovecot GetPasswordHash and Authenticate: a ready mailbox. *)
GetPasswordHash(a) == Ready(a)
Authenticate(a, right) == GetPasswordHash(a) /\ right

(* dovecot GetUserInfo: the Maildir, from the row. *)
GetUserInfo(a) == IF Ready(a) THEN <<a.domain, a.local>> ELSE NoRow

(* mailopen dovecot lookup user, mailopen dovecot auth test *)
LookupUserCommand(a) == GetUserInfo(a)
AuthTestCommand(a, right) == IF Authenticate(a, right) THEN "SUCCESS" ELSE "FAILED"

-----------------------------------------------------------------------------
(* The queries in the generated files. *)
DomainsQuery(n) == domains[n] # NoRow /\ domains[n].status = "active"

MailboxQuery(a) == IF Ready(a) THEN <<a.domain, a.local>> ELSE NoRow

AliasQuery(a) == {x.dest : x \in {y \in aliases : y.source = a /\ ActiveId(y.dom)}}

SenderLoginQuery(a) ==
  (IF Ready(a) THEN {a} ELSE {})
    \cup AliasQuery(a)
    \cup {k \in keys : /\ k.status = "active"
                       /\ domains[a.domain] # NoRow /\ k.dom = domains[a.domain].id
                       /\ domains[a.domain].status = "active"}

(* password_query: SMTP keys for submission, mailboxes for everything. *)
PasswordQuery(login, service) ==
  IF login \in keys THEN login.status = "active" /\ service \in {"smtp", "submission"}
  ELSE login \in Addresses /\ Ready(login)

(* user_query: %d and %n of the login name. *)
UserQuery(a) == IF Ready(a) THEN <<a.domain, a.local>> ELSE NoRow

(* What Postfix accepts at RCPT TO. *)
PostfixAccepts(a) == DomainsQuery(a.domain) /\ (AliasQuery(a) # {} \/ MailboxQuery(a) # NoRow)

(* mailopen postfix submission auth-test: asks Dovecot through Postfix. *)
SubmissionAuthTest(login) == IF PasswordQuery(login, "smtp") THEN "SUCCESS" ELSE "FAILED"

(* What Postfix lets a client send as, after Dovecot has let it in. *)
Submits(login, sender) == PasswordQuery(login, "smtp") /\ login \in SenderLoginQuery(sender)

-----------------------------------------------------------------------------
(* Every variable has its type. *)
RouteTypeOK ==
  /\ \A n \in Domains : domains[n] # NoRow => domains[n].id \in 1..ids
  /\ \A x \in aliases : x.source \in Addresses /\ x.dest \in Addresses
  /\ \A k \in keys : k.id \in 1..ids /\ k.name \in KeyNames
  /\ ids \in 0..MaxRows

(* A mailbox row has its domain; an alias belongs to the domain of its     *)
(* source as it is now: none survives a domain that was deleted and        *)
(* created again, none is filed under the domain of its destination.       *)
RowsHaveDomains ==
  /\ \A a \in Addresses : boxes[a] # NoRow => domains[a.domain] # NoRow
  /\ \A x \in aliases : domains[x.source.domain] # NoRow /\ x.dom = domains[x.source.domain].id

(* A domain has at most one active key of a name, whatever two requests    *)
(* do, so that revoking "the" key of an application revokes its access.    *)
OneActiveKey ==
  \A k, l \in keys :
    k.dom = l.dom /\ k.name = l.name /\ k.status = "active" /\ l.status = "active" => k = l

(* The services accept no recipient that the MTA refuses; without an error *)
(* ValidateRecipient and the three lookup commands accept exactly the same *)
(* ones, and the inbound verifier all of them but aliases.                 *)
RecipientsAgree ==
  \A a \in Addresses :
    /\ ValidateRecipient(a, FALSE) <=> PostfixAccepts(a)
    /\ ValidateRecipient(a, TRUE) => PostfixAccepts(a)
    /\ VerifyRecipient(a) => PostfixAccepts(a)
    /\ LookupDomainCommand(a.domain) = "FOUND"
         /\ (LookupMailboxCommand(a) = "FOUND" \/ LookupAliasCommand(a) # NoRow)
       <=> PostfixAccepts(a)
    /\ PostfixAccepts(a) /\ AliasQuery(a) = {} => VerifyRecipient(a)

(* CanSendAs permits a mailbox exactly what the MTA lets it do, as long as *)
(* the domain of the sender address is active; in a suspended one it still *)
(* permits aliases that the MTA refuses.  What lets a mailbox send as      *)
(* another address stands in its list of aliases.                          *)
SendersAgree ==
  \A user, sender \in Addresses :
    /\ Submits(user, sender) => CanSendAs(user, sender)
    /\ CanSendAs(user, sender) /\ DomainsQuery(sender.domain) => Submits(user, sender)
    /\ Submits(user, sender) /\ user # sender => \E x \in ListAliases(user) : x.source = sender

(* An SMTP key sends for the addresses of one active domain only, and a    *)
(* key that is revoked, or whose domain is gone, for none; every key that  *)
(* sends is in its domain's list, where it can be revoked.                 *)
KeysStayAtHome ==
  \A k \in keys, sender \in Addresses :
    Submits(k, sender) => /\ DomainsQuery(sender.domain)
                          /\ k \in ListKeys(sender.domain) /\ Revocable(sender.domain, k)

(* Mail that Postfix files into a Maildir is mail its owner can read:      *)
(* Dovecot knows the mailbox and opens the same directory.                 *)
DeliveredIsReadable ==
  \A a \in Addresses :
    PostfixAccepts(a) /\ MailboxQuery(a) # NoRow =>
      /\ UserQuery(a) = MailboxQuery(a) /\ LookupUserCommand(a) = MailboxQuery(a)
      /\ PasswordQuery(a, "imap") /\ AuthTestCommand(a, TRUE) = "SUCCESS"
      /\ SubmissionAuthTest(a) = "SUCCESS"

(* The rows that racing requests leave behind are sound, and over them the *)
(* services, the commands, Postfix's queries and Dovecot's answer alike.   *)
RoutingIsSound ==
  /\ RowsHaveDomains /\ OneActiveKey
  /\ RecipientsAgree /\ SendersAgree /\ KeysStayAtHome /\ DeliveredIsReadable
=============================================================================
