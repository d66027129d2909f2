---------------------------- MODULE AccessControl ----------------------------
(***************************************************************************)
(* Who may call what: the routes behind Authenticate with the roles that   *)
(* NewRouter names for them, RequireRole and RequireMailboxOwnership.  A   *)
(* request is answered from the claims of its access token alone: the role *)
(* is the one that the login found (see Authentication and TokenManager).  *)
(***************************************************************************)
EXTENDS FiniteSets

CONSTANTS
  Accounts,     \* addresses that may hold a session or be the {email} of a path
  NoTarget      \* a path without {email}

Roles == {"admin", "operator", "auditor", "user"}
Staff == {"admin", "operator", "auditor"}
Operators == {"admin", "operator"}

(* The routes of one method under one prefix that name the same roles. *)
Named(roles, own, routes) == {[route |-> r, roles |-> roles, own |-> own] : r \in routes}

ProfileRoutes == Named(Roles, FALSE, {"POST logout", "GET me"})

DomainRoutes ==
  Named(Staff, FALSE, {"GET domains", "GET domain", "GET doctor", "GET dns", "GET dkim",
                       "GET smtp-keys", "GET tls", "GET policy"})
    \cup Named(Operators, FALSE, {"POST dkim", "POST dkim verify", "POST dkim activate",
                       "POST smtp-keys", "POST smtp-keys revoke", "PUT policy"})
    \cup Named({"admin"}, FALSE, {"POST domains", "DELETE domain", "POST dkim revoke", "POST tls"})

MailboxRoutes ==
  Named(Staff, FALSE, {"GET mailboxes"})
    \cup Named(Roles, TRUE, {"GET mailbox", "GET aliases", "GET quota"})
    \cup Named(Operators \cup {"user"}, TRUE, {"POST password"})
    \cup Named(Operators, FALSE, {"POST mailboxes", "POST suspend", "POST resume",
                       "POST provision", "POST aliases", "DELETE alias", "PUT quota",
                       "POST quota reconcile"})
    \cup Named({"admin"}, FALSE, {"DELETE mailbox"})

SystemRoutes ==
  Named(Staff, FALSE, {"GET providers", "GET ldap status", "POST ldap doctor", "GET queue",
                       "GET queue message", "GET config", "GET system status",
                       "GET system doctor"})
    \cup Named(Operators, FALSE, {"POST queue retry", "POST queue hold", "POST queue release"})
    \cup Named({"admin"}, FALSE, {"POST ldap sync", "DELETE queue message", "POST queue flush",
                       "PUT config"})
    \cup Named({"admin", "auditor"}, FALSE, {"GET audit"})

(* Webmail acts on the mailbox of the claims; its paths name no mailbox. *)
WebmailRoutes ==
  Named(Roles, FALSE, {"GET folders", "GET messages", "GET message", "GET attachment"})
    \cup Named(Operators \cup {"user"}, FALSE, {"POST send", "PUT read", "POST move",
                       "DELETE message"})

Routes == ProfileRoutes \cup DomainRoutes \cup MailboxRoutes \cup SystemRoutes
            \cup WebmailRoutes

(* RequireRole: admin is never refused. *)
RequireRole(claims, roles) == claims.role = "admin" \/ claims.role \in roles

MutRequireMailboxOwnership(claims, target) == claims.role \in Roles

(* RequireMailboxOwnership: the three staff roles pass. *)
RequireMailboxOwnership(claims, target) ==
  claims.role \in Staff \/ target = NoTarget \/ target = claims.email

(* A request is served when its token is valid and both checks pass. *)
Authorized(req) ==
  /\ req.valid
  /\ RequireRole(req.claims, req.route.roles)
  /\ req.route.own => RequireMailboxOwnership(req.claims, req.target)

-----------------------------------------------------------------------------
(* The parts of the state and the routes whose handlers change them; what  *)
(* a route takes with it by a cascade is its own part too.  A route named  *)
(* nowhere only reads (the audit log and last_used_at are left out).       *)
Changing ==
  [sessions    |-> {"POST logout"},
   \* folders are made, new mail is moved to cur and marked as read
   opened      |-> {"GET folders", "GET messages", "GET message", "GET attachment"},
   mail        |-> {"POST send", "PUT read", "POST move", "DELETE message"},
   password    |-> {"POST password"},
   mailboxes   |-> {"POST mailboxes", "DELETE mailbox", "POST suspend", "POST resume",
                    "POST provision", "PUT quota", "POST quota reconcile", "POST ldap sync",
                    "DELETE domain"},
   aliases     |-> {"POST aliases", "DELETE alias", "DELETE domain"},
   \* POST dkim for a selector in use replaces or deletes its private key
   signingKeys |-> {"POST dkim", "POST dkim activate", "POST dkim revoke", "DELETE domain"},
   smtpKeys    |-> {"POST smtp-keys", "POST smtp-keys revoke", "DELETE domain"},
   policy      |-> {"PUT policy", "DELETE domain"},
   queue       |-> {"POST queue retry", "POST queue hold", "POST queue release",
                    "DELETE queue message", "POST queue flush"},
   domains     |-> {"POST domains", "DELETE domain"},
   certificate |-> {"POST tls"},
   settings    |-> {"PUT config"}]

(* What belongs to the server rather than to the account of the session. *)
Operated ==
  Changing.mailboxes \cup Changing.aliases \cup Changing.signingKeys \cup Changing.smtpKeys
    \cup Changing.policy \cup Changing.queue \cup Changing.domains \cup Changing.certificate
    \cup Changing.settings

(* Domains, certificates and settings, and what goes for good or at once.  *)
Administered ==
  Changing.domains \cup Changing.certificate \cup Changing.settings
    \cup {"DELETE mailbox", "DELETE queue message", "POST queue flush", "POST dkim revoke",
           "POST ldap sync"}

(* What acts on the account of the session, or on the one in the path. *)
Personal ==
  {x.route : x \in ProfileRoutes \cup WebmailRoutes}
    \cup {"GET mailbox", "GET aliases", "GET quota", "POST password"}

(* An auditor's session changes nothing, whatever route it calls, but the  *)
(* sessions it ends and what opening its own mailbox changes there.        *)
AuditorsOnlyRead(req) ==
  (Authorized(req) /\ req.claims.role = "auditor") =>
     req.route.route \notin Operated \cup Changing.mail \cup Changing.password

(* A user's session reads and changes its own account and nothing else. *)
UsersStayHome(req) ==
  (Authorized(req) /\ req.claims.role = "user") =>
     /\ req.route.route \in Personal \ Operated
     /\ req.target \in {NoTarget, req.claims.email}

(* Only an administrator or an operator changes what belongs to the        *)
(* server, and only an administrator makes or removes domains, removes     *)
(* mailboxes or queued mail, revokes signing keys, installs certificates,  *)
(* runs the directory synchronisation or changes the settings.             *)
StaffManage(req) ==
  Authorized(req) =>
    /\ req.route.route \in Operated => req.claims.role \in Operators
    /\ req.route.route \in Administered => req.claims.role = "admin"
=============================================================================
