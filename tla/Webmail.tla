------------------------------- MODULE Webmail -------------------------------
(***************************************************************************)
(* The webmail service: the requests on the folders of a mailbox and the   *)
(* submission of a message, each with its own files and no state of the    *)
(* other.  A behaviour follows one of them, or neither.                    *)
(***************************************************************************)
EXTENDS WebmailMaildir, WebmailSend

VARIABLE focus

webmailvars == <<mdvars, sendvars, focus>>

WebmailInit == MaildirInit /\ SendInit /\ focus \in {"folders", "send", "content"}

WebmailNext ==
  /\ \/ focus = "folders" /\ MaildirNext /\ UNCHANGED sendvars
     \/ focus = "send" /\ SendNext /\ UNCHANGED mdvars
     \/ focus = "send" /\ send.pc = "done" /\ UNCHANGED <<mdvars, sendvars>>
     \/ focus = "content" /\ UNCHANGED <<mdvars, sendvars>>
  /\ UNCHANGED focus

WebmailSpec == WebmailInit /\ [][WebmailNext]_webmailvars

(* The folders, the requests and the submission stay in their types. *)
TypeOK == MaildirTypeOK /\ SendTypeOK
=============================================================================
