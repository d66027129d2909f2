----------------------------- MODULE WebmailSend -----------------------------
(***************************************************************************)
(* webmail.SendMessage: the message is offered to one MTA address after    *)
(* the other until one of the SMTP dialogues succeeds, then a copy is      *)
(* written into the Sent folder.  Several addresses name the same MTA.     *)
(***************************************************************************)
EXTENDS Naturals, Sequences, FiniteSets

CONSTANTS
  Recipients,  \* addresses
  Targets,     \* how many addresses are tried
  MaxLost      \* how often a connection breaks, or QUIT is refused

ASSUME SendAssumption == Targets \in Nat \ {0} /\ MaxLost \in Nat

VARIABLES
  send,        \* the request: pc, target, the recipients still to be named
  accepted,    \* history: the envelope of every copy the MTA took
  lost,        \* history: copies whose acceptance was not heard of
  breaks,      \* connections that broke, and QUITs that were refused
  sentCopy,    \* the file in .Sent/cur: "none", "partial" or "whole"
  answer       \* what the client is told

sendvars == <<send, accepted, lost, breaks, sentCopy, answer>>

(* to, cc and bcc with what does not clean to an address ("") left out. *)
Clean(raw) == raw \ {""}

Envelope == Clean(send.raw)

SendInit ==
  /\ send = [pc |-> "idle", target |-> 1, left |-> {}, named |-> {}, raw |-> {}]
  /\ accepted = <<>> /\ lost = 0 /\ breaks = 0
  /\ sentCopy = "none" /\ answer = "none"

-----------------------------------------------------------------------------
(* The handler wants a "to", whatever cc and bcc say, and the service a    *)
(* valid recipient among the three.                                        *)
SendRequest(to, others) ==
  /\ send.pc = "idle"
  /\ IF to = {} \/ Clean(to \cup others) = {}
       THEN answer' = "refused" /\ send' = [send EXCEPT !.pc = "done"]
       ELSE /\ send' = [send EXCEPT !.pc = "dial", !.raw = to \cup others]
            /\ UNCHANGED answer
  /\ UNCHANGED <<accepted, lost, breaks, sentCopy>>

(* This address failed; after the last one the request has failed. *)
NextTarget ==
  IF send.target = Targets
    THEN /\ send' = [send EXCEPT !.pc = "done"]
         /\ answer' = "error"
    ELSE /\ send' = [send EXCEPT !.pc = "dial", !.target = @ + 1]
         /\ UNCHANGED answer

(* Dial, greeting, STARTTLS, MAIL FROM: nothing is promised yet. *)
Dial ==
  /\ send.pc = "dial"
  /\ \/ /\ send' = [send EXCEPT !.pc = "rcpt", !.left = Envelope, !.named = {}]
        /\ UNCHANGED answer
     \/ NextTarget
  /\ UNCHANGED <<accepted, lost, breaks, sentCopy>>

(* One refused recipient ends the dialogue. *)
Rcpt ==
  /\ send.pc = "rcpt"
  /\ \E r \in send.left :
       \/ /\ send' = [send EXCEPT !.left = @ \ {r}, !.named = @ \cup {r}]
          /\ UNCHANGED answer
       \/ NextTarget
  /\ UNCHANGED <<accepted, lost, breaks, sentCopy>>

(* DATA, the message, and the final dot: the MTA takes the message, or     *)
(* not; when the connection breaks nobody knows.                           *)
Data ==
  /\ send.pc = "rcpt" /\ send.left = {}
  /\ \/ /\ accepted' = Append(accepted, send.named)
        /\ send' = [send EXCEPT !.pc = "quit"]
        /\ UNCHANGED <<lost, breaks, answer>>
     \/ NextTarget /\ UNCHANGED <<accepted, lost, breaks>>
     \/ /\ breaks < MaxLost /\ breaks' = breaks + 1
        /\ NextTarget
        /\ \/ accepted' = Append(accepted, send.named) /\ lost' = lost + 1
           \/ UNCHANGED <<accepted, lost>>
  /\ UNCHANGED sentCopy

MutQuit ==
  /\ send.pc = "quit"
  /\ \/ /\ send' = IF send.target = Targets THEN [send EXCEPT !.pc = "copy"]
                    ELSE [send EXCEPT !.pc = "dial", !.target = @ + 1]
        /\ UNCHANGED <<lost, breaks, answer>>
     \/ /\ breaks < MaxLost /\ breaks' = breaks + 1
        /\ lost' = lost + 1
        /\ NextTarget
  /\ UNCHANGED <<accepted, sentCopy>>

(* QUIT: a broken connection, and any reply but 221, counts as a failed    *)
(* submission, although the MTA has taken the message.  After a submission *)
(* without error no other address is tried.                                *)
Quit ==
  /\ send.pc = "quit"
  /\ \/ send' = [send EXCEPT !.pc = "copy"] /\ UNCHANGED <<lost, breaks, answer>>
     \/ /\ breaks < MaxLost /\ breaks' = breaks + 1
        /\ lost' = lost + 1
        /\ NextTarget
  /\ UNCHANGED <<accepted, sentCopy>>

(* WriteFile without a temporary file; its error is dropped. *)
SaveCopy ==
  /\ send.pc = "copy"
  /\ sentCopy' \in {"none", "partial", "whole"}
  /\ send' = [send EXCEPT !.pc = "respond"]
  /\ UNCHANGED <<accepted, lost, breaks, answer>>

Respond200 ==
  /\ send.pc = "respond"
  /\ answer' = "ok"
  /\ send' = [send EXCEPT !.pc = "done"]
  /\ UNCHANGED <<accepted, lost, breaks, sentCopy>>

(* The server stops: nobody answers and nothing is remembered. *)
Stop ==
  /\ send.pc \notin {"idle", "done"}
  /\ send' = [send EXCEPT !.pc = "done"]
  /\ UNCHANGED <<accepted, lost, breaks, sentCopy, answer>>

SendNext ==
  \/ \E to, others \in SUBSET (Recipients \cup {""}) : SendRequest(to, others)
  \/ Dial \/ Rcpt \/ Data \/ Quit \/ SaveCopy \/ Respond200 \/ Stop

SendSpec == SendInit /\ [][SendNext]_sendvars

-----------------------------------------------------------------------------
(* Every variable has its type. *)
SendTypeOK ==
  /\ send.target \in 1..Targets
  /\ send.left \cup send.named \subseteq Recipients
  /\ accepted \in Seq(SUBSET Recipients)
  /\ lost \in 0..breaks /\ breaks \in 0..MaxLost
  /\ sentCopy \in {"none", "partial", "whole"}
  /\ answer \in {"none", "refused", "error", "ok"}

(* Whatever the MTA refuses and whichever address takes the message, every *)
(* copy it takes goes to all recipients.                                   *)
WholeEnvelope == \A k \in DOMAIN accepted : accepted[k] = Envelope /\ accepted[k] # {}

(* The MTA has a second copy only for every acceptance that was not heard  *)
(* of; without one, "ok" means one copy and an error means none.           *)
CopiesAreExplained ==
  /\ answer = "error" => Len(accepted) = lost
  /\ answer = "ok" => Len(accepted) = lost + 1
  /\ Len(accepted) <= lost + 1

(* What stands in the Sent folder was submitted. *)
SentWasSubmitted == sentCopy # "none" => accepted # <<>>

(* SendMessage over several addresses of the MTA, with refusals and lost   *)
(* answers: whole envelopes, second copies only where an acceptance was    *)
(* not heard of, and nothing in Sent that was not submitted.               *)
SubmissionIsExplained == WholeEnvelope /\ CopiesAreExplained /\ SentWasSubmitted
==============================================================================
