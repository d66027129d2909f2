------------------------------ MODULE MCWebmail ------------------------------
(***************************************************************************)
(* An instance of the webmail service for TLC: a behaviour is one of the   *)
(* folders, one of a submission, or one that looks at one sample of        *)
(* content.                                                                *)
(***************************************************************************)
EXTENDS Webmail, WebmailContent, TLC

VARIABLE sample

ASSUME SampleAssumption == {"t", "h", "a", "d1", "image/png"} \subseteq Text

Attachments ==
  [name : {NoName, [stem |-> "a", n |-> 0], ID(3)}, type : {"", "image/png", "multipart/mixed"},
   data : {"d1"}, valid : BOOLEAN]
Requests == [text : {"", "t"}, html : {"", "h"}, atts : BoundedSeq(Attachments, 2)]
Snippets == BoundedSeq({"<", ">", Blank, "a"}, 5)
Listings == [list : {[k \in 1..n |-> k] : n \in 0..4}, limit : 0..4]

Samples ==
  {[kind |-> "mime", req |-> r] : r \in Requests}
    \cup {[kind |-> "snippet", chars |-> s] : s \in Snippets}
    \cup {[kind |-> "page", list |-> l.list, limit |-> l.limit] : l \in Listings}

NoSample == [kind |-> "none"]

Init ==
  /\ WebmailInit
  /\ IF focus = "content" THEN sample \in Samples ELSE sample = NoSample

Next == WebmailNext /\ UNCHANGED sample

Spec == Init /\ [][Next]_<<webmailvars, sample>>

(* What is built from a request is read back from the message: its body    *)
(* and, by number, its attachments, for every request with up to two.  The *)
(* text and the snippet of an HTML body have its characters without the    *)
(* tags, for every one of up to five characters, and the pages of a list   *)
(* of up to four messages are that list.                                   *)
ContentComesBack ==
  /\ sample.kind = "mime" => BodyRoundTrip(sample.req) /\ AttachmentByNumber(sample.req)
  /\ sample.kind = "snippet" =>
       TagsAreStripped(sample.chars) /\ SnippetIsClean(stripHTML(sample.chars))
  /\ sample.kind = "page" => PagesPartition(sample.list, sample.limit)

Symmetry == Permutations(Workers)
=============================================================================
