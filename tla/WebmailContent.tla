--------------------------- MODULE WebmailContent ---------------------------
(***************************************************************************)
(* What webmail makes of content: the MIME message SendMessage builds from *)
(* a request, what GetMessage and GetAttachment read out of a message, the *)
(* snippet of a message, and the page of a listing.                        *)
(***************************************************************************)
EXTENDS Naturals, SequencesExt

CONSTANTS
  Text,          \* texts, names, media types and encodings
  Multiparts,    \* the media types that begin with "multipart/"
  MaxNesting,    \* how deep multiparts are nested in a message
  MaxSnippet,    \* characters kept of a snippet
  DefaultLimit,  \* messages on a page when the limit is out of range
  MaxLimit

ASSUME ContentAssumption ==
  /\ {"", "text/plain", "text/html", "application/octet-stream", "quoted-printable", "base64"} \subseteq Text
  /\ {"attachment", "att", "part"} \cup Multiparts \subseteq Text
  /\ {"multipart/mixed", "multipart/alternative"} \subseteq Multiparts
  /\ Multiparts \cap {"text/plain", "text/html", "application/octet-stream"} = {}
  /\ MaxNesting \in Nat \ {0} /\ MaxSnippet \in Nat
  /\ DefaultLimit \in 1..MaxLimit /\ MaxLimit \in Nat

-----------------------------------------------------------------------------
(* Content in a transfer encoding; "" is content as it is.  Texts are      *)
(* taken up to their line ends, which become CRLF when they are encoded.   *)
Content == [enc : Text, data : Text]
Encode(enc, data) == [enc |-> enc, data |-> data]
Plain(data) == Encode("", data)

(* What is not in the encoding that the header names is left as it is. *)
decodeContent(raw, enc) == IF raw.enc = enc THEN Plain(raw.data) ELSE raw

(* File names; some are those that the reader makes up for part number k,  *)
(* and some look like the numbers that it gives to attachments.            *)
Name == [stem : Text, n : Nat]
NoName == [stem |-> "", n |-> 0]
ID(k) == [stem |-> "att", n |-> k]
NameOf(p, k) == IF p.name = NoName THEN [stem |-> "attachment", n |-> k] ELSE p.name

Leaf(type, disp, name, raw) ==
  [type |-> type, disp |-> disp, name |-> name, raw |-> raw, parts |-> <<>>]
Multipart(type, parts) ==
  [type |-> type, disp |-> "", name |-> NoName, raw |-> Plain(""), parts |-> parts]

(* A part that only calls itself a multipart has no parts. *)
IsMultipart(p) == p.type \in Multiparts

TextPart(text) == Leaf("text/plain", "", NoName, Encode("quoted-printable", text))
HtmlPart(html) == Leaf("text/html", "", NoName, Encode("quoted-printable", html))

(* An attachment that is not valid base64 becomes an empty part. *)
AttachmentPart(att) ==
  Leaf(IF att.type = "" THEN "application/octet-stream" ELSE att.type, "attachment", att.name,
       Encode("base64", IF att.valid THEN att.data ELSE ""))

(* The text and HTML parts that are not empty, in this order. *)
Bodies(req) ==
  (IF req.text = "" THEN <<>> ELSE <<TextPart(req.text)>>)
    \o (IF req.html = "" THEN <<>> ELSE <<HtmlPart(req.html)>>)

MutBuild(req) ==
  IF req.atts # <<>>
    THEN Multipart("multipart/mixed", Bodies(req) \o [k \in DOMAIN req.atts |-> AttachmentPart(req.atts[k])])
  ELSE IF req.text = "" THEN HtmlPart(req.html) ELSE TextPart(req.text)

(* SendMessage: with attachments mixed around an alternative of the        *)
(* bodies, with two bodies an alternative, else the one body.              *)
Build(req) ==
  IF req.atts # <<>>
    THEN Multipart("multipart/mixed",
           <<Multipart("multipart/alternative", Bodies(req))>>
             \o [k \in DOMAIN req.atts |-> AttachmentPart(req.atts[k])])
  ELSE IF req.text # "" /\ req.html # "" THEN Multipart("multipart/alternative", Bodies(req))
  ELSE IF req.html # "" THEN HtmlPart(req.html)
  ELSE TextPart(req.text)

-----------------------------------------------------------------------------
NoBody == [text |-> Plain(""), html |-> Plain(""), atts |-> <<>>]

(* One part of a multipart that is no multipart itself; the content that   *)
(* is listed of an attachment is its size.                                 *)
ReadLeaf(acc, p, k) ==
  LET data == decodeContent(p.raw, p.raw.enc)
      shown(name) == [id |-> ID(k), name |-> name, type |-> p.type, data |-> data]
  IN  IF p.name # NoName \/ p.disp = "attachment"
        THEN [acc EXCEPT !.atts = Append(@, shown(NameOf(p, k)))]
      ELSE IF p.type = "text/html" THEN [acc EXCEPT !.html = data]
      ELSE IF p.type = "text/plain" THEN [acc EXCEPT !.text = data]
      ELSE [acc EXCEPT !.atts = Append(@, shown([stem |-> "part", n |-> k]))]

(* The body of a nested multipart counts only where there is none yet. *)
Nested(acc, sub) ==
  [text |-> IF acc.text.data = "" THEN sub.text ELSE acc.text,
   html |-> IF acc.html.data = "" THEN sub.html ELSE acc.html,
   atts |-> acc.atts \o sub.atts]

(* Parts are numbered from one in each multipart; sub is what the nested   *)
(* multiparts read.                                                        *)
ReadParts(parts, sub) ==
  LET read[k \in 0..Len(parts)] ==
        IF k = 0 THEN NoBody
        ELSE IF IsMultipart(parts[k]) THEN Nested(read[k - 1], sub[parts[k].parts])
        ELSE ReadLeaf(read[k - 1], parts[k], k)
  IN  read[Len(parts)]

(* Parts with so many multiparts inside each other. *)
PartsTo[n \in 0..MaxNesting] ==
  [type : Text, disp : Text, name : Name, raw : Content,
   parts : IF n = 0 THEN {<<>>} ELSE Seq(PartsTo[n - 1])]

(* The recursion of parseMultipart, by the number of levels below. *)
ReaderTo[n \in 0..MaxNesting] ==
  [parts \in Seq(PartsTo[n]) |->
     ReadParts(parts, IF n = 0 THEN [none \in {<<>>} |-> NoBody] ELSE ReaderTo[n - 1])]

parseMultipart(parts) == ReaderTo[MaxNesting][parts]

parseMIMEBody(msg) ==
  IF IsMultipart(msg) THEN parseMultipart(msg.parts)
  ELSE IF msg.type = "text/html" THEN [NoBody EXCEPT !.html = decodeContent(msg.raw, msg.raw.enc)]
  ELSE [NoBody EXCEPT !.text = decodeContent(msg.raw, msg.raw.enc)]

(* GetAttachment: the first top-level part with this number or this name,  *)
(* in its encoding unless the library took that off; else the entry of the *)
(* listing with this number, without content.                              *)
NotFound == [part |-> 0, content |-> Plain("")]

AttachmentOf(msg, id) ==
  LET hits == {k \in DOMAIN msg.parts : id \in {ID(k), NameOf(msg.parts[k], k)}}
      first == CHOOSE k \in hits : \A j \in hits : k <= j
  IN  IF hits = {} THEN NotFound
      ELSE [part |-> first,
            content |-> IF msg.parts[first].raw.enc = "quoted-printable"
                          THEN Plain(msg.parts[first].raw.data) ELSE msg.parts[first].raw]

-----------------------------------------------------------------------------
(* Characters: "<" and ">", the blank, and others. *)
Blank == " "
StripChar(acc, c) ==
  IF c = "<" THEN [acc EXCEPT !.inTag = TRUE]
  ELSE IF c = ">" THEN [inTag |-> FALSE, out |-> Append(acc.out, Blank)]
  ELSE IF acc.inTag THEN acc
  ELSE [acc EXCEPT !.out = Append(@, c)]

stripHTML(s) ==
  LET strip[i \in 0..Len(s)] ==
        IF i = 0 THEN [inTag |-> FALSE, out |-> <<>>] ELSE StripChar(strip[i - 1], s[i])
  IN  strip[Len(s)].out

(* The words, joined by single blanks. *)
JoinChar(acc, c) ==
  IF c = Blank THEN [acc EXCEPT !.gap = acc.out # <<>>]
  ELSE [gap |-> FALSE, out |-> Append(IF acc.gap THEN Append(acc.out, Blank) ELSE acc.out, c)]

JoinWords(s) ==
  LET join[i \in 0..Len(s)] ==
        IF i = 0 THEN [gap |-> FALSE, out |-> <<>>] ELSE JoinChar(join[i - 1], s[i])
  IN  join[Len(s)].out

(* Cut off with an ellipsis. *)
cleanSnippet(s) ==
  LET joined == JoinWords(s)
  IN  IF Len(joined) > MaxSnippet THEN Append(SubSeq(joined, 1, MaxSnippet), "...") ELSE joined

createSnippet(text, html) == cleanSnippet(IF text # <<>> THEN text ELSE stripHTML(html))

-----------------------------------------------------------------------------
Limit(limit) == IF limit < 1 \/ limit > MaxLimit THEN DefaultLimit ELSE limit

Page(list, page, limit) ==
  LET start == ((IF page < 1 THEN 1 ELSE page) - 1) * Limit(limit)
      end == IF start + Limit(limit) > Len(list) THEN Len(list) ELSE start + Limit(limit)
  IN  IF start > Len(list) THEN <<>> ELSE SubSeq(list, start + 1, end)

-----------------------------------------------------------------------------
(* What SendMessage writes is what GetMessage shows: the text, the HTML,   *)
(* and of the attachments, in their order, those whose type is not that of *)
(* a multipart, each with its number, its type, its name and, if it was    *)
(* valid, its content.                                                     *)
BodyRoundTrip(req) ==
  LET got == parseMIMEBody(Build(req))
      part(k) == AttachmentPart(req.atts[k])
      kept == {k \in DOMAIN req.atts : ~IsMultipart(part(k))}
      shows(a, k) == a = [id |-> ID(k + 1), name |-> NameOf(part(k), k + 1), type |-> part(k).type,
                          data |-> Plain(IF req.atts[k].valid THEN req.atts[k].data ELSE "")]
  IN  /\ got.text = Plain(req.text) /\ got.html = Plain(req.html)
      /\ Len(got.atts) = Cardinality(kept)
      /\ \A k \in kept : shows(got.atts[Cardinality({j \in kept : j <= k})], k)

(* GetAttachment serves under the number of an attachment that attachment, *)
(* unless one in front of it has this number as its file name.             *)
AttachmentByNumber(req) ==
  \A k \in DOMAIN req.atts :
    LET got == AttachmentOf(Build(req), ID(k + 1))
    IN  IF \E j \in 1..(k - 1) : req.atts[j].name = ID(k + 1)
          THEN got.part \in 2..k
          ELSE got.part = k + 1 /\ got.content = AttachmentPart(req.atts[k]).raw

(* stripHTML keeps a character exactly if the last bracket before it is no *)
(* "<", and puts a blank for each ">", in the order of the text.           *)
TagsAreStripped(s) ==
  LET inTag(k) == \E i \in 1..(k - 1) : s[i] = "<" /\ \A j \in (i + 1)..(k - 1) : s[j] # ">"
      kept == {k \in DOMAIN s : s[k] = ">" \/ (s[k] # "<" /\ ~inTag(k))}
      text == stripHTML(s)
  IN  /\ Len(text) = Cardinality(kept)
      /\ \A k \in kept : text[Cardinality({j \in kept : j <= k})] = IF s[k] = ">" THEN Blank ELSE s[k]

(* A snippet is the characters of the text that are not blank, in their    *)
(* order, with single blanks between the words and none in front, up to    *)
(* MaxSnippet characters of this.                                          *)
SnippetIsClean(s) ==
  LET solid == {k \in DOMAIN s : s[k] # Blank}
      begins == {k \in solid : k - 1 \in DOMAIN s \ solid /\ \E j \in solid : j < k}
      place(k) == Cardinality({j \in solid : j <= k}) + Cardinality({j \in begins : j <= k})
      length == Cardinality(solid) + Cardinality(begins)
      snip == cleanSnippet(s)
  IN  /\ Len(snip) = IF length > MaxSnippet THEN MaxSnippet + 1 ELSE length
      /\ length > MaxSnippet => snip[MaxSnippet + 1] = "..."
      /\ \A k \in solid : place(k) <= MaxSnippet => snip[place(k)] = s[k]
      /\ \A k \in begins : place(k) - 1 <= MaxSnippet => snip[place(k) - 1] = Blank

(* The pages of a listing, one after the other, are the listing, for any   *)
(* limit a client may ask for.                                             *)
PagesPartition(list, limit) ==
  FlattenSeq([k \in 1..(Len(list) + 1) |-> Page(list, k, limit)]) = list
=============================================================================
