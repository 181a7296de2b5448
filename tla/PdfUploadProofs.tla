-------------------------- MODULE PdfUploadProofs --------------------------
(***************************************************************************)
(* What PdfUpload guarantees for every limit, every header of any length,  *)
(* templates and PDFs of any number of pages: bodies that are decoded      *)
(* whole or not used, within their limits; templates that come back as     *)
(* they were posted; anchors that are closed; every page given once; files *)
(* that are removed.                                                       *)
(***************************************************************************)
EXTENDS PdfUpload, FiniteSetTheorems, SequenceTheorems, WellFoundedInduction, TLAPS

Item == [page : Nat, place : Nat, image : Images]

Shaped(n, m) == [1..n -> [1..m -> Item]]

\* The codecs and the tables lose nothing.
LEMMA RoundTrip ==
  ASSUME NEW n \in Nat, NEW m \in Nat, NEW t \in Shaped(n, m)
  PROVE  Restored(Encoded(t)) = t
<1> DEFINE s == Encoded(t)
           u == Restored(s)
<1>1. DOMAIN t = 1..n /\ \A i \in 1..n : t[i] \in [1..m -> Item]
  BY DEF Shaped
<1>2. \A i \in 1..n : DOMAIN t[i] = 1..m /\ \A j \in 1..m : t[i][j] \in Item
  BY <1>1
<1>3. DOMAIN s = 1..n /\ \A i \in 1..n :
        /\ DOMAIN s[i] = 1..m
        /\ \A j \in 1..m : s[i][j] = [pos |-> <<t[i][j].page, t[i][j].place>>, bytes |-> t[i][j].image]
  BY <1>1, <1>2 DEF Encoded
<1> HIDE DEF s
<1>4. u = [i \in 1..n |-> [j \in 1..m |->
             [page |-> s[i][j].pos[1], place |-> s[i][j].pos[2], image |-> s[i][j].bytes]]]
  BY <1>3 DEF Restored
<1>5. ASSUME NEW i \in 1..n, NEW j \in 1..m
      PROVE  [page |-> s[i][j].pos[1], place |-> s[i][j].pos[2], image |-> s[i][j].bytes] = t[i][j]
  <2>1. s[i][j].pos[1] = t[i][j].page /\ s[i][j].pos[2] = t[i][j].place /\ s[i][j].bytes = t[i][j].image
    <3>1. s[i][j] = [pos |-> <<t[i][j].page, t[i][j].place>>, bytes |-> t[i][j].image]
      BY <1>3
    <3>2. s[i][j].pos = <<t[i][j].page, t[i][j].place>> /\ s[i][j].bytes = t[i][j].image
      BY <3>1
    <3> QED
      BY <3>2
  <2>2. t[i][j] \in Item
    BY <1>2
  <2>3. t[i][j] = [page |-> t[i][j].page, place |-> t[i][j].place, image |-> t[i][j].image]
    BY <2>2 DEF Item
  <2> QED
    BY <2>1, <2>3
<1>6. u = [i \in 1..n |-> [j \in 1..m |-> t[i][j]]]
  BY <1>4, <1>5
<1>7. \A i \in 1..n : t[i] = [j \in 1..m |-> t[i][j]]
  BY <1>1
<1>8. t = [i \in 1..n |-> t[i]]
  BY DEF Shaped
<1> QED
  BY <1>6, <1>7, <1>8 DEF s

\* Every template that can be posted has a shape.
LEMMA PostableIsShaped ==
  ASSUME NEW t \in Postable
  PROVE  \E n, m \in Nat : t \in Shaped(n, m)
<1>1. CASE t = <<>>
  <2>1. <<>> \in Shaped(0, 0)
    BY SMT DEF Shaped
  <2> QED
    BY <1>1, <2>1
<1>2. CASE t # <<>>
  <2>1. PICK shape \in Shapes : t = Pages(shape)
    BY <1>2 DEF Postable
  <2> DEFINE n == shape.pages
             m == shape.items
  <2>2. n \in Nat /\ m \in Nat /\ 1..n \subseteq Nat /\ 1..m \subseteq Nat /\ shape.image \in Images
    <3>1. n \in 1..MaxBlockSize /\ m \in 1..3 /\ shape.image \in Images
      BY DEF Shapes, MinAnchors
    <3> QED
      BY <3>1, TemplateAssumption, SMT
  <2>3. \A i \in 1..n, j \in 1..m :
          [page |-> i, place |-> j,
           image |-> IF i = shape.page /\ j = shape.place THEN shape.image ELSE "good"] \in Item
    BY <2>2 DEF Item, Images
  <2>4. t \in Shaped(n, m)
    BY <2>1, <2>3 DEF Shaped, Pages
  <2> QED
    BY <2>2, <2>4
<1> QED
  BY <1>1, <1>2

LEMMA PostedComesBack ==
  ASSUME NEW t \in Postable
  PROVE  Restored(Encoded(t)) = t
BY PostableIsShaped, RoundTrip

-----------------------------------------------------------------------------
(* The invariant.                                                          *)

\* Which requests reach which places.
Places ==
  /\ request \in Requests
  /\ by = "handler" /\ at \in {"create", "copy", "sniff"} => request.kind = "scan"
  /\ at = "read" => request.kind # "scan"
  /\ at \in {"template", "split", "subdocs", "rendering"} => request.kind = "scan"
  /\ at \in {"marking", "marked"} => request.kind = "mark"
  /\ at \in {"validate", "adapt", "save"} => request.kind \in Posts

\* What has been read is within its limit.
Limits ==
  /\ at = "sniff" => Bytes <= FileLimit
  /\ LimitIsOnDecoded

\* What is stored is what was posted, whole.
Stored ==
  /\ posted \in Postable
  /\ row = NoRow \/ row.pages = Encoded(posted)
  /\ request.kind \in Posts /\ at # "over" => row = NoRow
  /\ at = "save" => template = posted
  /\ at = "adapt" /\ request.kind = "postMarking" => \A item \in ItemsOf(posted) : item.image = "good"
  /\ TemplateComesBack

\* Where matrices are open.
Open ==
  native # {} =>
    \/ request.kind = "postPreprocess"
    \/ request.kind = "scan" /\ at \in {"split", "subdocs", "rendering"}

UInv == Places /\ Limits /\ Stored /\ Open

LEMMA UploadInitInvariant == Init => UInv
<1> SUFFICES ASSUME Init PROVE UInv
  OBVIOUS
<1>1. request \in Requests /\ at \in {"check", "query"}
  BY DEF Init, BodyInit, FirstAt, FirstStep
<1>2. posted = <<>> /\ template = <<>> /\ row = NoRow /\ native = {}
  BY DEF Init, TemplateInit
<1>3. <<>> \in Postable
  BY DEF Postable
<1> QED
  BY <1>1, <1>2, <1>3 DEF UInv, Places, Limits, LimitIsOnDecoded, Stored, TemplateComesBack, Open

\* Sizes are numbers.
LEMMA Sizes ==
  ASSUME request \in Requests
  PROVE  /\ request.size \in Nat /\ Bytes \in Nat
         /\ request.kind \in {"scan", "mark", "postPreprocess", "postMarking"}
<1>1. request.size \in 0..MaxSize /\ request.kind \in {"scan", "mark", "postPreprocess", "postMarking"}
  BY DEF Requests, Posts
<1>2. request.size \in Nat
  BY <1>1, LimitsAssumption, SMT
<1> QED
  BY <1>1, <1>2, SMT DEF Bytes

-----------------------------------------------------------------------------
(* The parsers.                                                            *)

LEMMA BodyKeepsPlaces == UInv /\ BodyNext => Places'
<1> SUFFICES ASSUME UInv, BodyNext PROVE Places'
  OBVIOUS
<1>1. Places /\ request' = request
  BY DEF UInv, BodyNext, ParseQuery, CheckType, Decode, CreateTemp, CopyBody, SniffWrong, Accept,
         HandOver, ReadJson, End
<1>2. CASE ParseQuery
  BY <1>1, <1>2 DEF ParseQuery, End, Answer, Places
<1>3. CASE CheckType \/ SniffWrong
  BY <1>1, <1>3 DEF CheckType, SniffWrong, End, Answer, Places
<1>4. CASE Decode
  BY <1>1, <1>4, Sizes DEF Decode, IntoFile, End, Answer, Places
<1>5. CASE CreateTemp
  BY <1>1, <1>5 DEF CreateTemp, End, Answer, Places
<1>6. CASE CopyBody
  BY <1>1, <1>6 DEF CopyBody, End, Answer, Places
<1>7. CASE Accept
  BY <1>1, <1>7 DEF Accept, FirstStep, Places
<1>8. CASE HandOver
  BY <1>1, <1>8 DEF HandOver, Places
<1>9. CASE ReadJson
  BY <1>1, <1>9, Sizes DEF ReadJson, End, Answer, Places, Posts
<1> QED
  BY <1>2, <1>3, <1>4, <1>5, <1>6, <1>7, <1>8, <1>9 DEF BodyNext

LEMMA BodyKeepsLimits == UInv /\ BodyNext => Limits'
<1> SUFFICES ASSUME UInv, BodyNext PROVE Limits'
  OBVIOUS
<1>1. Places /\ Limits /\ request' = request
  BY DEF UInv, BodyNext, ParseQuery, CheckType, Decode, CreateTemp, CopyBody, SniffWrong, Accept,
         HandOver, ReadJson, End
<1>2. request.size \in Nat /\ Bytes \in Nat /\ FileLimit \in Nat /\ JsonLimit \in Nat /\ TemplateLimit \in Nat
      /\ request.kind \in {"scan", "mark", "postPreprocess", "postMarking"}
  BY <1>1, Sizes, LimitsAssumption DEF Places
<1>3. CASE at' \in {"over", "check", "query", "create", "copy", "read"}
  BY <1>1, <1>3 DEF Limits, LimitIsOnDecoded
<1>4. CASE CopyBody /\ at' = "sniff"
  <2>1. stream' = stream /\ ~(Bytes > FileLimit)
    BY <1>4 DEF CopyBody, End, Answer, OverFileLimit
  <2>2. Bytes' = Bytes /\ Bytes <= FileLimit
    BY <1>1, <1>2, <2>1, SMT DEF Bytes
  <2> QED
    BY <1>4, <2>2 DEF Limits, LimitIsOnDecoded
<1>5. CASE HandOver
  <2>1. at = "sniff" /\ by = "handler" /\ Genuine /\ at' = "template"
    BY <1>5 DEF HandOver
  <2>2. request.kind = "scan" /\ request.size <= FileLimit
    BY <1>1, <2>1 DEF Places, Limits, Genuine, Bytes
  <2> QED
    BY <1>1, <2>1, <2>2 DEF Limits, LimitIsOnDecoded
<1>6. CASE ReadJson /\ at' # "over"
  <2>1. at = "read" /\ Bytes <= ReadLimit /\ Genuine
        /\ at' = IF request.kind \in Posts THEN "validate" ELSE "marking"
    BY <1>6 DEF ReadJson, End, Answer
  <2>2. request.size <= ReadLimit /\ request.kind # "scan"
    BY <1>1, <2>1 DEF Places, Genuine, Bytes
  <2>3. request.size <= IF request.kind = "mark" THEN JsonLimit ELSE TemplateLimit
    BY <1>2, <2>2 DEF ReadLimit, Posts
  <2> QED
    BY <1>1, <2>1, <2>2, <2>3 DEF Limits, LimitIsOnDecoded
<1>7. \/ at' \in {"over", "check", "query", "create", "copy", "read"}
      \/ (CopyBody /\ at' = "sniff") \/ HandOver \/ (ReadJson /\ at' # "over")
  BY DEF BodyNext, ParseQuery, CheckType, Decode, CreateTemp, CopyBody, SniffWrong, Accept, FirstStep,
         HandOver, ReadJson, End, Answer
<1> QED
  BY <1>3, <1>4, <1>5, <1>6, <1>7

\* The parsers leave the templates alone, and stop short of what reads them.
LEMMA BodyKeepsTemplates == UInv /\ BodyNext /\ UNCHANGED templateVars => Stored' /\ Open'
<1> SUFFICES ASSUME UInv, BodyNext, UNCHANGED templateVars PROVE Stored' /\ Open'
  OBVIOUS
<1>1. Stored /\ Open /\ posted' = posted /\ template' = template /\ row' = row /\ native' = native
  BY DEF UInv, templateVars
<1>2. /\ at \notin {"over", "split", "subdocs", "rendering"}
      /\ at' \notin {"adapt", "save"} /\ request' = request
  BY DEF BodyNext, ParseQuery, CheckType, Decode, CreateTemp, CopyBody, SniffWrong, Accept, FirstStep,
         HandOver, ReadJson, End, Answer
<1> QED
  BY <1>1, <1>2 DEF Stored, TemplateComesBack, Open

-----------------------------------------------------------------------------
(* Posting a template, and marking.                                        *)

\* Steps that leave where the request is, and Bytes, alone or end it.
LEMMA RestingLimits ==
  ASSUME UInv, request' = request, at' \notin {"sniff", "template", "marking", "validate"}
  PROVE  Limits'
BY DEF UInv, Limits, LimitIsOnDecoded

LEMMA ValidateKeeps == UInv /\ Validate => UInv'
<1> SUFFICES ASSUME UInv, Validate PROVE UInv'
  OBVIOUS
<1>1. Places /\ Limits /\ Stored /\ Open /\ at = "validate" /\ request.kind \in Posts
  BY DEF UInv, Validate, Places
<1>2. PICK t \in Postable :
        IF Valid(t)
        THEN posted' = t /\ at' = "adapt" /\ UNCHANGED <<request, by, stream, files, status>>
        ELSE End("badTemplate") /\ UNCHANGED posted
  BY DEF Validate
<1>3. request' = request /\ by' = by /\ template' = template /\ row' = row /\ native' = native
      /\ at' \in {"adapt", "over"}
  BY <1>2 DEF Validate, End, Answer
<1>4. Places'
  BY <1>1, <1>3 DEF Places
<1>5. Limits'
  BY <1>3, RestingLimits
<1>6. Stored'
  <2>1. row = NoRow
    BY <1>1 DEF Stored
  <2>2. CASE Valid(t)
    <3>1. posted' = t /\ at' = "adapt"
      BY <1>2, <2>2
    <3>2. request.kind = "postMarking" => \A item \in ItemsOf(t) : item.image = "good"
      BY <2>2 DEF Valid
    <3> QED
      BY <1>1, <1>3, <2>1, <3>1, <3>2 DEF Stored, TemplateComesBack
  <2>3. CASE ~Valid(t)
    <3>1. posted' = posted /\ at' = "over"
      BY <1>2, <2>3 DEF End, Answer
    <3> QED
      BY <1>1, <1>3, <3>1 DEF Stored, TemplateComesBack
  <2> QED
    BY <2>2, <2>3
<1>7. Open'
  BY <1>1, <1>3 DEF Open, Posts
<1> QED
  BY <1>4, <1>5, <1>6, <1>7 DEF UInv

LEMMA AdaptKeeps == UInv /\ (Adapt \/ AdaptMarks) => UInv'
<1> SUFFICES ASSUME UInv, Adapt \/ AdaptMarks PROVE UInv'
  OBVIOUS
<1>1. Places /\ Limits /\ Stored /\ Open /\ at = "adapt" /\ request.kind \in Posts
  BY DEF UInv, Adapt, AdaptMarks, Places
<1>2. request' = request /\ by' = by /\ posted' = posted /\ row' = row /\ at' \in {"save", "over"}
      /\ (at' = "save" => template' = posted)
      /\ (request.kind = "postMarking" => native' = native)
  BY DEF Adapt, AdaptMarks, End, Answer
<1>3. Places'
  BY <1>1, <1>2 DEF Places
<1>4. Limits'
  BY <1>2, RestingLimits
<1>5. Stored'
  BY <1>1, <1>2 DEF Stored, TemplateComesBack
<1>6. Open'
  BY <1>1, <1>2 DEF Open, Posts
<1> QED
  BY <1>3, <1>4, <1>5, <1>6 DEF UInv

LEMMA SaveKeeps == UInv /\ Save => UInv'
<1> SUFFICES ASSUME UInv, Save PROVE UInv'
  OBVIOUS
<1>1. Places /\ Limits /\ Stored /\ Open /\ at = "save" /\ request.kind \in Posts
  BY DEF UInv, Save, Places
<1>2. request' = request /\ by' = by /\ at' = "over" /\ UNCHANGED <<posted, template, native>>
  BY DEF Save, End, Answer
<1>3. row' = row \/ row'.pages = Encoded(posted)
  <2>1. template = posted
    BY <1>1 DEF Stored
  <2> QED
    BY <2>1 DEF Save
<1>4. Places'
  BY <1>2, <1>1 DEF Places
<1>5. Limits'
  BY <1>2, RestingLimits
<1>6. Stored'
  BY <1>1, <1>2, <1>3 DEF Stored, TemplateComesBack
<1>7. Open'
  BY <1>1, <1>2 DEF Open
<1> QED
  BY <1>4, <1>5, <1>6, <1>7 DEF UInv

LEMMA DeleteKeeps == UInv /\ DeleteTemplate => UInv'
BY DEF UInv, DeleteTemplate, bodyVars, Places, Limits, LimitIsOnDecoded, Bytes, Stored,
       TemplateComesBack, Open

LEMMA NextRequestKeeps == UInv /\ NextRequest => UInv'
<1> SUFFICES ASSUME UInv, NextRequest PROVE UInv'
  OBVIOUS
<1>1. Stored /\ request' \in Requests /\ request'.kind \notin Posts
      /\ posted' = posted /\ row' = row /\ template' = <<>> /\ native' = {}
  BY DEF UInv, NextRequest
<1>2. at' \in {"check", "query"}
  BY DEF NextRequest, FirstAt, FirstStep
<1> QED
  BY <1>1, <1>2 DEF UInv, Places, Limits, LimitIsOnDecoded, Stored, TemplateComesBack, Open

\* A row that is found gives back what was posted.
LEMMA FoundIsPosted ==
  ASSUME Stored, NEW kind \in Posts, Found(kind)
  PROVE  template' = posted
<1>1. row # NoRow
  BY DEF Found, NoRow, Posts
<1>2. row.pages = Encoded(posted) /\ posted \in Postable
  BY <1>1 DEF Stored
<1> QED
  BY <1>2, PostedComesBack DEF Found

LEMMA MarkingKeeps == UInv /\ (LoadMarkingTemplate \/ MarkEnd) => UInv'
<1> SUFFICES ASSUME UInv, LoadMarkingTemplate \/ MarkEnd PROVE UInv'
  OBVIOUS
<1>1. Places /\ Limits /\ Stored /\ Open /\ at \in {"marking", "marked"} /\ request.kind = "mark"
  BY DEF UInv, LoadMarkingTemplate, MarkEnd, Places
<1>2. request' = request /\ by' = by /\ at' \in {"marked", "over"} /\ posted' = posted /\ row' = row
      /\ native' = native
  BY DEF LoadMarkingTemplate, MarkEnd, End, Answer, templateVars
<1>3. template' = template \/ template' = posted
  <2>1. "postMarking" \in Posts
    BY DEF Posts
  <2> QED
    BY <1>1, <2>1, FoundIsPosted DEF LoadMarkingTemplate, MarkEnd, templateVars
<1>4. Places'
  BY <1>1, <1>2 DEF Places
<1>5. Limits'
  BY <1>2, RestingLimits
<1>6. Stored'
  BY <1>1, <1>2, <1>3 DEF Stored, TemplateComesBack, Posts
<1>7. Open'
  BY <1>1, <1>2 DEF Open
<1> QED
  BY <1>4, <1>5, <1>6, <1>7 DEF UInv

-----------------------------------------------------------------------------
(* The rest of PostScanPdf.                                                *)

LEMMA ScanKeeps ==
  UInv /\ (LoadTemplate \/ Split \/ OpenSubdoc \/ StartRenderers \/ ScanEnd \/ \E i \in 1..docs : RendererEnd(i))
    => UInv'
<1> SUFFICES ASSUME UInv,
                    LoadTemplate \/ Split \/ OpenSubdoc \/ StartRenderers \/ ScanEnd
                    \/ \E i \in 1..docs : RendererEnd(i)
             PROVE  UInv'
  OBVIOUS
<1>1. Places /\ Limits /\ Stored /\ Open
  BY DEF UInv
<1>2. CASE \E i \in 1..docs : RendererEnd(i)
  <2>1. UNCHANGED <<request, by, at, templateVars>>
    BY <1>2 DEF RendererEnd
  <2>2. at \in {"rendering", "over"}
    BY <1>2 DEF RendererEnd
  <2> QED
    BY <1>1, <2>1, <2>2 DEF UInv, templateVars, Places, Limits, LimitIsOnDecoded, Stored,
                            TemplateComesBack, Open
<1>3. CASE LoadTemplate \/ Split \/ OpenSubdoc \/ StartRenderers \/ ScanEnd
  <2>1. request' = request /\ by' = by /\ posted' = posted /\ row' = row
        /\ at \in {"template", "split", "subdocs", "rendering"}
    BY <1>3 DEF LoadTemplate, Split, OpenSubdoc, StartRenderers, ScanEnd, templateVars
  <2>2. at' \in {"split", "subdocs", "rendering", "over"}
    BY <1>3 DEF LoadTemplate, Split, OpenSubdoc, StartRenderers, ScanEnd, Return, GiveUp, Answer
  <2>3. at' = "over" => native' = {}
    BY <1>3 DEF LoadTemplate, Split, OpenSubdoc, StartRenderers, ScanEnd, Return, GiveUp, Answer
  <2>4. template' = template \/ template' = posted
    <3>1. "postPreprocess" \in Posts
      BY DEF Posts
    <3> QED
      BY <1>1, <1>3, <3>1, FoundIsPosted
         DEF LoadTemplate, Split, OpenSubdoc, StartRenderers, ScanEnd, templateVars
  <2>5. request.kind = "scan"
    BY <1>1, <2>1 DEF Places
  <2>6. Places'
    BY <1>1, <2>1, <2>2, <2>5 DEF Places
  <2>7. Limits'
    BY <2>1, <2>2, RestingLimits
  <2>8. Stored'
    BY <1>1, <2>1, <2>2, <2>4, <2>5 DEF Stored, TemplateComesBack, Posts
  <2>9. Open'
    BY <2>1, <2>2, <2>3, <2>5 DEF Open
  <2> QED
    BY <2>6, <2>7, <2>8, <2>9 DEF UInv
<1> QED
  BY <1>2, <1>3

LEMMA UploadStepInvariant == UInv /\ [Next]_vars => UInv'
<1> SUFFICES ASSUME UInv, [Next]_vars PROVE UInv'
  OBVIOUS
<1>1. CASE BodyNext /\ UNCHANGED templateVars
  BY <1>1, BodyKeepsPlaces, BodyKeepsLimits, BodyKeepsTemplates DEF UInv
<1>2. CASE Validate \/ Adapt \/ AdaptMarks \/ Save \/ DeleteTemplate \/ NextRequest \/ LoadMarkingTemplate \/ MarkEnd
  BY <1>2, ValidateKeeps, AdaptKeeps, SaveKeeps, DeleteKeeps, NextRequestKeeps, MarkingKeeps
<1>3. CASE LoadTemplate \/ Split \/ OpenSubdoc \/ StartRenderers \/ ScanEnd
           \/ \E i \in 1..docs : RendererEnd(i)
  BY <1>3, ScanKeeps
<1>4. CASE UNCHANGED vars
  BY <1>4 DEF vars, bodyVars, templateVars, UInv, Places, Limits, LimitIsOnDecoded, Bytes, Stored,
              TemplateComesBack, Open
<1> QED
  BY <1>1, <1>2, <1>3, <1>4 DEF Next, TemplateNext

LEMMA UploadInvariant == Spec => []UInv
BY UploadInitInvariant, UploadStepInvariant, PTL DEF Spec

\* No body is processed that decodes to more than its limit.
THEOREM LimitsAreKept == Spec => []LimitIsOnDecoded
<1>1. UInv => LimitIsOnDecoded
  BY DEF UInv, Limits
<1> QED
  BY <1>1, UploadInvariant, PTL

\* What an upload or a marking job loads under an id is what was posted.
THEOREM TemplatesComeBack == Spec => []TemplateComesBack
<1>1. UInv => TemplateComesBack
  BY DEF UInv, Stored
<1> QED
  BY <1>1, UploadInvariant, PTL

\* An upload closes the anchors it loaded, however it ends.
THEOREM UploadsCloseAnchors == Spec => []OnlyPostedAnchorsStay
<1>1. UInv => OnlyPostedAnchorsStay
  BY DEF UInv, Open, OnlyPostedAnchorsStay
<1> QED
  BY <1>1, UploadInvariant, PTL

-----------------------------------------------------------------------------
(* Induction over numbers.                                                 *)

NatLess == {pair \in Nat \X Nat : pair[1] < pair[2]}

\* Numbers that are not all as they should be have a first that is not: the
\* proofs by induction below look at it.
LEMMA LeastNumber ==
  ASSUME NEW T, T \subseteq Nat, T # {}
  PROVE  \E x \in T : \A y \in T : ~(y < x)
<1>1. IsWellFoundedOn(NatLess, Nat)
  BY NatLessThanWellFounded DEF OpToRel, NatLess
<1>2. PICK x \in T : \A y \in T : <<y, x>> \notin NatLess
  BY <1>1, WFMin
<1>3. \A y \in T : y < x => <<y, x>> \in NatLess
  BY DEF NatLess
<1> QED
  BY <1>2, <1>3

-----------------------------------------------------------------------------
(* decode.                                                                 *)

Faults  == {"none", "malformed", "unsupported", "corrupt"}
Layers  == {l \in Seq(Supported) : Len(l) <= MaxLayers}
Streams == [layers : Layers, fault : Faults]

\* A coding is undone only from outside, and a fault stays.
LEMMA UnwrapTakesTheLast ==
  ASSUME NEW coding, NEW s \in Streams, NEW t, t = Unwrap(coding, s)
  PROVE  /\ t \in Streams
         /\ t.fault = "none" => s.fault = "none" /\ s.layers = t.layers \o <<coding>>
<1>1. /\ s.layers \in Layers /\ s.layers \in Seq(Supported) /\ s.fault \in Faults
      /\ s = [layers |-> s.layers, fault |-> s.fault] /\ Len(s.layers) <= MaxLayers
  BY DEF Streams, Layers
<1>2. CASE Outermost(s, coding)
  <2> DEFINE p == s.layers
  <2>1. p \in Seq(Supported) /\ p # <<>> /\ p[Len(p)] = coding /\ s.fault = "none" /\ Len(p) <= MaxLayers
    BY <1>1, <1>2 DEF Outermost, Last
  <2>2. Len(p) \in Nat \ {0} /\ coding \in Supported
    BY <2>1
  <2>3. t = [s EXCEPT !.layers = Front(p)]
    BY <1>2, <2>1, <2>2 DEF Unwrap, Peel
  <2>4. t = [layers |-> Front(p), fault |-> "none"]
    BY <1>1, <2>1, <2>3
  <2> HIDE DEF p
  <2>5. Front(p) = SubSeq(p, 1, Len(p) - 1)
    BY DEF Front
  <2>6. SubSeq(p, 1, Len(p) - 1) \in Layers
    <3>1. 1 \in Int /\ Len(p) - 1 \in Int /\ \A i \in 1..(Len(p) - 1) : p[i] \in Supported
      BY <2>1, <2>2
    <3>2. SubSeq(p, 1, Len(p) - 1) \in Seq(Supported)
          /\ Len(SubSeq(p, 1, Len(p) - 1)) = IF 1 <= Len(p) - 1 THEN Len(p) - 1 - 1 + 1 ELSE 0
      BY <3>1, SubSeqProperties
    <3>3. Len(SubSeq(p, 1, Len(p) - 1)) <= MaxLayers
      BY <2>1, <2>2, <3>2, LimitsAssumption
    <3> QED
      BY <3>2, <3>3 DEF Layers
  <2>7. p = Front(p) \o <<coding>>
    <3>1. 1 \in 1..Len(p) /\ Len(p) \in 1..Len(p)
      BY <2>2, SMT
    <3>2. SubSeq(p, 1, Len(p)) = SubSeq(p, 1, Len(p) - 1) \o <<p[Len(p)]>>
      BY <2>1, <3>1, SubSeqRecursiveSecond
    <3>3. SubSeq(p, 1, Len(p)) = p
      BY <2>1, SubSeqFull
    <3> QED
      BY <2>1, <2>5, <3>2, <3>3
  <2>8. t \in Streams /\ t.layers = Front(p)
    BY <2>4, <2>5, <2>6 DEF Streams, Faults
  <2> QED
    BY <2>1, <2>7, <2>8 DEF p
<1>3. CASE ~Outermost(s, coding)
  <2>1. t = s \/ (\E fault \in Faults \ {"none"} : t = [s EXCEPT !.fault = fault])
    BY <1>3 DEF Unwrap, Faults
  <2>2. t = s => t.fault # "none"
    <3>1. CASE s.fault \in {"malformed", "unsupported"}
      BY <3>1
    <3>2. CASE s.fault \notin {"malformed", "unsupported"}
      <4>1. \E fault \in Faults \ {"none"} : t = [s EXCEPT !.fault = fault]
        BY <1>3, <3>2 DEF Unwrap, Faults
      <4> QED
        BY <1>1, <4>1
    <3> QED
      BY <3>1, <3>2
  <2>3. t \in Streams /\ t.fault # "none"
    BY <1>1, <2>1, <2>2 DEF Streams, Faults
  <2> QED
    BY <2>3
<1> QED
  BY <1>2, <1>3

\* A nonempty set of positions has a first.
LEMMA MinIsFirst ==
  ASSUME NEW T, T \subseteq Nat, T # {}
  PROVE  Min(T) \in T /\ \A y \in T : Min(T) <= y
<1>1. PICK x \in T : \A y \in T : ~(y < x)
  BY LeastNumber
<1>2. \A y \in T : x <= y
  BY <1>1, SMT
<1>3. \E z \in T : \A y \in T : z <= y
  BY <1>2
<1> QED
  BY <1>3 DEF Min

\* How a header is read: from what is after its first position.
Reads(g, header, s, z) ==
  g[z] = IF z = {} THEN s ELSE Unwrap(header[Min(z)], g[z \ {Min(z)}])

\* What reads the header from one position on can be made to read it from the
\* position before.
LEMMA HeaderIsReadFrom ==
  ASSUME NEW n \in Nat, NEW header, NEW s, NEW m \in 1..n, NEW g,
         \A z \in SUBSET ((m + 1)..n) : Reads(g, header, s, z)
  PROVE  \E h : \A z \in SUBSET (m..n) : Reads(h, header, s, z)
<1> DEFINE h == [z \in SUBSET (m..n) |-> IF m \in z THEN Unwrap(header[m], g[z \ {m}]) ELSE g[z]]
<1>1. \A z \in SUBSET (m..n) : m \notin z => z \in SUBSET ((m + 1)..n) /\ h[z] = g[z]
  BY SMT
<1>2. ASSUME NEW z \in SUBSET (m..n), m \notin z
      PROVE  Reads(h, header, s, z)
  <2>1. z \in SUBSET ((m + 1)..n) /\ h[z] = g[z]
    BY <1>1, <1>2
  <2>2. h[z \ {Min(z)}] = g[z \ {Min(z)}]
    BY <1>1, <1>2
  <2>3. Reads(g, header, s, z)
    BY <2>1
  <2> HIDE DEF h
  <2> QED
    BY <2>1, <2>2, <2>3 DEF Reads
<1>3. ASSUME NEW z \in SUBSET (m..n), m \in z
      PROVE  Reads(h, header, s, z)
  <2>1. h[z] = Unwrap(header[m], g[z \ {m}])
    BY <1>3
  <2>2. h[z \ {m}] = g[z \ {m}]
    BY <1>1
  <2>3. Min(z) = m
    <3>1. z \subseteq Nat /\ z # {} /\ \A y \in z : m <= y
      BY <1>3, SMT
    <3>2. Min(z) \in z /\ Min(z) <= m
      BY <1>3, <3>1, MinIsFirst
    <3>3. m <= Min(z) /\ Min(z) \in Nat
      BY <3>1, <3>2
    <3>4. m \in Nat
      BY SMT
    <3> HIDE DEF h
    <3> QED
      BY <3>2, <3>3, <3>4
  <2>4. z # {}
    BY <1>3
  <2> HIDE DEF h
  <2> QED
    BY <2>1, <2>2, <2>3, <2>4 DEF Reads
<1>4. \A z \in SUBSET (m..n) : Reads(h, header, s, z)
  BY <1>2, <1>3
<1> HIDE DEF h
<1> QED
  BY <1>4

\* So there is a function that reads the whole header.
LEMMA HeaderIsRead ==
  ASSUME NEW n \in Nat, NEW header, NEW s
  PROVE  \E g : \A z \in SUBSET (1..n) : Reads(g, header, s, z)
<1> DEFINE readable(m) == \E g : \A z \in SUBSET (m..n) : Reads(g, header, s, z)
           bad == {k \in 0..n : ~readable(n + 1 - k)}
<1>1. ASSUME bad # {} PROVE FALSE
  <2>1. bad \subseteq Nat
    BY SMT
  <2>2. PICK k \in bad : \A y \in bad : ~(y < k)
    <3> HIDE DEF bad
    <3> QED
      BY <1>1, <2>1, LeastNumber
  <2>3. k \in 0..n /\ ~readable(n + 1 - k) /\ \A y \in 0..n : y < k => readable(n + 1 - y)
    BY <2>2
  <2> HIDE DEF bad
  <2>4. k # 0
    <3> DEFINE g == [z \in SUBSET {} |-> s]
    <3>1. (n + 1)..n = {}
      BY SMT
    <3>5. g[{}] = s
      OBVIOUS
    <3> HIDE DEF g
    <3>2. \A z \in SUBSET ((n + 1)..n) : Reads(g, header, s, z)
      BY <3>1, <3>5 DEF Reads
    <3>3. readable(n + 1)
      BY <3>2
    <3>4. n + 1 - 0 = n + 1
      BY SMT
    <3> QED
      BY <2>3, <3>3, <3>4
  <2>5. PICK m \in 1..n : m = n + 1 - k /\ m + 1 = n + 1 - (k - 1) /\ k - 1 \in 0..n /\ k - 1 < k
    <3>1. n + 1 - k \in 1..n /\ (n + 1 - k) + 1 = n + 1 - (k - 1) /\ k - 1 \in 0..n /\ k - 1 < k
      BY <2>3, <2>4, SMT
    <3> QED
      BY <3>1
  <2>6. readable(m + 1)
    BY <2>3, <2>5
  <2>7. PICK g : \A z \in SUBSET ((m + 1)..n) : Reads(g, header, s, z)
    BY <2>6
  <2>8. readable(m)
    BY <2>7, HeaderIsReadFrom
  <2> QED
    BY <2>3, <2>5, <2>8
<1>2. readable(n + 1 - n)
  BY <1>1
<1>3. n + 1 - n = 1
  BY SMT
<1> QED
  BY <1>2, <1>3

\* What is left of a body once the header is read: what was around it before
\* was what is left and the codings of the header, in its order.
LEMMA HeaderIsUndone ==
  ASSUME NEW header \in Seq(Codings), NEW s \in Streams, s.fault = "none", NEW g,
         \A z \in SUBSET (1..Len(header)) : Reads(g, header, s, z)
  PROVE  LET t == g[1..Len(header)] IN
         t \in Streams /\ (t.fault = "none" => s.layers = t.layers \o header)
<1> DEFINE n == Len(header)
           left(m) == g[m..n]
           undone(m) == /\ left(m) \in Streams
                        /\ left(m).fault = "none" => s.layers = left(m).layers \o SubSeq(header, m, n)
           bad == {k \in 0..n : ~undone(n + 1 - k)}
<1>1. n \in Nat /\ s.layers \in Seq(Supported)
  BY DEF Streams, Layers
<1>2. undone(n + 1)
  <2>1. (n + 1)..n = {} /\ n < n + 1 /\ n \in Int /\ n + 1 \in Int
    BY <1>1, SMT
  <2>2. left(n + 1) = s
    BY <2>1 DEF Reads
  <2>3. SubSeq(header, n + 1, n) = <<>>
    BY <2>1, SubSeqEmpty
  <2>4. s.layers \o <<>> = s.layers
    BY <1>1, ConcatEmptySeq
  <2> QED
    BY <2>2, <2>3, <2>4
<1>3. ASSUME NEW m \in 1..n, undone(m + 1)
      PROVE  undone(m)
  <2>1. m..n \in SUBSET (1..n) /\ m..n # {} /\ (m..n) \ {m} = (m + 1)..n /\ m \in 1..n /\ n \in m..n
        /\ m..n \subseteq Nat /\ m \in m..n
    BY <1>1, SMT
  <2>2. Min(m..n) = m
    <3>1. Min(m..n) \in m..n /\ Min(m..n) <= m
      BY <2>1, MinIsFirst
    <3> QED
      BY <1>1, <3>1, SMT
  <2>3. left(m) = Unwrap(header[m], left(m + 1))
    BY <2>1, <2>2 DEF Reads
  <2> DEFINE a == left(m)
             b == left(m + 1)
  <2>4. b \in Streams /\ (b.fault = "none" => s.layers = b.layers \o SubSeq(header, m + 1, n))
    BY <1>3
  <2> HIDE DEF a, b
  <2>5. a = Unwrap(header[m], b)
    BY <2>3 DEF a, b
  <2>6. a \in Streams /\ (a.fault = "none" => b.fault = "none" /\ b.layers = a.layers \o <<header[m]>>)
    BY <2>4, <2>5, UnwrapTakesTheLast
  <2>7. ASSUME a.fault = "none"
        PROVE  s.layers = a.layers \o SubSeq(header, m, n)
    <3>1. s.layers = (a.layers \o <<header[m]>>) \o SubSeq(header, m + 1, n)
      BY <2>4, <2>6, <2>7
    <3>2. SubSeq(header, m, n) = <<header[m]>> \o SubSeq(header, m + 1, n)
      BY <2>1, SubSeqRecursiveFirst
    <3>3. a.layers \in Seq(Codings) /\ <<header[m]>> \in Seq(Codings) /\ SubSeq(header, m + 1, n) \in Seq(Codings)
      <4>1. a.layers \in Seq(Supported) /\ Supported \subseteq Codings
        BY <2>6 DEF Streams, Layers, Codings
      <4>2. a.layers \in Seq(Codings)
        BY <4>1, SeqMonotonic
      <4>3. header[m] \in Codings /\ \A i \in (m + 1)..n : header[i] \in Codings
        BY <1>1, SMT
      <4>4. m + 1 \in Int /\ n \in Int
        BY <1>1, SMT
      <4>5. SubSeq(header, m + 1, n) \in Seq(Codings)
        BY <4>3, <4>4, SubSeqProperties
      <4>6. <<header[m]>> \in Seq(Codings)
        BY <4>3
      <4> QED
        BY <4>2, <4>5, <4>6
    <3>4. (a.layers \o <<header[m]>>) \o SubSeq(header, m + 1, n)
            = a.layers \o (<<header[m]>> \o SubSeq(header, m + 1, n))
      <4> DEFINE u == a.layers
                 v == <<header[m]>>
                 w == SubSeq(header, m + 1, n)
      <4>1. u \in Seq(Codings) /\ v \in Seq(Codings) /\ w \in Seq(Codings)
        BY <3>3
      <4> HIDE DEF u, v, w
      <4>2. (u \o v) \o w = u \o (v \o w)
        BY <4>1, ConcatAssociative
      <4> QED
        BY <4>2 DEF u, v, w
    <3> QED
      BY <3>1, <3>2, <3>4
  <2> QED
    BY <2>6, <2>7 DEF a
<1> HIDE DEF left, undone
<1>4. ASSUME bad # {} PROVE FALSE
  <2>1. bad \subseteq Nat
    BY <1>1, SMT
  <2>2. PICK k \in bad : \A y \in bad : ~(y < k)
    <3> HIDE DEF bad
    <3> QED
      BY <1>4, <2>1, LeastNumber
  <2>3. k \in 0..n /\ ~undone(n + 1 - k) /\ \A y \in 0..n : y < k => undone(n + 1 - y)
    BY <2>2
  <2> HIDE DEF bad
  <2>4. k # 0
    <3>1. n + 1 - 0 = n + 1
      BY <1>1, SMT
    <3> QED
      BY <1>2, <2>3, <3>1
  <2>5. PICK m \in 1..n : m = n + 1 - k /\ m + 1 = n + 1 - (k - 1) /\ k - 1 \in 0..n /\ k - 1 < k
    <3>1. n + 1 - k \in 1..n /\ (n + 1 - k) + 1 = n + 1 - (k - 1) /\ k - 1 \in 0..n /\ k - 1 < k
      BY <1>1, <2>3, <2>4, SMT
    <3> QED
      BY <3>1
  <2> QED
    BY <1>3, <2>3, <2>5
<1>5. undone(1)
  <2>1. n + 1 - n = 1 /\ n \in 0..n
    BY <1>1, SMT
  <2>2. undone(n + 1 - n)
    BY <1>4, <2>1
  <2> QED
    BY <2>1, <2>2
<1>6. SubSeq(header, 1, n) = header
  BY SubSeqFull
<1> QED
  BY <1>5, <1>6 DEF undone, left

\* decode's loop is a reading of the header.
LEMMA DecodedIsRead ==
  ASSUME NEW s, NEW header \in Seq(Codings), header = request.announced
  PROVE  \E g : /\ \A z \in SUBSET (1..Len(header)) : Reads(g, header, s, z)
               /\ Decoded(s) = g[1..Len(header)]
<1> DEFINE body(g) == [z \in SUBSET (DOMAIN header) |->
                         IF z = {} THEN s ELSE Unwrap(header[Min(z)], g[z \ {Min(z)}])]
           fold == CHOOSE g : g = body(g)
<1>2. Decoded(s) = fold[DOMAIN header]
  BY DEF Decoded, FoldRight, MapThenFoldSet
<1>3. DOMAIN header = 1..Len(header) /\ Len(header) \in Nat
  OBVIOUS
<1>4. PICK g : \A z \in SUBSET (1..Len(header)) : Reads(g, header, s, z)
  BY <1>3, HeaderIsRead
<1> DEFINE h == [z \in SUBSET (1..Len(header)) |-> g[z]]
<1>5. h = body(h)
  <2>1. ASSUME NEW z \in SUBSET (1..Len(header))
        PROVE  h[z] = IF z = {} THEN s ELSE Unwrap(header[Min(z)], h[z \ {Min(z)}])
    <3>1. z \ {Min(z)} \in SUBSET (1..Len(header))
      OBVIOUS
    <3>2. h[z] = g[z] /\ h[z \ {Min(z)}] = g[z \ {Min(z)}]
      BY <3>1
    <3> HIDE DEF h
    <3> QED
      BY <1>4, <3>2 DEF Reads
  <2> QED
    BY <1>3, <2>1
<1>6. fold = body(fold)
  <2> HIDE DEF h
  <2> QED
    BY <1>5
<1> HIDE DEF fold
<1>7. \A z \in SUBSET (1..Len(header)) : Reads(fold, header, s, z)
  BY <1>3, <1>6 DEF Reads
<1> HIDE DEF body, h
<1>8. Decoded(s) = fold[1..Len(header)]
  BY <1>2, <1>3
<1> QED
  BY <1>7, <1>8

\* decode undoes what the header announces, or leaves a fault.
LEMMA DecodedIsUndone ==
  ASSUME NEW s \in Streams, s.fault = "none", request.announced \in Seq(Codings)
  PROVE  /\ Decoded(s) \in Streams
         /\ Decoded(s).fault = "none" => s.layers = Decoded(s).layers \o request.announced
<1>1. PICK header \in Seq(Codings) : header = request.announced
  OBVIOUS
<1>2. PICK g : (\A z \in SUBSET (1..Len(header)) : Reads(g, header, s, z)) /\ Decoded(s) = g[1..Len(header)]
  BY <1>1, DecodedIsRead
<1>3. LET t == g[1..Len(header)] IN
        t \in Streams /\ (t.fault = "none" => s.layers = t.layers \o header)
  BY <1>2, HeaderIsUndone
<1> QED
  BY <1>1, <1>2, <1>3

-----------------------------------------------------------------------------
(* The parsers undo what the header says.                                  *)

\* How many codings the parsers have undone, of those around the body.
Undone ==
  LET before == by = "handler" /\ request.async
      now    == at \notin {"query", "check"}
  IN  IF before /\ now THEN Times(2) ELSE IF before \/ now THEN Times(1) ELSE <<>>

Reading == {"query", "check", "create", "copy", "sniff", "read"}

\* What stream gives and what was undone are what the client sent.
Decoding ==
  /\ by \in {"wrapper", "handler"} /\ (by = "wrapper" => request.async)
  /\ stream \in Streams
  /\ at \in {"query", "check", "sniff"} => stream.fault = "none"
  /\ at \in Reading /\ stream.fault = "none" => request.layers = stream.layers \o Undone
  /\ at \in {"create", "copy", "sniff", "read"} /\ by = "handler" => request.declared
  /\ at = "read" => by = "handler"
  /\ OnlyPlainIsProcessed

\* A sequence of bounded length is a sequence.
LEMMA BoundedSequences ==
  ASSUME NEW S, NEW n \in Nat, NEW s \in SeqOf(S, n)
  PROVE  s \in Seq(S) /\ Len(s) <= n
<1>1. PICK m \in 0..n : s \in [1..m -> S]
  BY DEF SeqOf
<1>2. m \in Nat
  BY SMT
<1> QED
  BY <1>1, <1>2

\* What a request carries is coded, and a wrapper's request posts no template.
LEMMA RequestsAreCoded ==
  ASSUME NEW r \in Requests
  PROVE  /\ r.announced \in Seq(Codings) /\ r.layers \in Seq(Supported)
         /\ r.async \in BOOLEAN /\ (r.kind \in Posts => ~r.async)
         /\ FirstStream(r) \in Streams /\ FirstStream(r).layers = r.layers /\ FirstStream(r).fault = "none"
<1>1. /\ r.announced \in SeqOf(Codings, MaxLayers) /\ r.layers \in SeqOf(Supported, MaxLayers)
      /\ r.async \in BOOLEAN /\ (r.kind \in Posts => ~r.async)
  BY DEF Requests
<1>2. r.announced \in Seq(Codings) /\ r.layers \in Seq(Supported) /\ r.layers \in Layers
  BY <1>1, LimitsAssumption, BoundedSequences DEF Layers
<1>3. FirstStream(r) = [layers |-> r.layers, fault |-> "none"]
  BY DEF FirstStream
<1> QED
  BY <1>1, <1>2, <1>3 DEF Streams, Faults

\* A request that begins.
LEMMA DecodingBegins ==
  ASSUME NEW r \in Requests
  PROVE  /\ FirstBy(r) \in {"wrapper", "handler"} /\ (FirstBy(r) = "wrapper" <=> r.async)
         /\ FirstAt(r) \in {"query", "check"}
         /\ r.layers = FirstStream(r).layers \o <<>>
BY RequestsAreCoded, ConcatEmptySeq DEF FirstBy, FirstAt, FirstStep

LEMMA DecodingInit == Init => Decoding
<1> SUFFICES ASSUME Init PROVE Decoding
  OBVIOUS
<1>1. request \in Requests /\ by = FirstBy(request) /\ at = FirstAt(request) /\ stream = FirstStream(request)
  BY DEF Init, BodyInit
<1>2. by \in {"wrapper", "handler"} /\ (by = "wrapper" <=> request.async) /\ at \in {"query", "check"}
      /\ request.layers = stream.layers \o <<>> /\ stream \in Streams /\ stream.fault = "none"
  BY <1>1, DecodingBegins, RequestsAreCoded
<1>3. Undone = <<>>
  BY <1>2 DEF Undone
<1> QED
  BY <1>2, <1>3 DEF Decoding, OnlyPlainIsProcessed

LEMMA NextRequestKeepsDecoding == NextRequest => Decoding'
<1> SUFFICES ASSUME NextRequest PROVE Decoding'
  OBVIOUS
<1>1. PICK r \in Requests : r = request'
  BY DEF NextRequest
<1>2. by' = FirstBy(r) /\ at' = FirstAt(r) /\ stream' = FirstStream(r)
  BY <1>1 DEF NextRequest
<1>3. by' \in {"wrapper", "handler"} /\ (by' = "wrapper" <=> request'.async) /\ at' \in {"query", "check"}
      /\ request'.layers = stream'.layers \o <<>> /\ stream' \in Streams /\ stream'.fault = "none"
  BY <1>1, <1>2, DecodingBegins, RequestsAreCoded
<1>4. Undone' = <<>>
  BY <1>3 DEF Undone
<1> QED
  BY <1>3, <1>4 DEF Decoding, OnlyPlainIsProcessed

\* Steps that read nothing and end the request or go on with it.
LEMMA RestingDecoding ==
  ASSUME Decoding, UNCHANGED <<request, by, stream>>, at' \notin Reading,
         at' \in {"over", "marked"}
           \/ at \in {"template", "split", "subdocs", "rendering", "marking", "validate", "adapt", "save"}
  PROVE  Decoding'
BY DEF Decoding, OnlyPlainIsProcessed, Reading, Times

LEMMA DecodeKeepsDecoding == UInv /\ Decoding /\ Decode => Decoding'
<1> SUFFICES ASSUME UInv, Decoding, Decode PROVE Decoding'
  OBVIOUS
<1>1. CASE at' = "over"
  <2>1. UNCHANGED <<request, by, stream>>
    BY <1>1 DEF Decode, End, Answer, IntoFile
  <2> QED
    BY <1>1, <2>1, RestingDecoding DEF Reading
<1>2. CASE at' # "over"
  <2>1. /\ at = "check" /\ RightType /\ stream' = Decoded(stream) /\ UNCHANGED <<request, by>>
        /\ at' = IF IntoFile THEN "create" ELSE "read"
    BY <1>2 DEF Decode, End, Answer
  <2>2. stream \in Streams /\ stream.fault = "none" /\ request.layers = stream.layers \o Undone
        /\ by \in {"wrapper", "handler"} /\ (by = "wrapper" => request.async)
    BY <2>1 DEF Decoding, Reading
  <2>3. request \in Requests
    BY DEF UInv, Places
  <2>4. request.announced \in Seq(Codings)
    BY <2>3, RequestsAreCoded
  <2>5. stream' \in Streams /\ (stream'.fault = "none" => stream.layers = stream'.layers \o request.announced)
    BY <2>1, <2>2, <2>4, DecodedIsUndone
  <2>6. ASSUME stream'.fault = "none"
        PROVE  request'.layers = stream'.layers \o Undone'
    <3>1. PICK kept \in Seq(Codings), header \in Seq(Codings) :
            kept = stream'.layers /\ header = request.announced
      <4>1. stream'.layers \in Seq(Supported) /\ Supported \subseteq Codings
        BY <2>5 DEF Streams, Layers, Codings
      <4>2. stream'.layers \in Seq(Codings)
        BY <4>1, SeqMonotonic
      <4> QED
        BY <2>4, <4>2
    <3>2. stream.layers = kept \o header
      BY <2>5, <2>6, <3>1
    <3>3. CASE by = "handler" /\ request.async
      <4>1. Undone = header /\ Undone' = header \o header
        BY <2>1, <3>1, <3>3 DEF Undone, Times
      <4>2. (kept \o header) \o header = kept \o (header \o header)
        BY ConcatAssociative
      <4> QED
        BY <2>1, <2>2, <3>1, <3>2, <4>1, <4>2
    <3>4. CASE ~(by = "handler" /\ request.async)
      <4>1. Undone = <<>> /\ Undone' = header
        BY <2>1, <3>1, <3>4 DEF Undone, Times
      <4>2. kept \o header \in Seq(Codings)
        BY ConcatProperties
      <4>3. (kept \o header) \o <<>> = kept \o header
        BY <4>2, ConcatEmptySeq
      <4> QED
        BY <2>1, <2>2, <3>1, <3>2, <4>1, <4>3
    <3> QED
      BY <3>3, <3>4
  <2>7. at' = "read" => by = "handler"
    BY <2>1, <2>2 DEF IntoFile
  <2>8. by = "handler" => request.declared
    BY <2>1 DEF RightType
  <2>9. OnlyPlainIsProcessed' /\ at' \in {"create", "read"}
    BY <2>1 DEF OnlyPlainIsProcessed
  <2> QED
    BY <2>1, <2>2, <2>5, <2>6, <2>7, <2>8, <2>9 DEF Decoding
<1> QED
  BY <1>1, <1>2

\* The handler reads the wrapper's file with the headers of the request.
LEMMA AcceptKeepsDecoding == Decoding /\ Accept => Decoding'
<1> SUFFICES ASSUME Decoding, Accept PROVE Decoding'
  OBVIOUS
<1>1. at = "sniff" /\ by = "wrapper" /\ by' = "handler" /\ at' \in {"query", "check"}
      /\ UNCHANGED <<request, stream>>
  BY DEF Accept, FirstStep
<1>2. request.async /\ stream \in Streams /\ stream.fault = "none" /\ request.layers = stream.layers \o Undone
  BY <1>1 DEF Decoding, Reading
<1>3. Undone = request.announced /\ Undone' = request.announced
  BY <1>1, <1>2 DEF Undone, Times
<1> QED
  BY <1>1, <1>2, <1>3 DEF Decoding, OnlyPlainIsProcessed

\* A handler that has plain content has undone all of it.
LEMMA PlainIsUndone ==
  ASSUME UInv, Decoding, Genuine, at \in {"sniff", "read"}, by = "handler", stream.fault = "none"
  PROVE  /\ request.genuine /\ request.declared
         /\ request.layers = Times(IF request.async THEN 2 ELSE 1)
<1>1. request.layers = <<>> \o Undone /\ request.genuine /\ request.declared
  BY DEF Decoding, Reading, Genuine
<1>2. request \in Requests
  BY DEF UInv, Places
<1>3. Undone = Times(IF request.async THEN 2 ELSE 1)
  BY <1>2, RequestsAreCoded DEF Undone
<1>4. Undone \in Seq(Codings)
  <2>1. PICK header \in Seq(Codings) : header = request.announced
    BY <1>2, RequestsAreCoded
  <2>2. header \o header \in Seq(Codings)
    BY ConcatProperties
  <2> QED
    BY <1>3, <2>1, <2>2 DEF Times
<1>5. <<>> \o Undone = Undone
  BY <1>4, ConcatEmptySeq
<1> QED
  BY <1>1, <1>3, <1>5

LEMMA BodyKeepsDecoding == UInv /\ Decoding /\ BodyNext => Decoding'
<1> SUFFICES ASSUME UInv, Decoding, BodyNext PROVE Decoding'
  OBVIOUS
<1>1. CASE at' = "over"
  <2>1. UNCHANGED <<request, by, stream>>
    BY <1>1 DEF BodyNext, ParseQuery, CheckType, Decode, CreateTemp, CopyBody, SniffWrong, Accept, HandOver,
                ReadJson, End, Answer, FirstStep, IntoFile
  <2> QED
    BY <1>1, <2>1, RestingDecoding DEF Reading
<1>2. CASE ParseQuery /\ at' # "over"
  <2>1. at = "query" /\ at' = "check" /\ UNCHANGED <<request, by, stream>>
    BY <1>2 DEF ParseQuery, End, Answer
  <2>2. Undone' = Undone
    BY <2>1 DEF Undone, Times
  <2> QED
    BY <2>1, <2>2 DEF Decoding, OnlyPlainIsProcessed, Reading
<1>3. CASE (CreateTemp \/ CopyBody) /\ at' # "over"
  <2>1. /\ \/ at = "create" /\ at' = "copy"
           \/ at = "copy" /\ at' = "sniff" /\ stream.fault = "none"
        /\ UNCHANGED <<request, by, stream>>
    BY <1>3 DEF CreateTemp, CopyBody, End, Answer
  <2>2. Undone' = Undone
    BY <2>1 DEF Undone, Times
  <2> QED
    BY <2>1, <2>2 DEF Decoding, OnlyPlainIsProcessed, Reading
<1>4. CASE (HandOver \/ ReadJson) /\ at' # "over"
  <2>1. /\ at \in {"sniff", "read"} /\ at' \in {"template", "validate", "marking"}
        /\ UNCHANGED <<request, by, stream>> /\ Genuine
        /\ (at = "sniff" => by = "handler") /\ (at = "read" => stream.fault = "none")
    BY <1>4 DEF HandOver, ReadJson, End, Answer
  <2>2. by = "handler" /\ stream.fault = "none"
    BY <2>1 DEF Decoding
  <2>3. request.genuine /\ request.declared /\ request.layers = Times(IF request.async THEN 2 ELSE 1)
    BY <2>1, <2>2, PlainIsUndone
  <2>4. OnlyPlainIsProcessed'
    BY <2>1, <2>3 DEF OnlyPlainIsProcessed, Times
  <2> QED
    BY <2>1, <2>4 DEF Decoding, Reading
<1>5. CASE Decode
  BY <1>5, DecodeKeepsDecoding
<1>6. CASE Accept
  BY <1>6, AcceptKeepsDecoding
<1>7. CASE CheckType \/ SniffWrong
  BY <1>1, <1>7 DEF CheckType, SniffWrong, End, Answer
<1> QED
  BY <1>1, <1>2, <1>3, <1>4, <1>5, <1>6, <1>7 DEF BodyNext

\* No later step of a handler touches the stream.
LEMMA DecodingStep == UInv /\ Decoding /\ [Next]_vars => Decoding'
<1> SUFFICES ASSUME UInv, Decoding, [Next]_vars PROVE Decoding'
  OBVIOUS
<1>1. CASE BodyNext
  BY <1>1, BodyKeepsDecoding
<1>2. CASE NextRequest
  BY <1>2, NextRequestKeepsDecoding
<1>3. CASE Validate \/ Adapt \/ AdaptMarks \/ Save \/ LoadMarkingTemplate \/ MarkEnd
  <2>1. /\ UNCHANGED <<request, by, stream>> /\ at' \in {"adapt", "save", "over", "marked"}
        /\ at \in {"validate", "adapt", "save", "marking", "marked"}
        /\ at = "marked" => at' = "over"
    BY <1>3 DEF Validate, Adapt, AdaptMarks, Save, LoadMarkingTemplate, MarkEnd, End, Answer
  <2> QED
    BY <2>1, RestingDecoding DEF Reading
<1>4. CASE LoadTemplate \/ Split \/ OpenSubdoc \/ StartRenderers \/ ScanEnd
  <2>1. /\ UNCHANGED <<request, by, stream>> /\ at' \in {"split", "subdocs", "rendering", "over"}
        /\ at \in {"template", "split", "subdocs", "rendering"}
    BY <1>4 DEF LoadTemplate, Split, OpenSubdoc, StartRenderers, ScanEnd, Return, GiveUp, Answer
  <2> QED
    BY <2>1, RestingDecoding DEF Reading
<1>5. CASE (\E i \in 1..docs : RendererEnd(i)) \/ DeleteTemplate \/ UNCHANGED vars
  <2>1. UNCHANGED <<request, by, stream, at>>
    BY <1>5 DEF RendererEnd, DeleteTemplate, vars, bodyVars
  <2> QED
    BY <2>1 DEF Decoding, OnlyPlainIsProcessed, Undone, Times
<1> QED
  BY <1>1, <1>2, <1>3, <1>4, <1>5 DEF Next, TemplateNext

LEMMA DecodingInvariant == Spec => [](UInv /\ Decoding)
BY UploadInitInvariant, UploadStepInvariant, DecodingInit, DecodingStep, PTL DEF Spec

\* A body that reaches a handler was decoded by each of its parsers as the header
\* says, all the codings around it, and is plain content of the declared type.
THEOREM OnlyPlainIsUsed == Spec => []OnlyPlainIsProcessed
<1>1. Decoding => OnlyPlainIsProcessed
  BY DEF Decoding
<1> QED
  BY <1>1, DecodingInvariant, PTL

-----------------------------------------------------------------------------
(* Division.                                                               *)

\* The quotient, the remainder and what they come to.
LEMMA DivMod ==
  ASSUME NEW k \in Nat, NEW r \in Nat, r > 0
  PROVE  k \div r \in Nat /\ k % r \in 0..(r - 1) /\ k = ((k \div r) * r) + (k % r)
<1>1. k % r = k - ((k \div r) * r)
  BY SMT
<1>2. k \div r \in Nat /\ k % r \in 0..(r - 1)
  BY SMT
<1> QED
  BY <1>1, <1>2, SMT

\* The next number leaves one more, or nothing.
LEMMA NextDivMod ==
  ASSUME NEW k \in Nat, NEW r \in Nat \ {0}
  PROVE  IF (k % r) + 1 < r THEN (k + 1) \div r = k \div r /\ (k + 1) % r = (k % r) + 1
         ELSE (k + 1) \div r = k \div r + 1 /\ (k + 1) % r = 0
BY SMT

-----------------------------------------------------------------------------
(* blockPartition.                                                         *)

\* What k blocks dealt in turns to r subsets come to.
Share(k, r, i) == k \div r + IF i <= k % r THEN 1 ELSE 0

\* Dealing one block more gives it to the next subset in turn.
LEMMA ShareGrows ==
  ASSUME NEW k \in Nat, NEW r \in Nat \ {0}, NEW i \in 1..r
  PROVE  /\ Share(0, r, i) = 0 /\ Share(k, r, i) \in Nat
         /\ (k % r) + 1 \in 1..r
         /\ Share(k + 1, r, i) = IF i = (k % r) + 1 THEN Share(k, r, i) + 1 ELSE Share(k, r, i)
<1> DEFINE q == k \div r
           m == k % r
<1>1. q \in Nat /\ m \in 0..(r - 1)
  BY DivMod
<1>2. IF m + 1 < r THEN (k + 1) \div r = q /\ (k + 1) % r = m + 1
      ELSE (k + 1) \div r = q + 1 /\ (k + 1) % r = 0
  BY NextDivMod
<1>3. Share(k, r, i) = q + IF i <= m THEN 1 ELSE 0
  BY DEF Share
<1>4. Share(k + 1, r, i) = (k + 1) \div r + IF i <= (k + 1) % r THEN 1 ELSE 0
  BY DEF Share
<1>5. Share(0, r, i) = 0
  BY SMT DEF Share
<1> HIDE DEF q, m
<1>6. m + 1 \in 1..r /\ Share(k, r, i) \in Nat
  BY <1>1, <1>3, SMT
<1>7. Share(k + 1, r, i) = IF i = m + 1 THEN Share(k, r, i) + 1 ELSE Share(k, r, i)
  BY <1>1, <1>2, <1>3, <1>4, SMT
<1> QED
  BY <1>5, <1>6, <1>7 DEF m

\* BlocksPerRegion, a recursive function, gives each subset its share.
LEMMA BlocksAreDealtEvenly ==
  ASSUME NEW n \in Nat, NEW r \in Nat \ {0}
  PROVE  BlocksPerRegion(n, r) = [i \in 1..r |-> Share(n, r, i)]
<1> DEFINE step(f) == [k \in 0..n |->
             IF k = 0 THEN [i \in 1..r |-> 0]
             ELSE [f[k - 1] EXCEPT ![((k - 1) % r) + 1] = @ + 1]]
           shares == [k \in 0..n |-> [i \in 1..r |-> Share(k, r, i)]]
           dealt == CHOOSE f : f = step(f)
<1>1. ASSUME NEW k \in 0..n, k # 0
      PROVE  [i \in 1..r |-> Share(k, r, i)]
               = [[i \in 1..r |-> Share(k - 1, r, i)] EXCEPT ![((k - 1) % r) + 1] = @ + 1]
  <2> DEFINE p == k - 1
  <2>1. p \in Nat /\ k = p + 1
    BY <1>1, SMT
  <2>2. (p % r) + 1 \in 1..r
    BY <2>1, NextDivMod, DivMod, SMT
  <2>3. \A i \in 1..r :
          Share(p + 1, r, i) = IF i = (p % r) + 1 THEN Share(p, r, i) + 1 ELSE Share(p, r, i)
    BY <2>1, ShareGrows
  <2> HIDE DEF p
  <2>4. [i \in 1..r |-> Share(p + 1, r, i)]
          = [[i \in 1..r |-> Share(p, r, i)] EXCEPT ![(p % r) + 1] = @ + 1]
    BY <2>2, <2>3
  <2> QED
    BY <2>1, <2>4 DEF p
<1>2. [i \in 1..r |-> Share(0, r, i)] = [i \in 1..r |-> 0]
  BY ShareGrows
<1>3. shares = step(shares)
  <2>1. ASSUME NEW k \in 0..n
        PROVE  shares[k] = IF k = 0 THEN [i \in 1..r |-> 0]
                           ELSE [shares[k - 1] EXCEPT ![((k - 1) % r) + 1] = @ + 1]
    <3>1. CASE k = 0
      BY <1>2, <3>1
    <3>2. CASE k # 0
      <4>1. k - 1 \in 0..n
        BY <3>2, SMT
      <4>2. shares[k - 1] = [i \in 1..r |-> Share(k - 1, r, i)] /\ shares[k] = [i \in 1..r |-> Share(k, r, i)]
        BY <4>1
      <4> QED
        BY <1>1, <3>2, <4>2
    <3> QED
      BY <3>1, <3>2
  <2> QED
    BY <2>1
<1>4. dealt = step(dealt)
  <2> HIDE DEF shares
  <2> QED
    BY <1>3
<1>5. BlocksPerRegion(n, r) = dealt[n]
  BY DEF BlocksPerRegion
<1> HIDE DEF dealt
<1> DEFINE wrong == {k \in 0..n : dealt[k] # shares[k]}
<1>6. ASSUME wrong # {} PROVE FALSE
  <2>1. wrong \subseteq Nat
    BY SMT
  <2>2. PICK k \in wrong : \A y \in wrong : ~(y < k)
    <3> HIDE DEF wrong
    <3> QED
      BY <1>6, <2>1, LeastNumber
  <2>3. k \in 0..n /\ dealt[k] # shares[k] /\ \A y \in 0..n : y < k => dealt[y] = shares[y]
    BY <2>2
  <2> HIDE DEF wrong, shares
  <2>4. CASE k = 0
    <3>1. dealt[k] = [i \in 1..r |-> 0] /\ shares[k] = [i \in 1..r |-> 0]
      BY <1>4, <1>2, <2>4 DEF shares
    <3> QED
      BY <2>3, <3>1
  <2>5. CASE k # 0
    <3>1. k - 1 \in 0..n /\ k - 1 < k
      BY <2>5, <2>3, SMT
    <3>2. dealt[k - 1] = shares[k - 1]
      BY <2>3, <3>1
    <3>3. dealt[k] = [dealt[k - 1] EXCEPT ![((k - 1) % r) + 1] = @ + 1]
      BY <1>4, <2>5, <2>3
    <3>4. shares[k] = [shares[k - 1] EXCEPT ![((k - 1) % r) + 1] = @ + 1]
      BY <1>3, <2>5, <2>3
    <3> QED
      BY <2>3, <3>2, <3>3, <3>4
  <2> QED
    BY <2>4, <2>5
<1>7. dealt[n] = shares[n]
  BY <1>6
<1> QED
  BY <1>5, <1>7

\* The blocks dealt to the subsets before the i-th.
DealtBefore(k, r, i) == (i - 1) * (k \div r) + Least(i - 1, k % r)

\* The shares before a subset add up, those of all subsets to all blocks.
LEMMA SharesAddUp ==
  ASSUME NEW k \in Nat, NEW r \in Nat \ {0}
  PROVE  /\ \A i \in 1..(r + 1) : DealtBefore(k, r, i) \in 0..k
         /\ \A i \in 1..r : DealtBefore(k, r, i + 1) = DealtBefore(k, r, i) + Share(k, r, i)
         /\ DealtBefore(k, r, 1) = 0 /\ DealtBefore(k, r, r + 1) = k
<1> DEFINE q == k \div r
           m == k % r
<1>1. q \in Nat /\ m \in 0..(r - 1) /\ k = q * r + m
  BY DivMod
<1>2. \A i \in Int : DealtBefore(k, r, i) = (i - 1) * q + Least(i - 1, m)
  BY DEF DealtBefore
<1>3. \A i \in Int : Share(k, r, i) = q + IF i <= m THEN 1 ELSE 0
  BY DEF Share
<1> HIDE DEF q, m
<1>4. DealtBefore(k, r, 1) = 0 /\ DealtBefore(k, r, r + 1) = k
  <2>1. DealtBefore(k, r, 1) = (1 - 1) * q + Least(1 - 1, m)
    BY <1>2
  <2>2. DealtBefore(k, r, r + 1) = (r + 1 - 1) * q + Least(r + 1 - 1, m)
    BY <1>2
  <2>3. Least(1 - 1, m) = 0 /\ Least(r + 1 - 1, m) = m
    BY <1>1, SMT DEF Least
  <2>4. (1 - 1) * q = 0 /\ (r + 1 - 1) * q = q * r
    BY <1>1, SMT
  <2> QED
    BY <1>1, <2>1, <2>2, <2>3, <2>4, SMT
<1>5. ASSUME NEW i \in 1..r
      PROVE  DealtBefore(k, r, i + 1) = DealtBefore(k, r, i) + Share(k, r, i)
  <2>1. DealtBefore(k, r, i + 1) = i * q + Least(i, m)
    BY <1>2, SMT
  <2>2. i * q = (i - 1) * q + q
    BY <1>1, SMT
  <2>3. Least(i, m) = Least(i - 1, m) + IF i <= m THEN 1 ELSE 0
    BY <1>1, SMT DEF Least
  <2>4. (i - 1) * q \in Int /\ Least(i - 1, m) \in Int
    BY <1>1, SMT DEF Least
  <2>5. DealtBefore(k, r, i) = (i - 1) * q + Least(i - 1, m) /\ Share(k, r, i) = q + IF i <= m THEN 1 ELSE 0
    BY <1>2, <1>3
  <2> DEFINE a == (i - 1) * q
             b == Least(i - 1, m)
             c == IF i <= m THEN 1 ELSE 0
  <2>6. c \in Int
    BY SMT
  <2> HIDE DEF a, b, c
  <2>7. DealtBefore(k, r, i + 1) = (a + q) + (b + c) /\ DealtBefore(k, r, i) + Share(k, r, i) = (a + b) + (q + c)
    BY <2>1, <2>2, <2>3, <2>5 DEF a, b, c
  <2>8. a \in Int /\ b \in Int /\ q \in Int
    BY <1>1, <2>4, SMT DEF a, b
  <2> QED
    BY <2>6, <2>7, <2>8, SMT
<1>6. ASSUME NEW i \in 1..(r + 1)
      PROVE  DealtBefore(k, r, i) \in 0..k
  <2>1. (i - 1) * q \in Nat /\ r * q \in Nat
    BY <1>1, SMT
  <2>2. (i - 1) * q <= r * q
    BY <1>1, SMT
  <2>3. Least(i - 1, m) \in 0..m
    BY <1>1, SMT DEF Least
  <2>4. DealtBefore(k, r, i) = (i - 1) * q + Least(i - 1, m) /\ k = r * q + m /\ m \in Nat
    BY <1>1, <1>2, SMT
  <2> DEFINE a == (i - 1) * q
             b == Least(i - 1, m)
             c == r * q
  <2> HIDE DEF a, b, c
  <2>5. a \in Nat /\ c \in Nat /\ a <= c /\ b \in 0..m /\ m \in Nat
        /\ DealtBefore(k, r, i) = a + b /\ k = c + m
    BY <2>1, <2>2, <2>3, <2>4 DEF a, b, c
  <2> QED
    BY <2>5, SMT
<1> QED
  BY <1>4, <1>5, <1>6

\* Every block is in one place of one subset.
LEMMA EveryBlockIsDealt ==
  ASSUME NEW n \in Nat, NEW r \in Nat \ {0}
  PROVE  /\ \A i \in 1..r : \A j \in 1..Share(n, r, i) : DealtBefore(n, r, i) + j - 1 \in 0..(n - 1)
         /\ \A k \in 0..(n - 1) : \E i \in 1..r : \E j \in 1..Share(n, r, i) :
              k = DealtBefore(n, r, i) + j - 1
<1>1. ASSUME NEW i \in 1..r, NEW j \in 1..Share(n, r, i)
      PROVE  DealtBefore(n, r, i) + j - 1 \in 0..(n - 1)
  <2>1. i + 1 \in 1..(r + 1) /\ i \in 1..(r + 1)
    BY SMT
  <2>2. DealtBefore(n, r, i + 1) \in 0..n /\ DealtBefore(n, r, i) \in 0..n
        /\ DealtBefore(n, r, i + 1) = DealtBefore(n, r, i) + Share(n, r, i)
    BY <2>1, SharesAddUp
  <2>3. Share(n, r, i) \in Nat
    BY ShareGrows
  <2> QED
    BY <2>2, <2>3, SMT
<1>2. ASSUME NEW k \in 0..(n - 1)
      PROVE  \E i \in 1..r : \E j \in 1..Share(n, r, i) : k = DealtBefore(n, r, i) + j - 1
  <2> DEFINE past == {i \in 1..r : k < DealtBefore(n, r, i + 1)}
  <2>1. r \in past /\ past \subseteq Nat
    <3>1. DealtBefore(n, r, r + 1) = n
      BY SharesAddUp
    <3> QED
      BY <3>1, SMT
  <2>2. PICK i \in past : \A y \in past : ~(y < i)
    <3> HIDE DEF past
    <3> QED
      BY <2>1, LeastNumber
  <2>3. i \in 1..r /\ k < DealtBefore(n, r, i + 1)
    BY <2>2
  <2>4. DealtBefore(n, r, i) <= k
    <3>1. CASE i = 1
      <4>1. DealtBefore(n, r, i) = 0
        BY <3>1, SharesAddUp
      <4> QED
        BY <4>1, SMT
    <3>2. CASE i # 1
      <4>1. i - 1 \in 1..r /\ i - 1 < i /\ i = (i - 1) + 1
        BY <2>3, <3>2, SMT
      <4>2. i - 1 \notin past
        BY <2>2, <4>1
      <4>3. ~(k < DealtBefore(n, r, i))
        BY <4>1, <4>2
      <4>4. DealtBefore(n, r, i) \in 0..n
        <5>1. i \in 1..(r + 1)
          BY <2>3, SMT
        <5> QED
          BY <5>1, SharesAddUp
      <4> QED
        BY <4>3, <4>4, SMT
    <3> QED
      BY <3>1, <3>2
  <2>5. DealtBefore(n, r, i + 1) = DealtBefore(n, r, i) + Share(n, r, i) /\ Share(n, r, i) \in Nat
        /\ DealtBefore(n, r, i) \in 0..n
    <3>1. i \in 1..(r + 1)
      BY <2>3, SMT
    <3> QED
      BY <2>3, <3>1, SharesAddUp, ShareGrows
  <2>6. k - DealtBefore(n, r, i) + 1 \in 1..Share(n, r, i)
        /\ k = DealtBefore(n, r, i) + (k - DealtBefore(n, r, i) + 1) - 1
    BY <2>3, <2>4, <2>5, SMT
  <2> QED
    BY <2>3, <2>6
<1> QED
  BY <1>1, <1>2

LEMMA NextIsDealt ==
  ASSUME NEW n \in Nat, NEW r \in Nat \ {0}, NEW i \in 1..r
  PROVE  DealtBefore(n, r, i + 1) = DealtBefore(n, r, i) + Share(n, r, i)
BY SharesAddUp

\* The j-th block of the i-th of r subsets of n blocks.
Block(n, r, b, i, j) == [from |-> 1 + (DealtBefore(n, r, i) + j - 1) * b,
                         thru |-> (DealtBefore(n, r, i) + j) * b]

\* blockPartition cuts the pages into those blocks.
LEMMA SubsetsAreBlocks ==
  ASSUME NEW pagesCount \in Nat, NEW b \in Nat \ {0}, NEW p \in Nat,
         NEW n \in Nat, n = pagesCount \div b, NEW r \in Nat \ {0}, r = Least(n, p)
  PROVE  Subsets(pagesCount, b, p) = [i \in 1..r |-> [j \in 1..Share(n, r, i) |-> Block(n, r, b, i, j)]]
<1>1. \A i \in 1..r : DealtBefore(n, r, i + 1) = DealtBefore(n, r, i) + Share(n, r, i)
  BY NextIsDealt
<1> DEFINE blocks == BlocksPerRegion(n, r)
           step(f) == [i \in 1..(r + 1) |-> IF i = 1 THEN 1 ELSE f[i - 1] + blocks[i - 1] * b]
           starts == [i \in 1..(r + 1) |-> 1 + DealtBefore(n, r, i) * b]
           from == CHOOSE f : f = step(f)
<1>2. Subsets(pagesCount, b, p) =
        [i \in 1..r |-> [j \in 1..blocks[i] |-> [from |-> from[i] + (j - 1) * b,
                                                 thru |-> from[i] + j * b - 1]]]
  BY DEF Subsets
<1>3. \A i \in 1..r : blocks[i] = Share(n, r, i) /\ Share(n, r, i) \in Nat
  <2>1. blocks = [i \in 1..r |-> Share(n, r, i)]
    BY BlocksAreDealtEvenly
  <2>2. \A i \in 1..r : Share(n, r, i) \in Nat
    BY ShareGrows
  <2> QED
    BY <2>1, <2>2
<1> HIDE DEF blocks
<1>4. \A i \in 1..(r + 1) : DealtBefore(n, r, i) \in Nat /\ starts[i] = 1 + DealtBefore(n, r, i) * b
  <2>1. \A i \in 1..(r + 1) : DealtBefore(n, r, i) \in 0..n
    BY SharesAddUp
  <2> QED
    BY <2>1, SMT
<1>5. ASSUME NEW i \in 1..(r + 1)
      PROVE  starts[i] = IF i = 1 THEN 1 ELSE starts[i - 1] + blocks[i - 1] * b
  <2>1. CASE i = 1
    <3>1. DealtBefore(n, r, i) = 0
      BY <2>1, SharesAddUp
    <3> QED
      BY <1>4, <2>1, <3>1, SMT
  <2>2. CASE i # 1
    <3>1. i - 1 \in 1..r /\ i - 1 \in 1..(r + 1) /\ (i - 1) + 1 = i
      BY <2>2, SMT
    <3>2. DealtBefore(n, r, i) = DealtBefore(n, r, i - 1) + Share(n, r, i - 1)
      <4>1. PICK k \in 1..r : k = i - 1
        BY <3>1
      <4>2. k + 1 = i
        BY <4>1, SMT
      <4> QED
        BY <1>1, <4>1, <4>2
    <3>3. starts[i - 1] = 1 + DealtBefore(n, r, i - 1) * b /\ starts[i] = 1 + DealtBefore(n, r, i) * b
          /\ blocks[i - 1] = Share(n, r, i - 1)
      BY <1>3, <1>4, <3>1
    <3>4. DealtBefore(n, r, i - 1) \in Nat /\ Share(n, r, i - 1) \in Nat
      BY <1>3, <1>4, <3>1
    <3> DEFINE c == DealtBefore(n, r, i - 1)
               d == Share(n, r, i - 1)
    <3> HIDE DEF c, d
    <3>5. starts[i - 1] = 1 + c * b /\ starts[i] = 1 + (c + d) * b /\ blocks[i - 1] = d
          /\ c \in Nat /\ d \in Nat
      BY <3>2, <3>3, <3>4 DEF c, d
    <3>6. 1 + (c + d) * b = (1 + c * b) + d * b
      BY <3>5, SMT
    <3> QED
      BY <2>2, <3>5, <3>6
  <2> QED
    BY <2>1, <2>2
<1>6. starts = step(starts)
  BY <1>5
<1>7. from = step(from)
  <2> HIDE DEF starts
  <2> QED
    BY <1>6
<1> HIDE DEF from
<1> DEFINE wrong == {i \in 1..(r + 1) : from[i] # starts[i]}
<1>8. ASSUME wrong # {} PROVE FALSE
  <2>1. wrong \subseteq Nat
    BY SMT
  <2>2. PICK i \in wrong : \A y \in wrong : ~(y < i)
    <3> HIDE DEF wrong
    <3> QED
      BY <1>8, <2>1, LeastNumber
  <2>3. i \in 1..(r + 1) /\ from[i] # starts[i] /\ \A y \in 1..(r + 1) : y < i => from[y] = starts[y]
    BY <2>2
  <2> HIDE DEF wrong
  <2>4. from[i] = IF i = 1 THEN 1 ELSE from[i - 1] + blocks[i - 1] * b
    BY <1>7, <2>3
  <2>5. starts[i] = IF i = 1 THEN 1 ELSE starts[i - 1] + blocks[i - 1] * b
    BY <1>5, <2>3
  <2>6. i # 1 => from[i - 1] = starts[i - 1]
    <3>1. i # 1 => i - 1 \in 1..(r + 1) /\ i - 1 < i
      BY <2>3, SMT
    <3> QED
      BY <2>3, <3>1
  <2> QED
    BY <2>3, <2>4, <2>5, <2>6
<1>9. \A i \in 1..r : from[i] = 1 + DealtBefore(n, r, i) * b /\ DealtBefore(n, r, i) \in Nat
  <2>1. \A i \in 1..(r + 1) : from[i] = starts[i]
    BY <1>8
  <2>2. 1..r \subseteq 1..(r + 1)
    BY SMT
  <2> QED
    BY <1>4, <2>1, <2>2
<1> HIDE DEF starts
<1>10. ASSUME NEW i \in 1..r, NEW j \in 1..blocks[i]
      PROVE  [from |-> from[i] + (j - 1) * b, thru |-> from[i] + j * b - 1] = Block(n, r, b, i, j)
  <2> DEFINE c == DealtBefore(n, r, i)
  <2>1. from[i] = 1 + c * b /\ c \in Nat /\ j \in Nat
    <3>1. blocks[i] \in Nat
      BY <1>3
    <3> QED
      BY <1>9, <3>1, SMT
  <2>2. Block(n, r, b, i, j) = [from |-> 1 + (c + j - 1) * b, thru |-> (c + j) * b]
    BY DEF Block
  <2> HIDE DEF c
  <2>3. (1 + c * b) + (j - 1) * b = 1 + (c + j - 1) * b /\ (1 + c * b) + j * b - 1 = (c + j) * b
    BY <2>1, SMT
  <2> QED
    BY <2>1, <2>2, <2>3
<1>11. \A i \in 1..r : [j \in 1..blocks[i] |-> [from |-> from[i] + (j - 1) * b, thru |-> from[i] + j * b - 1]]
                       = [j \in 1..Share(n, r, i) |-> Block(n, r, b, i, j)]
  BY <1>3, <1>10
<1> QED
  BY <1>2, <1>11

\* The blocks of a subset come before those of the next.
LEMMA BlocksAreDealtInOrder ==
  ASSUME NEW n \in Nat, NEW r \in Nat \ {0}, NEW i \in 1..r, NEW c \in 1..r, i < c,
         NEW j \in 1..Share(n, r, i), NEW d \in 1..Share(n, r, c)
  PROVE  DealtBefore(n, r, i) + j < DealtBefore(n, r, c) + d
<1> DEFINE q == n \div r
           m == n % r
<1>1. q \in Nat /\ m \in Nat
  <2>1. r > 0
    BY SMT
  <2> QED
    BY <2>1, DivMod, SMT
<1>2. i \in Nat \ {0} /\ c \in Nat /\ i <= c - 1 /\ i + 1 \in 1..(r + 1)
  BY SMT
<1>3. DealtBefore(n, r, i + 1) = i * q + Least(i, m) /\ DealtBefore(n, r, c) = (c - 1) * q + Least(c - 1, m)
  <2>1. (i + 1) - 1 = i
    BY SMT
  <2> QED
    BY <2>1 DEF DealtBefore
<1>4. DealtBefore(n, r, i) + Share(n, r, i) = DealtBefore(n, r, i + 1)
  BY NextIsDealt
<1>5. Share(n, r, i) \in Nat /\ Share(n, r, c) \in Nat
  BY ShareGrows
<1>6. DealtBefore(n, r, i) \in Nat /\ DealtBefore(n, r, c) \in Nat
  <2>1. i \in 1..(r + 1) /\ c \in 1..(r + 1)
    BY SMT
  <2>2. DealtBefore(n, r, i) \in 0..n /\ DealtBefore(n, r, c) \in 0..n
    BY <2>1, SharesAddUp
  <2> QED
    BY <2>2, SMT
<1> HIDE DEF q, m
<1>7. i * q + Least(i, m) <= (c - 1) * q + Least(c - 1, m)
  <2>1. i * q <= (c - 1) * q /\ i * q \in Nat /\ (c - 1) * q \in Nat
    BY <1>1, <1>2, SMT
  <2>2. Least(i, m) <= Least(c - 1, m) /\ Least(i, m) \in Nat /\ Least(c - 1, m) \in Nat
    BY <1>1, <1>2, SMT DEF Least
  <2> QED
    BY <2>1, <2>2, SMT
<1>8. j \in Nat /\ d \in Nat \ {0} /\ j <= Share(n, r, i)
  BY <1>5, SMT
<1> QED
  BY <1>3, <1>4, <1>5, <1>6, <1>7, <1>8, SMT

-----------------------------------------------------------------------------
(* The exams of the renderers.                                             *)

\* At least one renderer, and the more the smaller the exams.
LEMMA ParallelismIsPositive ==
  ASSUME NEW b \in Nat \ {0}
  PROVE  /\ Parallelism(b) \in Nat \ {0} /\ Parallelism(1) \in Nat \ {0}
         /\ Parallelism(b) <= Parallelism(1)
<1>1. Cores \div 2 \in Nat /\ MaxConcurrentBlocks \in Nat
  BY CoresAssumption, SMT
<1> DEFINE w == Least(MaxConcurrentBlocks, Cores \div 2)
<1>2. w \in Nat
  BY <1>1, SMT DEF Least
<1>3. Parallelism(b) = Greatest(1, w + 2 - b) /\ Parallelism(1) = Greatest(1, w + 2 - 1)
  BY DEF Parallelism
<1> HIDE DEF w
<1> QED
  BY <1>2, <1>3, SMT DEF Greatest

NumBlocks  == pages \div blockSize
NumSubsets == Least(NumBlocks, Parallelism(blockSize))

\* The exam of the j-th block of the i-th of r subsets of n blocks.
ExamOf(n, r, b, i, j) ==
  [from |-> 1 + (DealtBefore(n, r, i) + j - 1) * b, thru |-> (DealtBefore(n, r, i) + j) * b,
   pages |-> [k \in 1..b |-> (DealtBefore(n, r, i) + j - 1) * b + k]]

\* The state in which a PDF is rendered.
Divided == pages \in Nat /\ blockSize \in Nat \ {0} /\ Divides(pages, blockSize)

\* A PDF of whole exams has as many blocks, and a subset if it has a block.
LEMMA NumbersOfBlocks ==
  ASSUME Divided
  PROVE  /\ NumBlocks \in Nat /\ NumSubsets \in Nat /\ pages = NumBlocks * blockSize
         /\ NumSubsets <= NumBlocks /\ NumSubsets <= Parallelism(blockSize)
         /\ NumSubsets <= Parallelism(1)
         /\ NumBlocks # 0 => NumSubsets # 0
<1>1. NumBlocks \in Nat /\ pages = NumBlocks * blockSize
  <2>1. /\ pages \div blockSize \in Nat /\ pages = ((pages \div blockSize) * blockSize) + (pages % blockSize)
        /\ pages % blockSize = 0
    BY DivMod, SMT DEF Divided, Divides
  <2> DEFINE q == pages \div blockSize
             m == pages % blockSize
  <2>2. q \in Nat /\ pages = (q * blockSize) + m /\ m = 0
    BY <2>1
  <2>3. NumBlocks = q
    BY DEF NumBlocks
  <2> HIDE DEF q, m
  <2>4. q * blockSize \in Nat
    BY <2>2, SMT DEF Divided
  <2> QED
    BY <2>2, <2>3, <2>4, SMT
<1>2. Parallelism(blockSize) \in Nat \ {0} /\ Parallelism(1) \in Nat \ {0}
      /\ Parallelism(blockSize) <= Parallelism(1)
  BY ParallelismIsPositive DEF Divided
<1>3. NumSubsets \in Nat /\ NumSubsets <= NumBlocks /\ NumSubsets <= Parallelism(blockSize)
      /\ (NumBlocks # 0 => NumSubsets # 0)
  BY <1>1, <1>2, SMT DEF NumSubsets, Least
<1> QED
  BY <1>1, <1>2, <1>3, SMT

\* However many they are, the subsets are counted.
LEMMA SubsetsAreCounted ==
  ASSUME NEW n \in Nat, NEW b \in Nat \ {0}
  PROVE  Len(Subsets(n, b, Parallelism(b))) \in Nat
<1> DEFINE r == Least(n \div b, Parallelism(b))
           S == Subsets(n, b, Parallelism(b))
<1>1. S = [i \in 1..r |-> S[i]]
  BY DEF Subsets
<1>2. r \in Nat
  <2>1. n \div b \in Nat /\ Parallelism(b) \in Nat
    BY DivMod, ParallelismIsPositive, SMT
  <2> QED
    BY <2>1 DEF Least
<1> HIDE DEF r, S
<1>3. Len(S) = r
  BY <1>1, <1>2, SMT
<1> QED
  BY <1>2, <1>3 DEF S

\* A PDF without a block has no subset.
LEMMA NoPagesNoSubsets ==
  ASSUME Divided, NumSubsets = 0
  PROVE  Len(subsets) = 0
<1>1. DOMAIN subsets = 1..NumSubsets
  BY DEF subsets, Subsets, NumSubsets, NumBlocks
<1>2. subsets = [i \in 1..NumSubsets |-> subsets[i]]
  BY DEF subsets, Subsets, NumSubsets, NumBlocks
<1> QED
  BY <1>1, <1>2, SMT

\* A renderer sends the exams of its subset's blocks, with their pages.
LEMMA ExamsAreBlocks ==
  ASSUME Divided, NumSubsets # 0
  PROVE  /\ Len(subsets) = NumSubsets
         /\ \A i \in 1..NumSubsets :
              Exams(i) = {ExamOf(NumBlocks, NumSubsets, blockSize, i, j) : j \in 1..Share(NumBlocks, NumSubsets, i)}
<1> DEFINE n == NumBlocks
           r == NumSubsets
           b == blockSize
<1>1. n \in Nat /\ r \in Nat \ {0} /\ b \in Nat \ {0} /\ Parallelism(b) \in Nat /\ r <= n
  BY NumbersOfBlocks, ParallelismIsPositive DEF Divided
<1>2. subsets = [i \in 1..r |-> [j \in 1..Share(n, r, i) |-> Block(n, r, b, i, j)]]
  BY <1>1, SubsetsAreBlocks DEF subsets, NumBlocks, NumSubsets, Divided
<1>3. \A i \in 1..r : Exams(i) =
        {[from |-> subsets[i][j].from, thru |-> subsets[i][j].thru,
          pages |-> [k \in 1..b |-> subsets[i][1].from - 1 + (j - 1) * b + k]] : j \in DOMAIN subsets[i]}
  BY DEF Exams, PagesRendered
<1> HIDE DEF n, r, b
<1>4. \A i \in 1..r : Share(n, r, i) \in Nat /\ DealtBefore(n, r, i) \in Nat
  <2>1. 1..r \subseteq 1..(r + 1) /\ 0..n \subseteq Nat
    BY <1>1, SMT
  <2>2. \A i \in 1..(r + 1) : DealtBefore(n, r, i) \in 0..n
    BY <1>1, SharesAddUp
  <2>3. \A i \in 1..r : Share(n, r, i) \in Nat
    BY <1>1, ShareGrows
  <2> QED
    BY <2>1, <2>2, <2>3
<1>5. ASSUME NEW i \in 1..r, NEW j \in 1..Share(n, r, i)
      PROVE  [from |-> subsets[i][j].from, thru |-> subsets[i][j].thru,
              pages |-> [k \in 1..b |-> subsets[i][1].from - 1 + (j - 1) * b + k]]
               = ExamOf(n, r, b, i, j)
  <2> DEFINE c == DealtBefore(n, r, i)
  <2>1. c \in Nat /\ j \in Nat /\ 1 \in 1..Share(n, r, i)
    BY <1>4, SMT
  <2>2. subsets[i][j] = Block(n, r, b, i, j) /\ subsets[i][1] = Block(n, r, b, i, 1)
    BY <1>2, <2>1
  <2>3. /\ subsets[i][j].from = 1 + (c + j - 1) * b /\ subsets[i][j].thru = (c + j) * b
        /\ subsets[i][1].from = 1 + (c + 1 - 1) * b
    BY <2>2 DEF Block
  <2>4. ExamOf(n, r, b, i, j) = [from |-> 1 + (c + j - 1) * b, thru |-> (c + j) * b,
                                 pages |-> [k \in 1..b |-> (c + j - 1) * b + k]]
    BY DEF ExamOf
  <2> HIDE DEF c
  <2>5. ASSUME NEW k \in 1..b
        PROVE  (1 + (c + 1 - 1) * b) - 1 + (j - 1) * b + k = (c + j - 1) * b + k
    BY <1>1, <2>1, SMT
  <2> QED
    BY <2>3, <2>4, <2>5
<1>6. \A i \in 1..r : DOMAIN subsets[i] = 1..Share(n, r, i)
  BY <1>2
<1>7. \A i \in 1..r : Exams(i) = {ExamOf(n, r, b, i, j) : j \in 1..Share(n, r, i)}
  <2> TAKE i \in 1..r
  <2> DEFINE T(j) == [from |-> subsets[i][j].from, thru |-> subsets[i][j].thru,
                      pages |-> [k \in 1..b |-> subsets[i][1].from - 1 + (j - 1) * b + k]]
  <2>1. Exams(i) = {T(j) : j \in 1..Share(n, r, i)}
    BY <1>3, <1>6
  <2>2. \A j \in 1..Share(n, r, i) : T(j) = ExamOf(n, r, b, i, j)
    BY <1>5
  <2> HIDE DEF T
  <2> QED
    BY <2>1, <2>2
<1>8. Len(subsets) = r
  BY <1>1, <1>2, SMT
<1> QED
  BY <1>7, <1>8 DEF n, r, b

\* As many exams as blocks.
LEMMA ExamsAreMany ==
  ASSUME NEW n \in Nat, NEW r \in Nat \ {0}, NEW b \in Nat \ {0}, NEW i \in 1..r
  PROVE  Cardinality({ExamOf(n, r, b, i, j) : j \in 1..Share(n, r, i)}) = Share(n, r, i)
<1> DEFINE s == Share(n, r, i)
           E == {ExamOf(n, r, b, i, j) : j \in 1..s}
           f == [j \in 1..s |-> ExamOf(n, r, b, i, j)]
<1>1. s \in Nat /\ DealtBefore(n, r, i) \in Nat
  <2>1. i \in 1..(r + 1)
    BY SMT
  <2>2. DealtBefore(n, r, i) \in 0..n
    BY <2>1, SharesAddUp
  <2> QED
    BY <2>2, ShareGrows, SMT
<1>2. ASSUME NEW j \in 1..s, NEW k \in 1..s, ExamOf(n, r, b, i, j) = ExamOf(n, r, b, i, k)
      PROVE  j = k
  <2> DEFINE c == DealtBefore(n, r, i)
  <2>1. ExamOf(n, r, b, i, j).thru = (c + j) * b /\ ExamOf(n, r, b, i, k).thru = (c + k) * b
    BY DEF ExamOf
  <2>2. (c + j) * b = (c + k) * b
    BY <1>2, <2>1
  <2>3. j \in Nat /\ k \in Nat /\ c \in Nat
    BY <1>1, SMT
  <2> HIDE DEF c
  <2> QED
    BY <2>2, <2>3, SMT
<1> HIDE DEF s
<1>3. f \in Bijection(1..s, E)
  <2>1. f \in [1..s -> E]
    OBVIOUS
  <2>2. \A j, k \in 1..s : f[j] = f[k] => j = k
    BY <1>2
  <2>3. \A e \in E : \E j \in 1..s : f[j] = e
    OBVIOUS
  <2> HIDE DEF f, E
  <2> QED
    BY <2>1, <2>2, <2>3 DEF Bijection, Injection, Surjection, IsInjective
<1>4. IsFiniteSet(1..s) /\ Cardinality(1..s) = s
  <2>1. 1 \in Int /\ s \in Int
    BY <1>1, SMT
  <2>2. IsFiniteSet(1..s) /\ Cardinality(1..s) = IF 1 > s THEN 0 ELSE s - 1 + 1
    BY <2>1, FS_Interval
  <2>3. (IF 1 > s THEN 0 ELSE s - 1 + 1) = s
    BY <1>1, SMT
  <2> QED
    BY <2>2, <2>3
<1>5. ExistsBijection(1..s, E)
  BY <1>3 DEF ExistsBijection
<1>6. Cardinality(E) = Cardinality(1..s)
  <2> HIDE DEF E
  <2> QED
    BY <1>4, <1>5, FS_Bijection
<1> QED
  BY <1>4, <1>6 DEF s

\* The exams of all the subsets.
LEMMA ExamsCoverThePages ==
  ASSUME NEW n \in Nat, NEW r \in Nat \ {0}, NEW b \in Nat \ {0}, NEW E,
         \A e \in E : \E i \in 1..r : \E j \in 1..Share(n, r, i) : e = ExamOf(n, r, b, i, j),
         \A i \in 1..r : \A j \in 1..Share(n, r, i) : ExamOf(n, r, b, i, j) \in E
  PROVE  /\ \A e \in E : e.pages = [k \in 1..b |-> e.from + k - 1] /\ e.thru = e.from + b - 1
         /\ {e.from : e \in E} = {1 + k * b : k \in 0..(n - 1)}
<1>1. \A i \in 1..r : Share(n, r, i) \in Nat /\ DealtBefore(n, r, i) \in Nat
  <2>1. 1..r \subseteq 1..(r + 1) /\ 0..n \subseteq Nat
    BY SMT
  <2>2. \A i \in 1..(r + 1) : DealtBefore(n, r, i) \in 0..n
    BY SharesAddUp
  <2>3. \A i \in 1..r : Share(n, r, i) \in Nat
    BY ShareGrows
  <2> QED
    BY <2>1, <2>2, <2>3
<1>4. ASSUME NEW e \in E
      PROVE  e.pages = [k \in 1..b |-> e.from + k - 1] /\ e.thru = e.from + b - 1
  <2>0. PICK i \in 1..r : \E j \in 1..Share(n, r, i) : e = ExamOf(n, r, b, i, j)
    OBVIOUS
  <2>1. PICK j \in 1..Share(n, r, i) : e = ExamOf(n, r, b, i, j)
    BY <2>0
  <2> DEFINE c == DealtBefore(n, r, i)
             P == [k \in 1..b |-> (c + j - 1) * b + k]
  <2>2. c \in Nat /\ j \in Nat
    BY <1>1, <2>1, SMT
  <2>3. ExamOf(n, r, b, i, j) = [from |-> 1 + (c + j - 1) * b, thru |-> (c + j) * b, pages |-> P]
    BY DEF ExamOf
  <2> HIDE DEF c, P
  <2>4. e.from = 1 + (c + j - 1) * b /\ e.thru = (c + j) * b /\ e.pages = P
    BY <2>1, <2>3
  <2>5. \A k \in 1..b : (c + j - 1) * b + k = (1 + (c + j - 1) * b) + k - 1
    BY <2>2, SMT
  <2>6. (c + j) * b = (1 + (c + j - 1) * b) + b - 1
    BY <2>2, SMT
  <2> QED
    BY <2>4, <2>5, <2>6 DEF P
<1>5. ASSUME NEW e \in E
      PROVE  \E k \in 0..(n - 1) : e.from = 1 + k * b
  <2>0. PICK i \in 1..r : \E j \in 1..Share(n, r, i) : e = ExamOf(n, r, b, i, j)
    OBVIOUS
  <2>1. PICK j \in 1..Share(n, r, i) : e = ExamOf(n, r, b, i, j)
    BY <2>0
  <2>2. DealtBefore(n, r, i) + j - 1 \in 0..(n - 1)
    BY <2>1, EveryBlockIsDealt
  <2>3. e.from = 1 + (DealtBefore(n, r, i) + j - 1) * b
    BY <2>1 DEF ExamOf
  <2> QED
    BY <2>2, <2>3
<1>6. ASSUME NEW k \in 0..(n - 1)
      PROVE  \E e \in E : e.from = 1 + k * b
  <2>0. PICK i \in 1..r : \E j \in 1..Share(n, r, i) : k = DealtBefore(n, r, i) + j - 1
    BY EveryBlockIsDealt
  <2>1. PICK j \in 1..Share(n, r, i) : k = DealtBefore(n, r, i) + j - 1
    BY <2>0
  <2>2. ExamOf(n, r, b, i, j) \in E
    BY <2>1
  <2>3. ExamOf(n, r, b, i, j).from = 1 + k * b
    BY <2>1 DEF ExamOf
  <2> QED
    BY <2>2, <2>3
<1>7. {e.from : e \in E} = {1 + k * b : k \in 0..(n - 1)}
  BY <1>5, <1>6
<1> QED
  BY <1>4, <1>7

\* No two renderers send the same exam.
LEMMA ExamsAreApart ==
  ASSUME NEW n \in Nat, NEW r \in Nat \ {0}, NEW b \in Nat \ {0}, NEW i \in 1..r, NEW c \in 1..r, i < c,
         NEW j \in 1..Share(n, r, i), NEW d \in 1..Share(n, r, c)
  PROVE  ExamOf(n, r, b, i, j) # ExamOf(n, r, b, c, d)
<1> DEFINE x == DealtBefore(n, r, i) + j
           y == DealtBefore(n, r, c) + d
<1>1. x < y
  BY BlocksAreDealtInOrder
<1>2. x \in Int /\ y \in Int
  <2>1. i \in 1..(r + 1) /\ c \in 1..(r + 1)
    BY SMT
  <2>2. DealtBefore(n, r, i) \in 0..n /\ DealtBefore(n, r, c) \in 0..n
    BY <2>1, SharesAddUp
  <2>3. Share(n, r, i) \in Nat /\ Share(n, r, c) \in Nat
    BY ShareGrows
  <2> QED
    BY <2>2, <2>3, SMT
<1>3. ExamOf(n, r, b, i, j).thru = x * b /\ ExamOf(n, r, b, c, d).thru = y * b
  BY DEF ExamOf
<1> HIDE DEF x, y
<1>4. x * b # y * b
  BY <1>1, <1>2, SMT
<1> QED
  BY <1>3, <1>4

-----------------------------------------------------------------------------
(* Which sub-documents are open, and what was rendered.                    *)

\* What a handler works with has pages.
Shown ==
  /\ row # NoRow \/ at \in {"adapt", "save"} => posted # <<>>
  /\ at = "split" => template \in Postable /\ template # <<>>

\* The sub-documents that are open and the exams that were sent.
Rendering ==
  /\ docs \in Nat
  /\ docs # 0 => at \in {"subdocs", "rendering", "over"} /\ request.kind = "scan"
  /\ at \in {"subdocs", "rendering"} \/ docs # 0 => Divided
  /\ at = "subdocs" => docs <= Len(subsets)
  /\ at = "rendering" \/ (at = "over" /\ docs # 0) => docs = Len(subsets)
  /\ DOMAIN rendered = 1..Parallelism(1)
  /\ \A i \in DOMAIN rendered : rendered[i] # {} =>
       i \in 1..docs /\ at \in {"rendering", "over"} /\ rendered[i] = Exams(i)

\* Steps of the parsers and of the handlers of templates.
LEMMA TemplateSteps ==
  ASSUME Places, TemplateNext
  PROVE  \/ DeleteTemplate
         \/ NextRequest
         \/ /\ at \notin {"template", "split", "subdocs", "rendering", "over"} /\ at' \notin {"split", "subdocs", "rendering"}
            /\ UNCHANGED request
BY DEF TemplateNext, BodyNext, ParseQuery, CheckType, Decode, CreateTemp, CopyBody, SniffWrong, Accept, HandOver,
       ReadJson, End, Answer, FirstStep, IntoFile, Validate, Adapt, AdaptMarks, Save, LoadMarkingTemplate, MarkEnd

LEMMA ShownStep == UInv /\ Shown /\ [Next]_vars => Shown'
<1> SUFFICES ASSUME UInv, Shown, [Next]_vars PROVE Shown'
  OBVIOUS
<1>1. Places /\ Stored
  BY DEF UInv
<1>2. CASE BodyNext /\ UNCHANGED templateVars
  <2>1. at' \notin {"adapt", "save", "split"} /\ row' = row /\ posted' = posted
    BY <1>2 DEF templateVars, BodyNext, ParseQuery, CheckType, Decode, CreateTemp, CopyBody, SniffWrong, Accept,
                HandOver, ReadJson, End, Answer, FirstStep, IntoFile
  <2> QED
    BY <2>1 DEF Shown
<1>3. CASE Validate
  <2>1. at = "validate" /\ row = NoRow /\ row' = row
    BY <1>1, <1>3 DEF Validate, Places, Stored
  <2>2. at' = "over" \/ (at' = "adapt" /\ posted' # <<>>)
    BY <1>3 DEF Validate, Valid, End, Answer
  <2> QED
    BY <2>1, <2>2 DEF Shown
<1>4. CASE Adapt \/ AdaptMarks
  <2>1. at = "adapt" /\ at' \in {"save", "over"} /\ UNCHANGED <<posted, row>>
    BY <1>4 DEF Adapt, AdaptMarks, End, Answer
  <2> QED
    BY <2>1 DEF Shown
<1>5. CASE Save
  <2>1. at = "save" /\ at' = "over" /\ UNCHANGED posted
    BY <1>5 DEF Save, End, Answer
  <2> QED
    BY <2>1 DEF Shown
<1>6. CASE DeleteTemplate
  <2>1. row # NoRow /\ row' = NoRow /\ UNCHANGED <<at, posted, template>>
    BY <1>6 DEF DeleteTemplate, bodyVars
  <2> QED
    BY <2>1 DEF Shown
<1>7. CASE NextRequest
  <2>1. at' \in {"check", "query"} /\ UNCHANGED <<posted, row>>
    BY <1>7 DEF NextRequest, FirstAt, FirstStep
  <2> QED
    BY <2>1 DEF Shown
<1>8. CASE LoadMarkingTemplate \/ MarkEnd
  <2>1. at' \in {"marked", "over"} /\ UNCHANGED <<posted, row>>
    BY <1>8 DEF LoadMarkingTemplate, MarkEnd, End, Answer, templateVars
  <2> QED
    BY <2>1 DEF Shown
<1>9. CASE LoadTemplate
  <2>1. at = "template" /\ UNCHANGED <<posted, row>>
        /\ (at' = "over" \/ (at' = "split" /\ Found("postPreprocess")))
    BY <1>9 DEF LoadTemplate, Return, Answer
  <2>2. ASSUME Found("postPreprocess")
        PROVE  template' \in Postable /\ template' # <<>>
    <3>1. "postPreprocess" \in Posts /\ row # NoRow
      BY <2>2 DEF Posts, Found, NoRow
    <3>2. template' = posted
      BY <1>1, <2>2, <3>1, FoundIsPosted
    <3> QED
      BY <1>1, <3>1, <3>2 DEF Shown, Stored
  <2> QED
    BY <2>1, <2>2 DEF Shown
<1>10. CASE Split \/ OpenSubdoc \/ StartRenderers \/ ScanEnd \/ (\E i \in 1..docs : RendererEnd(i))
  <2>1. at' \in {"subdocs", "rendering", "over"} /\ UNCHANGED <<posted, row>>
    BY <1>10 DEF Split, OpenSubdoc, StartRenderers, ScanEnd, RendererEnd, Return, GiveUp, Answer, templateVars
  <2> QED
    BY <2>1 DEF Shown
<1>11. CASE UNCHANGED vars
  BY <1>11 DEF vars, bodyVars, templateVars, Shown
<1> QED
  BY <1>2, <1>3, <1>4, <1>5, <1>6, <1>7, <1>8, <1>9, <1>10, <1>11 DEF Next, TemplateNext

\* A template that is shown has pages to be counted.
LEMMA TemplatesHavePages ==
  ASSUME NEW t \in Postable, t # <<>>
  PROVE  Len(t) \in Nat \ {0}
<1>1. PICK shape \in Shapes : t = Pages(shape)
  BY DEF Postable
<1>2. shape.pages \in Nat \ {0}
  BY TemplateAssumption, SMT DEF Shapes
<1>3. DOMAIN t = 1..shape.pages /\ t = [i \in 1..shape.pages |-> t[i]]
  BY <1>1 DEF Pages
<1>4. Len(t) = shape.pages
  BY <1>2, <1>3, SMT
<1> QED
  BY <1>2, <1>4

\* While the template and the PDF are the same, so are the subsets.
LEMMA SamePartition ==
  ASSUME UNCHANGED <<template, pages>>
  PROVE  /\ subsets' = subsets /\ (Divided' <=> Divided)
         /\ \A i : Exams(i)' = Exams(i)
BY DEF subsets, blockSize, Divided, Exams

\* A step away from the sub-documents, when there are none.
LEMMA QuietRendering ==
  ASSUME Rendering, docs = 0, docs' = 0, UNCHANGED rendered, at' \notin {"subdocs", "rendering"}
  PROVE  Rendering'
<1>1. \A i \in DOMAIN rendered : rendered[i] = {}
  BY SMT DEF Rendering
<1> QED
  BY <1>1, SMT DEF Rendering

LEMMA RenderingStep == UInv /\ Shown /\ Rendering /\ [Next]_vars => Rendering'
<1> SUFFICES ASSUME UInv, Shown, Rendering, [Next]_vars PROVE Rendering'
  OBVIOUS
<1>1. Places
  BY DEF UInv
<1>2. ASSUME UNCHANGED <<request, at, template, pages, docs, rendered>>
      PROVE  Rendering'
  BY <1>2, SamePartition DEF Rendering
<1>3. CASE TemplateNext /\ UNCHANGED pdfVars
  <2>1. UNCHANGED <<pages, docs, rendered>>
    BY <1>3 DEF pdfVars
  <2>2. CASE DeleteTemplate
    BY <1>2, <2>1, <2>2 DEF DeleteTemplate, bodyVars
  <2>3. CASE NextRequest
    <3>1. request.kind # "scan" /\ at' \in {"check", "query"}
      BY <2>3 DEF NextRequest, FirstAt, FirstStep, Posts
    <3>2. docs = 0
      BY <3>1 DEF Rendering
    <3> QED
      BY <2>1, <3>1, <3>2, QuietRendering
  <2>4. CASE /\ at \notin {"template", "split", "subdocs", "rendering", "over"}
             /\ at' \notin {"split", "subdocs", "rendering"} /\ UNCHANGED request
    <3>1. docs = 0
      BY <2>4 DEF Rendering
    <3> QED
      BY <2>1, <2>4, <3>1, QuietRendering
  <2> QED
    BY <1>1, <1>3, <2>2, <2>3, <2>4, TemplateSteps
<1>4. CASE LoadTemplate
  <2>1. docs = 0 /\ UNCHANGED <<docs, rendered>> /\ at' \in {"split", "over"}
    BY <1>4 DEF LoadTemplate, Return, Answer, pdfVars, Rendering
  <2> QED
    BY <2>1, QuietRendering
<1>5. CASE Split
  <2>1. docs = 0 /\ UNCHANGED <<request, template, docs, rendered>> /\ request.kind = "scan"
        /\ template \in Postable /\ template # <<>>
    BY <1>1, <1>5 DEF Split, Rendering, Shown, Places
  <2>2. CASE at' = "over"
    BY <2>1, <2>2, QuietRendering
  <2>3. CASE at' # "over"
    <3>1. at' = "subdocs" /\ \E n \in 0..MaxPages : pages' = n /\ Divides(n, blockSize)
      BY <1>5, <2>3 DEF Split, Return, Answer
    <3>2. blockSize \in Nat \ {0} /\ blockSize' = blockSize
      BY <2>1, TemplatesHavePages DEF blockSize
    <3>3. pages' \in Nat /\ Divides(pages', blockSize)
      BY <3>1, PagesAssumption, SMT
    <3>4. Divided'
      BY <3>2, <3>3 DEF Divided
    <3>5. \A i \in DOMAIN rendered : rendered[i] = {}
      BY <2>1, SMT DEF Rendering
    <3>6. Len(subsets') \in Nat
      BY <3>4, SubsetsAreCounted DEF subsets, Divided
    <3>7. docs' = 0 /\ docs' <= Len(subsets')
      BY <2>1, <3>6
    <3> QED
      BY <2>1, <3>1, <3>4, <3>5, <3>7 DEF Rendering
  <2> QED
    BY <2>2, <2>3
<1>6. CASE OpenSubdoc
  <2>1. at = "subdocs" /\ UNCHANGED <<request, template, pages, rendered>> /\ request.kind = "scan" /\ Divided
        /\ docs \in Nat /\ docs < Len(subsets) /\ \A i \in DOMAIN rendered : rendered[i] = {}
    BY <1>1, <1>6 DEF OpenSubdoc, Rendering, Places
  <2>2. CASE docs' = docs + 1 /\ at' = at
    <3>1. docs' \in Nat /\ Divided' /\ subsets' = subsets
      BY <2>1, <2>2, SamePartition
    <3>2. Len(subsets) \in Nat
      BY <2>1, SubsetsAreCounted DEF subsets, Divided
    <3>3. docs' <= Len(subsets)
      BY <2>1, <2>2, <3>2
    <3> QED
      BY <2>1, <2>2, <3>1, <3>3 DEF Rendering
  <2>3. CASE docs' = 0 /\ at' = "over"
    BY <2>1, <2>3 DEF Rendering
  <2> QED
    BY <1>6, <2>2, <2>3 DEF OpenSubdoc, GiveUp, Answer
<1>7. CASE StartRenderers
  <2>1. /\ at = "subdocs" /\ docs = Len(subsets) /\ at' = "rendering" /\ UNCHANGED <<request, template, pages, docs, rendered>>
        /\ request.kind = "scan" /\ docs \in Nat /\ Divided
    BY <1>1, <1>7 DEF StartRenderers, Rendering, Places, templateVars, pdfVars
  <2>2. Divided' /\ subsets' = subsets /\ \A i \in DOMAIN rendered : rendered[i] = {}
    BY <2>1, SamePartition DEF Rendering
  <2> QED
    BY <2>1, <2>2 DEF Rendering
<1>8. CASE ScanEnd
  <2>1. at = "rendering" /\ at' = "over" /\ UNCHANGED <<request, template, pages, docs, rendered>>
    BY <1>8 DEF ScanEnd, Return, Answer, pdfVars
  <2>2. subsets' = subsets /\ (Divided' <=> Divided) /\ \A i : Exams(i)' = Exams(i)
    BY <2>1, SamePartition
  <2> QED
    BY <2>1, <2>2 DEF Rendering
<1>9. CASE \E i \in 1..docs : RendererEnd(i)
  <2>1. PICK i \in 1..docs : RendererEnd(i)
    BY <1>9
  <2>2. /\ at \in {"rendering", "over"} /\ rendered' = [rendered EXCEPT ![i] = Exams(i)]
        /\ UNCHANGED <<request, at, template, pages, docs>>
    BY <2>1 DEF RendererEnd, templateVars
  <2>3. subsets' = subsets /\ (Divided' <=> Divided) /\ \A k : Exams(k)' = Exams(k)
    BY <2>2, SamePartition
  <2>4. DOMAIN rendered' = DOMAIN rendered
        /\ \A k \in DOMAIN rendered : rendered'[k] = IF k = i THEN Exams(i) ELSE rendered[k]
    BY <2>2
  <2>5. \A k \in DOMAIN rendered' : rendered'[k] # {} =>
          k \in 1..docs /\ at \in {"rendering", "over"} /\ rendered'[k] = Exams(k)
    BY <2>1, <2>2, <2>4 DEF Rendering
  <2> QED
    BY <2>2, <2>3, <2>4, <2>5 DEF Rendering
<1>10. CASE UNCHANGED vars
  BY <1>2, <1>10 DEF vars, bodyVars, templateVars, pdfVars
<1> QED
  BY <1>3, <1>4, <1>5, <1>6, <1>7, <1>8, <1>9, <1>10 DEF Next

LEMMA RenderingInit == Init => Shown /\ Rendering
<1> SUFFICES ASSUME Init PROVE Shown /\ Rendering
  OBVIOUS
<1>1. at \in {"check", "query"} /\ row = NoRow
  BY DEF Init, BodyInit, TemplateInit, FirstAt, FirstStep
<1>2. docs = 0 /\ rendered = [i \in 1..Parallelism(1) |-> {}]
  BY DEF Init
<1>3. DOMAIN rendered = 1..Parallelism(1) /\ \A i \in DOMAIN rendered : rendered[i] = {}
  BY <1>2
<1> QED
  BY <1>1, <1>2, <1>3 DEF Shown, Rendering

LEMMA RenderingInvariant == Spec => [](UInv /\ Shown /\ Rendering)
BY UploadInitInvariant, UploadStepInvariant, RenderingInit, ShownStep, RenderingStep, PTL DEF Spec

\* No more sub-documents than there are renderers to be had.
LEMMA DocsAreBounded ==
  ASSUME Rendering, docs # 0, at # "subdocs"
  PROVE  /\ docs = NumSubsets /\ NumSubsets # 0 /\ 1..docs \subseteq DOMAIN rendered
<1>1. Divided /\ docs = Len(subsets) /\ DOMAIN rendered = 1..Parallelism(1)
  BY DEF Rendering
<1>2. NumSubsets # 0
  BY <1>1, NoPagesNoSubsets
<1>3. docs = NumSubsets /\ NumSubsets \in Nat /\ NumSubsets <= Parallelism(1)
  BY <1>1, <1>2, ExamsAreBlocks, NumbersOfBlocks
<1>4. Parallelism(1) \in Nat
  BY <1>1, ParallelismIsPositive DEF Divided
<1>5. 1..docs \subseteq 1..Parallelism(1)
  BY <1>3, <1>4, SMT
<1> QED
  BY <1>1, <1>2, <1>3, <1>5

\* When all renderers are through, the exams they sent are those of all blocks.
LEMMA RenderedIsEverything == Rendering => EveryPageOnce
<1> SUFFICES ASSUME Rendering, docs > 0, \A i \in 1..docs : rendered[i] # {}
             PROVE  /\ \A e \in Pieces : e.pages = [k \in 1..blockSize |-> e.from + k - 1]
                                         /\ e.thru = e.from + blockSize - 1
                    /\ {e.from : e \in Pieces} = {1 + k * blockSize : k \in 0..(pages \div blockSize - 1)}
                    /\ \A i, j \in 1..docs : Cardinality(rendered[i]) <= Cardinality(rendered[j]) + 1
                    /\ \A i, j \in 1..docs : i # j => rendered[i] \cap rendered[j] = {}
  BY DEF EveryPageOnce
<1>1. docs \in Nat /\ docs # 0 /\ 1 \in 1..docs /\ Divided
  BY SMT DEF Rendering
<1>2. at # "subdocs"
  <2>1. 1 \in DOMAIN rendered
    BY <1>1, ParallelismIsPositive, SMT DEF Rendering, Divided
  <2> QED
    BY <1>1, <2>1 DEF Rendering
<1> DEFINE n == NumBlocks
           r == NumSubsets
           b == blockSize
<1>3. docs = r /\ r # 0 /\ 1..r \subseteq DOMAIN rendered
  BY <1>1, <1>2, DocsAreBounded
<1>4. n \in Nat /\ r \in Nat \ {0} /\ b \in Nat \ {0}
  BY <1>1, <1>3, NumbersOfBlocks DEF Divided
<1>5. \A i \in 1..r : rendered[i] = {ExamOf(n, r, b, i, j) : j \in 1..Share(n, r, i)}
  <2>1. \A i \in 1..r : rendered[i] = Exams(i)
    BY <1>3 DEF Rendering
  <2> QED
    BY <1>1, <1>3, <2>1, ExamsAreBlocks
<1>6. \A i \in DOMAIN rendered : rendered[i] # {} => i \in 1..r
  BY <1>3 DEF Rendering
<1>7. n = pages \div b
  BY DEF NumBlocks
<1> HIDE DEF n, r, b
<1>8. \A e \in Pieces : \E i \in 1..r : \E j \in 1..Share(n, r, i) : e = ExamOf(n, r, b, i, j)
  <2> SUFFICES ASSUME NEW e \in Pieces
               PROVE  \E i \in 1..r : \E j \in 1..Share(n, r, i) : e = ExamOf(n, r, b, i, j)
    OBVIOUS
  <2>1. PICK i \in DOMAIN rendered : e \in rendered[i]
    BY DEF Pieces
  <2>2. i \in 1..r
    BY <1>6, <2>1
  <2> QED
    BY <1>5, <2>1, <2>2
<1>9. \A i \in 1..r : \A j \in 1..Share(n, r, i) : ExamOf(n, r, b, i, j) \in Pieces
  <2> SUFFICES ASSUME NEW i \in 1..r, NEW j \in 1..Share(n, r, i) PROVE ExamOf(n, r, b, i, j) \in Pieces
    OBVIOUS
  <2>1. i \in DOMAIN rendered /\ ExamOf(n, r, b, i, j) \in rendered[i]
    BY <1>3, <1>5
  <2> QED
    BY <2>1 DEF Pieces
<1>10. /\ \A e \in Pieces : e.pages = [k \in 1..b |-> e.from + k - 1] /\ e.thru = e.from + b - 1
       /\ {e.from : e \in Pieces} = {1 + k * b : k \in 0..(n - 1)}
  BY <1>4, <1>8, <1>9, ExamsCoverThePages
<1>11. ASSUME NEW i \in 1..docs, NEW j \in 1..docs
       PROVE  Cardinality(rendered[i]) <= Cardinality(rendered[j]) + 1
  <2>1. i \in 1..r /\ j \in 1..r
    BY <1>3
  <2>2. Cardinality(rendered[i]) = Share(n, r, i) /\ Cardinality(rendered[j]) = Share(n, r, j)
    <3>1. \A k \in 1..r : Cardinality({ExamOf(n, r, b, k, l) : l \in 1..Share(n, r, k)}) = Share(n, r, k)
      BY <1>4, ExamsAreMany
    <3>2. \A k \in 1..r : Cardinality(rendered[k]) = Share(n, r, k)
      BY <1>5, <3>1
    <3> QED
      BY <2>1, <3>2
  <2>3. Share(n, r, i) \in Nat /\ Share(n, r, j) \in Nat
    BY <1>4, <2>1, ShareGrows
  <2>4. Share(n, r, i) <= Share(n, r, j) + 1
    <3> DEFINE q == n \div r
               m == n % r
    <3>1. Share(n, r, i) = q + (IF i <= m THEN 1 ELSE 0) /\ Share(n, r, j) = q + (IF j <= m THEN 1 ELSE 0)
      BY DEF Share
    <3>2. r > 0
      BY <1>4, SMT
    <3>3. q \in Nat
      BY <1>4, <3>2, DivMod
    <3> HIDE DEF q, m
    <3> QED
      BY <3>1, <3>3, SMT
  <2> QED
    BY <2>2, <2>4
<1>12. ASSUME NEW i \in 1..docs, NEW j \in 1..docs, i # j
       PROVE  rendered[i] \cap rendered[j] = {}
  <2>1. \A c, d \in 1..r : c < d => rendered[c] \cap rendered[d] = {}
    <3> SUFFICES ASSUME NEW c \in 1..r, NEW d \in 1..r, c < d, NEW e \in rendered[c], e \in rendered[d]
                 PROVE  FALSE
      OBVIOUS
    <3>1. PICK k \in 1..Share(n, r, c) : e = ExamOf(n, r, b, c, k)
      BY <1>5
    <3>2. PICK l \in 1..Share(n, r, d) : e = ExamOf(n, r, b, d, l)
      BY <1>5
    <3> QED
      BY <1>4, <3>1, <3>2, ExamsAreApart
  <2>2. i \in 1..r /\ j \in 1..r /\ (i < j \/ j < i)
    BY <1>3, <1>4, <1>12, SMT
  <2> QED
    BY <2>1, <2>2
<1> QED
  BY <1>7, <1>10, <1>11, <1>12 DEF b

\* The renderers together give every page of the PDF in one exam, for any number
\* of pages, of pages per exam and of cores.
THEOREM EveryPageIsRendered == Spec => []EveryPageOnce
BY RenderingInvariant, RenderedIsEverything, PTL

-----------------------------------------------------------------------------
(* The temporary files.                                                    *)

Refused == {"serverError", "tooLarge", "wrongType"}

\* The files that are on disk.
Kept ==
  /\ files \subseteq {File("wrapper"), File("handler")} \cup OpenDocs
  /\ \A i \in DOMAIN rendered : rendered[i] # {} => Doc(i) \notin files
  /\ by = "wrapper" => File("handler") \notin files
  /\ by = "handler" /\ at = "over" => File("wrapper") \notin files
  /\ Parsed \in files =>
       \/ at \in {"copy", "sniff", "template", "split", "subdocs", "rendering"}
       \/ at = "over" /\ docs = 0 /\ status \in Refused

\* The files of the two parsers and of the sub-documents are all different.
LEMMA FilesDiffer ==
  /\ File("wrapper") # File("handler")
  /\ \A i : Doc(i) # File("wrapper") /\ Doc(i) # File("handler") /\ Doc(i)[2] = i
  /\ \A i, j : Doc(i) = Doc(j) => i = j
BY DEF File, Doc

\* A request that ends, or whose handler returns.
LEMMA EndKeepsKept ==
  ASSUME Kept, Decoding, UNCHANGED <<by, docs, rendered>>, at # "over", at' = "over",
         files' \subseteq BodyClosed,
         Parsed \in files' => docs = 0 /\ status' \in Refused
  PROVE  Kept'
<1>1. by \in {"wrapper", "handler"} /\ Parsed' = Parsed /\ OpenDocs' = OpenDocs
  BY DEF Decoding, Parsed, OpenDocs
<1>2. files' \subseteq files /\ (by = "handler" => File("wrapper") \notin files')
  BY DEF BodyClosed
<1>3. \A i \in DOMAIN rendered : rendered[i] # {} => Doc(i) \notin files'
  BY <1>2 DEF Kept
<1>4. by = "wrapper" => File("handler") \notin files'
  BY <1>2 DEF Kept
<1>5. files' \subseteq {File("wrapper"), File("handler")} \cup OpenDocs
  BY <1>2 DEF Kept
<1> QED
  BY <1>1, <1>2, <1>3, <1>4, <1>5 DEF Kept

\* Steps that go on with the same files.
LEMMA GoingOnKeepsKept ==
  ASSUME Kept, UNCHANGED <<by, docs, rendered, files>>, at' # "over",
         Parsed \in files => at' \in {"copy", "sniff", "template", "split", "subdocs", "rendering"}
  PROVE  Kept'
BY DEF Kept, Parsed, OpenDocs

LEMMA BodyKeepsKept == Decoding /\ Rendering /\ Kept /\ BodyNext /\ UNCHANGED <<docs, rendered>> => Kept'
<1> SUFFICES ASSUME Decoding, Rendering, Kept, BodyNext, UNCHANGED <<docs, rendered>> PROVE Kept'
  OBVIOUS
<1>1. at \in Reading /\ docs = 0
  <2>1. at \in Reading
    BY DEF BodyNext, ParseQuery, CheckType, Decode, CreateTemp, CopyBody, SniffWrong, Accept, HandOver,
           ReadJson, Reading
  <2> QED
    BY <2>1 DEF Rendering, Reading
<1>2. CASE at' = "over"
  <2>1. UNCHANGED by /\ files' = BodyClosed
    BY <1>2 DEF BodyNext, ParseQuery, CheckType, Decode, CreateTemp, CopyBody, SniffWrong, Accept, HandOver,
                ReadJson, End, Answer, FirstStep, IntoFile
  <2>2. at \in {"copy", "sniff"} => status' \in Refused
    BY <1>2 DEF BodyNext, ParseQuery, CheckType, Decode, CreateTemp, CopyBody, SniffWrong, Accept, HandOver,
                ReadJson, End, Answer, FirstStep, IntoFile, Refused
  <2>3. Parsed \in files' => Parsed \in files
    BY <2>1 DEF BodyClosed
  <2>4. Parsed \in files => at \in {"copy", "sniff"}
    BY <1>1 DEF Kept, Reading
  <2> QED
    BY <1>1, <1>2, <2>1, <2>2, <2>3, <2>4, EndKeepsKept DEF Reading
<1>3. CASE (ParseQuery \/ Decode \/ CopyBody \/ ReadJson) /\ at' # "over"
  <2>1. UNCHANGED <<by, files>> /\ (at \in {"copy", "sniff"} => at' = "sniff")
    BY <1>3 DEF ParseQuery, Decode, CopyBody, ReadJson, End, Answer
  <2>2. Parsed \in files => at \in {"copy", "sniff"}
    BY <1>1 DEF Kept, Reading
  <2> QED
    BY <1>3, <2>1, <2>2, GoingOnKeepsKept
<1>4. CASE CreateTemp /\ at' # "over"
  <2>1. files' = files \cup {Parsed} /\ at' = "copy" /\ UNCHANGED by
    BY <1>4 DEF CreateTemp, End, Answer
  <2>2. Parsed' = Parsed /\ OpenDocs' = OpenDocs /\ Parsed \in {File("wrapper"), File("handler")}
        /\ (by = "wrapper" => Parsed = File("wrapper"))
    BY <2>1 DEF Parsed, OpenDocs, Decoding
  <2>3. \A i : Doc(i) # Parsed
    BY <2>2, FilesDiffer
  <2>4. \A i \in DOMAIN rendered : rendered[i] # {} => Doc(i) \notin files'
    BY <2>1, <2>3 DEF Kept
  <2>5. by = "wrapper" => File("handler") \notin files'
    BY <2>1, <2>2, FilesDiffer DEF Kept
  <2>6. files' \subseteq {File("wrapper"), File("handler")} \cup OpenDocs
    BY <2>1, <2>2 DEF Kept
  <2> QED
    BY <2>1, <2>2, <2>4, <2>5, <2>6 DEF Kept
<1>5. CASE Accept
  <2>1. by = "wrapper" /\ by' = "handler" /\ at' \in {"query", "check"} /\ UNCHANGED files
    BY <1>5 DEF Accept, FirstStep
  <2>2. Parsed' = File("handler") /\ OpenDocs' = OpenDocs /\ File("handler") \notin files
    BY <2>1 DEF Parsed, OpenDocs, Kept
  <2> QED
    BY <2>1, <2>2 DEF Kept
<1>6. CASE HandOver
  <2>1. by = "handler" /\ at' = "template" /\ files' = BodyClosed /\ UNCHANGED by
    BY <1>6 DEF HandOver
  <2>2. files' \subseteq files /\ Parsed' = Parsed /\ OpenDocs' = OpenDocs
    BY <2>1 DEF BodyClosed, Parsed, OpenDocs
  <2> QED
    BY <2>1, <2>2 DEF Kept
<1>7. CASE CheckType \/ SniffWrong
  BY <1>2, <1>7 DEF CheckType, SniffWrong, End, Answer
<1> QED
  BY <1>2, <1>3, <1>4, <1>5, <1>6, <1>7 DEF BodyNext

LEMMA HandlerKeepsKept ==
  UInv /\ Decoding /\ Rendering /\ Kept
    /\ (LoadTemplate \/ Split \/ OpenSubdoc \/ StartRenderers \/ ScanEnd \/ \E i \in 1..docs : RendererEnd(i))
    => Kept'
<1> SUFFICES ASSUME UInv, Decoding, Rendering, Kept,
                    LoadTemplate \/ Split \/ OpenSubdoc \/ StartRenderers \/ ScanEnd
                      \/ \E i \in 1..docs : RendererEnd(i)
             PROVE  Kept'
  OBVIOUS
<1>1. by' = by /\ Parsed' = Parsed /\ by \in {"wrapper", "handler"}
  BY DEF LoadTemplate, Split, OpenSubdoc, StartRenderers, ScanEnd, RendererEnd, Decoding, Parsed
<1>2. CASE LoadTemplate \/ Split \/ StartRenderers \/ ScanEnd
  <2>1. at # "over" /\ UNCHANGED <<docs, rendered>>
    BY <1>2 DEF LoadTemplate, Split, StartRenderers, ScanEnd, pdfVars
  <2>2. CASE at' = "over"
    <3>1. files' = BodyClosed \ {Parsed}
      BY <1>2, <2>2 DEF LoadTemplate, Split, StartRenderers, ScanEnd, Return, Answer
    <3> QED
      BY <1>1, <2>1, <2>2, <3>1, EndKeepsKept
  <2>3. CASE at' # "over"
    <3>1. UNCHANGED files /\ at' \in {"split", "subdocs", "rendering"}
      BY <1>2, <2>3 DEF LoadTemplate, Split, StartRenderers, ScanEnd, Return, Answer
    <3> QED
      BY <1>1, <2>1, <3>1, GoingOnKeepsKept
  <2> QED
    BY <2>2, <2>3
<1>3. CASE OpenSubdoc
  <2>1. at = "subdocs" /\ UNCHANGED rendered /\ docs \in Nat /\ \A i \in DOMAIN rendered : rendered[i] = {}
    BY <1>3 DEF OpenSubdoc, Rendering
  <2>2. CASE docs' = docs + 1 /\ files' = files \cup {Doc(docs + 1)} /\ at' = at
    <3>1. OpenDocs \subseteq OpenDocs' /\ Doc(docs + 1) \in OpenDocs'
      <4>1. 1..docs \subseteq 1..(docs + 1) /\ docs + 1 \in 1..(docs + 1)
        BY <2>1, SMT
      <4> QED
        BY <2>2, <4>1 DEF OpenDocs
    <3>2. files' \subseteq {File("wrapper"), File("handler")} \cup OpenDocs'
      BY <2>2, <3>1 DEF Kept
    <3>3. by = "wrapper" => File("handler") \notin files'
      BY <2>2, FilesDiffer DEF Kept
    <3> QED
      BY <1>1, <2>1, <2>2, <3>2, <3>3 DEF Kept
  <2>3. CASE files' = BodyClosed \ ({Parsed} \cup OpenDocs) /\ docs' = 0 /\ at' = "over"
    <3>1. Parsed \notin files' /\ files' \subseteq {File("wrapper"), File("handler")}
      BY <2>3 DEF Kept, BodyClosed
    <3>2. by = "handler" => File("wrapper") \notin files'
      BY <2>3 DEF BodyClosed
    <3>3. by = "wrapper" => File("handler") \notin files'
      BY <2>3 DEF BodyClosed, Kept
    <3> QED
      BY <1>1, <2>1, <2>3, <3>1, <3>2, <3>3 DEF Kept
  <2> QED
    BY <1>3, <2>2, <2>3 DEF OpenSubdoc, GiveUp, Answer
<1>4. CASE \E i \in 1..docs : RendererEnd(i)
  <2>1. PICK i \in 1..docs : RendererEnd(i)
    BY <1>4
  <2>2. rendered' = [rendered EXCEPT ![i] = Exams(i)] /\ files' = files \ {Doc(i)} /\ UNCHANGED <<at, status, docs>>
    BY <2>1 DEF RendererEnd
  <2>3. OpenDocs' = OpenDocs
    BY <2>2 DEF OpenDocs
  <2>4. DOMAIN rendered' = DOMAIN rendered
        /\ \A k \in DOMAIN rendered : k # i => rendered'[k] = rendered[k]
    BY <2>2
  <2>5. \A k \in DOMAIN rendered' : rendered'[k] # {} => Doc(k) \notin files'
    BY <2>2, <2>4 DEF Kept
  <2> QED
    BY <1>1, <2>2, <2>3, <2>5 DEF Kept
<1> QED
  BY <1>2, <1>3, <1>4

LEMMA KeptStep == UInv /\ Decoding /\ Rendering /\ Kept /\ [Next]_vars => Kept'
<1> SUFFICES ASSUME UInv, Decoding, Rendering, Kept, [Next]_vars PROVE Kept'
  OBVIOUS
<1>1. CASE BodyNext /\ UNCHANGED pdfVars
  BY <1>1, BodyKeepsKept DEF pdfVars
<1>2. CASE (Validate \/ Adapt \/ AdaptMarks \/ Save \/ LoadMarkingTemplate \/ MarkEnd) /\ UNCHANGED pdfVars
  <2>1. /\ at \in {"validate", "adapt", "save", "marking", "marked"} /\ UNCHANGED <<by, docs, rendered>>
        /\ \/ at' = "over" /\ files' = BodyClosed
           \/ at' # "over" /\ files' = files
    BY <1>2 DEF Validate, Adapt, AdaptMarks, Save, LoadMarkingTemplate, MarkEnd, End, Answer, pdfVars
  <2>2. Parsed \notin files
    BY <2>1 DEF Kept
  <2>3. Parsed \notin BodyClosed
    BY <2>2 DEF BodyClosed
  <2> QED
    BY <2>1, <2>2, <2>3, EndKeepsKept, GoingOnKeepsKept
<1>3. CASE DeleteTemplate /\ UNCHANGED pdfVars
  BY <1>3 DEF DeleteTemplate, bodyVars, pdfVars, Kept, Parsed, OpenDocs
<1>4. CASE NextRequest /\ UNCHANGED pdfVars
  <2>1. /\ at = "over" /\ request.kind \in Posts /\ status = "ok" /\ UNCHANGED <<files, docs, rendered>>
        /\ by' \in {"wrapper", "handler"} /\ at' \in {"check", "query"}
    BY <1>4 DEF NextRequest, FirstBy, FirstAt, FirstStep, pdfVars
  <2>2. by = "handler"
    <3>1. request \in Requests
      BY DEF UInv, Places
    <3>2. ~request.async
      BY <2>1, <3>1, RequestsAreCoded
    <3> QED
      BY <3>2 DEF Decoding
  <2>3. docs = 0
    BY <2>1 DEF Rendering, Posts
  <2>4. OpenDocs = {}
    BY <2>3, SMT DEF OpenDocs
  <2>5. File("wrapper") \notin files /\ File("handler") \notin files
    BY <2>1, <2>2 DEF Kept, Parsed, Refused
  <2>6. files = {}
    BY <2>4, <2>5 DEF Kept
  <2> QED
    BY <2>1, <2>6 DEF Kept
<1>5. CASE LoadTemplate \/ Split \/ OpenSubdoc \/ StartRenderers \/ ScanEnd \/ \E i \in 1..docs : RendererEnd(i)
  BY <1>5, HandlerKeepsKept
<1>6. CASE UNCHANGED vars
  BY <1>6 DEF vars, bodyVars, pdfVars, Kept, Parsed, OpenDocs
<1> QED
  BY <1>1, <1>2, <1>3, <1>4, <1>5, <1>6 DEF Next, TemplateNext

LEMMA KeptInit == Init => Kept
BY DEF Init, BodyInit, Kept

LEMMA KeptInvariant == Spec => [](UInv /\ Decoding /\ Shown /\ Rendering /\ Kept)
BY UploadInitInvariant, UploadStepInvariant, DecodingInit, DecodingStep, RenderingInit, ShownStep, RenderingStep,
   KeptInit, KeptStep, PTL DEF Spec

\* What Kept leaves on disk.
LEMMA KeptAreRefused == Decoding /\ Rendering /\ Kept => OnlyRefusedBodyStays
<1> SUFFICES ASSUME Decoding, Rendering, Kept, at = "over", NEW f \in files
             PROVE  \/ f \in OpenDocs /\ rendered[f[2]] = {}
                    \/ f = Parsed /\ docs = 0 /\ status \in {"serverError", "tooLarge", "wrongType"}
  BY DEF OnlyRefusedBodyStays
<1>1. CASE f \in OpenDocs
  <2>1. PICK i \in 1..docs : f = Doc(i)
    BY <1>1 DEF OpenDocs
  <2>2. docs # 0
    BY SMT DEF Rendering
  <2>3. i \in DOMAIN rendered
    BY <2>2, DocsAreBounded
  <2>4. rendered[i] = {}
    BY <2>1, <2>3 DEF Kept
  <2>5. f[2] = i
    BY <2>1, FilesDiffer
  <2> QED
    BY <1>1, <2>4, <2>5
<1>2. CASE f \in {File("wrapper"), File("handler")}
  <2>1. f = Parsed
    BY <1>2 DEF Kept, Decoding, Parsed
  <2> QED
    BY <2>1 DEF Kept, Refused
<1> QED
  BY <1>1, <1>2 DEF Kept

\* When a request is answered, and its renderers are through, no temporary file is
\* left but the one of a body that was refused while it was copied.
THEOREM OnlyRefusedBodiesStay == Spec => []OnlyRefusedBodyStays
BY KeptInvariant, KeptAreRefused, PTL

-----------------------------------------------------------------------------
(* The types.                                                              *)

\* What the other invariants leave open: where the anchors are from.
Typed ==
  /\ template \in Postable
  /\ row.kind \in Posts \cup {"none"}
  /\ pages \in 0..MaxPages
  /\ native \subseteq ItemsOf(posted)
  /\ request.kind \in Posts /\ at \notin {"save", "over"} => native = {}

\* Only the handlers of templates and of scans change them.
LEMMA TypedStep == UInv /\ Typed /\ [Next]_vars => Typed'
<1> SUFFICES ASSUME UInv, Typed, [Next]_vars PROVE Typed'
  OBVIOUS
<1>1. Places /\ Stored /\ posted \in Postable
  BY DEF UInv, Stored
<1>2. CASE BodyNext /\ UNCHANGED <<templateVars, pdfVars>>
  <2>1. at \notin {"save", "over"} /\ UNCHANGED <<request, posted, template, row, native, pages>>
    BY <1>2 DEF BodyNext, ParseQuery, CheckType, Decode, CreateTemp, CopyBody, SniffWrong, Accept, HandOver, ReadJson,
                End, templateVars, pdfVars
  <2> QED
    BY <2>1 DEF Typed
<1>3. CASE (Validate \/ AdaptMarks) /\ UNCHANGED pdfVars
  <2>1. at \in {"validate", "adapt"} /\ request.kind \in Posts /\ UNCHANGED <<request, row, native, pages>>
        /\ (template' = template \/ template' = posted)
    BY <1>1, <1>3 DEF Validate, AdaptMarks, End, Places, pdfVars
  <2>2. native = {}
    BY <2>1 DEF Typed
  <2> QED
    BY <1>1, <2>1, <2>2 DEF Typed
<1>4. CASE Adapt /\ UNCHANGED pdfVars
  <2>1. at' \in {"save", "over"} /\ UNCHANGED <<posted, row, pages>> /\ (template' = template \/ template' = posted)
    BY <1>4 DEF Adapt, End, Answer, pdfVars
  <2>2. native' \subseteq ItemsOf(posted)
    BY <1>4 DEF Adapt
  <2> QED
    BY <1>1, <2>1, <2>2 DEF Typed
<1>5. CASE Save /\ UNCHANGED pdfVars
  <2>1. at' = "over" /\ UNCHANGED <<posted, template, native, pages>> /\ request.kind \in Posts
        /\ (row' = row \/ row'.kind = request.kind)
    BY <1>1, <1>5 DEF Save, End, Answer, Places, pdfVars
  <2> QED
    BY <2>1 DEF Typed
<1>6. CASE (DeleteTemplate \/ NextRequest) /\ UNCHANGED pdfVars
  <2>1. /\ UNCHANGED <<posted, pages>> /\ (row' = row \/ row' = NoRow)
        /\ \/ UNCHANGED <<request, at, template, native>>
           \/ template' = <<>> /\ native' = {}
    BY <1>6 DEF DeleteTemplate, NextRequest, bodyVars, pdfVars
  <2>2. <<>> \in Postable /\ NoRow.kind = "none"
    BY DEF Postable, NoRow
  <2> QED
    BY <2>1, <2>2 DEF Typed
<1>7. CASE (LoadMarkingTemplate \/ MarkEnd) /\ UNCHANGED pdfVars
  <2>1. request.kind \notin Posts /\ UNCHANGED <<request, posted, row, native, pages>>
    BY <1>1, <1>7 DEF LoadMarkingTemplate, MarkEnd, End, Places, templateVars, pdfVars, Posts
  <2>2. template' = template \/ template' = posted
    <3>1. "postMarking" \in Posts
      BY DEF Posts
    <3> QED
      BY <1>1, <1>7, <3>1, FoundIsPosted DEF LoadMarkingTemplate, MarkEnd, templateVars
  <2> QED
    BY <1>1, <2>1, <2>2 DEF Typed
<1>8. CASE LoadTemplate \/ Split \/ OpenSubdoc \/ StartRenderers \/ ScanEnd
  <2>1. request.kind \notin Posts /\ UNCHANGED <<request, posted, row>>
    BY <1>1, <1>8 DEF LoadTemplate, Split, OpenSubdoc, StartRenderers, ScanEnd, Places, templateVars, Posts
  <2>2. pages' = pages \/ pages' \in 0..MaxPages
    BY <1>8 DEF LoadTemplate, Split, OpenSubdoc, StartRenderers, ScanEnd, pdfVars
  <2>3. /\ template' = template \/ template' = posted
        /\ native' = native \/ native' = {} \/ native' = ItemsOf(posted)
    <3>1. "postPreprocess" \in Posts
      BY DEF Posts
    <3> QED
      BY <1>1, <1>8, <3>1, FoundIsPosted
         DEF LoadTemplate, Split, OpenSubdoc, StartRenderers, ScanEnd, Return, GiveUp, templateVars
  <2> QED
    BY <1>1, <2>1, <2>2, <2>3 DEF Typed
<1>9. CASE (\E i \in 1..docs : RendererEnd(i)) \/ UNCHANGED vars
  <2>1. UNCHANGED <<request, at, posted, template, row, native, pages>>
    BY <1>9 DEF RendererEnd, vars, bodyVars, templateVars, pdfVars
  <2> QED
    BY <2>1 DEF Typed
<1> QED
  BY <1>2, <1>3, <1>4, <1>5, <1>6, <1>7, <1>8, <1>9 DEF Next, TemplateNext

LEMMA TypedInit == Init => Typed
<1> SUFFICES ASSUME Init PROVE Typed
  OBVIOUS
<1>1. template = <<>> /\ row = NoRow /\ pages = 0 /\ native = {}
  BY DEF Init, TemplateInit
<1>2. <<>> \in Postable /\ NoRow.kind = "none" /\ 0 \in 0..MaxPages
  BY PagesAssumption, SMT DEF Postable, NoRow
<1> QED
  BY <1>1, <1>2 DEF Typed

\* A template has at most as many pages as the bound.
LEMMA BlocksAreBounded ==
  ASSUME NEW t \in Postable
  PROVE  Len(t) \in 0..MaxBlockSize
<1>1. CASE t = <<>>
  BY <1>1, TemplateAssumption, SMT
<1>2. CASE t # <<>>
  <2>1. PICK shape \in Shapes : t = Pages(shape)
    BY <1>2 DEF Postable
  <2>2. shape.pages \in 1..MaxBlockSize /\ shape.pages \in Nat
    BY TemplateAssumption, SMT DEF Shapes
  <2>3. t = [i \in 1..shape.pages |-> t[i]]
    BY <2>1 DEF Pages
  <2>4. Len(t) = shape.pages
    BY <2>2, <2>3, SMT
  <2> QED
    BY <2>2, <2>4, SMT
<1> QED
  BY <1>1, <1>2

\* No exam leaves the PDF.
LEMMA ExamsAreOnThePages ==
  ASSUME NEW n \in Nat, NEW r \in Nat \ {0}, NEW b \in Nat \ {0}, NEW top \in Nat, n * b <= top, b <= MaxBlockSize,
         NEW i \in 1..r, NEW j \in 1..Share(n, r, i)
  PROVE  ExamOf(n, r, b, i, j) \in [from : 1..top, thru : 1..top, pages : SeqOf(1..top, MaxBlockSize)]
<1>1. PICK m \in 0..(n - 1) : m = DealtBefore(n, r, i) + j - 1
  BY EveryBlockIsDealt
<1>2. m \in Nat /\ m + 1 <= n
  BY SMT
<1>3. DealtBefore(n, r, i) \in Nat /\ j \in Nat
  <2>1. i \in 1..(r + 1)
    BY SMT
  <2>2. DealtBefore(n, r, i) \in 0..n
    BY <2>1, SharesAddUp
  <2>3. Share(n, r, i) \in Nat
    BY ShareGrows
  <2> QED
    BY <2>2, <2>3, SMT
<1>4. DealtBefore(n, r, i) + j = m + 1
  BY <1>1, <1>2, <1>3, SMT
<1>5. ExamOf(n, r, b, i, j) = [from |-> 1 + m * b, thru |-> (m + 1) * b, pages |-> [k \in 1..b |-> m * b + k]]
  BY <1>1, <1>4 DEF ExamOf
<1>6. m * b \in Nat /\ (m + 1) * b = m * b + b /\ (m + 1) * b <= n * b
  BY <1>2, SMT
<1>7. m * b + b <= top
  BY <1>6, SMT
<1>8. 1 + m * b \in 1..top /\ (m + 1) * b \in 1..top
  BY <1>6, <1>7, SMT
<1>9. \A k \in 1..b : m * b + k \in 1..top
  BY <1>6, <1>7, SMT
<1>10. [k \in 1..b |-> m * b + k] \in SeqOf(1..top, MaxBlockSize)
  <2>1. b \in 0..MaxBlockSize
    BY TemplateAssumption, SMT
  <2>2. [k \in 1..b |-> m * b + k] \in [1..b -> 1..top]
    BY <1>9
  <2> QED
    BY <2>1, <2>2 DEF SeqOf
<1> QED
  BY <1>5, <1>8, <1>10

\* There is a renderer for every sub-document.
LEMMA DocsAreRenderers ==
  ASSUME Rendering
  PROVE  docs \in 0..Parallelism(1)
<1>1. docs \in Nat /\ Parallelism(1) \in Nat
  <2>1. Parallelism(1) \in Nat
    BY ParallelismIsPositive, SMT
  <2> QED
    BY <2>1 DEF Rendering
<1>2. CASE docs = 0
  BY <1>1, <1>2, SMT
<1>3. CASE docs # 0
  <2>1. Divided /\ docs <= Len(subsets)
    BY <1>1, <1>3 DEF Rendering
  <2>2. NumSubsets # 0
    BY <1>1, <1>3, <2>1, NoPagesNoSubsets
  <2>3. Len(subsets) = NumSubsets /\ NumSubsets \in Nat /\ NumSubsets <= Parallelism(1)
    BY <2>1, <2>2, ExamsAreBlocks, NumbersOfBlocks
  <2> QED
    BY <1>1, <2>1, <2>3, SMT
<1> QED
  BY <1>2, <1>3

\* What a renderer sends is about pages of the PDF.
LEMMA RenderedAreExams ==
  ASSUME Rendering, Typed, NEW i \in DOMAIN rendered
  PROVE  rendered[i] \subseteq Exam
<1> SUFFICES ASSUME NEW e \in rendered[i] PROVE e \in Exam
  OBVIOUS
<1>1. docs \in Nat /\ i \in 1..docs /\ docs # 0 /\ at # "subdocs" /\ rendered[i] = Exams(i)
  <2>1. docs \in Nat /\ i \in 1..docs /\ at # "subdocs" /\ rendered[i] = Exams(i)
    BY DEF Rendering
  <2> QED
    BY <2>1, SMT
<1>2. Divided /\ docs = NumSubsets /\ NumSubsets # 0
  BY <1>1, DocsAreBounded DEF Rendering
<1>3. PICK j \in 1..Share(NumBlocks, NumSubsets, i) : e = ExamOf(NumBlocks, NumSubsets, blockSize, i, j)
  BY <1>1, <1>2, ExamsAreBlocks
<1>4. /\ NumBlocks \in Nat /\ NumSubsets \in Nat \ {0} /\ NumBlocks * blockSize = pages /\ blockSize \in Nat \ {0}
      /\ i \in 1..NumSubsets
  BY <1>1, <1>2, NumbersOfBlocks DEF Divided
<1>5. pages <= MaxPages /\ MaxPages \in Nat /\ blockSize <= MaxBlockSize
  BY BlocksAreBounded, PagesAssumption, TemplateAssumption, SMT DEF Typed, blockSize
<1> QED
  BY <1>3, <1>4, <1>5, ExamsAreOnThePages DEF Exam

\* Together the invariants are stronger than the types.
LEMMA InvariantsAreTypes == UInv /\ Decoding /\ Rendering /\ Kept /\ Typed => TypeOK
<1> SUFFICES ASSUME UInv, Decoding, Rendering, Kept, Typed PROVE TypeOK
  OBVIOUS
<1>1. request \in Requests /\ by \in {"wrapper", "handler"} /\ posted \in Postable
  BY DEF UInv, Places, Stored, Decoding
<1>2. stream.layers \in SeqOf(Supported, MaxLayers)
  <2>1. stream.layers \in Seq(Supported) /\ Len(stream.layers) <= MaxLayers
    BY DEF Decoding, Streams, Layers
  <2>2. Len(stream.layers) \in 0..MaxLayers /\ stream.layers \in [1..Len(stream.layers) -> Supported]
    BY <2>1, LimitsAssumption
  <2> QED
    BY <2>2 DEF SeqOf
<1>3. docs \in 0..Parallelism(1)
  BY DocsAreRenderers
<1>4. files \subseteq {File("wrapper"), File("handler")} \cup {Doc(i) : i \in DOMAIN rendered}
  <2>1. 1..docs \subseteq DOMAIN rendered
    <3>1. DOMAIN rendered = 1..Parallelism(1) /\ Parallelism(1) \in Nat
      BY ParallelismIsPositive, SMT DEF Rendering
    <3> QED
      BY <1>3, <3>1, SMT
  <2> QED
    BY <2>1 DEF Kept, OpenDocs
<1>5. \A i \in DOMAIN rendered : rendered[i] \subseteq Exam
  BY RenderedAreExams
<1> QED
  BY <1>1, <1>2, <1>3, <1>4, <1>5 DEF TypeOK, Typed

\* The variables keep their types: no exam leaves the PDF, no more sub-documents
\* are open than renderers can be had, and no body gains a coding.
THEOREM UploadTypeCorrect == Spec => []TypeOK
BY UploadInitInvariant, UploadStepInvariant, DecodingInit, DecodingStep, RenderingInit, ShownStep, RenderingStep,
   KeptInit, KeptStep, TypedInit, TypedStep, InvariantsAreTypes, PTL DEF Spec

-----------------------------------------------------------------------------
(* What is coded right is decoded.                                         *)

\* The last entry of a sequence.
LEMMA LastIsMoved ==
  ASSUME NEW S, NEW p \in Seq(S), NEW q \in Seq(S), NEW e \in S
  PROVE  p \o (q \o <<e>>) = (p \o q) \o <<e>>
<1> DEFINE r == <<e>>
<1>1. r \in Seq(S)
  OBVIOUS
<1> HIDE DEF r
<1>2. (p \o q) \o r = p \o (q \o r)
  BY <1>1, ConcatAssociative
<1> QED
  BY <1>2 DEF r

LEMMA LastIsDropped ==
  ASSUME NEW S, NEW p \in Seq(S), NEW q \in Seq(S), NEW e \in S, p \o <<e>> = q \o <<e>>
  PROVE  p = q
<1> DEFINE r == <<e>>
<1>1. r \in Seq(S) /\ p \o r = q \o r
  OBVIOUS
<1> HIDE DEF r
<1> QED
  BY <1>1, ConcatSimplifications

\* A body that is coded as the header says is undone without a fault.
LEMMA WellCodedIsUndone ==
  ASSUME NEW header \in Seq(Supported), NEW s \in Streams, s.fault = "none", NEW g,
         \A z \in SUBSET (1..Len(header)) : Reads(g, header, s, z),
         NEW rest \in Seq(Supported), s.layers = rest \o header
  PROVE  g[1..Len(header)].fault = "none"
<1> DEFINE n == Len(header)
           left(m) == g[m..n]
           clean(m) == left(m) \in Streams /\ left(m).fault = "none"
                       /\ left(m).layers = rest \o SubSeq(header, 1, m - 1)
           bad == {k \in 0..n : ~clean(n + 1 - k)}
<1>1. n \in Nat
  OBVIOUS
<1>2. clean(n + 1)
  <2>1. (n + 1)..n = {} /\ (n + 1) - 1 = n
    BY <1>1, SMT
  <2>2. left(n + 1) = s
    BY <2>1 DEF Reads
  <2>3. SubSeq(header, 1, (n + 1) - 1) = header
    BY <2>1, SubSeqFull
  <2> QED
    BY <2>2, <2>3
<1>3. ASSUME NEW m \in 1..n, clean(m + 1)
      PROVE  clean(m)
  <2>1. m..n \in SUBSET (1..n) /\ m..n # {} /\ (m..n) \ {m} = (m + 1)..n /\ m..n \subseteq Nat /\ m \in m..n
        /\ (m + 1) - 1 = m
    BY <1>1, SMT
  <2>2. Min(m..n) = m
    <3>1. Min(m..n) \in m..n /\ Min(m..n) <= m
      BY <2>1, MinIsFirst
    <3> QED
      BY <1>1, <3>1, SMT
  <2>3. left(m) = Unwrap(header[m], left(m + 1))
    BY <2>1, <2>2 DEF Reads
  <2> DEFINE a == left(m)
             b == left(m + 1)
             front == SubSeq(header, 1, m - 1)
             h == header[m]
  <2>4. h \in Supported /\ front \in Seq(Supported) /\ <<h>> \in Seq(Supported)
    <3>1. h \in Supported /\ \A i \in 1..(m - 1) : header[i] \in Supported
      BY <1>1, SMT
    <3>2. 1 \in Int /\ m - 1 \in Int
      BY SMT
    <3> QED
      BY <3>1, <3>2, SubSeqProperties
  <2>5. SubSeq(header, 1, m) = front \o <<h>>
    <3>1. 1 \in 1..Len(header) /\ m \in 1..Len(header)
      BY <1>1, SMT
    <3> QED
      BY <3>1, SubSeqRecursiveSecond
  <2>6. b \in Streams /\ b.fault = "none" /\ b.layers = rest \o SubSeq(header, 1, m)
    BY <1>3, <2>1
  <2> HIDE DEF a, b, front, h
  <2>7. b.layers = (rest \o front) \o <<h>> /\ rest \o front \in Seq(Supported)
    <3>1. rest \in Seq(Supported) /\ rest \o front \in Seq(Supported)
      BY <2>4, ConcatProperties
    <3>2. rest \o (front \o <<h>>) = (rest \o front) \o <<h>>
      BY <2>4, LastIsMoved
    <3> QED
      BY <2>5, <2>6, <3>1, <3>2
  <2>8. a = Unwrap(h, b)
    BY <2>3 DEF a, b, h
  <2>9. a.fault = "none"
    <3> DEFINE q == rest \o front
    <3>1. q \in Seq(Supported) /\ b.layers = q \o <<h>>
      BY <2>7
    <3> HIDE DEF q
    <3>2. b.layers # <<>> /\ Last(b.layers) = h
      BY <2>4, <3>1, SMT DEF Last
    <3>3. Outermost(b, h)
      BY <2>6, <3>2 DEF Outermost
    <3>4. a = [b EXCEPT !.layers = Front(@)]
      BY <2>4, <2>6, <2>8, <3>3 DEF Unwrap, Peel
    <3>5. b = [layers |-> b.layers, fault |-> "none"]
      BY <2>6 DEF Streams
    <3> QED
      BY <3>4, <3>5
  <2>10. a \in Streams /\ b.layers = a.layers \o <<h>>
    BY <2>6, <2>8, <2>9, UnwrapTakesTheLast
  <2>11. a.layers \in Seq(Supported)
    BY <2>10 DEF Streams, Layers
  <2>12. a.layers = rest \o front
    <3> DEFINE q == rest \o front
    <3>1. q \in Seq(Supported) /\ a.layers \o <<h>> = q \o <<h>>
      BY <2>7, <2>10
    <3> HIDE DEF q
    <3>2. a.layers = q
      BY <2>4, <2>11, <3>1, LastIsDropped
    <3> QED
      BY <3>2 DEF q
  <2> QED
    BY <2>9, <2>10, <2>12 DEF a, front
<1> HIDE DEF left, clean
<1>4. ASSUME bad # {} PROVE FALSE
  <2>1. bad \subseteq Nat
    BY <1>1, SMT
  <2>2. PICK k \in bad : \A y \in bad : ~(y < k)
    <3> HIDE DEF bad
    <3> QED
      BY <1>4, <2>1, LeastNumber
  <2>3. k \in 0..n /\ ~clean(n + 1 - k) /\ \A y \in 0..n : y < k => clean(n + 1 - y)
    BY <2>2
  <2> HIDE DEF bad
  <2>4. k # 0
    <3>1. n + 1 - 0 = n + 1
      BY <1>1, SMT
    <3> QED
      BY <1>2, <2>3, <3>1
  <2>5. PICK m \in 1..n : m = n + 1 - k /\ m + 1 = n + 1 - (k - 1) /\ k - 1 \in 0..n /\ k - 1 < k
    <3>1. n + 1 - k \in 1..n /\ (n + 1 - k) + 1 = n + 1 - (k - 1) /\ k - 1 \in 0..n /\ k - 1 < k
      BY <1>1, <2>3, <2>4, SMT
    <3> QED
      BY <3>1
  <2> QED
    BY <1>3, <2>3, <2>5
<1>5. clean(1)
  <2>1. n + 1 - n = 1 /\ n \in 0..n
    BY <1>1, SMT
  <2>2. clean(n + 1 - n)
    BY <1>4, <2>1
  <2> QED
    BY <2>1, <2>2
<1> QED
  BY <1>5 DEF clean, left

\* So decode leaves no fault.
LEMMA WellCodedIsDecoded ==
  ASSUME NEW s \in Streams, s.fault = "none", request.announced \in Seq(Supported),
         NEW rest \in Seq(Supported), s.layers = rest \o request.announced
  PROVE  Decoded(s).fault = "none"
<1>1. PICK header \in Seq(Supported) : header = request.announced
  OBVIOUS
<1>2. header \in Seq(Codings)
  <2>1. Supported \subseteq Codings
    BY DEF Codings
  <2> QED
    BY <2>1, SeqMonotonic
<1>3. PICK g : (\A z \in SUBSET (1..Len(header)) : Reads(g, header, s, z)) /\ Decoded(s) = g[1..Len(header)]
  BY <1>1, <1>2, DecodedIsRead
<1>4. s.layers = rest \o header
  BY <1>1
<1>5. g[1..Len(header)].fault = "none"
  BY <1>3, <1>4, WellCodedIsUndone
<1> QED
  BY <1>3, <1>5

\* The beginning of a sequence has no other elements.
LEMMA PrefixIsOver ==
  ASSUME NEW S, NEW T, NEW p \in Seq(S), NEW q \in Seq(S), p \o q \in Seq(T)
  PROVE  p \in Seq(T)
<1>1. p \o q \in Seq(S) /\ Len(p \o q) = Len(p) + Len(q)
      /\ (\A i \in 1..Len(p) : (p \o q)[i] = p[i]) /\ Len(p) \in Nat /\ Len(q) \in Nat
  BY ConcatProperties, LenProperties
<1>2. \A i \in 1..Len(p) : i \in 1..Len(p \o q)
  BY <1>1, SMT
<1>3. \A i \in 1..Len(p) : p[i] \in T
  <2>1. \A i \in 1..Len(p \o q) : (p \o q)[i] \in T
    BY ElementOfSeq
  <2> QED
    BY <1>1, <1>2, <2>1
<1> QED
  BY <1>1, <1>3, SMT

\* A body that is coded as its parsers undo it, once for each of them.
CodedForItsParsers == request.layers = Times(IF request.async THEN 2 ELSE 1)

\* No parser has met a fault in it.
Decodable ==
  CodedForItsParsers =>
    /\ status \notin {"malformed", "unsupported"}
    /\ at \in {"create", "copy", "sniff", "read"} => stream.fault = "none"

\* What the next parser finds is coded as the header says.
LEMMA NextParserDecodes ==
  ASSUME UInv, Decoding, CodedForItsParsers, at = "check"
  PROVE  Decoded(stream).fault = "none"
<1>1. request \in Requests /\ stream \in Streams /\ stream.fault = "none"
      /\ request.layers = stream.layers \o Undone
      /\ by \in {"wrapper", "handler"} /\ (by = "wrapper" => request.async)
  BY DEF UInv, Places, Decoding, Reading
<1>2. PICK header \in Seq(Codings), left \in Seq(Supported) :
        header = request.announced /\ left = stream.layers
  BY <1>1, RequestsAreCoded DEF Streams, Layers
<1>3. request.layers \in Seq(Supported) /\ request.async \in BOOLEAN
  BY <1>1, RequestsAreCoded
<1>4. header \in Seq(Supported)
  <2>1. CASE request.async
    <3>1. header \o header \in Seq(Supported)
      BY <1>2, <1>3, <2>1 DEF CodedForItsParsers, Times
    <3> QED
      BY <3>1, PrefixIsOver
  <2>2. CASE ~request.async
    BY <1>2, <1>3, <2>2 DEF CodedForItsParsers, Times
  <2> QED
    BY <2>1, <2>2
<1>5. <<>> \o header = header /\ left \o <<>> = left /\ <<>> \in Seq(Supported)
  BY <1>4, ConcatEmptySeq
<1>6. \E rest \in Seq(Supported) : left = rest \o header
  <2>1. CASE by = "wrapper"
    <3>1. Undone = <<>> /\ request.layers = header \o header
      BY <1>1, <1>2, <2>1 DEF Undone, CodedForItsParsers, Times
    <3>2. left = header \o header
      BY <1>1, <1>2, <1>5, <3>1
    <3> QED
      BY <1>4, <3>2
  <2>2. CASE by = "handler" /\ request.async
    <3>1. Undone = header /\ request.layers = header \o header
      BY <1>1, <1>2, <2>2 DEF Undone, CodedForItsParsers, Times
    <3>2. left \o header = header \o header
      BY <1>1, <1>2, <3>1
    <3>3. left = header
      BY <1>4, <3>2, ConcatSimplifications
    <3> QED
      BY <1>5, <3>3
  <2>3. CASE by = "handler" /\ ~request.async
    <3>1. Undone = <<>> /\ request.layers = header
      BY <1>1, <1>2, <2>3 DEF Undone, CodedForItsParsers, Times
    <3>2. left = header
      BY <1>1, <1>2, <1>5, <3>1
    <3> QED
      BY <1>5, <3>2
  <2> QED
    BY <1>1, <2>1, <2>2, <2>3
<1>7. PICK rest \in Seq(Supported) : stream.layers = rest \o request.announced
  BY <1>2, <1>6
<1>8. request.announced \in Seq(Supported)
  BY <1>2, <1>4
<1> QED
  BY <1>1, <1>7, <1>8, WellCodedIsDecoded

LEMMA DecodableStep == UInv /\ Decoding /\ Decodable /\ [Next]_vars => Decodable'
<1> SUFFICES ASSUME UInv, Decoding, Decodable, [Next]_vars PROVE Decodable'
  OBVIOUS
<1>1. CASE NextRequest
  BY <1>1, DecodingBegins DEF NextRequest, Decodable
<1>2. CASE Decode
  <2>1. at = "check" /\ UNCHANGED request
    BY <1>2 DEF Decode, End
  <2>2. CASE CodedForItsParsers
    <3>1. Decoded(stream).fault = "none"
      BY <2>1, <2>2, NextParserDecodes
    <3>2. stream' = Decoded(stream) /\ UNCHANGED status
      BY <1>2, <3>1 DEF Decode
    <3> QED
      BY <2>2, <3>1, <3>2 DEF Decodable
  <2>3. CASE ~CodedForItsParsers
    BY <2>1, <2>3 DEF Decodable, CodedForItsParsers, Times
  <2> QED
    BY <2>2, <2>3
<1>3. CASE ParseQuery \/ CheckType \/ CreateTemp \/ CopyBody \/ SniffWrong \/ Accept \/ HandOver \/ ReadJson
  <2>1. /\ UNCHANGED <<request, stream>> /\ (status' = status \/ status' \notin {"malformed", "unsupported"})
        /\ at' \in {"create", "copy", "sniff", "read"} => at \in {"create", "copy", "sniff", "read"}
    BY <1>3 DEF ParseQuery, CheckType, CreateTemp, CopyBody, SniffWrong, Accept, HandOver, ReadJson, End, Answer, FirstStep
  <2> QED
    BY <2>1 DEF Decodable, CodedForItsParsers, Times
<1>4. CASE Validate \/ Adapt \/ AdaptMarks \/ Save \/ LoadMarkingTemplate \/ MarkEnd
  <2>1. /\ UNCHANGED <<request, stream>> /\ (status' = status \/ status' \notin {"malformed", "unsupported"})
        /\ at' \notin {"create", "copy", "sniff", "read"}
    BY <1>4 DEF Validate, Adapt, AdaptMarks, Save, LoadMarkingTemplate, MarkEnd, End, Answer
  <2> QED
    BY <2>1 DEF Decodable, CodedForItsParsers, Times
<1>5. CASE LoadTemplate \/ Split \/ OpenSubdoc \/ StartRenderers \/ ScanEnd
  <2>1. /\ UNCHANGED <<request, stream>> /\ (status' = status \/ status' \notin {"malformed", "unsupported"})
        /\ at' \notin {"create", "copy", "sniff", "read"}
    BY <1>5 DEF LoadTemplate, Split, OpenSubdoc, StartRenderers, ScanEnd, Return, GiveUp, Answer
  <2> QED
    BY <2>1 DEF Decodable, CodedForItsParsers, Times
<1>6. CASE (\E i \in 1..docs : RendererEnd(i)) \/ DeleteTemplate \/ UNCHANGED vars
  <2>1. UNCHANGED <<request, stream, at, status>>
    BY <1>6 DEF RendererEnd, DeleteTemplate, vars, bodyVars
  <2> QED
    BY <2>1 DEF Decodable, CodedForItsParsers, Times
<1> QED
  BY <1>1, <1>2, <1>3, <1>4, <1>5, <1>6 DEF Next, TemplateNext, BodyNext

LEMMA DecodableInit == Init => Decodable
<1> SUFFICES ASSUME Init PROVE Decodable
  OBVIOUS
<1>1. request \in Requests /\ at = FirstAt(request) /\ status = "none"
  BY DEF Init, BodyInit
<1> QED
  BY <1>1, DecodingBegins DEF Decodable

\* A body that is coded as its parsers undo it, and whose gzip headers arrive, is
\* never refused for its codings: what OnlyPlainIsProcessed asks of it is enough.
\* So the header is refused wrongly, as CodedAsAnnounced has it, only where two
\* parsers undo what the client has put around the body once (decode, AsyncJob).
THEOREM WellCodedIsNotRefused ==
  Spec => [](CodedForItsParsers => status \notin {"malformed", "unsupported"})
<1>1. Decodable => (CodedForItsParsers => status \notin {"malformed", "unsupported"})
  BY DEF Decodable
<1> QED
  BY <1>1, UploadInitInvariant, UploadStepInvariant, DecodingInit, DecodingStep, DecodableInit, DecodableStep, PTL DEF Spec
=============================================================================
