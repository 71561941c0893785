--------------------------- MODULE InferenceMessages ---------------------------
(***************************************************************************)
(* The messages of the detection service as protoc generated them:         *)
(* FrameRequest, BoundingBox and DetectionResponse of                      *)
(* src/inference/generated/proto/inference.pb.{h,cc}.  A program holds     *)
(* Objects of one type and calls their accessors, Clear, MergeFrom,        *)
(* CopyFrom, the copy constructor and Swap in any order; it sends one into *)
(* another, or parses what another implementation wrote.  Parsing goes     *)
(* field by field.                                                         *)
(***************************************************************************)
EXTENDS ProtoFields

CONSTANTS
  Objects,            \* the messages of the program
  Numbers, Texts,     \* the values accessors are called with
  Programs,           \* what one behaviour works with: the type of its
                      \* Objects, the fields it touches, and encodings of
                      \* other implementations that it parses: sequences
                      \* of entries with doubled fields, zeros, unknown
                      \* fields
  MaxFaces,           \* bound on the faces of a response
  MaxUnknown          \* bound on the unknown fields of a message

ASSUME ValuesAssumption == Numbers \subseteq Int /\ Texts \subseteq Seq(Byte)

VARIABLES
  program,    \* the member of Programs that runs
  request,    \* [Objects -> FrameRequest]
  response,   \* [Objects -> DetectionResponse]
  input,      \* the entries the parser has not read yet
  part,       \* those of the BoundingBox it is in
  reader,     \* the object it parses into
  refused,    \* the last parse failed
  sent        \* the message that was sent, until the next call; or none

parser == <<input, part, reader, refused, sent>>
vars == <<program, request, response, input, part, reader, refused, sent>>

type == program.type
touched == program.fields

(***************************************************************************)
(* The classes: Impl_, the parse table and the order of serialization.     *)
(***************************************************************************)
RequestLayout == <<"frame_id", "codec", "encoded_frame",
                   "width", "height", "timestamp", "channels">>
RequestTexts == Between(RequestLayout, "frame_id", "encoded_frame")
RequestBlock == Between(RequestLayout, "width", "channels")
RequestTags == <<8, 16, 24, 32, 42, 50, 58>>
RequestTable ==
  [tag \in ToSet(RequestTags) |->
     CASE tag = 8 -> "width"  [] tag = 16 -> "height" [] tag = 24 -> "channels"
       [] tag = 32 -> "timestamp" [] tag = 42 -> "frame_id"
       [] tag = 50 -> "codec" [] tag = 58 -> "encoded_frame"]
RequestChecked == {"frame_id", "codec"}

BoxLayout == <<"x", "y", "width", "height", "confidence">>
BoxBlock == Between(BoxLayout, "x", "confidence")
BoxTags == <<8, 16, 24, 32, 45>>
BoxTable ==
  [tag \in ToSet(BoxTags) |->
     CASE tag = 8 -> "x" [] tag = 16 -> "y" [] tag = 24 -> "width"
       [] tag = 32 -> "height" [] tag = 45 -> "confidence"]

ResponseLayout == <<"frame_id", "timestamp", "processing_time_ms">>
ResponseBlock == Between(ResponseLayout, "timestamp", "processing_time_ms")
ResponseTags == <<16, 26, 32>>
ResponseTable ==
  [tag \in ToSet(ResponseTags) |->
     CASE tag = 16 -> "timestamp" [] tag = 26 -> "frame_id"
       [] tag = 32 -> "processing_time_ms"]
FacesTag == 10

\* what the parser is given: for a response also faces, each with its length
FaceEntry == [tag : {FacesTag}, box : Seq(Entry), length : Nat]

Entries(t) ==
  IF t = "FrameRequest" THEN Entry
  ELSE {e \in Entry : e.tag # FacesTag} \cup FaceEntry

ASSUME ProgramsAssumption ==
  \A p \in Programs :
    /\ p.type \in {"FrameRequest", "DetectionResponse"}
    /\ p.foreign \subseteq Seq(Entries(p.type))

(***************************************************************************)
(* FrameRequest.                                                           *)
(***************************************************************************)
NewRequest == Blank(RequestBlock, RequestTexts)

RequestCopied(from) == TakenFrom(NewRequest, from, RequestBlock)

\* Mutant of RequestCleared: the memset ends one field early.
RequestClearedShort(m) ==
  Cleared(m, Between(RequestLayout, "width", "timestamp"))

RequestCleared(m) == Cleared(m, RequestBlock)

\* Mutants of RequestMerged: an empty string gives the message no string of its
\* own; a zero is copied like any other number.
RequestMergedShared(to, from) ==
  [Merged(to, from) EXCEPT !.owned =
     to.owned \cup {f \in DOMAIN from.text : from.text[f] # <<>>}]
RequestMergedZeros(to, from) ==
  [Merged(to, from) EXCEPT !.num =
     [f \in DOMAIN to.num |-> IF f \in from.has THEN from.num[f] ELSE to.num[f]]]

RequestMerged(to, from) == Merged(to, from)

RequestAssigned(to, from) == RequestMerged(RequestCleared(to), from)

RequestTaken(m, other) == TakenFrom(m, other, RequestBlock)

RequestEntries(m) == Written(m, RequestTags, RequestTable)

RequestSize(m) == FieldsSize(m, RequestTags, RequestTable, {})

RequestRead(m, e) == FieldRead(m, e, RequestTable)

(***************************************************************************)
(* BoundingBox; cached is what GetCachedSize returns.                      *)
(***************************************************************************)
NewBox ==
  [has |-> {}, num |-> [f \in BoxBlock |-> 0], text |-> [f \in {} |-> <<>>],
   owned |-> {}, unknown |-> <<>>, cached |-> 0]

BoxCleared(m) == Cleared(m, BoxBlock)

BoxMerged(to, from) == Merged(to, from)

BoxAssigned(to, from) == BoxMerged(BoxCleared(to), from)

BoxTaken(m, other) == TakenFrom(m, other, BoxBlock)

BoxEntries(m) == Written(m, BoxTags, BoxTable)

BoxSize(m) == FieldsSize(m, BoxTags, BoxTable, {"confidence"})

\* ByteSizeLong leaves the size where the enclosing message finds it
BoxSized(m) == [m EXCEPT !.cached = BoxSize(m)]

BoxRead(m, e) == FieldRead(m, e, BoxTable)

(***************************************************************************)
(* DetectionResponse.  faces holds the elements that are allocated, of     *)
(* which the first size are the field's value: clearing the field clears   *)
(* them and keeps them for the next Add.                                   *)
(***************************************************************************)
NewResponse ==
  [has |-> {}, num |-> [f \in ResponseBlock |-> 0],
   text |-> [f \in {"frame_id"} |-> <<>>],
   owned |-> {}, unknown |-> <<>>, faces |-> <<>>, size |-> 0]

\* Mutant of FaceAdded: the last element is used twice.
FaceAddedLate(m) ==
  [m EXCEPT !.size = @ + 1,
            !.faces = IF m.size <= Len(@) THEN @ ELSE Append(@, NewBox)]

FaceAdded(m) ==
  [m EXCEPT !.size = @ + 1,
            !.faces = IF m.size < Len(@) THEN @ ELSE Append(@, NewBox)]

\* Mutant of FacesCleared: the elements are kept as they are.
FacesForgotten(m) == [m EXCEPT !.size = 0]

FacesCleared(m) ==
  [m EXCEPT !.size = 0,
            !.faces = [i \in DOMAIN @ |->
                         IF i <= m.size THEN BoxCleared(@[i]) ELSE @[i]]]

FacesMerged(to, from) ==
  LET Element(i) == IF i <= Len(to.faces) THEN to.faces[i] ELSE NewBox
      total == to.size + from.size
  IN  [to EXCEPT !.size = total,
         !.faces = [i \in 1 .. IF total < Len(@) THEN Len(@) ELSE total |->
                      IF i \in (to.size + 1) .. total
                      THEN BoxMerged(Element(i), from.faces[i - to.size])
                      ELSE Element(i)]]

ResponseCleared(m) == Cleared(FacesCleared(m), ResponseBlock)

ResponseMerged(to, from) == Merged(FacesMerged(to, from), from)

ResponseAssigned(to, from) == ResponseMerged(ResponseCleared(to), from)

ResponseCopied(from) ==
  TakenFrom(FacesMerged(NewResponse, from), from, ResponseBlock)

ResponseTaken(m, other) ==
  TakenFrom([m EXCEPT !.faces = other.faces, !.size = other.size], other,
            ResponseBlock)

\* a face goes out with the length that is in its cache
ResponseEntries(m) ==
  [i \in 1 .. m.size |-> [tag |-> FacesTag, box |-> BoxEntries(m.faces[i]),
                          length |-> m.faces[i].cached]]
    \o Written(m, ResponseTags, ResponseTable)

ResponseSize(m) ==
  Total([i \in 1 .. m.size |->
           1 + VarintSize(BoxSize(m.faces[i])) + BoxSize(m.faces[i])])
    + FieldsSize(m, ResponseTags, ResponseTable, {})

\* Mutant of ResponseSized: the lengths of an earlier serialization stay.
ResponseSizedBefore(m) == m

ResponseSized(m) ==
  [m EXCEPT !.faces = [i \in DOMAIN @ |->
                         IF i <= m.size THEN BoxSized(@[i]) ELSE @[i]]]

ResponseRead(m, e) == FieldRead(m, e, ResponseTable)

(***************************************************************************)
(* Calls.  Only the parser moves while it has input.                       *)
(***************************************************************************)
Idle == input = <<>> /\ part = <<>>

Called ==
  /\ Idle
  /\ sent' = <<>>
  /\ refused' = FALSE
  /\ UNCHANGED <<program, input, part, reader>>

RequestCall(o, m) ==
  /\ type = "FrameRequest"
  /\ Called
  /\ request' = [request EXCEPT ![o] = m]
  /\ UNCHANGED response

ResponseCall(o, m) ==
  /\ type = "DetectionResponse"
  /\ Called
  /\ response' = [response EXCEPT ![o] = m]
  /\ UNCHANGED request

NumberCalls(m, f) == {NumberSet(m, f, n) : n \in Numbers} \cup {NumberCleared(m, f)}

TextCalls(m, f) ==
  {TextSet(m, f, t) : t \in Texts}
    \cup {TextEmptied(m, f), TextDropped(m, f), TextReleased(m, f)}

UseRequestNumber(o) ==
  \E f \in RequestBlock \cap touched :
    \E m \in NumberCalls(request[o], f) : RequestCall(o, m)

UseFrameId(o) ==
  /\ "frame_id" \in touched
  /\ \E m \in TextCalls(request[o], "frame_id") : RequestCall(o, m)

UseCodec(o) ==
  /\ "codec" \in touched
  /\ \E m \in TextCalls(request[o], "codec") : RequestCall(o, m)

UseEncodedFrame(o) ==
  /\ "encoded_frame" \in touched
  /\ \E m \in TextCalls(request[o], "encoded_frame") : RequestCall(o, m)

\* Clear, and a message destroyed and made anew
RenewRequest(o) ==
  \E m \in {RequestCleared(request[o]), NewRequest} : RequestCall(o, m)

\* MergeFrom; CopyFrom and operator=, which leave a message that is assigned
\* to itself alone; the copy constructor
CombineRequests(o, p) ==
  /\ o # p
  /\ Len(request[o].unknown) + Len(request[p].unknown) <= MaxUnknown
  /\ \E m \in {RequestMerged(request[o], request[p]),
               RequestAssigned(request[o], request[p]),
               RequestCopied(request[p])} : RequestCall(o, m)

\* Swap, and operator= and the constructor that move
SwapRequests(o, p) ==
  /\ o # p
  /\ type = "FrameRequest"
  /\ Called
  /\ request' = [request EXCEPT ![o] = RequestTaken(request[o], request[p]),
                                ![p] = RequestTaken(request[p], request[o])]
  /\ UNCHANGED response

UseFace(o) ==
  \E i \in 1 .. response[o].size :
    \E f \in BoxBlock \cap touched :
      \E m \in NumberCalls(response[o].faces[i], f) :
        ResponseCall(o, [response[o] EXCEPT !.faces[i] = m])

\* mutable_faces(i)->Clear(), CopyFrom, MergeFrom and Swap between two faces
CombineFaces(o) ==
  LET r == response[o] IN
  \E i, j \in 1 .. r.size :
    \/ ResponseCall(o, [r EXCEPT !.faces[i] = BoxCleared(r.faces[i])])
    \/ /\ i # j
       /\ Len(r.faces[i].unknown) + Len(r.faces[j].unknown) <= MaxUnknown
       /\ \E m \in {BoxMerged(r.faces[i], r.faces[j]),
                    BoxAssigned(r.faces[i], r.faces[j])} :
            ResponseCall(o, [r EXCEPT !.faces[i] = m])
    \/ /\ i # j
       /\ ResponseCall(o,
            [r EXCEPT !.faces[i] = BoxTaken(r.faces[i], r.faces[j]),
                      !.faces[j] = BoxTaken(r.faces[j], r.faces[i])])

\* add_faces and clear_faces
UseFaces(o) ==
  /\ "faces" \in touched
  /\ \/ /\ response[o].size < MaxFaces
        /\ ResponseCall(o, FaceAdded(response[o]))
     \/ ResponseCall(o, FacesCleared(response[o]))

\* the accessors of timestamp, frame_id and processing_time_ms
UseResponseField(o) ==
  \/ \E f \in ResponseBlock \cap touched :
       \E m \in NumberCalls(response[o], f) : ResponseCall(o, m)
  \/ /\ "frame_id" \in touched
     /\ \E m \in TextCalls(response[o], "frame_id") : ResponseCall(o, m)

RenewResponse(o) ==
  \E m \in {ResponseCleared(response[o]), NewResponse} : ResponseCall(o, m)

CombineResponses(o, p) ==
  /\ o # p
  /\ Len(response[o].unknown) + Len(response[p].unknown) <= MaxUnknown
  /\ \/ /\ response[o].size + response[p].size <= MaxFaces
        /\ ResponseCall(o, ResponseMerged(response[o], response[p]))
     \/ \E m \in {ResponseAssigned(response[o], response[p]),
                  ResponseCopied(response[p])} : ResponseCall(o, m)

SwapResponses(o, p) ==
  /\ o # p
  /\ type = "DetectionResponse"
  /\ Called
  /\ response' = [response EXCEPT ![o] = ResponseTaken(response[o], response[p]),
                                  ![p] = ResponseTaken(response[p], response[o])]
  /\ UNCHANGED request

(***************************************************************************)
(* Sending and parsing.                                                    *)
(***************************************************************************)
RequestValues(m) == Values(m)

ResponseValues(m) ==
  [num |-> m.num, text |-> m.text, unknown |-> m.unknown,
   faces |-> [i \in 1 .. m.size |-> Values(m.faces[i])]]

\* ParseFrom... clears the message it parses into.
ParseRequest(p, entries) ==
  /\ type = "FrameRequest"
  /\ Idle
  /\ request' = [request EXCEPT ![p] = RequestCleared(@)]
  /\ input' = entries /\ reader' = p /\ refused' = FALSE
  /\ UNCHANGED <<program, response, part>>

\* SerializeTo... calls ByteSizeLong and then _InternalSerialize.
SendRequest(o, p) ==
  /\ ParseRequest(p, RequestEntries(request[o]))
  /\ sent' = <<RequestValues(request[o])>>

ReceiveRequest(p) ==
  \E entries \in program.foreign : ParseRequest(p, entries) /\ sent' = <<>>

ParseResponse(p, from, entries) ==
  /\ type = "DetectionResponse"
  /\ Idle
  /\ response' = [from EXCEPT ![p] = ResponseCleared(@)]
  /\ input' = entries /\ reader' = p /\ refused' = FALSE
  /\ UNCHANGED <<program, request, part>>

SendResponse(o, p) ==
  LET m == ResponseSized(response[o]) IN
  /\ ParseResponse(p, [response EXCEPT ![o] = m], ResponseEntries(m))
  /\ sent' = <<ResponseValues(m)>>

ReceiveResponse(p) ==
  \E entries \in program.foreign :
    ParseResponse(p, response, entries) /\ sent' = <<>>

\* string fields have to be UTF-8, bytes fields not
Unreadable(e, table, checked) ==
  /\ e.tag \in DOMAIN table
  /\ table[e.tag] \in checked
  /\ e.text \in Malformed

\* a text that is refused has been stored
ReadRequestField ==
  /\ type = "FrameRequest"
  /\ input # <<>>
  /\ request' = [request EXCEPT ![reader] = RequestRead(@, Head(input))]
  /\ refused' = Unreadable(Head(input), RequestTable, RequestChecked)
  /\ input' = IF refused' THEN <<>> ELSE Tail(input)
  /\ UNCHANGED <<program, response, part, reader, sent>>

ReadResponseField ==
  /\ type = "DetectionResponse"
  /\ input # <<>> /\ part = <<>>
  /\ Head(input).tag # FacesTag
  /\ response' = [response EXCEPT ![reader] = ResponseRead(@, Head(input))]
  /\ refused' = Unreadable(Head(input), ResponseTable, {"frame_id"})
  /\ input' = IF refused' THEN <<>> ELSE Tail(input)
  /\ UNCHANGED <<program, request, part, reader, sent>>

\* A length that does not end where a field of the face ends is refused.
EnterFace ==
  /\ type = "DetectionResponse"
  /\ input # <<>> /\ part = <<>>
  /\ Head(input).tag = FacesTag
  /\ response' = [response EXCEPT ![reader] = FaceAdded(@)]
  /\ refused' = (Head(input).length # TotalBytes(Head(input).box))
  /\ input' = IF refused' THEN <<>> ELSE Tail(input)
  /\ part' = IF refused' THEN <<>> ELSE Head(input).box
  /\ UNCHANGED <<program, request, reader, sent>>

ReadFaceField ==
  /\ part # <<>>
  /\ LET r == response[reader] IN
     response' = [response EXCEPT ![reader] =
                    [r EXCEPT !.faces[r.size] =
                       BoxRead(r.faces[r.size], Head(part))]]
  /\ part' = Tail(part)
  /\ UNCHANGED <<program, request, input, reader, refused, sent>>

Init ==
  /\ program \in Programs
  /\ request = [o \in Objects |-> NewRequest]
  /\ response = [o \in Objects |-> NewResponse]
  /\ input = <<>> /\ part = <<>> /\ sent = <<>>
  /\ reader \in Objects
  /\ refused = FALSE

RequestStep(o) ==
  \/ UseRequestNumber(o) \/ UseFrameId(o) \/ UseCodec(o) \/ UseEncodedFrame(o)
  \/ RenewRequest(o)
  \/ ReceiveRequest(o)
  \/ \E p \in Objects :
       CombineRequests(o, p) \/ SwapRequests(o, p) \/ SendRequest(o, p)

ResponseStep(o) ==
  \/ UseFace(o) \/ CombineFaces(o) \/ UseFaces(o) \/ UseResponseField(o)
  \/ RenewResponse(o)
  \/ ReceiveResponse(o)
  \/ \E p \in Objects :
       CombineResponses(o, p) \/ SwapResponses(o, p) \/ SendResponse(o, p)

Next ==
  \/ \E o \in Objects : RequestStep(o) \/ ResponseStep(o)
  \/ ReadRequestField \/ ReadResponseField \/ EnterFace \/ ReadFaceField

Spec == Init /\ [][Next]_vars

(***************************************************************************)
(* Properties.                                                             *)
(***************************************************************************)

\* the values of messages
Readable(numbers, texts) ==
  [num : [numbers -> Int], text : [texts -> Seq(Byte)], unknown : Seq(Entry)]

Sendable(t) ==
  IF t = "FrameRequest" THEN Readable(RequestBlock, RequestTexts)
  ELSE [num : [ResponseBlock -> Int], text : [{"frame_id"} -> Seq(Byte)],
        unknown : Seq(Entry), faces : Seq(Readable(BoxBlock, {}))]

\* Messages have their fields, with values of their type, and keep as unknown
\* what no field has the tag of; there are as many faces as the response says.
TypeOK ==
  /\ \A o \in Objects :
       /\ Typed(request[o], RequestBlock, RequestTexts, DOMAIN RequestTable)
       /\ Typed(response[o], ResponseBlock, {"frame_id"},
                DOMAIN ResponseTable \cup {FacesTag})
       /\ response[o].size \in 0 .. Len(response[o].faces)
       /\ \A i \in DOMAIN response[o].faces :
            /\ Typed(response[o].faces[i], BoxBlock, {}, DOMAIN BoxTable)
            /\ response[o].faces[i].cached \in Nat
  /\ reader \in Objects /\ refused \in BOOLEAN
  /\ input \in Seq(Entries(type)) /\ part \in Seq(Entry)
  /\ sent # <<>> => sent[1] \in Sendable(type)

(***************************************************************************)
(* Whatever was called before, and in the middle of parsing, the has-bits  *)
(* of a request tell the truth: a field without its bit has its default    *)
(* value and a string with its bit is the message's own.  Clear skips the  *)
(* fields without a bit and empties the others with                        *)
(* ClearNonDefaultToEmpty, which must not see the shared default string.   *)
(***************************************************************************)
RequestConsistent == \A o \in Objects : Consistent(request[o])

(***************************************************************************)
(* The same for a response and for every face it has allocated; those that *)
(* Clear has kept for the next add_faces are empty.                        *)
(***************************************************************************)
ResponseConsistent ==
  \A o \in Objects :
    /\ Consistent(response[o])
    /\ \A i \in DOMAIN response[o].faces :
         /\ Consistent(response[o].faces[i])
         /\ i > response[o].size => response[o].faces[i].has = {}
                                      /\ response[o].faces[i].unknown = <<>>

(***************************************************************************)
(* A message that is sent arrives with its values, its faces in their      *)
(* order and its unknown fields, in an object whatever that held before;   *)
(* only a string that is not UTF-8 is refused.                             *)
(***************************************************************************)
RoundTrip ==
  sent # <<>> /\ Idle =>
    /\ refused = (\E f \in DOMAIN sent[1].text \ {"encoded_frame"} :
                    sent[1].text[f] \in Malformed)
    /\ ~ refused =>
         sent[1] = IF type = "FrameRequest" THEN RequestValues(request[reader])
                   ELSE ResponseValues(response[reader])

(***************************************************************************)
(* ByteSizeLong, by which the output buffer is allocated, is the number of *)
(* bytes _InternalSerialize writes, and the length before a face is that   *)
(* of the face.                                                            *)
(***************************************************************************)
BytesWritten(e) ==
  IF e.tag = FacesTag THEN 1 + VarintSize(e.length) + TotalBytes(e.box)
  ELSE Bytes(e)

BufferExact ==
  \A o \in Objects :
    LET m == ResponseSized(response[o])
        entries == ResponseEntries(m)
    IN /\ RequestSize(request[o]) = TotalBytes(RequestEntries(request[o]))
       /\ ResponseSize(m)
            = Total([i \in DOMAIN entries |-> BytesWritten(entries[i])])
       /\ \A i \in 1 .. m.size :
            m.faces[i].cached = TotalBytes(BoxEntries(m.faces[i]))

(***************************************************************************)
(* Merging a request gives the values that parsing its encoding into the   *)
(* other one would give, also with zeros and empty strings whose bits are  *)
(* set and with unknown fields.                                            *)
(***************************************************************************)
MergeIsParse ==
  \A o, p \in Objects :
    o # p => Values(RequestMerged(request[p], request[o]))
               = Values(FoldLeft(RequestRead, request[p],
                                 RequestEntries(request[o])))

(***************************************************************************)
(* The inductive invariant of RoundTrip.                                   *)
(***************************************************************************)

\* When it has read entries s, m has the values v: first come entries that carry
\* fields of v, then its unknown ones.
Completes(m, s, v, table) ==
  \E k \in 0 .. Len(s) :
    /\ \A i \in 1 .. k :
         /\ s[i].tag \in DOMAIN table
         /\ LET f == table[s[i].tag] IN
            IF f \in DOMAIN v.num THEN s[i].num = v.num[f]
            ELSE f \in DOMAIN v.text /\ s[i].text = v.text[f]
    /\ \A f \in DOMAIN v.num :
         m.num[f] = v.num[f] \/ \E i \in 1 .. k : table[s[i].tag] = f
    /\ \A f \in DOMAIN v.text :
         m.text[f] = v.text[f] \/ \E i \in 1 .. k : table[s[i].tag] = f
    /\ \A i \in (k + 1) .. Len(s) : s[i].tag \notin DOMAIN table
    /\ v.unknown = m.unknown \o SubSeq(s, k + 1, Len(s))

\* The request that is read becomes the one sent, unless it is refused.
RequestArrives ==
  LET m == request[reader]
      v == sent[1]
  IN  IF refused
      THEN Idle /\ \E f \in RequestChecked : v.text[f] \in Malformed
      ELSE /\ Completes(m, input, v, RequestTable)
           /\ \A f \in RequestChecked : m.text[f] \notin Malformed

\* The same for a response: the faces of v come first in s, each with its length,
\* and after them its fields.  The faces that m has are read, the last of them as
\* far as rest.
ResponseCompletes(m, s, rest, v) ==
  LET left == Len(v.faces) - m.size
  IN  /\ left \in 0 .. Len(s)
      /\ \A i \in 1 .. left :
           /\ s[i].tag = FacesTag
           /\ s[i].length = TotalBytes(s[i].box)
           /\ Completes(NewBox, s[i].box, v.faces[m.size + i], BoxTable)
      /\ \A i \in (left + 1) .. Len(s) : s[i].tag # FacesTag
      /\ Completes(m, SubSeq(s, left + 1, Len(s)), v, ResponseTable)
      /\ \A i \in 1 .. (m.size - 1) : Values(m.faces[i]) = v.faces[i]
      /\ IF m.size = 0 THEN rest = <<>>
         ELSE Completes(m.faces[m.size], rest, v.faces[m.size], BoxTable)

ResponseArrives ==
  LET m == response[reader]
      v == sent[1]
  IN  IF refused
      THEN Idle /\ v.text["frame_id"] \in Malformed
      ELSE ResponseCompletes(m, input, part, v) /\ m.text["frame_id"] \notin Malformed

SentArrives ==
  sent # <<>> =>
    IF type = "FrameRequest" THEN RequestArrives ELSE ResponseArrives
==============================================================================
