----------------------------- MODULE ProtoFields -----------------------------
(***************************************************************************)
(* What protoc's generated C++ classes do to the singular fields of one    *)
(* message, for every message of inference.proto                           *)
(* (src/inference/generated/proto/inference.pb.{h,cc}).  A message is a    *)
(* record:                                                                 *)
(*                                                                         *)
(*   has      the fields whose bit is set in _has_bits_                    *)
(*   num      its numeric fields; a float is its bit pattern               *)
(*   text     its string and bytes fields, as sequences of bytes           *)
(*   owned    the text fields that own a string; the others point to the   *)
(*            default string that all messages share                       *)
(*   unknown  the fields the parser did not know                           *)
(*                                                                         *)
(* The classes differ in their fields, in the memory blocks that one       *)
(* memset, memcpy or memswap covers, and in the tags; those are in         *)
(* InferenceMessages.                                                      *)
(***************************************************************************)
EXTENDS Integers, Sequences, FiniteSets, SequencesExt

CONSTANT Malformed      \* the texts that are not UTF-8

ASSUME MalformedAssumption == <<>> \notin Malformed

Byte == 0 .. 255

Blank(numbers, texts) ==
  [has |-> {}, num |-> [f \in numbers |-> 0], text |-> [f \in texts |-> <<>>],
   owned |-> {}, unknown |-> <<>>]

\* the fields from first to last, in the order of struct Impl_
Between(layout, first, last) ==
  {layout[i] : i \in {i \in DOMAIN layout :
     \E j, k \in DOMAIN layout :
       layout[j] = first /\ layout[k] = last /\ j <= i /\ i <= k}}

(***************************************************************************)
(* The accessors of one field.                                             *)
(***************************************************************************)
NumberSet(m, f, n) == [m EXCEPT !.num[f] = n, !.has = @ \cup {f}]

NumberCleared(m, f) == [m EXCEPT !.num[f] = 0, !.has = @ \ {f}]

\* set_, mutable_ and set_allocated_ with a string
TextSet(m, f, t) ==
  [m EXCEPT !.text[f] = t, !.has = @ \cup {f}, !.owned = @ \cup {f}]

\* clear_ empties the string and keeps it
TextEmptied(m, f) == [m EXCEPT !.text[f] = <<>>, !.has = @ \ {f}]

\* set_allocated_(nullptr) goes back to the shared default
TextDropped(m, f) ==
  [m EXCEPT !.text[f] = <<>>, !.has = @ \ {f}, !.owned = @ \ {f}]

\* release_ looks at the bit, not at the string
TextReleased(m, f) == IF f \in m.has THEN TextDropped(m, f) ELSE m

(***************************************************************************)
(* Clear, MergeImpl, InternalSwap and the copy constructor.                *)
(***************************************************************************)
Cleared(m, block) ==
  [m EXCEPT !.has = {}, !.unknown = <<>>,
            !.text = [f \in DOMAIN m.text |->
                        IF f \in m.has THEN <<>> ELSE m.text[f]],
            !.num = [f \in DOMAIN m.num |->
                       IF m.has \cap block # {} /\ f \in block THEN 0
                       ELSE m.num[f]]]

\* Zeros and empty strings are not copied, their bits are; the set of an
\* empty string gives a message that had only the default one its own.
Merged(to, from) ==
  [to EXCEPT !.has = @ \cup from.has,
             !.num = [f \in DOMAIN to.num |->
                        IF f \in from.has /\ from.num[f] # 0
                        THEN from.num[f] ELSE to.num[f]],
             !.text = [f \in DOMAIN to.text |->
                         IF f \in from.has /\ from.text[f] # <<>>
                         THEN from.text[f] ELSE to.text[f]],
             !.owned = @ \cup (from.has \cap DOMAIN to.text),
             !.unknown = @ \o from.unknown]

\* m with the metadata, has-bits, strings and the memory block of other
TakenFrom(m, other, block) ==
  [m EXCEPT !.has = other.has, !.unknown = other.unknown,
            !.text = other.text, !.owned = other.owned,
            !.num = [f \in DOMAIN m.num |->
                       IF f \in block THEN other.num[f] ELSE m.num[f]]]

(***************************************************************************)
(* The wire.  An entry has a tag, 8 * field number + wire type, and a      *)
(* number or a text; table gives the field of each tag.                    *)
(***************************************************************************)
Entry == [tag : {t \in Nat : t % 8 \in {0, 5}}, num : Int]
           \cup [tag : {t \in Nat : t % 8 = 2}, text : Seq(Byte)]

\* seven bits to a byte; a negative number has 64 bits
Shifts(n) == Cardinality({k \in {128, 16384, 2097152, 268435456} : k <= n})

VarintSize(n) ==
  IF n < 0 THEN 10 ELSE 1 + Shifts(n) + Shifts(n \div 268435456)

Bytes(e) ==
  CASE e.tag % 8 = 0 -> VarintSize(e.tag) + VarintSize(e.num)
    [] e.tag % 8 = 5 -> VarintSize(e.tag) + 4
    [] OTHER -> VarintSize(e.tag) + VarintSize(Len(e.text)) + Len(e.text)

Plus(a, b) == a + b
Total(s) == FoldLeft(Plus, 0, s)

TotalBytes(s) == Total([i \in DOMAIN s |-> Bytes(s[i])])

\* _InternalSerialize: the fields with a bit and a value, then the unknown ones
FieldEntry(m, tag, f) ==
  CASE f \notin m.has -> <<>>
    [] f \in m.has \cap DOMAIN m.num ->
         IF m.num[f] = 0 THEN <<>> ELSE <<[tag |-> tag, num |-> m.num[f]]>>
    [] OTHER ->
         IF m.text[f] = <<>> THEN <<>> ELSE <<[tag |-> tag, text |-> m.text[f]]>>

Concat(s, t) == s \o t
Joined(ss) == FoldLeft(Concat, <<>>, ss)

Written(m, tags, table) ==
  Joined([i \in DOMAIN tags |-> FieldEntry(m, tags[i], table[tags[i]])])
    \o m.unknown

\* ByteSizeLong: the lengths it adds for the fields of m; those in fixed have
\* four bytes
FieldSize(m, f, fixed) ==
  CASE f \notin m.has -> 0
    [] f \in m.has \cap DOMAIN m.num ->
         IF m.num[f] = 0 THEN 0
         ELSE IF f \in fixed THEN 5 ELSE 1 + VarintSize(m.num[f])
    [] OTHER ->
         IF m.text[f] = <<>> THEN 0
         ELSE 1 + VarintSize(Len(m.text[f])) + Len(m.text[f])

FieldsSize(m, tags, table, fixed) ==
  Total([i \in DOMAIN tags |-> FieldSize(m, table[tags[i]], fixed)])
    + TotalBytes(m.unknown)

\* the parser sets the bit of a field also for an explicit zero
FieldRead(m, e, table) ==
  IF e.tag \notin DOMAIN table THEN [m EXCEPT !.unknown = Append(@, e)]
  ELSE IF table[e.tag] \in DOMAIN m.num
       THEN NumberSet(m, table[e.tag], e.num)
       ELSE TextSet(m, table[e.tag], e.text)

\* what a reader of the message sees
Values(m) == [num |-> m.num, text |-> m.text, unknown |-> m.unknown]

\* m has these fields, with values of their types; its unknown fields have none
\* of tags
Typed(m, numbers, texts, tags) ==
  /\ m.num \in [numbers -> Int]
  /\ m.text \in [texts -> Seq(Byte)]
  /\ m.has \subseteq numbers \cup texts
  /\ m.owned \subseteq texts
  /\ m.unknown \in Seq(Entry)
  /\ \A i \in DOMAIN m.unknown : m.unknown[i].tag \notin tags

(***************************************************************************)
(* A field without its bit has its default value, and a text field with    *)
(* its bit owns its string: Clear and release_ rely on both                *)
(* (ClearNonDefaultToEmpty, VerifyHasBitConsistency).                      *)
(***************************************************************************)
Consistent(m) ==
  /\ m.has \cap DOMAIN m.text \subseteq m.owned
  /\ \A f \in DOMAIN m.num \ m.has : m.num[f] = 0
  /\ \A f \in DOMAIN m.text \ m.has : m.text[f] = <<>>
==============================================================================
