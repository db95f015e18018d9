----------------------------- MODULE HostValues -----------------------------
(***************************************************************************)
(* src/src/wasm/host_functions.cpp: guest JSON to column values and back, and*)
(* base64; and CompareVersions of src/src/wasm/wasm_engine.cpp.  A JSON value*)
(* is [type, val], a column value [tag, val]; base64 text is a sequence of   *)
(* numbers 0..63 (the alphabet is one-to-one), Pad and Other.                *)
(***************************************************************************)
EXTENDS Integers, SequencesExt, PureCalls

CONSTANT Int64Bound  \* 2^63: int64_t and std::stol give the numbers below it

\* The character =, and any other that is not of the alphabet.
Pad == 64
Other == 65

\* A version is the sequence of its segments, text being the rank of the segment
\* in the order of strings.
Segments == [num : BOOLEAN, val : 0..(Int64Bound - 1), text : Nat]

\* An integer is what nlohmann::json holds as one (signed or unsigned, 64 bits);
\* "bytes" is an object whose only key is $bytes, a string, "mixed" one with further
\* keys beside it.
IsJson(j) ==
  /\ j = [type |-> j.type, val |-> j.val]
  /\ j.type \in {"null", "boolean", "integer", "float", "string", "bytes", "mixed", "array", "object"}
  /\ j.type = "null" => j.val = <<>>
  /\ j.type = "integer" => j.val \in -Int64Bound..(2 * Int64Bound - 1)
  /\ j.type = "bytes" => j.val \in Seq(0..Other)
  /\ j.type = "mixed" => j.val.bytes \in Seq(0..Other)

ASSUME HostAssumption ==
  /\ Int64Bound \in Nat \ {0}
  /\ \A c \in Calls :
       /\ c.of = "versions" => c.a \in Seq(Segments) /\ c.b \in Seq(Segments)
       /\ c.of = "value" => IsJson(c.json)

-----------------------------------------------------------------------------
\* Three bytes make four sextets; the last group is padded.
Group(b) ==
  LET at(i) == IF i <= Len(b) THEN b[i] ELSE 0
      n == at(1) * 65536 + at(2) * 256 + at(3)
  IN <<(n \div 262144) % 64, (n \div 4096) % 64, IF Len(b) > 1 THEN (n \div 64) % 64 ELSE Pad,
       IF Len(b) > 2 THEN n % 64 ELSE Pad>>

\* A sequence in pieces of n, the last one perhaps shorter.
Slices(s, n) == [i \in 1..((Len(s) + n - 1) \div n) |->
                   SubSeq(s, n * (i - 1) + 1, IF n * i < Len(s) THEN n * i ELSE Len(s))]

Base64Encode(bytes) ==
  LET slices == Slices(bytes, 3) IN FlattenSeq([i \in 1..Len(slices) |-> Group(slices[i])])

\* What follows a padded third character is not looked at.
Sextets(g) == /\ g[1] < Pad /\ g[2] < Pad
              /\ g[3] # Pad => g[3] < Pad /\ g[4] # Other

\* Mutant: padding of one sextet is taken for padding of two.
UngroupShort(g) ==
  <<(g[1] * 4 + g[2] \div 16) % 256>>
  \o IF g[3] = Pad \/ g[4] = Pad THEN <<>>
     ELSE <<(g[2] * 16 + g[3] \div 4) % 256, (g[3] * 64 + g[4]) % 256>>

\* One group of four; uint8_t drops what is above.
Ungroup(g) ==
  LET one == (g[1] * 4 + g[2] \div 16) % 256
      two == (g[2] * 16 + g[3] \div 4) % 256
      three == (g[3] * 64 + g[4]) % 256
  IN IF g[3] = Pad THEN <<one>> ELSE IF g[4] = Pad THEN <<one, two>> ELSE <<one, two, three>>

\* A length that is no multiple of four, or a character that does not belong
\* there, is refused.
Base64Decode(text) ==
  LET groups == Slices(text, 4)
  IN IF Len(text) % 4 = 0 /\ \A i \in 1..Len(groups) : Sextets(groups[i])
     THEN [ok |-> TRUE, val |-> FlattenSeq([i \in 1..Len(groups) |-> Ungroup(groups[i])])]
     ELSE [ok |-> FALSE, val |-> <<>>]

-----------------------------------------------------------------------------
\* get<int64_t>() of an unsigned number of 2^63 or more wraps.
ToInt64(n) == IF n < Int64Bound THEN n ELSE n - 2 * Int64Bound

\* The value of a $bytes string, null if it is no base64.
BytesValue(text) ==
  LET b == Base64Decode(text)
  IN IF b.ok THEN [tag |-> "bytes", val |-> b.val] ELSE [tag |-> "null", val |-> <<>>]

\* JsonToRow, of one column: integers become int64, numbers double, an object with
\* a string $bytes the bytes (its other keys are dropped), other objects and arrays
\* the text of their JSON.
JsonToValue(j) ==
  CASE j.type = "null"    -> [tag |-> "null", val |-> <<>>]
    [] j.type = "boolean" -> [tag |-> "bool", val |-> j.val]
    [] j.type = "integer" -> [tag |-> "int64", val |-> ToInt64(j.val)]
    [] j.type = "float"   -> [tag |-> "double", val |-> j.val]
    [] j.type = "bytes"   -> BytesValue(j.val)
    [] j.type = "mixed"   -> BytesValue(j.val.bytes)
    [] j.type = "string"  -> [tag |-> "string", val |-> j.val]
    [] OTHER              -> [tag |-> "string", val |-> <<"dump", j.val>>]

\* RowToJson: the widths are forgotten, a time is cut to milliseconds.
ValueToJson(v) ==
  CASE v.tag = "null"                -> [type |-> "null", val |-> <<>>]
    [] v.tag = "bool"                -> [type |-> "boolean", val |-> v.val]
    [] v.tag \in {"int32", "int64"}  -> [type |-> "integer", val |-> v.val]
    [] v.tag \in {"float", "double"} -> [type |-> "float", val |-> v.val]
    [] v.tag = "bytes"               -> [type |-> "bytes", val |-> Base64Encode(v.val)]
    [] v.tag = "timestamp"           -> [type |-> "integer", val |-> v.val \div 1000000]
    [] OTHER                         -> [type |-> "string", val |-> v.val]

-----------------------------------------------------------------------------
(* CompareVersions: a segment that is missing is the empty string, which is  *)
(* not numeric and ranks first.                                              *)
NoSegment == [num |-> FALSE, val |-> 0, text |-> 0]

Segment(v, i) == IF i <= Len(v) THEN v[i] ELSE NoSegment

Sign(x, y) == IF x = y THEN 0 ELSE IF x < y THEN -1 ELSE 1

\* Mutant: segments are compared as text ("1.10" before "1.9").
CompareSegmentsAsText(a, b) == Sign(a.text, b.text)

CompareSegments(a, b) == IF a.num /\ b.num THEN Sign(a.val, b.val) ELSE Sign(a.text, b.text)

CompareVersions(a, b) ==
  LET n == IF Len(a) > Len(b) THEN Len(a) ELSE Len(b)
      differ == {i \in 1..n : CompareSegments(Segment(a, i), Segment(b, i)) # 0}
      first == CHOOSE i \in differ : \A j \in differ : i <= j
  IN IF differ = {} THEN 0 ELSE CompareSegments(Segment(a, first), Segment(b, first))

-----------------------------------------------------------------------------
StoreValue == Called("value") /\ answer' = ValueToJson(JsonToValue(call.json))

Compare ==
  Called("versions") /\ answer' = <<CompareVersions(call.a, call.b), CompareVersions(call.b, call.a)>>

HostNext == (StoreValue \/ Compare) /\ UNCHANGED call

HostSpec == CallInit /\ [][HostNext]_callVars

-----------------------------------------------------------------------------
\* Base64 as an encoder writes it: padding at the end only, spare bits zero.
Canonical(text) ==
  /\ Len(text) % 4 = 0
  /\ \A i \in 1..Len(text) :
       \/ text[i] < Pad
       \/ text[i] = Pad /\ i = Len(text) /\ (text[i - 1] = Pad \/ text[i - 1] % 4 = 0)
       \/ text[i] = Pad /\ i = Len(text) - 1 /\ text[i + 1] = Pad /\ text[i - 1] < Pad /\ text[i - 1] % 16 = 0

\* What a reducer reads of a JSON value it stored.  Null, booleans, floats, text and
\* the integers of int64 come back as they were; a larger integer comes back as the
\* negative one that is 2^64 below it.  Bytes of every length come back: what is read
\* decodes to the bytes stored, and is the text stored if that was the canonical
\* one, without the other keys that stood beside it; text that is no base64 comes
\* back as null, a nested array or object as text.
ValuesSurvive ==
  Answered("value") =>
    LET json == call.json
        text == IF json.type = "mixed" THEN json.val.bytes ELSE json.val
    IN CASE json.type \in {"array", "object"} -> answer.type = "string"
         [] json.type = "integer" ->
              /\ json.val < Int64Bound => answer = json
              /\ json.val >= Int64Bound =>
                   /\ answer = [type |-> "integer", val |-> answer.val] /\ answer.val \in -Int64Bound..-1
                   /\ json.val - answer.val = 2 * Int64Bound
         [] json.type \in {"bytes", "mixed"} ->
              IF ~Base64Decode(text).ok THEN answer = [type |-> "null", val |-> <<>>]
              ELSE /\ answer.type = "bytes" /\ Base64Decode(answer.val) = Base64Decode(text)
                   /\ Canonical(text) => answer = [type |-> "bytes", val |-> text]
         [] OTHER -> answer = json

\* The number that the segments of a version are the digits of, first i of them.
Weight(v) ==
  LET weight[i \in 0..Len(v)] == IF i = 0 THEN 0 ELSE weight[i - 1] * Int64Bound + v[i].val
  IN weight[Len(v)]

\* Versions of numeric segments, of the same length, are in the order of their
\* numbers ("1.2.10" > "1.2.9"), so that the version gate refuses a downgrade; and
\* of any two versions at most one is newer.
VersionsOrdered ==
  Answered("versions") =>
    /\ answer[1] = -answer[2]
    /\ (Len(call.a) = Len(call.b) /\ \A i \in 1..Len(call.a) : call.a[i].num /\ call.b[i].num) =>
         answer[1] = Sign(Weight(call.a), Weight(call.b))

=============================================================================
