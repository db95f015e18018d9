------------------------------ MODULE RowCodec ------------------------------
(***************************************************************************)
(* src/src/storage/row_codec.cpp, the binary form of rows in the log (and    *)
(* of schemas, which only the tests encode), and                             *)
(* src/src/websocket/binary_protocol.cpp, the binary form of changefeed      *)
(* events: length-prefixed fields, the one little-endian and the other       *)
(* big-endian.  A text is the sequence of its bytes.                         *)
(***************************************************************************)
EXTENDS Naturals, FiniteSets, SequencesExt, PureCalls

Chars == 0..255

\* Lengths and counts are uint32_t.
Fits(n) == n \in Nat /\ n \div 16777216 < 256

Texts == {s \in Seq(Chars) : Fits(Len(s))}

-----------------------------------------------------------------------------
(* Writers.                                                                  *)
Byte0(n) == n % 256
Byte1(n) == (n \div 256) % 256
Byte2(n) == (n \div 65536) % 256
Byte3(n) == (n \div 16777216) % 256

\* Mutant: the most significant byte first.
PutU32Swapped(n) == <<Byte3(n), Byte2(n), Byte1(n), Byte0(n)>>

PutU32(n) == <<Byte0(n), Byte1(n), Byte2(n), Byte3(n)>>

PutString(s) == PutU32(Len(s)) \o s

WriteUint32(n) == <<Byte3(n), Byte2(n), Byte1(n), Byte0(n)>>

WriteString(s) == WriteUint32(Len(s)) \o s

(* Readers.  A reader is [ok, at, val]: where it stands in the data, what it *)
(* read last, and whether anything it needed was missing.                    *)
Read(at, val) == [ok |-> TRUE, at |-> at, val |-> val]
Start == Read(0, <<>>)
Failed == [ok |-> FALSE, at |-> 0, val |-> <<>>]

\* Need, EnsureAvailable: n more bytes, or an exception.
Need(d, r, n) ==
  IF r.ok /\ r.at + n <= Len(d) THEN Read(r.at + n, SubSeq(d, r.at + 1, r.at + n)) ELSE Failed

\* The number that four bytes make, the least or the most significant one first.
LittleEndian(b) ==
  IF b.ok THEN Read(b.at, b.val[1] + b.val[2] * 256 + b.val[3] * 65536 + b.val[4] * 16777216) ELSE Failed

U32(d, r) == LittleEndian(Need(d, r, 4))

\* As many bytes as were counted.
Counted(d, n) == IF n.ok THEN Need(d, n, n.val) ELSE Failed

Str(d, r) == Counted(d, U32(d, r))

BigEndian(b) ==
  IF b.ok THEN Read(b.at, b.val[1] * 16777216 + b.val[2] * 65536 + b.val[3] * 256 + b.val[4]) ELSE Failed

ReadUint32(d, r) == BigEndian(Need(d, r, 4))

ReadString(d, r) == Counted(d, ReadUint32(d, r))

-----------------------------------------------------------------------------
(* Rows: [key, columns], columns a function from names to values [tag, val]. *)
(* The fixed-width alternatives are copied byte by byte.                     *)
Tag == [null |-> 0, int32 |-> 1, int64 |-> 2, float |-> 3, double |-> 4, string |-> 5, bytes |-> 6,
        bool |-> 7, timestamp |-> 8]

Fixed(tag) == IF tag \in {Tag.int32, Tag.float} THEN 4 ELSE 8

EncodeValue(v) ==
  <<v.tag>> \o CASE v.tag = Tag.null                  -> <<>>
                 [] v.tag \in {Tag.string, Tag.bytes} -> PutString(v.val)
                 [] v.tag = Tag.bool                  -> <<IF v.val THEN 1 ELSE 0>>
                 [] OTHER                             -> v.val

DecodeValue(d, r) ==
  LET t == Need(d, r, 1)
      tag == t.val[1]
      body == CASE tag = Tag.null                  -> Read(t.at, <<>>)
                [] tag \in {Tag.string, Tag.bytes} -> Str(d, t)
                [] tag = Tag.bool                  -> Need(d, t, 1)
                [] OTHER                           -> Need(d, t, Fixed(tag))
      val == IF tag = Tag.bool THEN body.val # <<0>> ELSE body.val
  IN IF t.ok /\ tag \in 0..8 /\ body.ok THEN Read(body.at, [tag |-> tag, val |-> val]) ELSE Failed

\* One column of a row.
ReadColumn(d, r) ==
  LET name == Str(d, r)
      v == DecodeValue(d, name)
  IN IF v.ok THEN Read(v.at, [name |-> name.val, val |-> v.val]) ELSE Failed

\* One column of a schema: its type and two flags are a byte each.
ReadSchemaColumn(d, r) ==
  LET name == Str(d, r)
      f == Need(d, name, 3)
  IN IF f.ok THEN Read(f.at, [name |-> name.val, type |-> f.val[1], nullable |-> f.val[2] # 0,
                              is_primary_key |-> f.val[3] # 0])
     ELSE Failed

(* An event's fields: the JSON types that have a place in the map.           *)
DataType == [boolean |-> 1, integer |-> 5, float |-> 7, string |-> 8]

JsonType(byte) == CASE byte = 1 -> "boolean" [] byte = 5 -> "integer" [] byte = 7 -> "float"
                    [] byte = 8 -> "string"

ReadField(d, r) ==
  LET name == ReadString(d, r)
      t == Need(d, name, 1)
      byte == t.val[1]
      v == CASE byte = DataType.string  -> ReadString(d, t)
             [] byte = DataType.boolean -> Need(d, t, 1)
             [] OTHER                   -> Need(d, t, 8)
      val == IF byte = DataType.boolean THEN v.val # <<0>> ELSE v.val
  IN IF t.ok /\ byte \in {1, 5, 7, 8} /\ v.ok
     THEN Read(v.at, [name |-> name.val, val |-> [type |-> JsonType(byte), val |-> val]])
     ELSE Failed

\* The lists of the formats are lists of these.
Entry(kind, d, r) ==
  CASE kind = "column"        -> ReadColumn(d, r)
    [] kind = "name"          -> Str(d, r)
    [] kind = "schema column" -> ReadSchemaColumn(d, r)
    [] kind = "field"         -> ReadField(d, r)

\* A list with one entry more.
Grown(list, e) == IF e.ok THEN Read(e.at, Append(list.val, e.val)) ELSE Failed

\* The entries, as many as count says.
ReadList(kind, d, count) ==
  LET loop[k \in 0..count.val] ==
        IF k = 0 THEN Read(count.at, <<>>) ELSE Grown(loop[k - 1], Entry(kind, d, loop[k - 1]))
  IN IF count.ok THEN loop[count.val] ELSE Failed

\* The map of the entries: a later one replaces an earlier one of its name.
MapOf(list) ==
  [n \in {list[i].name : i \in 1..Len(list)} |->
     list[CHOOSE i \in 1..Len(list) : /\ list[i].name = n
                                      /\ \A j \in 1..Len(list) : list[j].name = n => j <= i].val]

\* An unordered_map is written in some order; a std::map in that of its names.
Orders(S) == {o \in [1..Cardinality(S) -> S] : \A x \in S : \E i \in 1..Cardinality(S) : o[i] = x}

EncodeRow(row, order) ==
  PutString(row.key) \o PutU32(Len(order))
  \o FlattenSeq([i \in 1..Len(order) |-> PutString(order[i]) \o EncodeValue(row.columns[order[i]])])

DecodeRow(d) ==
  LET key == Str(d, Start)
      list == ReadList("column", d, U32(d, key))
  IN IF list.ok THEN Read(list.at, [key |-> key.val, columns |-> MapOf(list.val)]) ELSE Failed

(* Schemas: neither a column's default nor the options are written.          *)
EncodeColumn(c) ==
  PutString(c.name) \o <<c.type, IF c.nullable THEN 1 ELSE 0, IF c.is_primary_key THEN 1 ELSE 0>>

EncodeSchema(s) ==
  PutString(s.name)
  \o PutU32(Len(s.primary_key)) \o FlattenSeq([i \in 1..Len(s.primary_key) |-> PutString(s.primary_key[i])])
  \o PutU32(Len(s.columns)) \o FlattenSeq([i \in 1..Len(s.columns) |-> EncodeColumn(s.columns[i])])

DecodeSchema(d) ==
  LET name == Str(d, Start)
      keys == ReadList("name", d, U32(d, name))
      cols == ReadList("schema column", d, U32(d, keys))
  IN IF cols.ok THEN Read(cols.at, [name |-> name.val, primary_key |-> keys.val, columns |-> cols.val])
     ELSE Failed

-----------------------------------------------------------------------------
(* ProtocolConverter: a message is magic, type, flags, payload size, payload.*)
Magic == <<219, 1>>
MessageType == [welcome |-> 1, ping |-> 2, pong |-> 3, error |-> 4, changefeed_event |-> 32]
Operations == <<"insert", "update", "delete", "truncate">>

\* Mutant: the table of operations is one short.
OperationTypeShort(op) == CASE op = "insert" -> 1 [] op = "update" -> 2 [] OTHER -> 4

OperationType(op) == CASE op = "insert" -> 1 [] op = "update" -> 2 [] op = "delete" -> 3 [] OTHER -> 4

Message(type, payload) == Magic \o <<type, 0>> \o WriteUint32(Len(payload)) \o payload

WriteField(name, v) ==
  WriteString(name) \o <<DataType[v.type]>>
  \o CASE v.type = "string"  -> WriteString(v.val)
       [] v.type = "boolean" -> <<IF v.val THEN 1 ELSE 0>>
       [] OTHER              -> v.val

\* A JSON field that is no number, string or boolean has no place in the map.
Kept(data) == {f \in DOMAIN data : data[f].type \in DOMAIN DataType}

ChangefeedEventToBinary(e, names) ==
  Message(MessageType.changefeed_event,
    WriteString(e.subscription_id) \o WriteString(e.table) \o <<OperationType(e.operation)>>
    \o WriteString(e.key) \o WriteUint32(Len(names))
    \o FlattenSeq([i \in 1..Len(names) |-> WriteField(names[i], e.data[names[i]])]))

\* The magic and the payload size are read and not looked at; without fields the
\* JSON has null for them, <<>> here.
BinaryToJsonChangefeedEvent(d) ==
  LET header == Need(d, Start, 4)
      sub == ReadString(d, ReadUint32(d, header))
      table == ReadString(d, sub)
      op == Need(d, table, 1)
      key == ReadString(d, op)
      fields == ReadList("field", d, ReadUint32(d, key))
  IN IF header.ok /\ header.val[3] = MessageType.changefeed_event /\ fields.ok
     THEN Read(fields.at, [subscription_id |-> sub.val, table |-> table.val,
                           operation |-> Operations[op.val[1]], key |-> key.val,
                           data |-> MapOf(fields.val)])
     ELSE Failed

\* The other messages, and the test that tells a binary message from JSON.
Features == << <<1>>, <<2>>, <<3>> >>
CreateBinaryWelcomeMessage(client_id, version) ==
  Message(MessageType.welcome,
    WriteString(client_id) \o WriteString(version) \o WriteUint32(3)
    \o WriteString(Features[1]) \o WriteString(Features[2]) \o WriteString(Features[3]))
CreateBinaryErrorMessage(code, text) == Message(MessageType.error, WriteUint32(code) \o WriteString(text))
CreateBinaryPingMessage(type, timestamp) == Message(MessageType[type], timestamp)
IsBinaryProtocol(d) == Len(d) >= 2 /\ SubSeq(d, 1, 2) = Magic

-----------------------------------------------------------------------------
(* What is written and read.                                                 *)
IsValue(v) ==
  /\ v = [tag |-> v.tag, val |-> v.val]
  /\ CASE v.tag = Tag.null                  -> v.val = <<>>
       [] v.tag \in {Tag.string, Tag.bytes} -> v.val \in Texts
       [] v.tag = Tag.bool                  -> v.val \in BOOLEAN
       [] OTHER                             -> v.tag \in 1..8 /\ v.val \in [1..Fixed(v.tag) -> Chars]

IsField(v) ==
  /\ v = [type |-> v.type, val |-> v.val]
  /\ CASE v.type = "string"  -> v.val \in Texts
       [] v.type = "boolean" -> v.val \in BOOLEAN
       [] OTHER              -> v.val \in [1..8 -> Chars]

SchemaColumns == [name : Texts, type : Chars, nullable : BOOLEAN, is_primary_key : BOOLEAN]

\* A map from names, whose entries can be counted.
IsMap(m) ==
  /\ m = [n \in DOMAIN m |-> m[n]] /\ DOMAIN m \subseteq Texts
  /\ IsFiniteSet(DOMAIN m) /\ Fits(Cardinality(DOMAIN m))

IsRow(row) ==
  /\ row = [key |-> row.key, columns |-> row.columns] /\ row.key \in Texts
  /\ IsMap(row.columns) /\ \A n \in DOMAIN row.columns : IsValue(row.columns[n])

IsSchema(s) ==
  /\ s = [name |-> s.name, primary_key |-> s.primary_key, columns |-> s.columns] /\ s.name \in Texts
  /\ s.primary_key \in Seq(Texts) /\ Fits(Len(s.primary_key))
  /\ s.columns \in Seq(SchemaColumns) /\ Fits(Len(s.columns))

IsEvent(e) ==
  /\ e = [subscription_id |-> e.subscription_id, table |-> e.table, operation |-> e.operation,
          key |-> e.key, data |-> e.data]
  /\ e.subscription_id \in Texts /\ e.table \in Texts /\ e.key \in Texts
  /\ IsMap(e.data) /\ \A f \in Kept(e.data) : IsField(e.data[f])

\* No string, list or message has 2^32 bytes.
ASSUME CodecAssumption ==
  \A c \in Calls :
    /\ c.of = "row" => IsRow(c.row)
    /\ c.of = "schema" => IsSchema(c.schema)
    /\ c.of = "event" => IsEvent(c.event)
    /\ c.of = "message" => /\ c.bytes \in Texts /\ Fits(c.number)
                           /\ Fits(Len(CreateBinaryWelcomeMessage(c.bytes, c.bytes)))
                           /\ Fits(Len(CreateBinaryErrorMessage(c.number, c.bytes)))

\* A record read back from a prefix of its bytes: what a torn log record, or a
\* message cut short, leaves.
ReadRow ==
  /\ Called("row")
  /\ \E order \in Orders(DOMAIN call.row.columns) :
       LET bytes == EncodeRow(call.row, order)
       IN \E n \in 0..Len(bytes) : answer' = [whole |-> n = Len(bytes), read |-> DecodeRow(SubSeq(bytes, 1, n))]

ReadSchema ==
  /\ Called("schema")
  /\ LET bytes == EncodeSchema(call.schema)
     IN \E n \in 0..Len(bytes) :
          answer' = [whole |-> n = Len(bytes), read |-> DecodeSchema(SubSeq(bytes, 1, n))]

ReadEvent ==
  /\ Called("event")
  /\ \E order \in Orders(Kept(call.event.data)) :
       LET bytes == ChangefeedEventToBinary(call.event, order)
       IN \E n \in 0..Len(bytes) :
            answer' = [whole |-> n = Len(bytes), read |-> BinaryToJsonChangefeedEvent(SubSeq(bytes, 1, n))]

ReadOther ==
  /\ Called("message")
  /\ \E bytes \in {CreateBinaryWelcomeMessage(call.bytes, call.bytes),
                   CreateBinaryErrorMessage(call.number, call.bytes)}
                  \union {CreateBinaryPingMessage(t, WriteUint32(0) \o WriteUint32(call.number))
                            : t \in {"ping", "pong"}} :
       answer' = [binary |-> IsBinaryProtocol(bytes),
                  size |-> ReadUint32(bytes, Need(bytes, Start, 4)).val + 8 - Len(bytes),
                  read |-> BinaryToJsonChangefeedEvent(bytes)]

CodecNext == (ReadRow \/ ReadSchema \/ ReadEvent \/ ReadOther) /\ UNCHANGED call

CodecSpec == CallInit /\ [][CodecNext]_callVars

-----------------------------------------------------------------------------
\* A row, and a schema without its options and defaults, is what is decoded from
\* its bytes, in whatever order the columns were written; from fewer bytes,
\* wherever they end, the decoder fails (row_codec: truncated record).
RecordsRoundTrip ==
  /\ Answered("row") => /\ answer.read.ok = answer.whole
                        /\ answer.whole => answer.read.val = call.row
  /\ Answered("schema") => /\ answer.read.ok = answer.whole
                           /\ answer.whole => answer.read.val = call.schema

\* What the binary protocol has of an event: a null, array or object field is
\* dropped, an operation that it does not know becomes a truncate.
Carried(e) ==
  [subscription_id |-> e.subscription_id, table |-> e.table,
   operation |-> IF e.operation \in {"insert", "update", "delete"} THEN e.operation ELSE "truncate",
   key |-> e.key, data |-> [f \in Kept(e.data) |-> e.data[f]]]

\* An event survives the binary protocol with its table, operation, key and
\* scalar fields, and a message cut short is refused.  The other messages are told
\* from JSON by their magic, have the size of what follows the header in it, and
\* are never taken for an event.
EventSurvives ==
  /\ Answered("message") => answer.binary /\ answer.size = 0 /\ ~answer.read.ok
  /\ Answered("event") => /\ answer.read.ok = answer.whole
                          /\ answer.whole => answer.read.val = Carried(call.event)

=============================================================================
