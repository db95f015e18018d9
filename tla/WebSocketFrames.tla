-------------------------- MODULE WebSocketFrames --------------------------
(***************************************************************************)
(* src/src/websocket/websocket_server.cpp: frames in a byte stream that      *)
(* arrives in pieces, the receive loop of HandleClient, and the frames that  *)
(* the server sends.                                                         *)
(*                                                                           *)
(* The two header bytes are records of their bit fields; the other bytes are *)
(* numbers below Base.  126, 127, 65536 and the width of the long length are *)
(* scaled down with the same shape: 126 is Short, 127 is Short + 1.          *)
(***************************************************************************)
EXTENDS Naturals, SequencesExt

CONSTANTS
  Base,       \* 256
  Short,      \* 126: shorter payloads have their length in the second byte
  LongBytes,  \* 8: bytes of the long length
  MaskBytes,  \* 4
  BitXor(_, _), \* ^ of two bytes
  Traffic,    \* the frame sequences that clients send
  MaxPending, \* 16 MiB
  Chunks      \* how many bytes one recv may return

Octets == 0..(Base - 1)

\* Base^i, up to what the widest length needs.
Power[i \in 0..LongBytes] == IF i = 0 THEN 1 ELSE Power[i - 1] * Base

Frames == [opcode : 0..15, mask : {<<>>} \union [1..MaskBytes -> Octets], payload : Seq(Octets)]

ASSUME WidthAssumption ==
  /\ Base \in Nat /\ Base > 1
  /\ Short \in Nat
  /\ LongBytes \in Nat /\ LongBytes > 1
  /\ MaskBytes \in Nat \ {0}

ASSUME XorAssumption ==
  \A a, b \in Octets : BitXor(a, b) \in Octets /\ BitXor(BitXor(a, b), b) = a

\* No client sends a frame of 2^64 bytes.
ASSUME TrafficAssumption ==
  \A t \in Traffic :
    /\ t \in Seq(Frames)
    /\ \A i \in 1..Len(t) : 2 + LongBytes + MaskBytes + Len(t[i].payload) < Power[LongBytes]

ASSUME ChunksAssumption == Chunks \subseteq Nat

VARIABLES
  traffic,     \* what the client sends: frames
  arrived,     \* bytes of it that recv has returned
  pending,
  handled,     \* what HandleWebSocketMessage was given
  client_state \* "open", "closed" after a close frame, "dropped" at the limit

frameVars == <<traffic, arrived, pending, handled, client_state>>

-----------------------------------------------------------------------------
\* Big-endian, in n bytes.
LengthBytes(len, n) == [i \in 1..n |-> (len \div Power[n - i]) % Base]

\* SendWebSocketFrame builds an unmasked text frame; a client's frame has its
\* own opcode and, in a browser, a mask.
\* Mutant: a payload of exactly Short bytes has its length in the second byte.
ExtendedAfter(len) ==
  CASE len <= Short            -> [mark |-> len, bytes |-> <<>>]
    [] len > Short /\ len < Power[2] -> [mark |-> Short, bytes |-> LengthBytes(len, 2)]
    [] OTHER                   -> [mark |-> Short + 1, bytes |-> LengthBytes(len, LongBytes)]

Extended(len) ==
  CASE len < Short                  -> [mark |-> len, bytes |-> <<>>]
    [] len >= Short /\ len < Power[2] -> [mark |-> Short, bytes |-> LengthBytes(len, 2)]
    [] OTHER                        -> [mark |-> Short + 1, bytes |-> LengthBytes(len, LongBytes)]

Masked(payload, mask) ==
  IF mask = <<>> THEN payload
  ELSE [i \in 1..Len(payload) |-> BitXor(payload[i], mask[((i - 1) % MaskBytes) + 1])]

Frame(opcode, mask, payload) ==
  LET len == Extended(Len(payload))
  IN <<[opcode |-> opcode], [masked |-> mask # <<>>, len |-> len.mark]>>
     \o len.bytes \o mask \o Masked(payload, mask)

-----------------------------------------------------------------------------
Number(bytes) ==
  LET value[i \in 0..Len(bytes)] == IF i = 0 THEN 0 ELSE value[i - 1] * Base + bytes[i]
  IN value[Len(bytes)]

\* The header up to the mask: its size and the payload length it gives, or size
\* 0 when it is not complete.
Header(data) ==
  LET ext == IF Len(data) < 2 THEN 0
             ELSE CASE data[2].len = Short     -> 2
                    [] data[2].len = Short + 1 -> LongBytes
                    [] OTHER                   -> 0
  IN IF Len(data) < 2 + ext THEN [size |-> 0, len |-> 0]
     ELSE [size |-> 2 + ext + (IF data[2].masked THEN MaskBytes ELSE 0),
           len  |-> IF ext = 0 THEN data[2].len ELSE Number(SubSeq(data, 3, 2 + ext))]

\* uint64_t: the sum wraps.
CompleteFrameSize(data) ==
  LET h == Header(data)
  IN IF h.size = 0 THEN 0 ELSE (h.size + h.len) % Power[LongBytes]

\* Only text frames have a message; a control or binary frame, and a
\* continuation, is "".
ParseWebSocketFrame(data) ==
  LET h == Header(data)
      payload == SubSeq(data, h.size + 1, h.size + h.len)
      mask == IF data[2].masked THEN SubSeq(data, h.size - MaskBytes + 1, h.size) ELSE <<>>
  IN IF data[1].opcode # 1 \/ Len(data) < h.size + h.len THEN <<>> ELSE Masked(payload, mask)

-----------------------------------------------------------------------------
FrameInit ==
  /\ traffic \in Traffic
  /\ arrived = 0 /\ pending = <<>> /\ handled = <<>> /\ client_state = "open"

\* The bytes of the first i frames of t.
Stream(t) ==
  LET bytes[i \in 0..Len(t)] ==
        IF i = 0 THEN <<>> ELSE bytes[i - 1] \o Frame(t[i].opcode, t[i].mask, t[i].payload)
  IN bytes

Sent == Stream(traffic)[Len(traffic)]

\* The inner loop takes whole frames, one after the other, until a close frame.
Take(s) ==
  LET size == CompleteFrameSize(s.pending)
      first == SubSeq(s.pending, 1, size)
      message == ParseWebSocketFrame(first)
  IN IF s.closed \/ size = 0 \/ size > Len(s.pending) THEN s
     ELSE [pending |-> SubSeq(s.pending, size + 1, Len(s.pending)),
           handled |-> IF first[1].opcode = 8 \/ message = <<>> THEN s.handled
                       ELSE Append(s.handled, message),
           closed  |-> first[1].opcode = 8]

\* Every frame has a byte, so the loop has ended after as many rounds.
Drain(data, got) ==
  LET loop[k \in 0..Len(data)] ==
        IF k = 0 THEN [pending |-> data, handled |-> got, closed |-> FALSE] ELSE Take(loop[k - 1])
  IN loop[Len(data)]

\* Mutant: one frame is taken from each recv.
RecvTakesOne(n) ==
  LET data == pending \o SubSeq(Sent, arrived + 1, arrived + n)
      size == CompleteFrameSize(data)
  IN /\ client_state = "open" /\ arrived + n <= Len(Sent)
     /\ arrived' = arrived + n
     /\ pending' = IF size \in 1..Len(data) THEN SubSeq(data, size + 1, Len(data)) ELSE data
     /\ handled' = IF size \in 1..Len(data) THEN handled \o Drain(SubSeq(data, 1, size), <<>>).handled
                   ELSE handled
     /\ UNCHANGED <<traffic, client_state>>

\* recv returns n bytes, and the loop runs.
Recv(n) ==
  LET r == Drain(pending \o SubSeq(Sent, arrived + 1, arrived + n), handled)
  IN /\ client_state = "open" /\ arrived + n <= Len(Sent)
     /\ arrived' = arrived + n
     /\ pending' = r.pending /\ handled' = r.handled
     /\ client_state' = IF r.closed THEN "closed"
                        ELSE IF Len(r.pending) > MaxPending THEN "dropped" ELSE "open"
     /\ UNCHANGED traffic

FrameNext == \E n \in Chunks : Recv(n)

FrameSpec == FrameInit /\ [][FrameNext]_frameVars

-----------------------------------------------------------------------------
(* What should come of it, from the frames themselves.                       *)
Counts(t, n, i) == /\ Len(Stream(t)[i]) <= n
                   /\ \A j \in 1..(i - 1) : t[j].opcode # 8
                   /\ t[i].opcode = 1 /\ t[i].payload # <<>>

\* The messages of t that are due once n of its bytes have arrived: of its first i
\* frames.
Due(t, n) ==
  LET due[i \in 0..Len(t)] ==
        IF i = 0 THEN <<>>
        ELSE IF Counts(t, n, i) THEN Append(due[i - 1], t[i].payload) ELSE due[i - 1]
  IN due

\* However the stream is cut, the messages handled are the payloads of the text
\* frames that have arrived whole, in order, none twice, up to a close frame
\* ("one recv may carry several websocket frames or a partial one"); also when the
\* client is then dropped for what is left.
FramesDelivered == handled = Due(traffic, arrived)[Len(traffic)]

\* A frame that SendWebSocketFrame makes is read back whole by the rules of the
\* receiving side, at every payload length around its three size classes.
ServerFrame(message) == Frame(1, <<>>, message)
ServerFramesParse ==
  \A i \in 1..Len(traffic) :
    LET f == ServerFrame(traffic[i].payload)
    IN CompleteFrameSize(f) = Len(f) /\ ParseWebSocketFrame(f) = traffic[i].payload

=============================================================================
