---------------------------- MODULE CodecProofs -----------------------------
(***************************************************************************)
(* What the server codecs make of a byte stream, for every message and     *)
(* every prefix of its frame; and what the buffer they read from makes of  *)
(* its blocks, for every sequence of appends and skips.                    *)
(***************************************************************************)
EXTENDS FrameArrival, NoncontiguousBuffer, SequenceLemmas

(***************************************************************************)
(* The stream only ever grows by whole bytes; the message stays the same.  *)
(***************************************************************************)
Arrived == msg \in Messages /\ n \in Nat

LEMMA ArrivedAlways == Spec => []Arrived
  <1>1. Init => Arrived
    BY DEF Init, Arrived
  <1>2. Arrived /\ [Next]_vars => Arrived'
    BY OffsetsAssumption DEF Arrived, Next, Arrive, vars
  <1> QED
    BY <1>1, <1>2, PTL DEF Spec

-----------------------------------------------------------------------------
(***************************************************************************)
(* The shape of a message, from the assumption on Messages.                *)
(***************************************************************************)
LEMMA MessageTypes ==
  ASSUME Arrived
  PROVE  /\ msg.proto \in {"Legacy", "XRpc"}
         /\ msg.header.size \in Nat /\ msg.header.size <= 20000000
         /\ msg.body.size \in Nat /\ msg.body.size <= 20000000
         /\ n \in Nat
  BY MessagesAssumption, SMT DEF Arrived, Payload, Protocols

(***************************************************************************)
(* Cutting a length to 16 bits never makes it longer: the truncated header *)
(* length still lies inside the frame.                                     *)
(***************************************************************************)
LEMMA TruncationShrinks == \A x \in Nat : x % 65536 \in Nat /\ x % 65536 <= x
  BY SMT

(***************************************************************************)
(* The frame of a Legacy request, as a server codec reads it.              *)
(***************************************************************************)
LEMMA LegacyFrame ==
  ASSUME Arrived, msg.proto = "Legacy"
  PROVE  /\ Sent
         /\ Frame.proto = "Legacy"
         /\ First32(Frame) = 4 + msg.header.size + msg.body.size
         /\ FrameSize(Frame) = 8 + msg.header.size + msg.body.size
         /\ PeekFixedHeader(Frame).magic = (4 + msg.header.size + msg.body.size) \div 65536
  BY SMT DEF Sent, Frame, Encoded, ClientEncode, LegacyClientEncode, First32, FrameSize,
             PeekFixedHeader

(***************************************************************************)
(* The frame of an XRpc request that was encoded, as a codec reads it.     *)
(***************************************************************************)
LEMMA XRpcFrame ==
  ASSUME Arrived, msg.proto = "XRpc", Sent
  PROVE  /\ Frame.proto = "XRpc"
         /\ PeekFixedHeader(Frame).magic = kMagicNumber
         /\ PeekFixedHeader(Frame).type = kRequest
         /\ PeekFixedHeader(Frame).total_size = 16 + msg.header.size + msg.body.size
         /\ PeekFixedHeader(Frame).header_size = msg.header.size % 65536
         /\ FrameSize(Frame) = 16 + msg.header.size + msg.body.size
         /\ 16 + msg.header.size + msg.body.size <= kMaxFrameSize
  <1> DEFINE fh == FixedHeaderOf(kRequest, msg.header, msg.body)
             f  == [proto |-> "XRpc", fh |-> HToN(fh), header |-> msg.header, body |-> msg.body]
  <1>1. Encoded = IF fh.total_size > kMaxFrameSize THEN [ret |-> kCodecOversized]
                  ELSE [ret |-> kCodecOk, frame |-> f]
    BY DEF Encoded, ClientEncode, XRpcEncode
  <1>2. fh.total_size = 16 + msg.header.size + msg.body.size
    BY DEF FixedHeaderOf, kFixedHeaderSize
  <1> HIDE DEF fh
  <1>3. ~(fh.total_size > kMaxFrameSize)
    BY <1>1, SMT DEF Sent, kCodecOversized, kCodecOk
  <1>4. Frame = f
    BY <1>1, <1>3, SMT DEF Frame
  <1>5. PeekFixedHeader(f) = fh
    BY SMT DEF PeekFixedHeader, HToN
  <1>6. FrameSize(f) = 16 + msg.header.size + msg.body.size
    BY SMT DEF FrameSize, kFixedHeaderSize
  <1>7. 16 + msg.header.size + msg.body.size <= kMaxFrameSize
    BY <1>2, <1>3, MessageTypes, SMT DEF kMaxFrameSize
  <1> QED
    BY <1>2, <1>4, <1>5, <1>6, <1>7, SMT DEF fh, FixedHeaderOf

-----------------------------------------------------------------------------
(***************************************************************************)
(* For every message and every prefix of the stream, a server codec cuts   *)
(* frames of its own protocol exactly at their last byte.                  *)
(***************************************************************************)
THEOREM PickCorrect == Spec => []PickIsExact
  <1>1. ASSUME Arrived, Sent, msg.proto = "Legacy" PROVE PickIsExact
    BY <1>1, LegacyFrame, MessageTypes, SMT
       DEF PickIsExact, CheckAndPick, LegacyCheckAndPick, kMaxFrameSize
  <1>2. ASSUME Arrived, Sent, msg.proto = "XRpc" PROVE PickIsExact
    <2>1. msg.header.size % 65536 \in Nat /\ msg.header.size % 65536 <= msg.header.size
      BY <1>2, MessageTypes, TruncationShrinks, SMT
    <2> QED
      BY <1>2, <2>1, XRpcFrame, MessageTypes, SMT
         DEF PickIsExact, CheckAndPick, XRpcCheckAndPick, IsValid, kMaxFrameSize, kFixedHeaderSize
  <1>3. Arrived => PickIsExact
    BY <1>1, <1>2, MessageTypes, SMT DEF PickIsExact
  <1> QED
    BY <1>3, ArrivedAlways, PTL

(***************************************************************************)
(* For every message and every prefix of the stream, the codec of the      *)
(* other protocol waits for its header and then refuses the connection.    *)
(***************************************************************************)
THEOREM RefusalCorrect == Spec => []WrongCodecRefuses
  <1>1. ASSUME Arrived, Sent, msg.proto = "Legacy" PROVE WrongCodecRefuses
    <2>1. (4 + msg.header.size + msg.body.size) \div 65536 < kMagicNumber
      BY <1>1, MessageTypes, SMT DEF kMagicNumber
    <2>2. ~IsValid(PeekFixedHeader(Frame))
      BY <1>1, <2>1, LegacyFrame, SMT DEF IsValid, kMagicNumber
    <2>3. XRpcCheckAndPick(Frame, n) = IF n < 16 THEN 0 ELSE -1
      BY <2>2, SMT DEF XRpcCheckAndPick, kFixedHeaderSize, kCodecInvalidMagic
    <2> QED
      BY <1>1, <2>3, MessageTypes, SMT
         DEF WrongCodecRefuses, CheckAndPick, Other, kFixedHeaderSize, kCodecInvalidMagic
  <1>2. ASSUME Arrived, Sent, msg.proto = "XRpc" PROVE WrongCodecRefuses
    <2>1. First32(Frame) > kMaxFrameSize
      BY <1>2, XRpcFrame, SMT DEF First32, kMagicNumber, kMaxFrameSize, kRequest
    <2>2. LegacyCheckAndPick(Frame, n) = IF n < 4 THEN 0 ELSE -2
      BY <2>1, SMT DEF LegacyCheckAndPick, kCodecOversized
    <2> QED
      BY <1>2, <2>2, MessageTypes, SMT
         DEF WrongCodecRefuses, CheckAndPick, Other, kFixedHeaderSize, kCodecOversized
  <1>3. Arrived => WrongCodecRefuses
    BY <1>1, <1>2, MessageTypes, SMT DEF WrongCodecRefuses
  <1> QED
    BY <1>3, ArrivedAlways, PTL

(***************************************************************************)
(* For every message, two bytes are enough for the factory to pick the     *)
(* right codec.                                                            *)
(***************************************************************************)
THEOREM ProbeCorrect == Spec => []ProbeDetects
  <1>1. ASSUME Arrived, Sent, msg.proto = "Legacy" PROVE ProbeDetects
    <2>1. (4 + msg.header.size + msg.body.size) \div 65536 < kMagicNumber
      BY <1>1, MessageTypes, SMT DEF kMagicNumber
    <2> QED
      BY <1>1, <2>1, LegacyFrame, SMT DEF ProbeDetects, CreateServerCodec, kMagicNumber
  <1>2. ASSUME Arrived, Sent, msg.proto = "XRpc" PROVE ProbeDetects
    BY <1>2, XRpcFrame, SMT DEF ProbeDetects, CreateServerCodec
  <1>3. Arrived => ProbeDetects
    BY <1>1, <1>2, MessageTypes, SMT DEF ProbeDetects
  <1> QED
    BY <1>3, ArrivedAlways, PTL

(***************************************************************************)
(* For every message, what the server decodes from a frame it accepted is  *)
(* what the client encoded, as long as the length of an XRpc header fits   *)
(* the 16 bits the encoder stores it in.                                   *)
(***************************************************************************)
THEOREM RoundTripCorrect == Spec => []RoundTrip
  <1> DEFINE want == [ret |-> kCodecOk, header |-> msg.header.val, body |-> msg.body]
  <1>0. ASSUME Arrived PROVE msg.body = [val |-> msg.body.val, size |-> msg.body.size]
    BY <1>0, MessagesAssumption DEF Arrived, Payload
  <1>1. ASSUME Arrived, Sent, msg.proto = "Legacy" PROVE RoundTrip
    <2>1. Frame.header = msg.header /\ Frame.body = msg.body
      BY <1>1 DEF Frame, Encoded, ClientEncode, LegacyClientEncode
    <2>2. First32(Frame) - 4 - Frame.header.size = msg.body.size
      BY <1>1, <2>1, LegacyFrame, MessageTypes
    <2>3. DecodeLegacy(Frame) = {want}
      BY <1>0, <1>1, <2>1, <2>2, LegacyFrame DEF DecodeLegacy, DecodedOutcome
    <2> QED
      BY <1>1, <2>3 DEF RoundTrip, ServerDecode
  <1>2. ASSUME Arrived, Sent, msg.proto = "XRpc", msg.header.size < 65536 PROVE RoundTrip
    <2> DEFINE fh == PeekFixedHeader(Frame)
    <2>1. Frame.header = msg.header /\ Frame.body = msg.body
      BY <1>2 DEF Sent, Frame, Encoded, ClientEncode, XRpcEncode, kCodecOversized, kCodecOk
    <2>2. /\ IsValid(fh) /\ fh.header_size = msg.header.size
          /\ fh.total_size = 16 + msg.header.size + msg.body.size
      BY <1>2, XRpcFrame, MessageTypes DEF IsValid
    <2> HIDE DEF fh
    <2>3. BodySize(fh) = msg.body.size
      BY <1>2, <2>2, MessageTypes DEF BodySize, kFixedHeaderSize
    <2>4. DecodeXRpc(fh, Frame) = {want}
      BY <1>0, <1>2, <2>1, <2>2, <2>3 DEF DecodeXRpc, DecodedOutcome
    <2> QED
      BY <1>2, <2>4 DEF RoundTrip, ServerDecode, fh
  <1>3. Arrived => RoundTrip
    BY <1>1, <1>2, MessageTypes DEF RoundTrip, HeaderFits
  <1> QED
    BY <1>3, ArrivedAlways, PTL

-----------------------------------------------------------------------------
(***************************************************************************)
(* A block that holds an unread byte, as every block of the deque does.    *)
(***************************************************************************)
Filled == {b \in Block : b.offset < Len(b.data)}

LEMMA FilledBlock ==
  ASSUME NEW b \in Filled
  PROVE  /\ b.data \in Seq(Bytes) /\ b.offset \in Nat /\ Len(b.data) \in Nat
         /\ BlockSize(b) \in Nat /\ BlockSize(b) > 0
         /\ Unread(b) \in Seq(Bytes) /\ Len(Unread(b)) = BlockSize(b)
         /\ b = [data |-> b.data, offset |-> b.offset]
  <1>1. b.data \in Seq(Bytes) /\ b.offset \in Nat /\ b.offset < Len(b.data)
        /\ b = [data |-> b.data, offset |-> b.offset]
    BY DEF Filled, Block
  <1>2. PICK p \in Nat : p = Len(b.data)
    BY <1>1
  <1>3. /\ SubSeq(b.data, b.offset + 1, p) \in Seq(Bytes)
        /\ Len(SubSeq(b.data, b.offset + 1, p)) = Beyond(p, b.offset)
    <2>1. p <= Len(b.data)
      BY <1>2
    <2> QED
      BY <1>1, <2>1, CutLength
  <1>4. BlockSize(b) \in Nat /\ BlockSize(b) > 0 /\ Beyond(p, b.offset) = BlockSize(b)
    BY <1>1, <1>2 DEF Beyond, BlockSize
  <1> QED
    BY <1>1, <1>2, <1>3, <1>4 DEF Unread

LEMMA CutOfUnread ==
  ASSUME NEW b \in Filled, NEW j \in Nat, NEW k \in Nat, k <= BlockSize(b)
  PROVE  SubSeq(Unread(b), j + 1, k) = SubSeq(b.data, (b.offset + j) + 1, b.offset + k)
  <1>1. PICK o \in Nat : o = b.offset
    BY FilledBlock
  <1>2. PICK d \in Seq(Bytes) : d = b.data
    BY FilledBlock
  <1>3. o + k <= Len(d)
    BY <1>1, <1>2, FilledBlock DEF BlockSize
  <1>4. SubSeq(SubSeq(d, o + 1, Len(d)), j + 1, k) = SubSeq(d, (o + j) + 1, o + k)
    BY <1>3, CutOfCut
  <1> QED
    BY <1>1, <1>2, <1>4 DEF Unread

LEMMA JoinedAppend ==
  ASSUME NEW bs \in Seq(Filled), NEW b \in Filled
  PROVE  /\ Joined(bs) \in Seq(Bytes)
         /\ Append(bs, b) \in Seq(Filled)
         /\ Joined(Append(bs, b)) = Joined(bs) \o Unread(b)
  <1>1. PICK cnt \in Nat : cnt = Len(bs)
    OBVIOUS
  <1>2. \A i \in 1 .. cnt : bs[i] \in Filled
    BY <1>1
  <1>3. PICK q : q = [i \in 1 .. cnt |-> Unread(bs[i])]
    OBVIOUS
  <1>4. q \in Seq(Seq(Bytes)) /\ Len(q) = cnt /\ \A i \in 1 .. cnt : q[i] = Unread(bs[i])
    <2>1. \A i \in 1 .. cnt : Unread(bs[i]) \in Seq(Bytes)
      BY <1>2, FilledBlock
    <2> QED
      BY <1>3, <2>1
  <1>5. Unread(b) \in Seq(Bytes)
    BY FilledBlock
  <1>6. PICK cs : cs = Append(bs, b)
    OBVIOUS
  <1>7. /\ cs \in Seq(Filled) /\ Len(cs) = cnt + 1 /\ cs[cnt + 1] = b
        /\ \A i \in 1 .. cnt : cs[i] = bs[i]
    BY <1>1, <1>6, AppendProperties
  <1>8. PICK r : r = [i \in 1 .. cnt + 1 |-> Unread(cs[i])]
    OBVIOUS
  <1>9. PICK t : t = Append(q, Unread(b))
    OBVIOUS
  <1>10. /\ t \in Seq(Seq(Bytes)) /\ Len(t) = cnt + 1 /\ t[cnt + 1] = Unread(b)
         /\ \A i \in 1 .. cnt : t[i] = q[i]
    BY <1>4, <1>5, <1>9, AppendProperties
  <1>11. t = [i \in 1 .. cnt + 1 |-> t[i]]
    BY <1>10, LenProperties
  <1>12. r = t
    <2>1. ASSUME NEW i \in 1 .. cnt + 1 PROVE Unread(cs[i]) = t[i]
      <3>1. CASE i = cnt + 1
        BY <1>7, <1>10, <3>1
      <3>2. CASE i # cnt + 1
        <4>1. i \in 1 .. cnt
          BY <3>2
        <4> QED
          BY <1>4, <1>7, <1>10, <4>1
      <3> QED
        BY <3>1, <3>2
    <2> QED
      BY <1>8, <1>11, <2>1
  <1>13. FlattenSeq(q) \in Seq(Bytes) /\ FlattenSeq(t) = FlattenSeq(q) \o Unread(b)
    BY <1>4, <1>5, <1>9, FlattenAppend
  <1>14. Joined(bs) = FlattenSeq(q) /\ Joined(cs) = FlattenSeq(r)
    BY <1>1, <1>3, <1>7, <1>8 DEF Joined
  <1> QED
    BY <1>6, <1>7, <1>12, <1>13, <1>14

LEMMA JoinedNone == Joined(<< >>) = << >>
  <1>1. [i \in 1 .. Len(<< >>) |-> Unread(<< >>[i])] = << >>
    OBVIOUS
  <1>2. FlattenSeq(<< >>) = << >>
    BY DEF FlattenSeq
  <1> QED
    BY <1>1, <1>2 DEF Joined

-----------------------------------------------------------------------------
(***************************************************************************)
(* Skip.  After the blocks whose unread bytes are a, what is left to skip  *)
(* is what len exceeds them by, and the blocks kept hold what of a comes   *)
(* after len.                                                              *)
(***************************************************************************)
Skipping == [len : Nat, kept : Seq(Filled)]

SkippedOver(acc, len, a) ==
  acc.len = Beyond(len, Len(a)) /\ Joined(acc.kept) = SubSeq(a, len + 1, Len(a))

LEMMA SkipInBlockType ==
  ASSUME NEW acc \in Skipping, NEW b \in Filled
  PROVE  SkipInBlock(acc, b) \in Skipping
  <1>1. acc.len \in Nat /\ acc.kept \in Seq(Filled) /\ acc = [len |-> acc.len, kept |-> acc.kept]
    BY DEF Skipping
  <1>2. BlockSize(b) \in Nat /\ b.offset \in Nat /\ BlockSize(b) = Len(b.data) - b.offset
        /\ Len(b.data) \in Nat
    BY FilledBlock DEF BlockSize
  <1>3. CASE acc.len > 0 /\ acc.len >= BlockSize(b)
    <2>1. acc.len - BlockSize(b) \in Nat
      BY <1>1, <1>2, <1>3
    <2>2. SkipInBlock(acc, b) = [len |-> acc.len - BlockSize(b), kept |-> acc.kept]
      BY <1>1, <1>3 DEF SkipInBlock
    <2> QED
      BY <1>1, <2>1, <2>2 DEF Skipping
  <1>4. CASE ~(acc.len > 0 /\ acc.len >= BlockSize(b))
    <2>1. PICK c : c = [data |-> b.data, offset |-> b.offset + acc.len]
      OBVIOUS
    <2>2. [b EXCEPT !.offset = @ + acc.len] = c
      BY <2>1, FilledBlock
    <2>3. c \in Filled
      <3>1. b.offset + acc.len \in Nat /\ b.offset + acc.len < Len(b.data)
        <4>1. BlockSize(b) > 0
          BY FilledBlock
        <4> QED
          BY <1>1, <1>2, <1>4, <4>1
      <3> QED
        BY <2>1, <3>1, FilledBlock DEF Filled, Block
    <2>4. Append(acc.kept, c) \in Seq(Filled)
      BY <1>1, <2>3
    <2>5. SkipInBlock(acc, b) = [len |-> 0, kept |-> Append(acc.kept, c)]
      BY <1>4, <2>2 DEF SkipInBlock
    <2> QED
      BY <2>4, <2>5 DEF Skipping
  <1> QED
    BY <1>3, <1>4

LEMMA SkipInBlockStep ==
  ASSUME NEW acc \in Skipping, NEW b \in Filled, NEW len \in Nat, NEW a \in Seq(Bytes),
         SkippedOver(acc, len, a)
  PROVE  SkippedOver(SkipInBlock(acc, b), len, a \o Unread(b))
  <1>1. acc.len \in Nat /\ acc.kept \in Seq(Filled) /\ acc = [len |-> acc.len, kept |-> acc.kept]
    BY DEF Skipping
  <1>2. PICK u \in Seq(Bytes) : u = Unread(b)
    BY FilledBlock
  <1>3. PICK p \in Nat : p = Len(a)
    OBVIOUS
  <1>4. PICK z \in Nat : z = Len(u) /\ z = BlockSize(b) /\ z > 0
    BY <1>2, FilledBlock
  <1>5. PICK l \in Nat : l = acc.len /\ l = Beyond(len, p)
    BY <1>1, <1>3 DEF SkippedOver
  <1>6. a \o u \in Seq(Bytes) /\ Len(a \o u) = p + z
    BY <1>3, <1>4, ConcatProperties
  <1>7. SubSeq(a \o u, len + 1, p + z) = SubSeq(a, len + 1, p) \o SubSeq(u, l + 1, z)
    <2>1. PICK e \in Nat : e = p + z
      OBVIOUS
    <2>2. AtMost(e, p) = p /\ Beyond(e, p) = z
      BY <1>4, <2>1 DEF AtMost, Beyond
    <2>3. e <= Len(a) + Len(u)
      BY <1>3, <1>4, <2>1
    <2>4. SubSeq(a \o u, len + 1, e) =
            SubSeq(a, len + 1, AtMost(e, Len(a))) \o SubSeq(u, Beyond(len, Len(a)) + 1, Beyond(e, Len(a)))
      BY <2>3, CutConcat
    <2> QED
      BY <1>3, <1>5, <2>1, <2>2, <2>4
  <1>8. SubSeq(a, len + 1, p) \in Seq(Bytes)
    <2>1. p <= Len(a)
      BY <1>3
    <2> QED
      BY <2>1, CutLength
  <1>9. CASE l > 0 /\ l >= z
    <2>1. SkipInBlock(acc, b) = [len |-> l - z, kept |-> acc.kept]
      BY <1>1, <1>4, <1>5, <1>9 DEF SkipInBlock
    <2>2. l - z = Beyond(len, p + z)
      BY <1>4, <1>5, <1>9 DEF Beyond
    <2>3. SubSeq(u, l + 1, z) = << >>
      <3>1. l + 1 \in Int /\ z \in Int /\ z < l + 1
        BY <1>4, <1>9
      <3> QED
        BY <3>1, SubSeqEmpty
    <2>4. SubSeq(a, len + 1, p) \o << >> = SubSeq(a, len + 1, p)
      BY <1>8, ConcatEmptySeq
    <2>5. Joined(acc.kept) = SubSeq(a \o u, len + 1, p + z)
      BY <1>3, <1>7, <2>3, <2>4 DEF SkippedOver
    <2> QED
      BY <1>2, <1>6, <2>1, <2>2, <2>5 DEF SkippedOver
  <1>10. CASE ~(l > 0 /\ l >= z)
    <2>1. PICK c : c = [data |-> b.data, offset |-> b.offset + l]
      OBVIOUS
    <2>2. SkipInBlock(acc, b) = [len |-> 0, kept |-> Append(acc.kept, c)]
      <3>1. [b EXCEPT !.offset = @ + acc.len] = c
        BY <1>5, <2>1, FilledBlock
      <3> QED
        BY <1>4, <1>5, <1>10, <3>1 DEF SkipInBlock
    <2>3. c \in Filled
      <3>1. b.offset + l \in Nat /\ b.offset + l < Len(b.data)
        BY <1>4, <1>10, FilledBlock DEF BlockSize
      <3> QED
        BY <2>1, <3>1, FilledBlock DEF Filled, Block
    <2>4. Unread(c) = SubSeq(u, l + 1, z)
      <3>1. SubSeq(Unread(b), l + 1, z) = SubSeq(b.data, (b.offset + l) + 1, b.offset + z)
        <4>1. z <= BlockSize(b)
          BY <1>4
        <4> QED
          BY <4>1, CutOfUnread
      <3>2. b.offset + z = Len(b.data)
        BY <1>4, FilledBlock DEF BlockSize
      <3> QED
        BY <1>2, <2>1, <3>1, <3>2 DEF Unread
    <2>5. Joined(Append(acc.kept, c)) = Joined(acc.kept) \o Unread(c)
      BY <1>1, <2>3, JoinedAppend
    <2>6. Joined(Append(acc.kept, c)) = SubSeq(a \o u, len + 1, p + z)
      BY <1>3, <1>7, <2>4, <2>5 DEF SkippedOver
    <2>7. Beyond(len, p + z) = 0
      BY <1>4, <1>5, <1>10 DEF Beyond
    <2> QED
      BY <1>2, <1>6, <2>2, <2>6, <2>7 DEF SkippedOver
  <1> QED
    BY <1>9, <1>10

(***************************************************************************)
(* The prefixes of the buffer's contents, one block after the other.       *)
(***************************************************************************)
LEMMA ContentsPrefixes ==
  ASSUME NEW bs \in Seq(Filled)
  PROVE  \E F \in [0 .. Len(bs) -> Seq(Bytes)] :
           /\ F[0] = << >> /\ F[Len(bs)] = Joined(bs)
           /\ \A i \in 1 .. Len(bs) : F[i] = F[i - 1] \o Unread(bs[i])
  <1>1. PICK cnt \in Nat : cnt = Len(bs) /\ \A i \in 1 .. cnt : bs[i] \in Filled
    OBVIOUS
  <1>2. PICK q : q = [i \in 1 .. cnt |-> Unread(bs[i])]
    OBVIOUS
  <1>3. q \in Seq(Seq(Bytes)) /\ Len(q) = cnt /\ \A i \in 1 .. cnt : q[i] = Unread(bs[i])
    <2>1. \A i \in 1 .. cnt : Unread(bs[i]) \in Seq(Bytes)
      BY <1>1, FilledBlock
    <2> QED
      BY <1>2, <2>1
  <1>4. PICK F \in [0 .. cnt -> Seq(Bytes)] : JoinsUpTo(F, q) /\ FlattenSeq(q) = F[cnt]
    BY <1>3, FlattenPrefixes
  <1>5. Joined(bs) = FlattenSeq(q)
    BY <1>1, <1>2 DEF Joined
  <1> QED
    BY <1>1, <1>3, <1>4, <1>5 DEF JoinsUpTo

LEMMA SkipBlocksCuts ==
  ASSUME blocks \in Seq(Filled), NEW len \in Nat
  PROVE  /\ SkipBlocks(len) \in Seq(Filled)
         /\ Joined(SkipBlocks(len)) = SubSeq(Contents, len + 1, Len(Contents))
  <1>1. PICK cnt \in Nat : cnt = Len(blocks) /\ \A i \in 1 .. cnt : blocks[i] \in Filled
    OBVIOUS
  <1>2. PICK base : base = [len |-> len, kept |-> << >>]
    OBVIOUS
  <1>3. base \in Skipping
    BY <1>2 DEF Skipping
  <1> DEFINE Loop(g) == g = [i \in 0 .. cnt |-> IF i = 0 THEN [len |-> len, kept |-> << >>]
                                              ELSE SkipInBlock(g[i - 1], blocks[i])]
  <1>4. \E g : Loop(g)
    <2>1. PICK step : step = [x \in Skipping \X (1 .. cnt) |-> SkipInBlock(x[1], blocks[x[2]])]
      OBVIOUS
    <2>2. step \in [Skipping \X (1 .. cnt) -> Skipping]
      <3>1. ASSUME NEW x \in Skipping \X (1 .. cnt) PROVE SkipInBlock(x[1], blocks[x[2]]) \in Skipping
        BY <1>1, SkipInBlockType
      <3> QED
        BY <2>1, <3>1
    <2>3. PICK g \in [0 .. cnt -> Skipping] : Rounds(g, step, base, cnt)
      BY <1>3, <2>2, LoopExists
    <2>4. ASSUME NEW i \in 1 .. cnt PROVE g[i] = SkipInBlock(g[i - 1], blocks[i])
      <3>1. <<g[i - 1], i>> \in Skipping \X (1 .. cnt)
        <4>1. i - 1 \in 0 .. cnt
          OBVIOUS
        <4> QED
          BY <4>1
      <3>2. step[<<g[i - 1], i>>] = SkipInBlock(g[i - 1], blocks[i])
        BY <2>1, <3>1
      <3> QED
        BY <2>3, <3>2 DEF Rounds
    <2>5. ASSUME NEW i \in 0 .. cnt
          PROVE  g[i] = IF i = 0 THEN base ELSE SkipInBlock(g[i - 1], blocks[i])
      <3>1. CASE i = 0
        BY <2>3, <3>1 DEF Rounds
      <3>2. CASE i # 0
        <4>1. i \in 1 .. cnt
          BY <3>2
        <4> QED
          BY <2>4, <3>2, <4>1
      <3> QED
        BY <3>1, <3>2
    <2>6. g = [i \in 0 .. cnt |-> g[i]]
      OBVIOUS
    <2>7. Loop(g)
      BY <1>2, <2>5, <2>6
    <2> QED
      BY <2>7
  <1>5. PICK g : Loop(g) /\ SkipBlocks(len) = g[cnt].kept
    <2>1. Loop(CHOOSE g : Loop(g))
      <3> HIDE DEF Loop
      <3> QED
        BY <1>4
    <2>2. SkipBlocks(len) = (CHOOSE g : Loop(g))[cnt].kept
      BY <1>1 DEF SkipBlocks
    <2> QED
      BY <2>1, <2>2
  <1>6. g[0] = base /\ \A i \in 1 .. cnt : g[i] = SkipInBlock(g[i - 1], blocks[i])
    BY <1>2, <1>5
  <1>7. PICK F \in [0 .. cnt -> Seq(Bytes)] :
           /\ F[0] = << >> /\ F[cnt] = Contents
           /\ \A i \in 1 .. cnt : F[i] = F[i - 1] \o Unread(blocks[i])
    BY <1>1, ContentsPrefixes DEF Contents
  <1> DEFINE Holds(i) == g[i] \in Skipping /\ SkippedOver(g[i], len, F[i])
  <1>8. PICK T : T = {i \in 0 .. cnt : ~Holds(i)}
    OBVIOUS
  <1>9. ASSUME T # {} PROVE FALSE
    <2>0. T \subseteq Nat
      BY <1>8
    <2>1. PICK k \in T : \A y \in T : k <= y
      BY <1>9, <2>0, LeastNat
    <2>2. k \in 0 .. cnt /\ ~Holds(k)
      BY <1>8
    <2>3. CASE k = 0
      <3>1. g[0] \in Skipping
        BY <1>3, <1>6
      <3>2. Beyond(len, 0) = len /\ Len(<< >>) = 0
        BY DEF Beyond
      <3>3. SubSeq(<< >>, len + 1, 0) = << >>
        BY SubSeqEmpty
      <3>4. SkippedOver(base, len, << >>)
        BY <1>2, <3>2, <3>3, JoinedNone DEF SkippedOver
      <3> QED
        BY <1>6, <1>7, <2>2, <2>3, <3>1, <3>4
    <2>4. CASE k # 0
      <3>1. k \in 1 .. cnt /\ k - 1 \in 0 .. cnt /\ ~(k <= k - 1)
        BY <2>2, <2>4
      <3>2. Holds(k - 1)
        BY <1>8, <2>1, <3>1
      <3>3. blocks[k] \in Filled /\ F[k - 1] \in Seq(Bytes)
        BY <1>1, <1>7, <3>1
      <3>4. SkipInBlock(g[k - 1], blocks[k]) \in Skipping
        BY <3>2, <3>3, SkipInBlockType
      <3>5. SkippedOver(SkipInBlock(g[k - 1], blocks[k]), len, F[k - 1] \o Unread(blocks[k]))
        BY <3>2, <3>3, SkipInBlockStep
      <3> QED
        BY <1>6, <1>7, <2>2, <3>1, <3>4, <3>5
    <2> QED
      BY <2>3, <2>4
  <1>10. Holds(cnt)
    <2>1. cnt \in 0 .. cnt
      OBVIOUS
    <2> HIDE DEF Holds
    <2> QED
      BY <1>8, <1>9, <2>1
  <1> QED
    BY <1>5, <1>7, <1>10 DEF Skipping, SkippedOver


-----------------------------------------------------------------------------
(***************************************************************************)
(* Peek.  After the blocks whose unread bytes are a, what has been copied  *)
(* is the window of a, and what is left is the rest of to_read.            *)
(***************************************************************************)
Peeking == [copied : Seq(Bytes), left : Nat, skip : Nat]

PeekedOver(acc, to_read, o, a) ==
  /\ acc.copied = SubSeq(a, o + 1, AtMost(o + to_read, Len(a)))
  /\ acc.left = to_read - Beyond(AtMost(o + to_read, Len(a)), o)
  /\ acc.skip = Beyond(o, Len(a))

LEMMA PeekInBlockType ==
  ASSUME NEW acc \in Peeking, NEW b \in Filled
  PROVE  PeekInBlock(acc, b) \in Peeking
  <1>1. /\ acc.copied \in Seq(Bytes) /\ acc.left \in Nat /\ acc.skip \in Nat
        /\ acc = [copied |-> acc.copied, left |-> acc.left, skip |-> acc.skip]
    BY DEF Peeking
  <1>2. PICK z \in Nat : z = BlockSize(b)
    BY FilledBlock
  <1>3. CASE acc.skip >= z
    <2>1. acc.skip - z \in Nat
      BY <1>1, <1>3
    <2>2. PeekInBlock(acc, b) = [copied |-> acc.copied, left |-> acc.left, skip |-> acc.skip - z]
      BY <1>1, <1>2, <1>3 DEF PeekInBlock
    <2> QED
      BY <1>1, <2>1, <2>2 DEF Peeking
  <1>4. CASE ~(acc.skip >= z)
    <2>1. PICK f \in Nat : f = (IF acc.left < z - acc.skip THEN acc.left ELSE z - acc.skip)
                           /\ f <= acc.left /\ acc.skip + f <= z
      <3>1. z - acc.skip \in Nat
        BY <1>1, <1>4
      <3> QED
        BY <1>1, <3>1
    <2>2. PICK w : w = SubSeq(b.data, b.offset + acc.skip + 1, b.offset + acc.skip + f)
      OBVIOUS
    <2>3. PeekInBlock(acc, b) = [copied |-> acc.copied \o w, left |-> acc.left - f, skip |-> 0]
      BY <1>2, <1>4, <2>1, <2>2 DEF PeekInBlock
    <2>4. w \in Seq(Bytes)
      <3>1. PICK o \in Nat : o = b.offset + acc.skip
        BY <1>1, FilledBlock
      <3>2. PICK e \in Nat : e = b.offset + acc.skip + f
        BY <1>1, FilledBlock
      <3>3. b.data \in Seq(Bytes) /\ e <= Len(b.data)
        BY <1>1, <1>2, <2>1, <3>2, FilledBlock DEF BlockSize
      <3>4. SubSeq(b.data, o + 1, e) \in Seq(Bytes)
        BY <3>3, CutLength
      <3> QED
        BY <2>2, <3>1, <3>2, <3>4
    <2>5. acc.copied \o w \in Seq(Bytes) /\ acc.left - f \in Nat
      BY <1>1, <2>1, <2>4
    <2> QED
      BY <2>3, <2>5 DEF Peeking
  <1> QED
    BY <1>3, <1>4

LEMMA PeekInBlockStep ==
  ASSUME NEW acc \in Peeking, NEW b \in Filled, NEW to_read \in Nat, NEW o \in Nat,
         NEW a \in Seq(Bytes), PeekedOver(acc, to_read, o, a)
  PROVE  PeekedOver(PeekInBlock(acc, b), to_read, o, a \o Unread(b))
  <1>1. /\ acc.copied \in Seq(Bytes) /\ acc.left \in Nat /\ acc.skip \in Nat
        /\ acc = [copied |-> acc.copied, left |-> acc.left, skip |-> acc.skip]
    BY DEF Peeking
  <1>2. PICK u \in Seq(Bytes) : u = Unread(b)
    BY FilledBlock
  <1>a. ASSUME NEW e \in Nat, e <= Len(a) + Len(u)
        PROVE  SubSeq(a \o u, o + 1, e) =
                 SubSeq(a, o + 1, AtMost(e, Len(a))) \o SubSeq(u, Beyond(o, Len(a)) + 1, Beyond(e, Len(a)))
    BY <1>a, CutConcat
  <1>3. PICK p \in Nat : p = Len(a)
    OBVIOUS
  <1>4. PICK z \in Nat : z = Len(u) /\ z = BlockSize(b) /\ z > 0
    BY <1>2, FilledBlock
  <1>5. PICK ea \in Nat : ea = AtMost(o + to_read, p)
    <2>1. o + to_read \in Nat
      OBVIOUS
    <2> QED
      BY <2>1, CutTypes
  <1>6. PICK e \in Nat : e = AtMost(o + to_read, p + z)
    <2>1. o + to_read \in Nat /\ p + z \in Nat
      OBVIOUS
    <2> QED
      BY <2>1, CutTypes
  <1>7. PICK s \in Nat : s = Beyond(o, p)
    BY CutTypes
  <1>8. acc.copied = SubSeq(a, o + 1, ea) /\ acc.left = to_read - Beyond(ea, o) /\ acc.skip = s
    BY <1>3, <1>5, <1>7 DEF PeekedOver
  <1>9. PICK l \in Nat : l = acc.left /\ l = to_read - Beyond(ea, o)
    BY <1>1, <1>8
  <1>10. /\ AtMost(e, p) = ea /\ e <= p + z
         /\ s >= z => s - z = Beyond(o, p + z) /\ Beyond(ea, o) = Beyond(e, o) /\ Beyond(e, p) < s + 1
         /\ ~(s >= z) => /\ Beyond(o, p + z) = 0
                         /\ s + AtMost(l, z - s) = Beyond(e, p)
                         /\ s + AtMost(l, z - s) <= z
                         /\ l - AtMost(l, z - s) = to_read - Beyond(e, o)
    <2>1. z > 0 /\ l = to_read - Beyond(ea, o)
      BY <1>4, <1>9
    <2>2. CASE o >= p + z
      BY <1>5, <1>6, <1>7, <2>1, <2>2 DEF AtMost, Beyond
    <2>3. CASE o < p + z /\ o > p
      BY <1>5, <1>6, <1>7, <2>1, <2>3 DEF AtMost, Beyond
    <2>4. CASE o <= p
      BY <1>5, <1>6, <1>7, <2>1, <2>4 DEF AtMost, Beyond
    <2> QED
      BY <2>2, <2>3, <2>4
  <1>11. a \o u \in Seq(Bytes) /\ Len(a \o u) = p + z
    BY <1>3, <1>4, ConcatProperties
  <1>12. SubSeq(a \o u, o + 1, e) = acc.copied \o SubSeq(u, s + 1, Beyond(e, p))
    <2>1. e <= Len(a) + Len(u)
      BY <1>3, <1>4, <1>10
    <2>2. SubSeq(a \o u, o + 1, e) =
            SubSeq(a, o + 1, AtMost(e, Len(a))) \o SubSeq(u, Beyond(o, Len(a)) + 1, Beyond(e, Len(a)))
      BY <1>a, <2>1
    <2> QED
      BY <1>3, <1>7, <1>8, <1>10, <2>2
  <1>13. PICK r : r = PeekInBlock(acc, b)
    OBVIOUS
  <1>14. CASE s >= z
    <2>1. r = [copied |-> acc.copied, left |-> acc.left, skip |-> s - z]
      BY <1>1, <1>4, <1>8, <1>13, <1>14 DEF PeekInBlock
    <2>2. SubSeq(u, s + 1, Beyond(e, p)) = << >>
      <3>1. Beyond(e, p) \in Nat /\ Beyond(e, p) < s + 1
        BY <1>10, <1>14, CutTypes
      <3> QED
        BY <3>1, SubSeqEmpty
    <2>3. SubSeq(a \o u, o + 1, e) = acc.copied
      BY <1>1, <1>12, <2>2, ConcatEmptySeq
    <2>4. /\ r.copied = SubSeq(a \o u, o + 1, e) /\ r.left = to_read - Beyond(e, o)
          /\ r.skip = Beyond(o, p + z)
      BY <1>8, <1>10, <1>14, <2>1, <2>3
    <2> QED
      BY <1>2, <1>6, <1>11, <1>13, <2>4 DEF PeekedOver
  <1>15. CASE ~(s >= z)
    <2>1. PICK f \in Nat : f = AtMost(l, z - s)
      <3>1. z - s \in Nat
        BY <1>15
      <3> QED
        BY <3>1, CutTypes
    <2>2. PICK w : w = SubSeq(b.data, b.offset + s + 1, b.offset + s + f)
      OBVIOUS
    <2>3. r = [copied |-> acc.copied \o w, left |-> acc.left - f, skip |-> 0]
      BY <1>4, <1>8, <1>9, <1>13, <1>15, <2>1, <2>2 DEF PeekInBlock, AtMost
    <2>4. PICK k \in Nat : k = s + f
      OBVIOUS
    <2>5. k = Beyond(e, p) /\ k <= BlockSize(b)
      BY <1>4, <1>10, <1>15, <2>1, <2>4
    <2>6. w = SubSeq(u, s + 1, k)
      <3>1. k <= BlockSize(b)
        BY <2>5
      <3>2. SubSeq(Unread(b), s + 1, k) = SubSeq(b.data, (b.offset + s) + 1, b.offset + k)
        BY <3>1, CutOfUnread
      <3>3. b.offset + k = b.offset + s + f
        <4>1. b.offset \in Nat
          BY FilledBlock
        <4> QED
          BY <2>4, <4>1
      <3> QED
        BY <1>2, <2>2, <3>2, <3>3
    <2>7. SubSeq(a \o u, o + 1, e) = acc.copied \o w
      BY <1>12, <2>5, <2>6
    <2>8. /\ r.copied = SubSeq(a \o u, o + 1, e) /\ r.left = to_read - Beyond(e, o)
          /\ r.skip = Beyond(o, p + z)
      BY <1>9, <1>10, <1>15, <2>1, <2>3, <2>7
    <2> QED
      BY <1>2, <1>6, <1>11, <1>13, <2>8 DEF PeekedOver
  <1> QED
    BY <1>14, <1>15

LEMMA PeekBlocksCuts ==
  ASSUME blocks \in Seq(Filled), NEW to_read \in Nat, NEW offset \in Nat
  PROVE  PeekBlocks(to_read, offset) =
           SubSeq(Contents, offset + 1, AtMost(offset + to_read, Len(Contents)))
  <1>1. PICK cnt \in Nat : cnt = Len(blocks) /\ \A i \in 1 .. cnt : blocks[i] \in Filled
    OBVIOUS
  <1>2. PICK base : base = [copied |-> << >>, left |-> to_read, skip |-> offset]
    OBVIOUS
  <1>3. base \in Peeking
    BY <1>2 DEF Peeking
  <1> DEFINE Loop(g) == g = [i \in 0 .. cnt |->
                               IF i = 0 THEN [copied |-> << >>, left |-> to_read, skip |-> offset]
                               ELSE PeekInBlock(g[i - 1], blocks[i])]
  <1>4. \E g : Loop(g)
    <2>1. PICK step : step = [x \in Peeking \X (1 .. cnt) |-> PeekInBlock(x[1], blocks[x[2]])]
      OBVIOUS
    <2>2. step \in [Peeking \X (1 .. cnt) -> Peeking]
      <3>1. ASSUME NEW x \in Peeking \X (1 .. cnt) PROVE PeekInBlock(x[1], blocks[x[2]]) \in Peeking
        BY <1>1, PeekInBlockType
      <3> QED
        BY <2>1, <3>1
    <2>3. PICK g \in [0 .. cnt -> Peeking] : Rounds(g, step, base, cnt)
      BY <1>3, <2>2, LoopExists
    <2>4. ASSUME NEW i \in 1 .. cnt PROVE g[i] = PeekInBlock(g[i - 1], blocks[i])
      <3>1. <<g[i - 1], i>> \in Peeking \X (1 .. cnt)
        <4>1. i - 1 \in 0 .. cnt
          OBVIOUS
        <4> QED
          BY <4>1
      <3>2. step[<<g[i - 1], i>>] = PeekInBlock(g[i - 1], blocks[i])
        BY <2>1, <3>1
      <3> QED
        BY <2>3, <3>2 DEF Rounds
    <2>5. ASSUME NEW i \in 0 .. cnt
          PROVE  g[i] = IF i = 0 THEN base ELSE PeekInBlock(g[i - 1], blocks[i])
      <3>1. CASE i = 0
        BY <2>3, <3>1 DEF Rounds
      <3>2. CASE i # 0
        <4>1. i \in 1 .. cnt
          BY <3>2
        <4> QED
          BY <2>4, <3>2, <4>1
      <3> QED
        BY <3>1, <3>2
    <2>6. g = [i \in 0 .. cnt |-> g[i]]
      OBVIOUS
    <2>7. Loop(g)
      BY <1>2, <2>5, <2>6
    <2> QED
      BY <2>7
  <1>5. PICK g : Loop(g) /\ PeekBlocks(to_read, offset) = g[cnt].copied
    <2>1. Loop(CHOOSE g : Loop(g))
      <3> HIDE DEF Loop
      <3> QED
        BY <1>4
    <2>2. PeekBlocks(to_read, offset) = (CHOOSE g : Loop(g))[cnt].copied
      BY <1>1 DEF PeekBlocks
    <2> QED
      BY <2>1, <2>2
  <1>6. g[0] = base /\ \A i \in 1 .. cnt : g[i] = PeekInBlock(g[i - 1], blocks[i])
    BY <1>2, <1>5
  <1>7. PICK F \in [0 .. cnt -> Seq(Bytes)] :
           /\ F[0] = << >> /\ F[cnt] = Contents
           /\ \A i \in 1 .. cnt : F[i] = F[i - 1] \o Unread(blocks[i])
    BY <1>1, ContentsPrefixes DEF Contents
  <1> DEFINE Holds(i) == g[i] \in Peeking /\ PeekedOver(g[i], to_read, offset, F[i])
  <1>8. PICK T : T = {i \in 0 .. cnt : ~Holds(i)}
    OBVIOUS
  <1>9. ASSUME T # {} PROVE FALSE
    <2>0. T \subseteq Nat
      BY <1>8
    <2>1. PICK k \in T : \A y \in T : k <= y
      BY <1>9, <2>0, LeastNat
    <2>2. k \in 0 .. cnt /\ ~Holds(k)
      BY <1>8
    <2>3. CASE k = 0
      <3>1. g[0] \in Peeking
        BY <1>3, <1>6
      <3>2. /\ AtMost(offset + to_read, 0) = 0 /\ Beyond(0, offset) = 0
            /\ Beyond(offset, 0) = offset /\ Len(<< >>) = 0
        BY DEF AtMost, Beyond
      <3>3. SubSeq(<< >>, offset + 1, 0) = << >>
        BY SubSeqEmpty
      <3>4. PeekedOver(base, to_read, offset, << >>)
        BY <1>2, <3>2, <3>3 DEF PeekedOver
      <3> QED
        BY <1>6, <1>7, <2>2, <2>3, <3>1, <3>4
    <2>4. CASE k # 0
      <3>1. k \in 1 .. cnt /\ k - 1 \in 0 .. cnt /\ ~(k <= k - 1)
        BY <2>2, <2>4
      <3>2. Holds(k - 1)
        BY <1>8, <2>1, <3>1
      <3>3. blocks[k] \in Filled /\ F[k - 1] \in Seq(Bytes)
        BY <1>1, <1>7, <3>1
      <3>4. PeekInBlock(g[k - 1], blocks[k]) \in Peeking
        BY <3>2, <3>3, PeekInBlockType
      <3>5. PeekedOver(PeekInBlock(g[k - 1], blocks[k]), to_read, offset, F[k - 1] \o Unread(blocks[k]))
        BY <3>2, <3>3, PeekInBlockStep
      <3> QED
        BY <1>6, <1>7, <2>2, <3>1, <3>4, <3>5
    <2> QED
      BY <2>3, <2>4
  <1>10. Holds(cnt)
    <2>1. cnt \in 0 .. cnt
      OBVIOUS
    <2> HIDE DEF Holds
    <2> QED
      BY <1>8, <1>9, <2>1
  <1> QED
    BY <1>5, <1>7, <1>10 DEF Peeking, PeekedOver


-----------------------------------------------------------------------------
(***************************************************************************)
(* What the two operations make of the blocks and of their contents.       *)
(***************************************************************************)
LEMMA FilledBlocks ==
  \A bs : bs \in Seq(Filled) <=> /\ bs \in Seq(Block)
                                 /\ \A i \in 1 .. Len(bs) : bs[i].offset < Len(bs[i].data)
  <1> TAKE bs
  <1>1. ASSUME bs \in Seq(Block), \A i \in 1 .. Len(bs) : bs[i].offset < Len(bs[i].data)
        PROVE  bs \in Seq(Filled)
    <2>1. \A i \in 1 .. Len(bs) : bs[i] \in Filled
      BY <1>1 DEF Filled
    <2> QED
      BY <1>1, <2>1
  <1>2. ASSUME bs \in Seq(Filled)
        PROVE  bs \in Seq(Block) /\ \A i \in 1 .. Len(bs) : bs[i].offset < Len(bs[i].data)
    <2>1. Filled \subseteq Block
      BY DEF Filled
    <2>2. bs \in Seq(Block)
      BY <1>2, <2>1, SeqMonotonic
    <2>3. \A i \in 1 .. Len(bs) : bs[i] \in Filled
      BY <1>2
    <2> QED
      BY <2>2, <2>3 DEF Filled
  <1> QED
    BY <1>1, <1>2

LEMMA JoinedType ==
  ASSUME NEW bs \in Seq(Filled)
  PROVE  Joined(bs) \in Seq(Bytes)
  <1>1. CASE bs = << >>
    BY <1>1, JoinedNone, EmptySeq
  <1>2. CASE bs # << >>
    <2>1. bs[1] \in Filled
      BY <1>2
    <2> QED
      BY <2>1, JoinedAppend
  <1> QED
    BY <1>1, <1>2

LEMMA BytesAssociative ==
  \A a, b, c \in Seq(Bytes) : (a \o b) \o c = a \o (b \o c)
  BY ConcatAssociative

LEMMA AppendAtEnd ==
  ASSUME BufferTypeOK, NEW data \in Chunks, AppendBytes(data)
  PROVE  BufferTypeOK' /\ Contents' = Contents \o data
  <1>1. blocks \in Seq(Filled) /\ readable = Len(Contents)
    BY FilledBlocks DEF BufferTypeOK
  <1>2. data \in Seq(Bytes)
    BY CallersAssumption
  <1>3. Contents \in Seq(Bytes)
    BY <1>1, JoinedType DEF Contents
  <1>4. Len(Contents \o data) = Len(Contents) + Len(data)
    BY <1>2, <1>3, ConcatProperties
  <1>5. blocks' \in Seq(Filled) /\ Joined(blocks') = Contents \o data
    <2>1. CASE data = << >>
      <3>1. blocks' = blocks /\ Contents \o data = Contents
        BY <1>3, <2>1, ConcatEmptySeq DEF AppendBytes
      <3> QED
        BY <1>1, <3>1 DEF Contents
    <2>2. CASE data # << >> /\ Extends
      <3>1. PICK front \in Seq(Filled), last \in Filled : blocks = Append(front, last)
        BY <1>1, <2>2, SequenceEmptyOrAppend DEF Extends
      <3>2. PICK cnt \in Nat : cnt = Len(front)
        OBVIOUS
      <3>3. Len(blocks) = cnt + 1 /\ blocks[cnt + 1] = last /\ \A i \in 1 .. cnt : blocks[i] = front[i]
        BY <3>1, <3>2, AppendProperties
      <3>4. last.offset = 0
        BY <2>2, <3>3 DEF Extends, Last
      <3>5. PICK grown : grown = [data |-> last.data \o data, offset |-> 0]
        OBVIOUS
      <3>6. last.data \in Seq(Bytes) /\ last = [data |-> last.data, offset |-> 0]
        BY <3>4, FilledBlock
      <3>7. last.data \o data \in Seq(Bytes) /\ Len(last.data \o data) = Len(last.data) + Len(data)
        BY <1>2, <3>6, ConcatProperties
      <3>8. grown \in Filled
        <4>1. Len(last.data) > 0 /\ Len(last.data) \in Nat /\ Len(data) \in Nat
          BY <1>2, <3>4, FilledBlock DEF BlockSize
        <4> QED
          BY <3>5, <3>7, <4>1 DEF Filled, Block
      <3>9. blocks' = Append(front, grown)
        <4>1. blocks' = [blocks EXCEPT ![cnt + 1] = [last EXCEPT !.data = @ \o data]]
          BY <2>2, <3>3 DEF AppendBytes
        <4>2. [last EXCEPT !.data = @ \o data] = grown
          <5>1. PICK d : d = last.data
            OBVIOUS
          <5>2. PICK x : x = d \o data
            OBVIOUS
          <5>3. [[data |-> d, offset |-> 0] EXCEPT !.data = x] = [data |-> x, offset |-> 0]
            OBVIOUS
          <5> QED
            BY <3>5, <3>6, <5>1, <5>2, <5>3
        <4>3. PICK r : r = Append(front, grown)
          OBVIOUS
        <4>4. /\ r \in Seq(Filled) /\ Len(r) = cnt + 1 /\ r[cnt + 1] = grown
              /\ \A i \in 1 .. cnt : r[i] = front[i]
          BY <3>2, <3>8, <4>3, AppendProperties
        <4>5. PICK t : t = [blocks EXCEPT ![cnt + 1] = grown]
          OBVIOUS
        <4>6. /\ t \in Seq(Filled) /\ Len(t) = cnt + 1
              /\ \A i \in 1 .. cnt + 1 : t[i] = IF i = cnt + 1 THEN grown ELSE blocks[i]
          <5>1. cnt + 1 \in 1 .. Len(blocks)
            BY <3>3
          <5> QED
            BY <1>1, <3>3, <3>8, <4>5, <5>1, ExceptSeq
        <4>7. \A i \in 1 .. Len(r) : r[i] = t[i]
          <5>1. ASSUME NEW i \in 1 .. cnt + 1 PROVE r[i] = t[i]
            <6>1. CASE i = cnt + 1
              BY <4>4, <4>6, <6>1
            <6>2. CASE i # cnt + 1
              <7>1. i \in 1 .. cnt
                BY <6>2
              <7> QED
                BY <3>3, <4>4, <4>6, <6>2, <7>1
            <6> QED
              BY <6>1, <6>2
          <5> QED
            BY <4>4, <5>1
        <4>8. r = t
          BY <4>4, <4>6, <4>7, SeqEqual
        <4> QED
          BY <4>1, <4>2, <4>3, <4>5, <4>8
      <3>10. Unread(grown) = Unread(last) \o data
        <4>1. Unread(last) = last.data
          BY <3>4, <3>6, SubSeqFull DEF Unread
        <4>2. Unread(grown) = last.data \o data
          BY <3>5, <3>7, SubSeqFull DEF Unread
        <4> QED
          BY <4>1, <4>2
      <3>11. /\ Joined(front) \in Seq(Bytes) /\ Unread(last) \in Seq(Bytes)
             /\ Contents = Joined(front) \o Unread(last)
        BY <3>1, FilledBlock, JoinedAppend DEF Contents
      <3>12. /\ Append(front, grown) \in Seq(Filled)
             /\ Joined(Append(front, grown)) = Joined(front) \o Unread(grown)
        BY <3>8, JoinedAppend
      <3>13. Joined(front) \o (Unread(last) \o data) = (Joined(front) \o Unread(last)) \o data
        <4>1. PICK j \in Seq(Bytes) : j = Joined(front)
          BY <3>11
        <4>2. PICK u \in Seq(Bytes) : u = Unread(last)
          BY <3>11
        <4>3. (j \o u) \o data = j \o (u \o data)
          BY <1>2, BytesAssociative
        <4> QED
          BY <4>1, <4>2, <4>3
      <3> QED
        BY <3>9, <3>10, <3>11, <3>12, <3>13
    <2>3. CASE data # << >> /\ ~Extends
      <3>1. PICK new : new = [data |-> data, offset |-> 0]
        OBVIOUS
      <3>2. blocks' = Append(blocks, new)
        BY <2>3, <3>1 DEF AppendBytes
      <3>3. new \in Filled
        <4>1. Len(data) \in Nat \ {0}
          BY <1>2, <2>3, EmptySeq
        <4> QED
          BY <1>2, <3>1, <4>1 DEF Filled, Block
      <3>4. Unread(new) = data
        BY <1>2, <3>1, SubSeqFull DEF Unread
      <3> QED
        BY <1>1, <3>2, <3>3, <3>4, JoinedAppend DEF Contents
    <2> QED
      BY <2>1, <2>2, <2>3
  <1>6. readable' = Len(Contents')
    BY <1>1, <1>4, <1>5 DEF AppendBytes, Contents
  <1> QED
    BY <1>5, <1>6, FilledBlocks DEF BufferTypeOK, Contents

LEMMA SkipInFront ==
  ASSUME BufferTypeOK, NEW len \in Lengths, Skip(len)
  PROVE  BufferTypeOK' /\ Contents' = SubSeq(Contents, len + 1, Len(Contents))
  <1>1. blocks \in Seq(Filled) /\ readable = Len(Contents) /\ len \in Nat
    BY CallersAssumption, FilledBlocks DEF BufferTypeOK
  <1>2. Contents \in Seq(Bytes)
    BY <1>1, JoinedType DEF Contents
  <1>3. PICK c \in Seq(Bytes) : c = Contents
    BY <1>2
  <1>4. PICK p \in Nat : p = Len(c) /\ p = readable
    BY <1>1, <1>3
  <1>5. CASE len >= readable
    <2>1. blocks' = << >> /\ readable' = 0
      BY <1>5 DEF Skip
    <2>2. SubSeq(c, len + 1, p) = << >>
      <3>1. len + 1 \in Int /\ p < len + 1
        BY <1>1, <1>4, <1>5
      <3> QED
        BY <3>1, SubSeqEmpty
    <2>3. Contents' = << >>
      BY <2>1, JoinedNone DEF Contents
    <2>4. << >> \in Seq(Filled) /\ Len(<< >>) = 0
      OBVIOUS
    <2>5. BufferTypeOK'
      BY <2>1, <2>3, <2>4, FilledBlocks DEF BufferTypeOK
    <2> QED
      BY <1>3, <1>4, <2>2, <2>3, <2>5
  <1>6. CASE ~(len >= readable)
    <2>1. blocks' = SkipBlocks(len) /\ readable' = readable - len
      BY <1>6 DEF Skip
    <2>2. blocks' \in Seq(Filled) /\ Joined(blocks') = SubSeq(c, len + 1, p)
      BY <1>1, <1>3, <1>4, <2>1, SkipBlocksCuts
    <2>3. Len(SubSeq(c, len + 1, p)) = readable - len
      <3>1. p <= Len(c)
        BY <1>4
      <3>2. Len(SubSeq(c, len + 1, p)) = Beyond(p, len)
        BY <1>1, <3>1, CutLength
      <3> QED
        BY <1>1, <1>4, <1>6, <3>2 DEF Beyond
    <2>4. BufferTypeOK'
      BY <2>1, <2>2, <2>3, FilledBlocks DEF BufferTypeOK, Contents
    <2> QED
      BY <1>3, <1>4, <2>2, <2>4 DEF Contents
  <1> QED
    BY <1>5, <1>6

(***************************************************************************)
(* BufferTypeCorrect: whatever is appended and skipped, every block holds  *)
(* an unread byte and readable_ counts the unread bytes.  The invariant is *)
(* inductive.                                                              *)
(***************************************************************************)
THEOREM BufferTypeCorrect == BufferSpec => []BufferTypeOK
  <1>1. BufferInit => BufferTypeOK
    <2>1. << >> \in Seq(Filled) /\ Len(<< >>) = 0
      OBVIOUS
    <2> QED
      BY <2>1, FilledBlocks, JoinedNone DEF BufferInit, BufferTypeOK, Contents
  <1>2. BufferTypeOK /\ [BufferNext]_bufferVars => BufferTypeOK'
    <2> SUFFICES ASSUME BufferTypeOK, [BufferNext]_bufferVars PROVE BufferTypeOK'
      OBVIOUS
    <2>1. ASSUME NEW data \in Chunks, AppendBytes(data) PROVE BufferTypeOK'
      BY <2>1, AppendAtEnd
    <2>2. ASSUME NEW len \in Lengths, Skip(len) PROVE BufferTypeOK'
      BY <2>2, SkipInFront
    <2>3. CASE UNCHANGED bufferVars
      BY <2>3 DEF bufferVars, BufferTypeOK, Contents
    <2> QED
      BY <2>1, <2>2, <2>3 DEF BufferNext
  <1> QED
    BY <1>1, <1>2, PTL DEF BufferSpec

(***************************************************************************)
(* PeekCorrect: Peek copies the window of the unread bytes it was asked    *)
(* for, wherever the boundaries of blocks lie; ToString copies them all.   *)
(* It follows from the types in every state.                               *)
(***************************************************************************)
THEOREM PeekCorrect == BufferSpec => []PeekIsWindow
  <1>1. BufferTypeOK => PeekIsWindow
    <2> SUFFICES ASSUME BufferTypeOK PROVE PeekIsWindow
      OBVIOUS
    <2>1. blocks \in Seq(Filled) /\ readable = Len(Contents)
      BY FilledBlocks DEF BufferTypeOK
    <2>2. PICK c \in Seq(Bytes) : c = Contents
      BY <2>1, JoinedType DEF Contents
    <2>3. PICK p \in Nat : p = Len(c) /\ p = readable
      BY <2>1, <2>2
    <2>4. ASSUME NEW len \in Nat, NEW offset \in Nat
          PROVE  Peek(len, offset) = SubSeq(c, offset + 1, IF offset + len < p THEN offset + len ELSE p)
      <3>1. CASE offset >= p
        <4>1. PICK e \in Nat : e = IF offset + len < p THEN offset + len ELSE p
          OBVIOUS
        <4>2. offset + 1 \in Int /\ e < offset + 1
          BY <3>1, <4>1
        <4>3. SubSeq(c, offset + 1, e) = << >>
          BY <4>2, SubSeqEmpty
        <4> QED
          BY <2>3, <3>1, <4>1, <4>3 DEF Peek
      <3>2. CASE ~(offset >= p)
        <4>1. PICK r \in Nat : r = IF len < p - offset THEN len ELSE p - offset
          <5>1. p - offset \in Nat
            BY <3>2
          <5> QED
            BY <5>1
        <4>2. Peek(len, offset) = PeekBlocks(r, offset)
          BY <2>3, <3>2, <4>1 DEF Peek
        <4>3. PeekBlocks(r, offset) = SubSeq(c, offset + 1, AtMost(offset + r, p))
          BY <2>1, <2>2, <2>3, PeekBlocksCuts
        <4>4. AtMost(offset + r, p) = IF offset + len < p THEN offset + len ELSE p
          BY <3>2, <4>1 DEF AtMost
        <4> QED
          BY <4>2, <4>3, <4>4
      <3> QED
        BY <3>1, <3>2
    <2>5. AsString = c
      <3>1. Peek(p, 0) = SubSeq(c, 0 + 1, IF 0 + p < p THEN 0 + p ELSE p)
        BY <2>4
      <3>2. SubSeq(c, 1, p) = c
        BY <2>3, SubSeqFull
      <3> QED
        BY <2>3, <3>1, <3>2 DEF AsString
    <2>6. ASSUME NEW len \in Lengths, NEW offset \in Lengths
          PROVE  Peek(len, offset) = SubSeq(c, offset + 1, IF offset + len < p THEN offset + len ELSE p)
      BY <2>4, CallersAssumption
    <2> QED
      BY <2>2, <2>3, <2>5, <2>6 DEF PeekIsWindow
  <1> QED
    BY <1>1, BufferTypeCorrect, PTL

(***************************************************************************)
(* BufferRefinement: the deque of blocks implements one queue of bytes,    *)
(* for every limit of a block and all chunks and lengths.                  *)
(***************************************************************************)
THEOREM BufferRefinement == BufferSpec => ImplementsQueue
  <1>1. BufferInit => Queue!Init
    BY JoinedNone DEF BufferInit, Contents, Queue!Init
  <1>2. BufferTypeOK /\ [BufferNext]_bufferVars => [Queue!Next]_Contents
    <2> SUFFICES ASSUME BufferTypeOK, [BufferNext]_bufferVars PROVE [Queue!Next]_Contents
      OBVIOUS
    <2>1. ASSUME NEW data \in Chunks, AppendBytes(data) PROVE Queue!Next
      <3>1. Queue!Put(data)
        BY <2>1, AppendAtEnd DEF Queue!Put
      <3> QED
        BY <3>1 DEF Queue!Next
    <2>2. ASSUME NEW len \in Lengths, Skip(len) PROVE Queue!Next
      <3>1. Queue!Skip(len)
        BY <2>2, SkipInFront DEF Queue!Skip
      <3> QED
        BY <3>1 DEF Queue!Next
    <2>3. CASE UNCHANGED bufferVars
      BY <2>3 DEF bufferVars, Contents
    <2> QED
      BY <2>1, <2>2, <2>3 DEF BufferNext
  <1> QED
    BY <1>1, <1>2, BufferTypeCorrect, PTL DEF BufferSpec, ImplementsQueue, Queue!Spec
=============================================================================
