----------------------------- MODULE FrameCodec -----------------------------
(***************************************************************************)
(* The two wire protocols of the codec layer (src/src/codec): XRpc         *)
(* (16-byte FixedHeader, variable header, body) and Legacy (4-byte length, *)
(* 4-byte header length, RpcHeader, body).                                 *)
(*                                                                         *)
(* A piece of payload is a record [val, size]: what it says and how many   *)
(* bytes it takes.  Header fields keep their width, and the FixedHeader    *)
(* lies in memory in one of two byte orders; the host is little-endian.    *)
(***************************************************************************)
EXTENDS Integers

kMagicNumber     == 19282          \* 0x4B52
kFixedHeaderSize == 16
kMaxFrameSize    == 16777216       \* 16 MB

kCodecOk           == 0
kCodecIncomplete   == 1
kCodecInvalidMagic == -1
kCodecOversized    == -2
kCodecParseError   == -3

kRequest  == 0
kResponse == 1

Protocols == {"Legacy", "XRpc"}

-----------------------------------------------------------------------------
(***************************************************************************)
(* htons = ntohs and htonl = ntohl on a little-endian host.                *)
(***************************************************************************)
Swap16(x) == ((x % 256) * 256) + (x \div 256)
Swap32(x) == (Swap16(x % 65536) * 65536) + Swap16(x \div 65536)

SwapFields(fh) == [fh EXCEPT !.magic = Swap16(@), !.total_size = Swap32(@),
                             !.header_size = Swap16(@)]

(***************************************************************************)
(* A FixedHeader as it lies in memory: its values and the byte order they  *)
(* are stored in.  HToN and NToH reverse the bytes in place.               *)
(***************************************************************************)
HToN(fh)  == [order |-> "net", fh |-> fh]
NToH(img) == [img EXCEPT !.order = "host"]

\* Wrong: forgets that total_size counts the fixed header.
BodySizeNoFixed(fh) == fh.total_size - fh.header_size

IsValid(fh)  == fh.magic = kMagicNumber
BodySize(fh) == IF fh.total_size < kFixedHeaderSize + fh.header_size THEN 0
                ELSE fh.total_size - kFixedHeaderSize - fh.header_size

-----------------------------------------------------------------------------
(***************************************************************************)
(* Encoders.  An XRpc frame holds the image of its FixedHeader, a Legacy   *)
(* frame its length prefix (total, always in network order).  The XRpc     *)
(* encoders store the header length in 16 bits.                            *)
(***************************************************************************)
FixedHeaderOf(type, header, body) ==
  [magic       |-> kMagicNumber,
   type        |-> type,
   total_size  |-> kFixedHeaderSize + header.size + body.size,
   header_size |-> header.size % 65536]

XRpcEncode(type, header, body) ==
  LET fh == FixedHeaderOf(type, header, body)
  IN  IF fh.total_size > kMaxFrameSize
      THEN [ret |-> kCodecOversized]
      ELSE [ret   |-> kCodecOk,
            frame |-> [proto |-> "XRpc", fh |-> HToN(fh), header |-> header, body |-> body]]

LegacyClientEncode(header, body) ==
  [ret   |-> kCodecOk,
   frame |-> [proto |-> "Legacy", total |-> 4 + header.size + body.size,
              header |-> header, body |-> body]]

LegacyServerEncode(body) ==
  [ret |-> kCodecOk, frame |-> [proto |-> "Legacy", total |-> body.size, body |-> body]]

ClientEncode(proto, header, body) ==
  IF proto = "XRpc" THEN XRpcEncode(kRequest, header, body)
                    ELSE LegacyClientEncode(header, body)

ServerEncode(proto, header, body) ==
  IF proto = "XRpc" THEN XRpcEncode(kResponse, header, body)
                    ELSE LegacyServerEncode(body)

-----------------------------------------------------------------------------
(***************************************************************************)
(* PeekFixedHeader at the head of a stream that starts with frame f reads  *)
(* the fields as network order.  On a Legacy frame the magic is the upper  *)
(* half of the length prefix, and the rest is never looked at: no Legacy   *)
(* frame carries the magic (WrongCodecRefuses).                            *)
(***************************************************************************)
PeekFixedHeader(f) ==
  IF f.proto = "XRpc"
  THEN IF f.fh.order = "net" THEN f.fh.fh ELSE SwapFields(f.fh.fh)
  ELSE [magic |-> f.total \div 65536, type |-> kRequest, total_size |-> 0, header_size |-> 0]

(***************************************************************************)
(* The first four bytes of the stream as a network-order length.           *)
(***************************************************************************)
First32(f) ==
  IF f.proto = "XRpc"
  THEN PeekFixedHeader(f).magic * 65536 + PeekFixedHeader(f).type * 256
  ELSE f.total

(***************************************************************************)
(* CheckAndPick of the two server codecs on a buffer whose readable bytes  *)
(* are the first n bytes of a stream that starts with frame f.             *)
(***************************************************************************)
XRpcCheckAndPick(f, n) ==
  LET fh == PeekFixedHeader(f)
  IN  IF n < kFixedHeaderSize THEN 0
      ELSE IF ~IsValid(fh) THEN kCodecInvalidMagic
      ELSE IF fh.total_size > kMaxFrameSize \/ fh.total_size < kFixedHeaderSize
           THEN kCodecOversized
      ELSE IF fh.header_size > fh.total_size - kFixedHeaderSize THEN kCodecParseError
      ELSE IF n < fh.total_size THEN 0
      ELSE fh.total_size

\* Wrong: the size without the length prefix, with a second one, no limit.
LegacyPickNoPrefix(f, n) ==
  IF n < 4 \/ n < 4 + First32(f) THEN 0 ELSE First32(f)
LegacyPickTwoPrefixes(f, n) ==
  IF n < 4 \/ n < 4 + First32(f) THEN 0 ELSE 8 + First32(f)
LegacyPickNoLimit(f, n) ==
  IF n < 4 \/ n < 4 + First32(f) THEN 0 ELSE 4 + First32(f)

LegacyCheckAndPick(f, n) ==
  LET total_len == First32(f)
  IN  IF n < 4 THEN 0
      ELSE IF total_len > kMaxFrameSize THEN kCodecOversized
      ELSE IF total_len < 4 THEN kCodecParseError
      ELSE IF n < 4 + total_len THEN 0
      ELSE 4 + total_len

CheckAndPick(proto, f, n) ==
  IF proto = "XRpc" THEN XRpcCheckAndPick(f, n) ELSE LegacyCheckAndPick(f, n)

(***************************************************************************)
(* Decoders.  The header message is read from header_size bytes: when the  *)
(* 16-bit field lost bits those bytes are a prefix of the header and the   *)
(* rest of it is taken for body, so protobuf either rejects it or yields a *)
(* message nobody sent.  The result is the set of possible outcomes.       *)
(***************************************************************************)
Garbled == "garbled"

GarbledOutcomes(n) ==
  {[ret |-> kCodecParseError],
   [ret |-> kCodecOk, header |-> Garbled, body |-> [val |-> Garbled, size |-> n]]}

DecodedOutcome(f, n) ==
  {[ret |-> kCodecOk, header |-> f.header.val, body |-> [val |-> f.body.val, size |-> n]]}

DecodeXRpc(fh, f) ==
  IF ~IsValid(fh) THEN {[ret |-> kCodecInvalidMagic]}
  ELSE IF fh.header_size = f.header.size THEN DecodedOutcome(f, BodySize(fh))
  ELSE GarbledOutcomes(BodySize(fh))

DecodeLegacy(f) ==
  IF f.proto = "Legacy" THEN DecodedOutcome(f, First32(f) - 4 - f.header.size)
                        ELSE GarbledOutcomes(First32(f))

ServerDecode(proto, f) ==
  IF proto = "XRpc" THEN DecodeXRpc(PeekFixedHeader(f), f) ELSE DecodeLegacy(f)

(***************************************************************************)
(* The client codecs decode a response frame that was read in full: n is   *)
(* the number of bytes handed to the codec.                                *)
(***************************************************************************)
XRpcClientDecode(f, n) ==
  LET fh == PeekFixedHeader(f)
  IN  IF ~IsValid(fh) THEN {[ret |-> kCodecInvalidMagic]}
      ELSE IF fh.total_size > kMaxFrameSize THEN {[ret |-> kCodecOversized]}
      ELSE IF n < fh.total_size THEN {[ret |-> kCodecIncomplete]}
      ELSE DecodeXRpc(fh, f)

LegacyClientDecode(f, n) ==
  LET total_len == First32(f)
  IN  IF total_len > kMaxFrameSize THEN {[ret |-> kCodecOversized]}
      ELSE IF n < 4 + total_len THEN {[ret |-> kCodecIncomplete]}
      ELSE {[ret |-> kCodecOk, body |-> [val |-> f.body.val, size |-> total_len]]}

(***************************************************************************)
(* CodecFactory::CreateServerCodec on a probe of n bytes.                  *)
(***************************************************************************)
\* Wrong: asks for four bytes before it looks at two.
ProbeWholeWord(f, n) ==
  IF n >= 4 /\ PeekFixedHeader(f).magic = kMagicNumber THEN "XRpc" ELSE "Legacy"

CreateServerCodec(f, n) ==
  IF n >= 2 /\ PeekFixedHeader(f).magic = kMagicNumber THEN "XRpc" ELSE "Legacy"

(***************************************************************************)
(* Bytes a request frame takes on the wire.                                *)
(***************************************************************************)
FrameSize(f) == IF f.proto = "XRpc" THEN kFixedHeaderSize + f.header.size + f.body.size
                                    ELSE 8 + f.header.size + f.body.size
=============================================================================
