---------------------------- MODULE FrameArrival ----------------------------
(***************************************************************************)
(* A request frame, encoded by one of the client codecs, arrives at a      *)
(* server in TCP segments of any size, possibly followed by the first      *)
(* bytes of the next frame.  The properties say what the server codecs     *)
(* make of every prefix of it.                                             *)
(***************************************************************************)
EXTENDS FrameCodec, FiniteSets

CONSTANTS Messages,   \* requests: [proto, header, body], the parts as [val, size]
          Offsets     \* how many bytes may have arrived after a segment

Payload == [val : {"h", "b"}, size : Nat]

(***************************************************************************)
(* The parts of a message stay far below the 2 GB protobuf can serialise.  *)
(***************************************************************************)
ASSUME MessagesAssumption ==
  /\ Messages \subseteq [proto : Protocols, header : Payload, body : Payload]
  /\ \A m \in Messages : m.header.size <= 20000000 /\ m.body.size <= 20000000
ASSUME OffsetsAssumption == Offsets \subseteq Nat

VARIABLES msg,   \* the request being sent
          n      \* bytes of the stream in the receive buffer

vars == <<msg, n>>

Encoded == ClientEncode(msg.proto, msg.header, msg.body)
Frame   == Encoded.frame
Sent    == Encoded.ret = kCodecOk

Other(p) == IF p = "XRpc" THEN "Legacy" ELSE "XRpc"

Init == msg \in Messages /\ n = 0

(***************************************************************************)
(* muduo appends one more segment to the connection's input buffer.        *)
(***************************************************************************)
Arrive == /\ Sent
          /\ \E m \in Offsets : n < m /\ m <= FrameSize(Frame) + kFixedHeaderSize /\ n' = m
          /\ UNCHANGED msg

Next == Arrive

Spec == Init /\ [][Next]_vars
-----------------------------------------------------------------------------
(***************************************************************************)
(* A server codec accepts a frame of its own protocol exactly when its     *)
(* last byte is there, never earlier, whatever follows it in the buffer,   *)
(* and reports exactly the frame's size: a half packet waits, a sticky     *)
(* packet is cut at the right byte.  A Legacy frame over the limit is      *)
(* refused as soon as its length is readable.                              *)
(***************************************************************************)
PickIsExact ==
  Sent => CheckAndPick(msg.proto, Frame, n) =
            IF msg.proto = "Legacy" /\ 4 + msg.header.size + msg.body.size > kMaxFrameSize
            THEN IF n < 4 THEN 0 ELSE kCodecOversized
            ELSE IF n < FrameSize(Frame) THEN 0 ELSE FrameSize(Frame)

(***************************************************************************)
(* A codec never accepts a frame of the other protocol as one of its own:  *)
(* it waits for the bytes of its first header, then refuses the stream     *)
(* (what the single shared codec of RpcServer relies on to fail cleanly).  *)
(***************************************************************************)
WrongCodecRefuses ==
  Sent => LET r == CheckAndPick(Other(msg.proto), Frame, n)
          IN  /\ r <= 0
              /\ n >= kFixedHeaderSize => r \in {kCodecInvalidMagic, kCodecOversized}

(***************************************************************************)
(* The factory's two-byte probe recognises the protocol of the frame.      *)
(***************************************************************************)
ProbeDetects ==
  Sent /\ n >= 2 => CreateServerCodec(Frame, n) = msg.proto

(***************************************************************************)
(* What the server decodes from a frame it accepted is what the client     *)
(* encoded, the body's length included, up to the 65535 bytes of header    *)
(* whose length the XRpc encoder can store.  A longer header is truncated  *)
(* without an error, and the message does not survive.                     *)
(***************************************************************************)
HeaderFits == msg.proto = "XRpc" => msg.header.size < 65536

RoundTrip ==
  Sent /\ HeaderFits /\ CheckAndPick(msg.proto, Frame, n) > 0 =>
    ServerDecode(msg.proto, Frame) =
      {[ret |-> kCodecOk, header |-> msg.header.val, body |-> msg.body]}
=============================================================================
