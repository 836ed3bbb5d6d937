-------------------------- MODULE RpcSystemProofs ---------------------------
(***************************************************************************)
(* Channels and the server together: theorems for every number of          *)
(* channels, connections, loops and calls, with a server that dies and     *)
(* comes back at any time.                                                 *)
(***************************************************************************)
EXTENDS RpcSystem, RpcServerProofs, SequenceTheorems

-----------------------------------------------------------------------------
(***************************************************************************)
(* Every frame the server can put on a connection.                         *)
(***************************************************************************)
Reply(p, m, id) == ServerEncode(p, ResponseHeader, ResponseBody(m, id))

Responses == {Reply(a[1], a[2], a[3]).frame :
                a \in {b \in ({"none"} \cup Protocols) \X Services \X Nat :
                         Reply(b[1], b[2], b[3]).ret = kCodecOk}}

HeaderPart(g) == [part |-> "header", frame |-> g]
BodyPart(g)   == [part |-> "body", frame |-> g]
ReplyParts    == [part : {"header", "body"}, frame : Responses]

-----------------------------------------------------------------------------
(***************************************************************************)
(* The inductive invariant.  A call that waits has its request in exactly  *)
(* one place: on the wire, in the reply stage of the connection's loop, or *)
(* in the response, of which a crash may have cut any part off.            *)
(***************************************************************************)
Stages == {"construct", "idle", "query", "connect", "send", "recvHeader", "recvBody",
           "decode", "gone"}

ChannelState ==
  /\ reply \in [Conns -> Seq(ReplyParts)]
  /\ pc \in [Channels -> Stages]
  /\ fd \in [Channels -> Conns \cup {NoFd}]
  /\ name \in [Channels -> Methods \cup {""}]
  /\ call \in [Channels -> [method : Methods \cup {""}, id : Nat]]
  /\ DOMAIN frame_buf = Channels
  /\ failed \in [Channels -> BOOLEAN]
  /\ calls \in [Channels -> 0 .. MaxCalls]
  /\ DOMAIN outcome = Channels

Replying(c) == task[LoopOf[c]].pc = "reply" /\ task[LoopOf[c]].conn = c

Quiet(c) == wire[c] = << >> /\ reply[c] = << >> /\ ~Replying(c)

BodyLeft(c) == wire[c] = << >> /\ ~Replying(c) /\ Len(reply[c]) <= 1

Pending(c, id) ==
  \/ Len(wire[c]) = 1 /\ WireId(c, 1) = id /\ reply[c] = << >> /\ ~Replying(c)
  \/ wire[c] = << >> /\ reply[c] = << >> /\ Replying(c) /\ task[LoopOf[c]].id = id
  \/ /\ wire[c] = << >> /\ ~Replying(c)
     /\ \/ reply[c] = << >>
        \/ \E g \in Responses : g.body.val.id = id /\ reply[c] \in {Parts(g), <<HeaderPart(g)>>}

(***************************************************************************)
(* What a channel knows of its socket in each stage.                       *)
(***************************************************************************)
SocketOf(ch) ==
  /\ pc[ch] \in {"construct", "query", "connect", "gone"} => fd[ch] = NoFd
  /\ pc[ch] \in {"send", "recvHeader", "recvBody", "decode"} => fd[ch] # NoFd
  /\ fd[ch] # NoFd => OwnerOf[fd[ch]] = ch /\ peer[fd[ch]] = "open"

Conversation(ch) ==
  \A c \in Conns, id \in Nat :
    fd[ch] = c /\ call[ch].id = id =>
      /\ pc[ch] \in {"idle", "send", "decode"} => Quiet(c)
      /\ pc[ch] = "recvHeader" => Pending(c, id)
      /\ pc[ch] = "recvBody" => BodyLeft(c)

(***************************************************************************)
(* What was read belongs to this call, and an XRpc client has turned the   *)
(* fixed header round: its magic number is never valid again.              *)
(***************************************************************************)
ReadFrame(ch) ==
  pc[ch] \in {"recvBody", "decode"} =>
    /\ frame_buf[ch].body.val.id = call[ch].id
    /\ Proto(ch) = "XRpc" => ~IsValid(PeekFixedHeader(frame_buf[ch]))

Verdict(ch) ==
  /\ pc[ch] = "construct" => calls[ch] = 0
  /\ pc[ch] \notin {"construct", "idle", "gone"} => name[ch] \in Methods /\ call[ch].method \in Methods
  /\ outcome[ch].ok \in BOOLEAN
  /\ pc[ch] = "idle" /\ calls[ch] > 0 /\ outcome[ch].ok
       => outcome[ch].got.id = call[ch].id /\ Proto(ch) # "XRpc"

(***************************************************************************)
(* No socket is open that its channel does not hold; one not yet opened    *)
(* has never carried anything and occupies no loop.                        *)
(***************************************************************************)
SocketKept(c) == peer[c] = "open" => fd[OwnerOf[c]] = c
Fresh(c) == peer[c] = "unused" => conn[c] = "unused" /\ wire[c] = << >> /\ reply[c] = << >>
TaskUsed(l) == task[l] # Idle => conn[task[l].conn] # "unused"

SystemInv ==
  /\ ServerInv
  /\ ChannelState
  /\ \A ch \in Channels : SocketOf(ch) /\ Conversation(ch) /\ ReadFrame(ch) /\ Verdict(ch)
  /\ \A c \in Conns : SocketKept(c) /\ Fresh(c)
  /\ \A l \in Loops : TaskUsed(l)

-----------------------------------------------------------------------------
(***************************************************************************)
(* What the server encodes is a response, with the number of its request.  *)
(***************************************************************************)
LEMMA EncodedResponse ==
  ASSUME NEW p \in {"none"} \cup Protocols, NEW m \in Services, NEW id \in Nat,
         Reply(p, m, id).ret = kCodecOk
  PROVE  Reply(p, m, id).frame \in Responses /\ Reply(p, m, id).frame.body.val.id = id
  <1> DEFINE e == Reply(p, m, id)
             a == <<p, m, id>>
  <1>1. e.frame.body = ResponseBody(m, id)
    BY SMT DEF Reply, ServerEncode, LegacyServerEncode, XRpcEncode, kCodecOk, kCodecOversized
  <1>2. e.frame.body.val.id = id
    BY <1>1, SMT DEF ResponseBody
  <1>3. a \in ({"none"} \cup Protocols) \X Services \X Nat /\ Reply(a[1], a[2], a[3]) = e
    OBVIOUS
  <1>4. e.ret = kCodecOk
    OBVIOUS
  <1> HIDE DEF a, e
  <1>5. e.frame \in Responses
    BY <1>3, <1>4 DEF Responses
  <1> QED
    BY <1>2, <1>5 DEF e

(***************************************************************************)
(* What a client makes of a response: the number of bytes after the fixed  *)
(* part, and, if it speaks XRpc, whether it can be taken for a frame of    *)
(* its own before and after the header was turned round.                   *)
(***************************************************************************)
LEMMA ResponseFields ==
  ASSUME NEW g \in Responses
  PROVE  /\ BodyBytes(g) \in Nat
         /\ g.proto # "XRpc" => ~IsValid(PeekFixedHeader(g))
         /\ g.proto = "XRpc" => ~IsValid(PeekFixedHeader(FrameBuf(g)))
         /\ FrameBuf(g).body = g.body
  <1>1. PICK p \in {"none"} \cup Protocols, m \in Services, id \in Nat :
          Reply(p, m, id).ret = kCodecOk /\ g = Reply(p, m, id).frame
    BY DEF Responses
  <1>2. RespSize[m] \in Nat /\ RespSize[m] <= 20000000
    BY SizesAssumption, ServicesAssumption, SMT
  <1> DEFINE h == ResponseHeader
             b == ResponseBody(m, id)
             fh == FixedHeaderOf(kResponse, h, b)
  <1>3. h.size = 0 /\ b.size = RespSize[m]
    BY DEF ResponseHeader, ResponseBody
  <1>4. CASE p # "XRpc"
    <2> HIDE DEF h, b
    <2>1. g = [proto |-> "Legacy", total |-> b.size, body |-> b]
      BY <1>1, <1>4, SMT DEF Reply, ServerEncode, LegacyServerEncode, b
    <2>2. g.proto = "Legacy" /\ BodyBytes(g) = RespSize[m] /\ FrameBuf(g) = g
      BY <1>3, <2>1, SMT DEF BodyBytes, FrameBuf
    <2>3. PeekFixedHeader(g).magic = RespSize[m] \div 65536
      BY <1>3, <2>1, SMT DEF PeekFixedHeader
    <2>4. ~IsValid(PeekFixedHeader(g))
      BY <1>2, <2>3, SMT DEF IsValid, kMagicNumber
    <2> QED
      BY <1>2, <2>2, <2>4, SMT
  <1>5. CASE p = "XRpc"
    <2>1. Reply(p, m, id) = XRpcEncode(kResponse, h, b)
      BY <1>5, SMT DEF Reply, ServerEncode
    <2>2. fh.magic = kMagicNumber /\ DOMAIN fh = {"magic", "type", "total_size", "header_size"}
      BY SMT DEF FixedHeaderOf
    <2> HIDE DEF h, b, fh
    <2>3. g = [proto |-> "XRpc", fh |-> HToN(fh), header |-> h, body |-> b]
      BY <1>1, <2>1, SMT DEF XRpcEncode, kCodecOk, kCodecOversized, fh
    <2>4. g.proto = "XRpc" /\ BodyBytes(g) = RespSize[m]
      BY <1>2, <1>3, <2>3, SMT DEF BodyBytes
    <2>5. FrameBuf(g) = [g EXCEPT !.fh = NToH(g.fh)]
      BY <2>4, SMT DEF FrameBuf
    <2>6. NToH(g.fh) = [order |-> "host", fh |-> fh]
      BY <2>3, SMT DEF NToH, HToN
    <2>7. /\ FrameBuf(g).proto = "XRpc" /\ FrameBuf(g).body = g.body
          /\ FrameBuf(g).fh = [order |-> "host", fh |-> fh]
      BY <2>3, <2>5, <2>6, SMT
    <2>8. PeekFixedHeader(FrameBuf(g)) = SwapFields(fh)
      BY <2>7, SMT DEF PeekFixedHeader
    <2>9. SwapFields(fh).magic = Swap16(kMagicNumber)
      <3>1. fh = [magic |-> fh.magic, type |-> fh.type, total_size |-> fh.total_size,
                  header_size |-> fh.header_size]
        BY SMT DEF FixedHeaderOf, fh
      <3> QED
        BY <2>2, <3>1, SMT DEF SwapFields
    <2>10. Swap16(kMagicNumber) = 21067
      BY SMT DEF Swap16, kMagicNumber
    <2>11. ~IsValid(PeekFixedHeader(FrameBuf(g)))
      BY <2>8, <2>9, <2>10, SMT DEF IsValid, kMagicNumber
    <2> QED
      BY <1>2, <2>4, <2>7, <2>11, SMT
  <1> QED
    BY <1>4, <1>5

LEMMA PartsOfResponse ==
  ASSUME NEW g \in Responses
  PROVE  /\ Parts(g) \in Seq(ReplyParts)
         /\ Parts(g) = <<HeaderPart(g)>> \/ Parts(g) = <<HeaderPart(g), BodyPart(g)>>
         /\ BodyBytes(g) = 0 => Parts(g) = <<HeaderPart(g)>>
  <1>1. HeaderPart(g) \in ReplyParts /\ BodyPart(g) \in ReplyParts
    BY DEF HeaderPart, BodyPart, ReplyParts
  <1>2. Parts(g) = IF BodyBytes(g) = 0 THEN <<HeaderPart(g)>> ELSE <<HeaderPart(g), BodyPart(g)>>
    BY DEF Parts, HeaderPart, BodyPart
  <1> QED
    BY <1>1, <1>2

-----------------------------------------------------------------------------
(***************************************************************************)
(* What one step of the server can do to a connection: nothing; take the   *)
(* frame at the head, to answer it or to skip it; answer; or drop what it  *)
(* holds, the process possibly dying with part of the response unsent.     *)
(***************************************************************************)
Stays(c) == /\ wire'[c] = wire[c] /\ reply'[c] = reply[c]
            /\ Replying(c)' <=> Replying(c)
            /\ Replying(c) => task'[LoopOf[c]].id = task[LoopOf[c]].id

Takes(c) == /\ wire[c] # << >> /\ wire'[c] = Tail(wire[c]) /\ reply'[c] = reply[c]
            /\ ~Replying(c)
            /\ Replying(c)' => task'[LoopOf[c]].id = WireId(c, 1)

Answers(c) == /\ Replying(c) /\ ~Replying(c)' /\ wire'[c] = wire[c]
              /\ \/ reply'[c] = reply[c]
                 \/ \E g \in Responses : /\ g.body.val.id = task[LoopOf[c]].id
                                         /\ reply'[c] = reply[c] \o Parts(g)

Drops(c) == /\ wire'[c] = << >> /\ ~Replying(c)'
            /\ \/ reply'[c] = reply[c]
               \/ \E k \in Nat : k <= Len(reply[c]) /\ reply'[c] = SubSeq(reply[c], 1, k)

Effect(c) == Stays(c) \/ Takes(c) \/ Answers(c) \/ Drops(c)

(***************************************************************************)
(* A loop that moves on without a response leaves every connection as it   *)
(* was.                                                                    *)
(***************************************************************************)
LEMMA MovesStay ==
  ASSUME ServerInv, NEW c \in Conns, NEW l \in Loops, NEW t,
         task' = [task EXCEPT ![l] = t], UNCHANGED <<wire, reply>>,
         task[l].pc # "reply", t.pc # "reply"
  PROVE  Effect(c)
  <1>1. task \in [Loops -> Tasks] /\ LoopOf[c] \in Loops
    BY LoopOfAssumption DEF ServerInv, ServerState
  <1>2. CASE LoopOf[c] = l
    BY <1>1, <1>2 DEF Effect, Stays, Replying
  <1>3. CASE LoopOf[c] # l
    <2>1. task'[LoopOf[c]] = task[LoopOf[c]]
      BY <1>1, <1>3
    <2> QED
      BY <2>1 DEF Effect, Stays, Replying
  <1> QED
    BY <1>2, <1>3

LEMMA ProcessDiesEffect ==
  ASSUME ServerInv, ChannelState, ProcessDies, NEW c \in Conns
  PROVE  Effect(c)
  <1>1. wire'[c] = << >> /\ task' = [l \in Loops |-> Idle]
    BY DEF ProcessDies
  <1>2. ~Replying(c)'
    BY <1>1, LoopOfAssumption DEF Replying, Idle
  <1> DEFINE backlog == {d \in Conns : reply[d] # << >>}
             bound == {0} \cup UNION {DOMAIN reply[d] : d \in backlog}
  <1>3. PICK kept \in [backlog -> bound] :
          /\ \A d \in backlog : kept[d] <= Len(reply[d])
          /\ reply' = [d \in Conns |-> IF d \in backlog THEN SubSeq(reply[d], 1, kept[d])
                                       ELSE << >>]
    BY DEF ProcessDies
  <1>4. bound \subseteq Nat
    <2>1. ASSUME NEW d \in Conns PROVE DOMAIN reply[d] \subseteq Nat
      <3>1. reply[d] \in Seq(ReplyParts)
        BY DEF ChannelState
      <3>2. DOMAIN reply[d] = 1 .. Len(reply[d])
        BY <3>1
      <3> QED
        BY <3>2
    <2> QED
      BY <2>1
  <1> HIDE DEF bound
  <1>5. CASE reply[c] = << >>
    BY <1>1, <1>2, <1>3, <1>5 DEF Effect, Drops
  <1>6. CASE reply[c] # << >>
    <2>1. c \in backlog
      BY <1>6
    <2>2. /\ kept[c] \in Nat /\ kept[c] <= Len(reply[c])
          /\ reply'[c] = SubSeq(reply[c], 1, kept[c])
      BY <1>3, <1>4, <2>1
    <2> QED
      BY <1>1, <1>2, <2>2 DEF Effect, Drops
  <1> QED
    BY <1>5, <1>6

LEMMA DecodeEffect ==
  ASSUME ServerInv, NEW l \in Loops, Decode(l), NEW d \in Conns
  PROVE  Effect(d)
  <1> DEFINE c == task[l].conn
             f == Head(wire[c])
  <1>1. /\ task \in [Loops -> Tasks] /\ wire \in [Conns -> Seq(Requests)]
        /\ task[l] \in Tasks /\ task[l].pc = "decode" /\ LoopOf[d] \in Loops
    BY LoopOfAssumption DEF ServerInv, ServerState, Decode
  <1>2. c \in Conns /\ LoopOf[c] = l /\ wire[c] # << >>
    BY <1>1, TaskFields DEF ServerInv, OwnTask
  <1>3. f \in Requests /\ f = wire[c][1]
    BY <1>1, <1>2
  <1> HIDE DEF f
  <1>4. UNCHANGED reply
    BY DEF Decode
  <1>5. PICK o \in ServerDecode(codec, f) :
          IF o.ret # kCodecOk
          THEN /\ task' = [task EXCEPT ![l] = Idle]
               /\ ConnShutdown(c)
               /\ UNCHANGED <<wire, arrived>>
          ELSE /\ Retrieve(c, task[l].size)
               /\ UNCHANGED conn
               /\ \E ok \in IF o.header \in Services
                            THEN ParseFromString(o.body.val, o.header) ELSE {FALSE} :
                    task' = [task EXCEPT ![l] =
                               IF ok THEN [pc |-> "reply", conn |-> c, method |-> o.header,
                                           id |-> o.body.val.id]
                               ELSE NextFrame(c)]
    BY DEF Decode, f
  <1>6. CASE o.ret # kCodecOk
    <2>1. task' = [task EXCEPT ![l] = Idle] /\ UNCHANGED <<wire, reply>> /\ Idle.pc # "reply"
      BY <1>4, <1>5, <1>6 DEF Idle
    <2> QED
      BY <1>1, <2>1, MovesStay
  <1>7. CASE o.ret = kCodecOk
    <2>1. wire' = [wire EXCEPT ![c] = Tail(wire[c])]
      BY <1>5, <1>7 DEF Retrieve
    <2>2. PICK ok \in IF o.header \in Services
                      THEN ParseFromString(o.body.val, o.header) ELSE {FALSE} :
            task' = [task EXCEPT ![l] =
                       IF ok THEN [pc |-> "reply", conn |-> c, method |-> o.header,
                                   id |-> o.body.val.id]
                       ELSE NextFrame(c)]
      BY <1>5, <1>7
    <2>3. CASE d = c
      <3>1. wire'[d] = Tail(wire[d]) /\ wire[d] # << >> /\ reply'[d] = reply[d]
        BY <1>1, <1>2, <1>4, <2>1, <2>3
      <3>2. LoopOf[d] = l /\ ~Replying(d)
        BY <1>1, <1>2, <2>3 DEF Replying
      <3>3. ASSUME Replying(d)' PROVE task'[LoopOf[d]].id = WireId(d, 1)
        <4>1. task'[l].pc = "reply"
          BY <3>2, <3>3 DEF Replying
        <4>2. ok
          BY <1>1, <2>2, <4>1 DEF NextFrame
        <4>3. o.header \in Services
          BY <2>2, <4>2
        <4>4. o.body.val = f.body.val
          BY <1>3, <1>7, <4>3, DecodedRequest, ServicesAssumption
        <4>5. task'[l].id = o.body.val.id
          BY <1>1, <2>2, <4>2
        <4> QED
          BY <1>3, <2>3, <3>2, <4>4, <4>5 DEF WireId
      <3> QED
        BY <3>1, <3>2, <3>3 DEF Effect, Takes
    <2>4. CASE d # c
      <3>1. wire'[d] = wire[d] /\ reply'[d] = reply[d]
        BY <1>1, <1>4, <2>1, <2>4
      <3>2. CASE LoopOf[d] = l
        <4>1. ~Replying(d)
          BY <1>1, <3>2 DEF Replying
        <4>2. task'[l].conn = c
          BY <1>1, <2>2 DEF NextFrame
        <4>3. ~Replying(d)'
          BY <2>4, <3>2, <4>2 DEF Replying
        <4> QED
          BY <3>1, <4>1, <4>3 DEF Effect, Stays
      <3>3. CASE LoopOf[d] # l
        <4>1. task'[LoopOf[d]] = task[LoopOf[d]]
          BY <1>1, <2>2, <3>3
        <4> QED
          BY <3>1, <4>1 DEF Effect, Stays, Replying
      <3> QED
        BY <3>2, <3>3
    <2> QED
      BY <2>3, <2>4
  <1> QED
    BY <1>6, <1>7

LEMMA RespondEffect ==
  ASSUME ServerInv, ChannelState, NEW l \in Loops, SendRpcResponse(l), NEW d \in Conns
  PROVE  Effect(d)
  <1> DEFINE c == task[l].conn
             id == task[l].id
             e == Reply(codec, task[l].method, id)
  <1>1. /\ task \in [Loops -> Tasks] /\ codec \in {"none"} \cup Protocols
        /\ task[l] \in Tasks /\ task[l].pc = "reply" /\ LoopOf[d] \in Loops
    BY LoopOfAssumption DEF ServerInv, ServerState, SendRpcResponse
  <1>2. c \in Conns /\ LoopOf[c] = l /\ id \in Nat /\ task[l].method \in Services
    BY <1>1, TaskFields DEF ServerInv, OwnTask
  <1>3. /\ task' = [task EXCEPT ![l] = [pc |-> "pick", conn |-> c]]
        /\ \/ e.ret = kCodecOk /\ ConnSend(c, e.frame)
           \/ UNCHANGED reply
        /\ UNCHANGED wire
    BY DEF SendRpcResponse, NextFrame, Reply
  <1>4. reply \in [Conns -> Seq(ReplyParts)]
    BY DEF ChannelState
  <1>5. \/ UNCHANGED reply
        \/ \E g \in Responses : g.body.val.id = id /\ reply' = [reply EXCEPT ![c] = @ \o Parts(g)]
    <2>1. ASSUME e.ret = kCodecOk PROVE e.frame \in Responses /\ e.frame.body.val.id = id
      BY <1>1, <1>2, <2>1, EncodedResponse
    <2> HIDE DEF e
    <2> QED
      BY <1>3, <2>1 DEF ConnSend
  <1> HIDE DEF e
  <1>6. CASE d = c
    <2>1. LoopOf[d] = l /\ Replying(d)
      BY <1>1, <1>2, <1>6 DEF Replying
    <2>2. ~Replying(d)'
      BY <1>1, <1>3, <2>1 DEF Replying
    <2>3. \/ reply'[d] = reply[d]
          \/ \E g \in Responses : g.body.val.id = task[LoopOf[d]].id /\ reply'[d] = reply[d] \o Parts(g)
      BY <1>2, <1>4, <1>5, <1>6, <2>1
    <2> QED
      BY <1>3, <2>1, <2>2, <2>3 DEF Effect, Answers
  <1>7. CASE d # c
    <2>1. wire'[d] = wire[d] /\ reply'[d] = reply[d]
      BY <1>3, <1>4, <1>5, <1>7
    <2>2. CASE LoopOf[d] = l
      <3>1. ~Replying(d)
        BY <1>7, <2>2 DEF Replying
      <3>2. ~Replying(d)'
        BY <1>1, <1>3, <2>2 DEF Replying
      <3> QED
        BY <2>1, <3>1, <3>2 DEF Effect, Stays
    <2>3. CASE LoopOf[d] # l
      <3>1. task'[LoopOf[d]] = task[LoopOf[d]]
        BY <1>1, <1>3, <2>3
      <3> QED
        BY <2>1, <3>1 DEF Effect, Stays, Replying
    <2> QED
      BY <2>2, <2>3
  <1> QED
    BY <1>6, <1>7

LEMMA LoopEffect ==
  ASSUME ServerInv, ChannelState, NEW l \in Loops, LoopStep(l), NEW d \in Conns
  PROVE  Effect(d)
  <1>1. task \in [Loops -> Tasks] /\ wire \in [Conns -> Seq(Requests)] /\ LoopOf[d] \in Loops
    BY LoopOfAssumption DEF ServerInv, ServerState
  <1>2. ASSUME NEW c \in Conns, OnMessage(l, c) PROVE Effect(d)
    <2>1. /\ task' = [task EXCEPT ![l] = [pc |-> "probe", conn |-> c]]
          /\ task[l].pc # "reply" /\ UNCHANGED <<wire, reply>>
      BY <1>2 DEF OnMessage, Idle
    <2>2. [pc |-> "probe", conn |-> c].pc # "reply"
      OBVIOUS
    <2> QED
      BY <2>1, <2>2, MovesStay
  <1>3. ASSUME NEW c \in Conns, OnConnection(l, c) PROVE Effect(d)
    <2>1. /\ task' = task /\ reply' = reply /\ task[l] = Idle /\ LoopOf[c] = l
          /\ wire' = [wire EXCEPT ![c] = << >>]
      BY <1>3 DEF OnConnection
    <2>2. CASE d = c
      <3>1. wire'[d] = << >> /\ ~Replying(d)'
        BY <1>1, <2>1, <2>2 DEF Replying, Idle
      <3> QED
        BY <2>1, <3>1 DEF Effect, Drops
    <2>3. CASE d # c
      <3>1. wire'[d] = wire[d]
        BY <1>1, <2>1, <2>3
      <3> QED
        BY <2>1, <3>1 DEF Effect, Stays, Replying
    <2> QED
      BY <2>2, <2>3
  <1>4. ASSUME Probe(l) PROVE Effect(d)
    <2>1. PICK q : q # "reply" /\ task' = [task EXCEPT ![l].pc = q]
      BY <1>4 DEF Probe
    <2>2. task[l].pc = "probe" /\ UNCHANGED <<wire, reply>>
      BY <1>4 DEF Probe, tcpVars
    <2>3. task[l] = [pc |-> "probe", conn |-> task[l].conn]
      BY <1>1, <2>2, TaskFields
    <2>4. [task[l] EXCEPT !.pc = q].pc # "reply"
      BY <2>1, <2>3
    <2> QED
      BY <2>1, <2>2, <2>4, MovesStay
  <1>5. ASSUME Install(l) PROVE Effect(d)
    <2>1. CASE ProcessDies
      BY <2>1, ProcessDiesEffect
    <2>2. CASE task' = [task EXCEPT ![l].pc = "pick"] /\ UNCHANGED tcpVars
      <3>1. task[l].pc = "install" /\ UNCHANGED <<wire, reply>>
        BY <1>5, <2>2 DEF Install, tcpVars
      <3>2. task[l] = [pc |-> "install", conn |-> task[l].conn]
        BY <1>1, <3>1, TaskFields
      <3>3. [task[l] EXCEPT !.pc = "pick"].pc # "reply"
        BY <3>2
      <3> QED
        BY <2>2, <3>1, <3>3, MovesStay
    <2> QED
      BY <1>5, <2>1, <2>2 DEF Install
  <1>6. ASSUME Pick(l) PROVE Effect(d)
    <2>1. PICK t : t.pc # "reply" /\ task' = [task EXCEPT ![l] = t]
      BY <1>6 DEF Pick, Idle
    <2> QED
      BY <1>6, <2>1, MovesStay DEF Pick
  <1> QED
    BY <1>2, <1>3, <1>4, <1>5, <1>6, DecodeEffect, RespondEffect DEF LoopStep

(***************************************************************************)
(* Short sequences.                                                        *)
(***************************************************************************)
LEMMA ShortSeq ==
  ASSUME NEW S, NEW q \in Seq(S)
  PROVE  /\ Len(q) \in Nat
         /\ q = << >> <=> Len(q) = 0
         /\ Len(q) <= 1 /\ q # << >> => Tail(q) = << >>
  <1>1. Len(q) \in Nat /\ (q # << >> => Len(q) # 0)
    BY EmptySeq, LenProperties
  <1>2. q = << >> => Len(q) = 0
    BY EmptySeq
  <1>3. ASSUME Len(q) <= 1, q # << >> PROVE Tail(q) = << >>
    <2>1. Tail(q) = SubSeq(q, 2, Len(q)) /\ Len(q) < 2
      BY <1>1, <1>3, TailIsSubSeq
    <2> QED
      BY <1>1, <2>1, SubSeqEmpty
  <1> QED
    BY <1>1, <1>2, <1>3

LEMMA CutReply ==
  ASSUME NEW S, NEW x \in S, NEW y \in S
  PROVE  /\ SubSeq(<<x>>, 1, 0) = << >> /\ SubSeq(<<x>>, 1, 1) = <<x>>
         /\ SubSeq(<<x, y>>, 1, 0) = << >> /\ SubSeq(<<x, y>>, 1, 1) = <<x>>
         /\ SubSeq(<<x, y>>, 1, 2) = <<x, y>>
  <1>1. <<x>> \in Seq(S) /\ Len(<<x>>) = 1 /\ <<x, y>> \in Seq(S) /\ Len(<<x, y>>) = 2
    OBVIOUS
  <1>2. SubSeq(<<x>>, 1, 0) = << >> /\ SubSeq(<<x, y>>, 1, 0) = << >>
    BY SubSeqEmpty
  <1>3. SubSeq(<<x>>, 1, 1) = <<x>>
    BY <1>1, SubSeqFull
  <1>4. SubSeq(<<x, y>>, 1, 2) = <<x, y>>
    BY <1>1, SubSeqFull
  <1>5. SubSeq(<<x, y>>, 1, 1) = <<x>>
    <2>1. \A i \in 1 .. 1 : <<x, y>>[i] \in S
      OBVIOUS
    <2>2. /\ SubSeq(<<x, y>>, 1, 1) \in Seq(S) /\ Len(SubSeq(<<x, y>>, 1, 1)) = 1
          /\ SubSeq(<<x, y>>, 1, 1)[1] = <<x, y>>[1]
      BY <2>1, SubSeqProperties
    <2> DEFINE q == SubSeq(<<x, y>>, 1, 1)
    <2>3. q \in Seq(S) /\ Len(q) = 1 /\ q[1] = x
      BY <2>2
    <2> HIDE DEF q
    <2>4. q = <<x>>
      BY <1>1, <2>3, SeqEqual
    <2> QED
      BY <2>4 DEF q
  <1> QED
    BY <1>2, <1>3, <1>4, <1>5

(***************************************************************************)
(* So the server keeps a quiet connection quiet, adds nothing to what is   *)
(* left of a response, and keeps a request that is pending in one place.   *)
(***************************************************************************)
LEMMA EffectKeeps ==
  ASSUME ServerInv, ChannelState, NEW c \in Conns, Effect(c), NEW id
  PROVE  /\ Quiet(c) => Quiet(c)'
         /\ BodyLeft(c) => BodyLeft(c)'
         /\ Pending(c, id) => Pending(c, id)'
  <1>1. wire[c] \in Seq(Requests) /\ reply[c] \in Seq(ReplyParts)
    BY DEF ServerInv, ServerState, ChannelState
  <1>2. CASE Stays(c)
    <2>1. wire[c] # << >> => WireId(c, 1)' = WireId(c, 1)
      BY <1>2 DEF Stays, WireId
    <2>2. Len(wire[c]) = 1 => wire[c] # << >>
      <3>1. \A q \in Seq(Requests) : Len(q) = 1 => q # << >>
        BY ShortSeq
      <3> QED
        BY <1>1, <3>1
    <2> QED
      BY <1>2, <2>1, <2>2 DEF Stays, Quiet, BodyLeft, Pending
  <1>3. CASE Takes(c)
    <2>1. ~Quiet(c) /\ ~BodyLeft(c)
      BY <1>3 DEF Takes, Quiet, BodyLeft
    <2>2. ASSUME Pending(c, id) PROVE Pending(c, id)'
      <3>1. Len(wire[c]) = 1 /\ WireId(c, 1) = id /\ reply[c] = << >>
        BY <1>3, <2>2 DEF Takes, Pending
      <3>2. wire'[c] = << >>
        <4>1. wire[c] # << >> /\ wire'[c] = Tail(wire[c]) /\ Len(wire[c]) <= 1
          BY <1>3, <3>1 DEF Takes
        <4>2. Tail(wire[c]) = << >>
          BY <1>1, <4>1, ShortSeq
        <4> QED
          BY <4>1, <4>2
      <3> QED
        BY <1>3, <3>1, <3>2 DEF Takes, Pending
    <2> QED
      BY <2>1, <2>2
  <1>4. CASE Answers(c)
    <2>1. ~Quiet(c) /\ ~BodyLeft(c)
      BY <1>4 DEF Answers, Quiet, BodyLeft
    <2>2. ASSUME Pending(c, id) PROVE Pending(c, id)'
      <3>1. wire[c] = << >> /\ reply[c] = << >> /\ task[LoopOf[c]].id = id
        BY <1>4, <2>2 DEF Answers, Pending
      <3>2. CASE reply'[c] = reply[c]
        BY <1>4, <3>1, <3>2 DEF Answers, Pending
      <3>3. CASE \E g \in Responses : /\ g.body.val.id = task[LoopOf[c]].id
                                      /\ reply'[c] = reply[c] \o Parts(g)
        <4>1. PICK g \in Responses : g.body.val.id = id /\ reply'[c] = << >> \o Parts(g)
          BY <3>1, <3>3
        <4>2. reply'[c] = Parts(g)
          BY <4>1, PartsOfResponse
        <4> QED
          BY <1>4, <3>1, <4>1, <4>2 DEF Answers, Pending
      <3> QED
        BY <1>4, <3>2, <3>3 DEF Answers
    <2> QED
      BY <2>1, <2>2
  <1>5. CASE Drops(c)
    <2>1. wire'[c] = << >> /\ ~Replying(c)'
      BY <1>5 DEF Drops
    <2>2. reply[c] = << >> => reply'[c] = << >>
      <3>1. ASSUME reply[c] = << >>, NEW k \in Nat, k <= Len(reply[c]) PROVE SubSeq(reply[c], 1, k) = << >>
        BY <3>1
      <3> QED
        BY <1>5, <3>1 DEF Drops
    <2>3. Len(reply[c]) <= 1 => Len(reply'[c]) <= 1
      <3>1. ASSUME NEW k \in Nat, k <= Len(reply[c]) PROVE Len(SubSeq(reply[c], 1, k)) = k
        BY <1>1, <3>1
      <3> QED
        BY <1>1, <1>5, <3>1 DEF Drops
    <2>4. ASSUME NEW g \in Responses, reply[c] \in {Parts(g), <<HeaderPart(g)>>}
          PROVE  reply'[c] \in {<< >>, Parts(g), <<HeaderPart(g)>>}
      <3>1. reply[c] = <<HeaderPart(g)>> \/ reply[c] = <<HeaderPart(g), BodyPart(g)>>
        BY <2>4, PartsOfResponse
      <3> DEFINE x == HeaderPart(g)
                 y == BodyPart(g)
      <3>2. x \in {x, y} /\ y \in {x, y}
        OBVIOUS
      <3>3. /\ SubSeq(<<x>>, 1, 0) = << >> /\ SubSeq(<<x>>, 1, 1) = <<x>>
            /\ SubSeq(<<x, y>>, 1, 0) = << >> /\ SubSeq(<<x, y>>, 1, 1) = <<x>>
            /\ SubSeq(<<x, y>>, 1, 2) = <<x, y>>
        BY <3>2, CutReply
      <3>4. ASSUME NEW k \in Nat, k <= Len(reply[c])
            PROVE  SubSeq(reply[c], 1, k) \in {<< >>, reply[c], <<HeaderPart(g)>>}
        <4>1. CASE reply[c] = <<HeaderPart(g)>>
          <5>1. k = 0 \/ k = 1
            BY <3>4, <4>1
          <5> QED
            BY <3>3, <4>1, <5>1
        <4>2. CASE reply[c] = <<HeaderPart(g), BodyPart(g)>>
          <5>1. k = 0 \/ k = 1 \/ k = 2
            BY <3>4, <4>2
          <5> QED
            BY <3>3, <4>2, <5>1
        <4> QED
          BY <3>1, <4>1, <4>2
      <3> QED
        BY <1>5, <2>4, <3>4 DEF Drops
    <2>5. Quiet(c) => Quiet(c)'
      BY <2>1, <2>2 DEF Quiet
    <2>6. BodyLeft(c) => BodyLeft(c)'
      BY <2>1, <2>3 DEF BodyLeft
    <2>7. ASSUME Pending(c, id) PROVE Pending(c, id)'
      <3>1. CASE reply[c] = << >>
        BY <2>1, <2>2, <3>1 DEF Pending
      <3>2. CASE reply[c] # << >>
        <4>1. PICK g \in Responses : g.body.val.id = id /\ reply[c] \in {Parts(g), <<HeaderPart(g)>>}
          BY <2>7, <3>2 DEF Pending
        <4> QED
          BY <2>1, <2>4, <4>1 DEF Pending
      <3> QED
        BY <3>1, <3>2
    <2> QED
      BY <2>5, <2>6, <2>7
  <1> QED
    BY <1>2, <1>3, <1>4, <1>5 DEF Effect

-----------------------------------------------------------------------------
(***************************************************************************)
(* A step of the server leaves the clients' sockets alone, never forgets a *)
(* connection it accepted, and puts nothing but responses on it.           *)
(***************************************************************************)
ServerStep == ProcessDies \/ \E l \in Loops : LoopStep(l)

LEMMA ReplyType ==
  ASSUME ServerInv, ChannelState, ServerStep
  PROVE  reply' \in [Conns -> Seq(ReplyParts)]
  <1>0. reply \in [Conns -> Seq(ReplyParts)]
    BY DEF ChannelState
  <1>1. ASSUME ProcessDies PROVE reply' \in [Conns -> Seq(ReplyParts)]
    <2>1. ASSUME NEW c \in Conns PROVE reply'[c] \in Seq(ReplyParts)
      <3>1. Effect(c)
        BY <1>1, ProcessDiesEffect
      <3>2. reply[c] \in Seq(ReplyParts)
        BY <1>0
      <3>3. ASSUME NEW k \in Nat, k <= Len(reply[c])
            PROVE  SubSeq(reply[c], 1, k) \in Seq(ReplyParts)
        <4>1. \A i \in 1 .. k : reply[c][i] \in ReplyParts
          BY <3>2, <3>3
        <4> QED
          BY <4>1, SubSeqProperties
      <3>4. ASSUME NEW g \in Responses PROVE reply[c] \o Parts(g) \in Seq(ReplyParts)
        BY <3>2, PartsOfResponse, ConcatProperties
      <3> QED
        BY <3>1, <3>2, <3>3, <3>4 DEF Effect, Stays, Takes, Answers, Drops
    <2>2. PICK kept : reply' = [c \in Conns |-> IF c \in {d \in Conns : reply[d] # << >>}
                                                THEN SubSeq(reply[c], 1, kept[c]) ELSE << >>]
      BY <1>1 DEF ProcessDies
    <2> QED
      BY <2>1, <2>2
  <1>2. ASSUME NEW l \in Loops, SendRpcResponse(l) PROVE reply' \in [Conns -> Seq(ReplyParts)]
    <2> DEFINE c == task[l].conn
               e == Reply(codec, task[l].method, task[l].id)
    <2>1. codec \in {"none"} \cup Protocols /\ task[l] \in Tasks /\ task[l].pc = "reply"
      BY <1>2 DEF ServerInv, ServerState, SendRpcResponse
    <2>2. c \in Conns /\ task[l].id \in Nat /\ task[l].method \in Services
      BY <2>1, TaskFields
    <2>3. (e.ret = kCodecOk /\ ConnSend(c, e.frame)) \/ UNCHANGED reply
      BY <1>2 DEF SendRpcResponse, Reply
    <2>4. e.ret = kCodecOk => e.frame \in Responses
      BY <2>1, <2>2, EncodedResponse
    <2> HIDE DEF e
    <2>5. e.ret = kCodecOk => reply[c] \o Parts(e.frame) \in Seq(ReplyParts)
      BY <1>0, <2>2, <2>4, PartsOfResponse, ConcatProperties
    <2> QED
      BY <1>0, <2>2, <2>3, <2>5 DEF ConnSend
  <1>3. ASSUME NEW l \in Loops, LoopStep(l), ~SendRpcResponse(l), ~ProcessDies
        PROVE  reply' = reply
    BY <1>3 DEF LoopStep, OnMessage, OnConnection, Probe, Install, Pick, Decode, tcpVars
  <1> QED
    BY <1>0, <1>1, <1>2, <1>3 DEF ServerStep

LEMMA PeersStay ==
  ASSUME ServerStep
  PROVE  peer' = peer
  BY DEF ServerStep, ProcessDies, LoopStep, OnMessage, OnConnection, Probe, Install, Pick,
         Decode, SendRpcResponse, tcpVars

LEMMA AcceptedStays ==
  ASSUME ServerInv, ServerStep, NEW c \in Conns
  PROVE  conn'[c] = "unused" <=> conn[c] = "unused"
  <1>1. conn \in [Conns -> ConnStates]
    BY DEF ServerInv, ServerState, TcpTypeOK
  <1>2. ASSUME ProcessDies PROVE conn'[c] = "unused" <=> conn[c] = "unused"
    BY <1>2 DEF ProcessDies
  <1>3. ASSUME NEW d, ConnShutdown(d) PROVE conn'[c] = "unused" <=> conn[c] = "unused"
    BY <1>1, <1>3 DEF ConnShutdown
  <1>4. ASSUME NEW l \in Loops, NEW d \in Conns, OnConnection(l, d)
        PROVE  conn'[c] = "unused" <=> conn[c] = "unused"
    BY <1>1, <1>4 DEF OnConnection
  <1>5. ASSUME NEW l \in Loops, LoopStep(l), ~ProcessDies, \A d \in Conns : ~OnConnection(l, d)
        PROVE  conn' = conn \/ \E d : ConnShutdown(d)
    BY <1>5 DEF LoopStep, OnMessage, Probe, Install, Pick, Decode, SendRpcResponse, tcpVars
  <1> QED
    BY <1>2, <1>3, <1>4, <1>5 DEF ServerStep

LEMMA TasksUsed ==
  ASSUME ServerInv, ServerStep, \A l \in Loops : TaskUsed(l), NEW k \in Loops
  PROVE  TaskUsed(k)'
  <1>1. task \in [Loops -> Tasks]
    BY DEF ServerInv, ServerState
  <1>2. \A d \in Conns : conn'[d] = "unused" <=> conn[d] = "unused"
    BY AcceptedStays
  <1>3. ASSUME task'[k] = task[k] PROVE TaskUsed(k)'
    BY <1>1, <1>2, <1>3, TaskFields DEF TaskUsed
  <1>4. ASSUME task'[k] = Idle PROVE TaskUsed(k)'
    BY <1>4 DEF TaskUsed
  <1>5. ASSUME task[k] # Idle, task'[k].conn = task[k].conn PROVE TaskUsed(k)'
    BY <1>1, <1>2, <1>5, TaskFields DEF TaskUsed
  <1>6. ASSUME NEW l \in Loops, LoopStep(l), l # k, ~ProcessDies PROVE TaskUsed(k)'
    <2>1. task' = task \/ (\E t : task' = [task EXCEPT ![l] = t])
            \/ (\E q : task' = [task EXCEPT ![l].pc = q])
      BY <1>6 DEF LoopStep, OnMessage, OnConnection, Probe, Install, Pick, Decode,
                  SendRpcResponse
    <2>2. task'[k] = task[k]
      BY <1>1, <1>6, <2>1
    <2> QED
      BY <1>3, <2>2
  <1>7. ASSUME LoopStep(k), ~ProcessDies PROVE TaskUsed(k)'
    <2>1. ASSUME NEW c \in Conns, OnMessage(k, c) PROVE TaskUsed(k)'
      <3>1. task'[k].conn = c /\ conn[c] # "unused"
        BY <1>1, <2>1 DEF OnMessage
      <3> QED
        BY <1>2, <3>1 DEF TaskUsed
    <2>2. ASSUME NEW c \in Conns, OnConnection(k, c) PROVE TaskUsed(k)'
      BY <1>3, <2>2 DEF OnConnection
    <2>3. ASSUME NEW q, task' = [task EXCEPT ![k].pc = q],
                 task[k].pc \in {"probe", "install"}
          PROVE  TaskUsed(k)'
      <3>1. PICK p, c : task[k] = [pc |-> p, conn |-> c]
        BY <1>1, <2>3, TaskFields
      <3>2. task'[k] = [pc |-> q, conn |-> c]
        BY <1>1, <2>3, <3>1
      <3>3. task[k] # Idle
        BY <2>3 DEF Idle
      <3> QED
        BY <1>5, <3>1, <3>2, <3>3
    <2>4. ASSUME Probe(k) PROVE TaskUsed(k)'
      BY <2>3, <2>4 DEF Probe
    <2>5. ASSUME Install(k) PROVE TaskUsed(k)'
      BY <1>7, <2>3, <2>5 DEF Install
    <2>6. ASSUME NEW t, task' = [task EXCEPT ![k] = t], task[k].pc \in {"pick", "decode", "reply"},
                 t = Idle \/ t.conn = task[k].conn
          PROVE  TaskUsed(k)'
      <3>1. task'[k] = t /\ task[k] # Idle
        BY <1>1, <2>6 DEF Idle
      <3> QED
        BY <1>4, <1>5, <2>6, <3>1
    <2>7. ASSUME Pick(k) PROVE TaskUsed(k)'
      <3>1. PICK r : task' = [task EXCEPT ![k] = IF r <= 0 THEN Idle
                                                 ELSE [pc |-> "decode", conn |-> task[k].conn, size |-> r]]
        BY <2>7 DEF Pick
      <3>2. task[k].pc = "pick"
        BY <2>7 DEF Pick
      <3> QED
        BY <2>6, <3>1, <3>2
    <2>8. ASSUME Decode(k) PROVE TaskUsed(k)'
      <3>1. task[k].pc = "decode"
        BY <2>8 DEF Decode
      <3>2. \E t : task' = [task EXCEPT ![k] = t] /\ (t = Idle \/ t.conn = task[k].conn)
        BY <2>8 DEF Decode, NextFrame
      <3> QED
        BY <2>6, <3>1, <3>2
    <2>9. ASSUME SendRpcResponse(k) PROVE TaskUsed(k)'
      BY <2>6, <2>9 DEF SendRpcResponse, NextFrame
    <2> QED
      BY <1>7, <2>1, <2>2, <2>4, <2>5, <2>7, <2>8, <2>9 DEF LoopStep
  <1>8. ASSUME ProcessDies PROVE TaskUsed(k)'
    BY <1>4, <1>8 DEF ProcessDies
  <1> QED
    BY <1>6, <1>7, <1>8 DEF ServerStep

(***************************************************************************)
(* Every step of the server preserves the invariant of the system.         *)
(***************************************************************************)
LEMMA ServerStepKeeps ==
  ASSUME SystemInv, ServerStep, UNCHANGED channelVars
  PROVE  SystemInv'
  <1>1. ServerInv /\ ChannelState
    BY DEF SystemInv
  <1>2. ServerInv'
    BY <1>1, ProcessDiesStep, LoopStepKeeps DEF ServerStep
  <1>3. UNCHANGED <<pc, fd, name, call, frame_buf, failed, calls, outcome>>
    BY DEF channelVars
  <1>4. ChannelState'
    BY <1>1, <1>3, ReplyType DEF ChannelState
  <1>5. peer' = peer
    BY PeersStay
  <1>6. ASSUME NEW c \in Conns PROVE Effect(c)
    BY <1>1, LoopEffect, ProcessDiesEffect DEF ServerStep
  <1>7. ASSUME NEW ch \in Channels
        PROVE  (SocketOf(ch) /\ Conversation(ch) /\ ReadFrame(ch) /\ Verdict(ch))'
    <2>0. SocketOf(ch) /\ Conversation(ch) /\ ReadFrame(ch) /\ Verdict(ch)
      BY DEF SystemInv
    <2>1. SocketOf(ch)'
      BY <1>3, <1>5, <2>0 DEF SocketOf
    <2>2. Conversation(ch)'
      <3>1. ASSUME NEW c \in Conns, NEW id \in Nat, fd[ch] = c, call[ch].id = id
            PROVE  /\ pc[ch] \in {"idle", "send", "decode"} => Quiet(c)'
                   /\ pc[ch] = "recvHeader" => Pending(c, id)'
                   /\ pc[ch] = "recvBody" => BodyLeft(c)'
        <4>1. /\ Quiet(c) => Quiet(c)'
              /\ BodyLeft(c) => BodyLeft(c)'
              /\ Pending(c, id) => Pending(c, id)'
          BY <1>1, <1>6, EffectKeeps
        <4> QED
          BY <2>0, <3>1, <4>1 DEF Conversation
      <3> QED
        BY <1>3, <3>1 DEF Conversation
    <2>3. ReadFrame(ch)'
      BY <1>3, <2>0 DEF ReadFrame
    <2>4. Verdict(ch)'
      BY <1>3, <2>0 DEF Verdict
    <2> QED
      BY <2>1, <2>2, <2>3, <2>4
  <1>8. ASSUME NEW c \in Conns PROVE (SocketKept(c) /\ Fresh(c))'
    <2>0. SocketKept(c) /\ Fresh(c)
      BY DEF SystemInv
    <2>1. SocketKept(c)'
      BY <1>3, <1>5, <2>0 DEF SocketKept
    <2>2. ASSUME peer[c] = "unused"
          PROVE  conn'[c] = "unused" /\ wire'[c] = << >> /\ reply'[c] = << >>
      <3>1. conn[c] = "unused" /\ wire[c] = << >> /\ reply[c] = << >>
        BY <2>0, <2>2 DEF Fresh
      <3>2. conn'[c] = "unused"
        BY <1>1, <3>1, AcceptedStays
      <3>3. ~Replying(c)
        BY <3>1, LoopOfAssumption DEF SystemInv, TaskUsed, Replying, Idle
      <3>4. Quiet(c)
        BY <3>1, <3>3 DEF Quiet
      <3>5. Quiet(c)'
        BY <1>1, <1>6, <3>4, EffectKeeps
      <3> QED
        BY <3>2, <3>5 DEF Quiet
    <2> QED
      BY <1>5, <2>1, <2>2 DEF Fresh
  <1>9. ASSUME NEW l \in Loops PROVE TaskUsed(l)'
    BY <1>1, TasksUsed DEF SystemInv
  <1> QED
    BY <1>2, <1>4, <1>7, <1>8, <1>9 DEF SystemInv

-----------------------------------------------------------------------------
(***************************************************************************)
(* A step of a channel touches its own variables and its own connections.  *)
(***************************************************************************)
OwnVars(ch) ==
  \A d \in Channels \ {ch} :
    /\ pc'[d] = pc[d] /\ fd'[d] = fd[d] /\ name'[d] = name[d] /\ call'[d] = call[d]
    /\ frame_buf'[d] = frame_buf[d] /\ failed'[d] = failed[d] /\ calls'[d] = calls[d]
    /\ outcome'[d] = outcome[d]

OwnConns(ch) ==
  \A c \in Conns : OwnerOf[c] # ch => /\ peer'[c] = peer[c] /\ conn'[c] = conn[c]
                                      /\ wire'[c] = wire[c] /\ reply'[c] = reply[c]

LEMMA OwnStepKeeps ==
  ASSUME SystemInv, ServerInv', ChannelState', UNCHANGED serverVars,
         NEW ch \in Channels, OwnVars(ch), OwnConns(ch),
         SocketOf(ch)', Conversation(ch)', ReadFrame(ch)', Verdict(ch)',
         \A c \in Conns : OwnerOf[c] = ch => SocketKept(c)' /\ Fresh(c)',
         \A c \in Conns : conn'[c] = conn[c] \/ conn'[c] = "connected"
  PROVE  SystemInv'
  <1>1. UNCHANGED task
    BY DEF serverVars
  <1>2. ASSUME NEW d \in Channels
        PROVE  (SocketOf(d) /\ Conversation(d) /\ ReadFrame(d) /\ Verdict(d))'
    <2>0. SocketOf(d) /\ Conversation(d) /\ ReadFrame(d) /\ Verdict(d)
      BY DEF SystemInv
    <2>1. CASE d = ch
      BY <2>1
    <2>2. CASE d # ch
      <3>0. /\ pc'[d] = pc[d] /\ fd'[d] = fd[d] /\ name'[d] = name[d] /\ call'[d] = call[d]
            /\ frame_buf'[d] = frame_buf[d] /\ failed'[d] = failed[d] /\ calls'[d] = calls[d]
            /\ outcome'[d] = outcome[d]
        BY <2>2 DEF OwnVars
      <3>1. \A c \in Conns : fd[d] = c => OwnerOf[c] # ch
        BY <2>0, <2>2, NoFdAssumption DEF SocketOf
      <3>2. fd[d] = NoFd \/ fd[d] \in Conns
        BY DEF SystemInv, ChannelState
      <3>3. SocketOf(d)'
        <4>1. fd[d] # NoFd => peer'[fd[d]] = peer[fd[d]]
          BY <3>1, <3>2 DEF OwnConns
        <4> QED
          BY <2>0, <3>0, <4>1 DEF SocketOf
      <3>4. Conversation(d)'
        <4>1. ASSUME NEW c \in Conns, NEW id \in Nat, fd[d] = c, call[d].id = id
              PROVE  /\ pc[d] \in {"idle", "send", "decode"} => Quiet(c)'
                     /\ pc[d] = "recvHeader" => Pending(c, id)'
                     /\ pc[d] = "recvBody" => BodyLeft(c)'
          <5>1. wire'[c] = wire[c] /\ reply'[c] = reply[c]
            BY <3>1, <4>1 DEF OwnConns
          <5>2. Replying(c)' <=> Replying(c)
            BY <1>1 DEF Replying
          <5>3. WireId(c, 1)' = WireId(c, 1)
            BY <5>1 DEF WireId
          <5>4. Quiet(c) => Quiet(c)'
            BY <5>1, <5>2 DEF Quiet
          <5>5. BodyLeft(c) => BodyLeft(c)'
            BY <5>1, <5>2 DEF BodyLeft
          <5>6. Pending(c, id) => Pending(c, id)'
            BY <1>1, <5>1, <5>2, <5>3 DEF Pending
          <5> QED
            BY <2>0, <4>1, <5>4, <5>5, <5>6 DEF Conversation
        <4> QED
          BY <3>0, <4>1 DEF Conversation
      <3>5. ReadFrame(d)'
        BY <2>0, <3>0 DEF ReadFrame
      <3>6. Verdict(d)'
        BY <2>0, <3>0 DEF Verdict
      <3> QED
        BY <3>3, <3>4, <3>5, <3>6
    <2> QED
      BY <2>1, <2>2
  <1>3. ASSUME NEW c \in Conns PROVE (SocketKept(c) /\ Fresh(c))'
    <2>1. CASE OwnerOf[c] = ch
      BY <2>1
    <2>2. CASE OwnerOf[c] # ch
      <3>1. SocketKept(c) /\ Fresh(c) /\ OwnerOf[c] \in Channels
        BY OwnerOfAssumption DEF SystemInv
      <3>2. fd'[OwnerOf[c]] = fd[OwnerOf[c]]
        BY <2>2, <3>1 DEF OwnVars
      <3> QED
        BY <2>2, <3>1, <3>2 DEF SocketKept, Fresh, OwnConns
    <2> QED
      BY <2>1, <2>2
  <1>4. ASSUME NEW l \in Loops PROVE TaskUsed(l)'
    <2>1. TaskUsed(l) /\ task[l] \in Tasks
      BY DEF SystemInv, ServerInv, ServerState
    <2> QED
      BY <1>1, <2>1, TaskFields DEF TaskUsed
  <1> QED
    BY <1>2, <1>3, <1>4 DEF SystemInv

(***************************************************************************)
(* A call ends, with a response to its own request or failed.              *)
(***************************************************************************)
LEMMA FinishKeeps ==
  ASSUME ChannelState, NEW ch \in Channels, Verdict(ch),
         pc[ch] \notin {"construct", "idle", "gone"},
         NEW ok \in BOOLEAN, NEW got, Finish(ch, ok, got),
         ok => got.id = call[ch].id /\ Proto(ch) # "XRpc",
         UNCHANGED <<name, call, calls>>
  PROVE  /\ pc' \in [Channels -> Stages] /\ pc'[ch] = "idle"
         /\ DOMAIN frame_buf' = Channels
         /\ failed' \in [Channels -> BOOLEAN]
         /\ DOMAIN outcome' = Channels
         /\ Verdict(ch)' /\ ReadFrame(ch)'
         /\ \A d \in Channels \ {ch} :
              /\ pc'[d] = pc[d] /\ frame_buf'[d] = frame_buf[d] /\ failed'[d] = failed[d]
              /\ outcome'[d] = outcome[d]
  <1>1. /\ pc' = [pc EXCEPT ![ch] = "idle"]
        /\ frame_buf' = [frame_buf EXCEPT ![ch] = << >>]
        /\ failed' = [failed EXCEPT ![ch] = @ \/ ~ok]
        /\ outcome' = [outcome EXCEPT ![ch] = [ok |-> ok, got |-> got]]
    BY DEF Finish
  <1>2. /\ pc \in [Channels -> Stages] /\ DOMAIN frame_buf = Channels
        /\ failed \in [Channels -> BOOLEAN] /\ DOMAIN outcome = Channels
    BY DEF ChannelState
  <1>3. pc' \in [Channels -> Stages] /\ pc'[ch] = "idle"
    BY <1>1, <1>2 DEF Stages
  <1>4. DOMAIN frame_buf' = Channels /\ DOMAIN outcome' = Channels
    BY <1>1, <1>2
  <1>5. failed' \in [Channels -> BOOLEAN]
    BY <1>1, <1>2
  <1>6. outcome'[ch] = [ok |-> ok, got |-> got]
    BY <1>1, <1>2
  <1>7. outcome'[ch].ok = ok /\ outcome'[ch].got = got
    BY <1>6
  <1>8. Verdict(ch)'
    <2>1. outcome'[ch].ok => outcome'[ch].got.id = call'[ch].id /\ Proto(ch) # "XRpc"
      BY <1>7
    <2>2. outcome'[ch].ok \in BOOLEAN
      BY <1>7
    <2> QED
      BY <1>3, <2>1, <2>2 DEF Verdict, Proto
  <1>9. ReadFrame(ch)'
    BY <1>3 DEF ReadFrame
  <1>10. ASSUME NEW d \in Channels \ {ch}
         PROVE  /\ pc'[d] = pc[d] /\ frame_buf'[d] = frame_buf[d] /\ failed'[d] = failed[d]
                /\ outcome'[d] = outcome[d]
    BY <1>1, <1>2
  <1> QED
    BY <1>3, <1>4, <1>5, <1>8, <1>9, <1>10

-----------------------------------------------------------------------------
(***************************************************************************)
(* The connections: left alone, or the channel's one closed.               *)
(***************************************************************************)
LEMMA ConnectionsStay ==
  ASSUME SystemInv, UNCHANGED serverVars, NEW ch \in Channels, UNCHANGED <<tcpVars, fd>>
  PROVE  /\ ServerInv' /\ reply' \in [Conns -> Seq(ReplyParts)]
         /\ fd' \in [Channels -> Conns \cup {NoFd}]
         /\ OwnConns(ch)
         /\ \A c \in Conns : SocketKept(c)' /\ Fresh(c)'
         /\ \A c \in Conns : conn'[c] = conn[c]
         /\ \A c \in Conns : Quiet(c) => Quiet(c)'
  <1>1. /\ UNCHANGED <<up, conn, peer, wire, arrived, sent, reply, fd>>
        /\ UNCHANGED <<codec, task, answered>>
    BY DEF tcpVars, serverVars
  <1>2. ServerInv /\ ChannelState /\ \A c \in Conns : SocketKept(c) /\ Fresh(c)
    BY DEF SystemInv
  <1>3. TcpTypeOK'
    BY <1>1, <1>2 DEF ServerInv, ServerState, TcpTypeOK
  <1>4. ServerInv'
    BY <1>1, <1>2, <1>3, QuietStepKeeps
  <1>5. \A c \in Conns : SocketKept(c)' /\ Fresh(c)'
    BY <1>1, <1>2 DEF SocketKept, Fresh
  <1>6. OwnConns(ch)
    BY <1>1 DEF OwnConns
  <1>7. \A c \in Conns : Quiet(c) => Quiet(c)'
    BY <1>1 DEF Quiet, Replying
  <1> QED
    BY <1>1, <1>2, <1>4, <1>5, <1>6, <1>7 DEF ChannelState

LEMMA ConnectionCloses ==
  ASSUME SystemInv, UNCHANGED serverVars, NEW ch \in Channels, NEW c \in Conns, fd[ch] = c,
         SocketClose(c), fd' = [fd EXCEPT ![ch] = NoFd],
         UNCHANGED <<up, conn, wire, arrived, sent>>
  PROVE  /\ ServerInv' /\ reply' \in [Conns -> Seq(ReplyParts)]
         /\ fd' \in [Channels -> Conns \cup {NoFd}] /\ fd'[ch] = NoFd
         /\ \A d \in Channels \ {ch} : fd'[d] = fd[d]
         /\ OwnConns(ch)
         /\ \A d \in Conns : OwnerOf[d] = ch => SocketKept(d)' /\ Fresh(d)'
         /\ \A d \in Conns : conn'[d] = conn[d]
  <1>1. UNCHANGED <<codec, task, answered>>
    BY DEF serverVars
  <1>2. /\ ServerInv /\ ChannelState /\ SocketOf(ch)
        /\ \A d \in Conns : SocketKept(d) /\ Fresh(d)
    BY DEF SystemInv
  <1>3. /\ fd \in [Channels -> Conns \cup {NoFd}] /\ reply \in [Conns -> Seq(ReplyParts)]
        /\ peer \in [Conns -> PeerStates] /\ TcpTypeOK
    BY <1>2 DEF ChannelState, ServerInv, ServerState, TcpTypeOK
  <1>4. OwnerOf[c] = ch /\ peer[c] = "open"
    BY <1>2, NoFdAssumption DEF SocketOf
  <1>5. /\ fd' \in [Channels -> Conns \cup {NoFd}] /\ fd'[ch] = NoFd
        /\ \A d \in Channels \ {ch} : fd'[d] = fd[d]
    BY <1>3
  <1>6. /\ peer' = [peer EXCEPT ![c] = "closed"] /\ reply' = [reply EXCEPT ![c] = << >>]
        /\ peer' \in [Conns -> PeerStates] /\ reply' \in [Conns -> Seq(ReplyParts)]
    BY <1>3 DEF SocketClose, PeerStates
  <1>7. TcpTypeOK'
    BY <1>3, <1>6 DEF TcpTypeOK
  <1>8. ServerInv'
    BY <1>1, <1>2, <1>7, QuietStepKeeps
  <1>9. OwnConns(ch)
    BY <1>3, <1>4, <1>6 DEF OwnConns
  <1>10. ASSUME NEW d \in Conns, OwnerOf[d] = ch PROVE SocketKept(d)' /\ Fresh(d)'
    <2>1. CASE d = c
      BY <1>3, <1>6, <2>1 DEF SocketKept, Fresh
    <2>2. CASE d # c
      <3>1. peer'[d] = peer[d] /\ reply'[d] = reply[d] /\ peer[d] # "open"
        BY <1>2, <1>3, <1>6, <1>10, <2>2 DEF SocketKept
      <3> QED
        BY <1>2, <3>1 DEF SocketKept, Fresh
    <2> QED
      BY <2>1, <2>2
  <1> QED
    BY <1>5, <1>6, <1>8, <1>9, <1>10

(***************************************************************************)
(* close(m_clientfd) and SetFailed, after any error of a call under way.   *)
(***************************************************************************)
LEMMA CloseAndFailKeeps ==
  ASSUME SystemInv, UNCHANGED serverVars, NEW ch \in Channels,
         pc[ch] \in {"send", "recvHeader", "recvBody", "decode"}, CloseAndFail(ch)
  PROVE  SystemInv'
  <1>0. fd[ch] # NoFd /\ fd[ch] \in Conns \cup {NoFd}
    BY DEF SystemInv, SocketOf, ChannelState
  <1>1. PICK c \in Conns : fd[ch] = c
    BY <1>0
  <1>2. /\ SocketClose(c) /\ fd' = [fd EXCEPT ![ch] = NoFd] /\ Finish(ch, FALSE, << >>)
        /\ UNCHANGED <<up, conn, wire, arrived, sent, name, call, calls>>
    BY <1>1 DEF CloseAndFail, SetFailed
  <1>3. ChannelState /\ Verdict(ch)
    BY DEF SystemInv
  <1>4. /\ ServerInv' /\ reply' \in [Conns -> Seq(ReplyParts)]
        /\ fd' \in [Channels -> Conns \cup {NoFd}] /\ fd'[ch] = NoFd
        /\ \A d \in Channels \ {ch} : fd'[d] = fd[d]
        /\ OwnConns(ch)
        /\ \A d \in Conns : OwnerOf[d] = ch => SocketKept(d)' /\ Fresh(d)'
        /\ \A d \in Conns : conn'[d] = conn[d]
    BY <1>1, <1>2, ConnectionCloses
  <1>5. /\ pc' \in [Channels -> Stages] /\ pc'[ch] = "idle"
        /\ DOMAIN frame_buf' = Channels
        /\ failed' \in [Channels -> BOOLEAN]
        /\ DOMAIN outcome' = Channels
        /\ Verdict(ch)' /\ ReadFrame(ch)'
        /\ \A d \in Channels \ {ch} :
             /\ pc'[d] = pc[d] /\ frame_buf'[d] = frame_buf[d] /\ failed'[d] = failed[d]
             /\ outcome'[d] = outcome[d]
    BY <1>2, <1>3, FinishKeeps
  <1>6. ChannelState'
    BY <1>2, <1>3, <1>4, <1>5 DEF ChannelState
  <1>7. OwnVars(ch)
    BY <1>2, <1>4, <1>5 DEF OwnVars
  <1>8. SocketOf(ch)' /\ Conversation(ch)'
    BY <1>4, <1>5, NoFdAssumption DEF SocketOf, Conversation
  <1> QED
    BY <1>4, <1>5, <1>6, <1>7, <1>8, OwnStepKeeps

(***************************************************************************)
(* A call fails before it has touched a socket.                            *)
(***************************************************************************)
LEMMA FailKeeps ==
  ASSUME SystemInv, UNCHANGED serverVars, NEW ch \in Channels,
         pc[ch] \in {"connect", "send"}, SetFailed(ch),
         UNCHANGED <<tcpVars, fd, name, call, calls>>
  PROVE  SystemInv'
  <1>1. ChannelState /\ Verdict(ch) /\ SocketOf(ch) /\ Conversation(ch)
    BY DEF SystemInv
  <1>2. /\ ServerInv' /\ reply' \in [Conns -> Seq(ReplyParts)]
        /\ fd' \in [Channels -> Conns \cup {NoFd}]
        /\ OwnConns(ch)
        /\ \A c \in Conns : SocketKept(c)' /\ Fresh(c)'
        /\ \A c \in Conns : conn'[c] = conn[c]
        /\ \A c \in Conns : Quiet(c) => Quiet(c)'
    BY ConnectionsStay
  <1>3. /\ pc' \in [Channels -> Stages] /\ pc'[ch] = "idle"
        /\ DOMAIN frame_buf' = Channels
        /\ failed' \in [Channels -> BOOLEAN]
        /\ DOMAIN outcome' = Channels
        /\ Verdict(ch)' /\ ReadFrame(ch)'
        /\ \A d \in Channels \ {ch} :
             /\ pc'[d] = pc[d] /\ frame_buf'[d] = frame_buf[d] /\ failed'[d] = failed[d]
             /\ outcome'[d] = outcome[d]
    BY <1>1, FinishKeeps DEF SetFailed
  <1>4. ChannelState'
    BY <1>1, <1>2, <1>3 DEF ChannelState
  <1>5. OwnVars(ch)
    BY <1>3 DEF OwnVars
  <1>6. SocketOf(ch)'
    BY <1>1, <1>3 DEF SocketOf, tcpVars
  <1>7. ASSUME NEW c \in Conns, fd[ch] = c PROVE Quiet(c)'
    <2>1. pc[ch] = "send"
      BY <1>1, <1>7, NoFdAssumption DEF SocketOf
    <2>2. call[ch].id \in Nat
      BY <1>1 DEF ChannelState
    <2>3. Quiet(c)
      BY <1>1, <1>7, <2>1, <2>2 DEF Conversation
    <2> QED
      BY <1>2, <2>3
  <1>8. Conversation(ch)'
    BY <1>3, <1>7 DEF Conversation
  <1> QED
    BY <1>2, <1>3, <1>4, <1>5, <1>6, <1>8, OwnStepKeeps

(***************************************************************************)
(* newConnect succeeds: the socket is fresh, so nothing is left on it.     *)
(***************************************************************************)
LEMMA ConnectionOpens ==
  ASSUME SystemInv, UNCHANGED serverVars, NEW ch \in Channels, fd[ch] = NoFd, Connected(ch)
  PROVE  /\ ServerInv' /\ reply' \in [Conns -> Seq(ReplyParts)]
         /\ fd' \in [Channels -> Conns \cup {NoFd}] /\ fd'[ch] \in Conns
         /\ OwnerOf[fd'[ch]] = ch /\ peer'[fd'[ch]] = "open"
         /\ \A c \in Conns : fd'[ch] = c => Quiet(c)'
         /\ \A d \in Channels \ {ch} : fd'[d] = fd[d]
         /\ OwnConns(ch)
         /\ \A d \in Conns : OwnerOf[d] = ch => SocketKept(d)' /\ Fresh(d)'
         /\ \A d \in Conns : conn'[d] = conn[d] \/ conn'[d] = "connected"
  <1>1. PICK c \in FreshConns(ch) : Accept(c) /\ fd' = [fd EXCEPT ![ch] = c]
    BY DEF Connected
  <1>2. UNCHANGED <<up, wire, arrived, sent, reply>> /\ UNCHANGED <<codec, task, answered>>
    BY DEF Connected, serverVars
  <1>3. c \in Conns /\ OwnerOf[c] = ch /\ peer[c] = "unused"
    BY <1>1 DEF FreshConns
  <1>4. /\ ServerInv /\ ChannelState /\ \A d \in Conns : SocketKept(d) /\ Fresh(d)
        /\ \A l \in Loops : TaskUsed(l)
    BY DEF SystemInv
  <1>5. /\ fd \in [Channels -> Conns \cup {NoFd}] /\ reply \in [Conns -> Seq(ReplyParts)]
        /\ peer \in [Conns -> PeerStates] /\ conn \in [Conns -> ConnStates] /\ TcpTypeOK
    BY <1>4 DEF ChannelState, ServerInv, ServerState, TcpTypeOK
  <1>6. conn[c] = "unused" /\ wire[c] = << >> /\ reply[c] = << >>
    BY <1>3, <1>4 DEF Fresh
  <1>7. ~Replying(c)
    <2>1. LoopOf[c] \in Loops
      BY <1>3, LoopOfAssumption
    <2> QED
      BY <1>4, <1>6, <2>1 DEF TaskUsed, Replying, Idle
  <1>8. Quiet(c)'
    BY <1>2, <1>6, <1>7 DEF Quiet, Replying
  <1>9. /\ peer' = [peer EXCEPT ![c] = "open"] /\ peer' \in [Conns -> PeerStates]
        /\ conn' = [conn EXCEPT ![c] = "connected"] /\ conn' \in [Conns -> ConnStates]
    BY <1>1, <1>5 DEF Accept, PeerStates, ConnStates
  <1>10. /\ fd' \in [Channels -> Conns \cup {NoFd}] /\ fd'[ch] = c
         /\ \A d \in Channels \ {ch} : fd'[d] = fd[d]
    BY <1>1, <1>3, <1>5
  <1>11. TcpTypeOK'
    BY <1>2, <1>5, <1>9 DEF TcpTypeOK
  <1>12. ServerInv'
    BY <1>2, <1>4, <1>11, QuietStepKeeps
  <1>13. OwnConns(ch)
    BY <1>2, <1>3, <1>5, <1>9 DEF OwnConns
  <1>14. ASSUME NEW d \in Conns, OwnerOf[d] = ch PROVE SocketKept(d)' /\ Fresh(d)'
    <2>1. CASE d = c
      BY <1>3, <1>5, <1>9, <1>10, <2>1 DEF SocketKept, Fresh
    <2>2. CASE d # c
      <3>1. peer'[d] = peer[d] /\ conn'[d] = conn[d]
        BY <1>5, <1>9, <2>2
      <3>2. peer[d] # "open"
        BY <1>4, <1>14, NoFdAssumption DEF SocketKept
      <3> QED
        BY <1>2, <1>4, <3>1, <3>2 DEF SocketKept, Fresh
    <2> QED
      BY <2>1, <2>2
  <1>15. \A d \in Conns : conn'[d] = conn[d] \/ conn'[d] = "connected"
    BY <1>5, <1>9
  <1>16. peer'[c] = "open"
    BY <1>3, <1>5, <1>9
  <1> QED
    BY <1>2, <1>3, <1>5, <1>8, <1>10, <1>12, <1>13, <1>14, <1>15, <1>16

(***************************************************************************)
(* A stage that only moves on: its call keeps the socket it has.           *)
(***************************************************************************)
LEMMA MoveOnKeeps ==
  ASSUME SystemInv, UNCHANGED serverVars, NEW ch \in Channels,
         pc' \in [Channels -> Stages],
         fd' \in [Channels -> Conns \cup {NoFd}],
         reply' \in [Conns -> Seq(ReplyParts)],
         UNCHANGED <<name, call, frame_buf, failed, calls, outcome>>,
         ServerInv', OwnConns(ch),
         \A d \in Channels \ {ch} : pc'[d] = pc[d] /\ fd'[d] = fd[d],
         \A c \in Conns : OwnerOf[c] = ch => SocketKept(c)' /\ Fresh(c)',
         \A c \in Conns : conn'[c] = conn[c] \/ conn'[c] = "connected",
         SocketOf(ch)', Conversation(ch)', ReadFrame(ch)', Verdict(ch)'
  PROVE  SystemInv'
  <1>1. ChannelState
    BY DEF SystemInv
  <1>2. ChannelState'
    BY <1>1 DEF ChannelState
  <1>3. OwnVars(ch)
    BY DEF OwnVars
  <1> QED
    BY <1>2, <1>3, OwnStepKeeps

LEMMA ConstructKeeps ==
  ASSUME SystemInv, UNCHANGED serverVars, NEW ch \in Channels, Construct(ch)
  PROVE  SystemInv'
  <1>1. /\ pc[ch] = "construct" /\ pc' = [pc EXCEPT ![ch] = "idle"]
        /\ UNCHANGED <<name, call, frame_buf, failed, calls, outcome>>
        /\ Connected(ch) \/ UNCHANGED <<tcpVars, fd>>
    BY DEF Construct, NotConnected
  <1>2. ChannelState /\ SocketOf(ch) /\ Verdict(ch)
    BY DEF SystemInv
  <1>3. /\ pc' \in [Channels -> Stages] /\ pc'[ch] = "idle"
        /\ \A d \in Channels \ {ch} : pc'[d] = pc[d]
    BY <1>1, <1>2 DEF ChannelState, Stages
  <1>4. ReadFrame(ch)' /\ fd[ch] = NoFd
    BY <1>1, <1>2, <1>3 DEF ReadFrame, SocketOf
  <1>5. Verdict(ch)'
    BY <1>1, <1>2, <1>3 DEF Verdict
  <1>6. CASE Connected(ch)
    <2>1. /\ ServerInv' /\ reply' \in [Conns -> Seq(ReplyParts)]
          /\ fd' \in [Channels -> Conns \cup {NoFd}] /\ fd'[ch] \in Conns
          /\ OwnerOf[fd'[ch]] = ch /\ peer'[fd'[ch]] = "open"
          /\ \A c \in Conns : fd'[ch] = c => Quiet(c)'
          /\ \A d \in Channels \ {ch} : fd'[d] = fd[d]
          /\ OwnConns(ch)
          /\ \A d \in Conns : OwnerOf[d] = ch => SocketKept(d)' /\ Fresh(d)'
          /\ \A d \in Conns : conn'[d] = conn[d] \/ conn'[d] = "connected"
      BY <1>4, <1>6, ConnectionOpens
    <2>2. SocketOf(ch)'
      BY <1>3, <2>1 DEF SocketOf
    <2>3. Conversation(ch)'
      BY <1>3, <2>1 DEF Conversation
    <2> QED
      BY <1>1, <1>3, <1>4, <1>5, <2>1, <2>2, <2>3, MoveOnKeeps
  <1>7. CASE UNCHANGED <<tcpVars, fd>>
    <2>1. /\ ServerInv' /\ reply' \in [Conns -> Seq(ReplyParts)]
          /\ fd' \in [Channels -> Conns \cup {NoFd}]
          /\ OwnConns(ch)
          /\ \A c \in Conns : SocketKept(c)' /\ Fresh(c)'
          /\ \A c \in Conns : conn'[c] = conn[c]
      BY <1>7, ConnectionsStay
    <2>2. fd' = fd /\ SocketOf(ch)' /\ Conversation(ch)'
      BY <1>3, <1>4, <1>7, NoFdAssumption DEF SocketOf, Conversation
    <2> QED
      BY <1>1, <1>3, <1>4, <1>5, <2>1, <2>2, MoveOnKeeps
  <1> QED
    BY <1>1, <1>6, <1>7

LEMMA QueryKeeps ==
  ASSUME SystemInv, UNCHANGED serverVars, NEW ch \in Channels, Query(ch)
  PROVE  SystemInv'
  <1>1. /\ pc[ch] = "query" /\ pc' = [pc EXCEPT ![ch] = "connect"]
        /\ UNCHANGED <<name, call, frame_buf, failed, calls, outcome>>
        /\ UNCHANGED <<tcpVars, fd>>
    BY DEF Query
  <1>2. ChannelState /\ SocketOf(ch) /\ Verdict(ch)
    BY DEF SystemInv
  <1>3. /\ pc' \in [Channels -> Stages] /\ pc'[ch] = "connect"
        /\ \A d \in Channels \ {ch} : pc'[d] = pc[d]
    BY <1>1, <1>2 DEF ChannelState, Stages
  <1>4. ReadFrame(ch)' /\ fd[ch] = NoFd
    BY <1>1, <1>2, <1>3 DEF ReadFrame, SocketOf
  <1>5. Verdict(ch)'
    BY <1>1, <1>2, <1>3 DEF Verdict
  <1>6. /\ ServerInv' /\ reply' \in [Conns -> Seq(ReplyParts)]
        /\ fd' \in [Channels -> Conns \cup {NoFd}]
        /\ OwnConns(ch)
        /\ \A c \in Conns : SocketKept(c)' /\ Fresh(c)'
        /\ \A c \in Conns : conn'[c] = conn[c]
    BY <1>1, ConnectionsStay
  <1>7. fd' = fd /\ SocketOf(ch)' /\ Conversation(ch)'
    BY <1>1, <1>3, <1>4, NoFdAssumption DEF SocketOf, Conversation
  <1> QED
    BY <1>1, <1>3, <1>4, <1>5, <1>6, <1>7, MoveOnKeeps

LEMMA ConnectKeeps ==
  ASSUME SystemInv, UNCHANGED serverVars, NEW ch \in Channels, Connect(ch)
  PROVE  SystemInv'
  <1>1. pc[ch] = "connect" /\ UNCHANGED <<name, call, calls>>
    BY DEF Connect
  <1>2. ChannelState /\ SocketOf(ch) /\ Verdict(ch)
    BY DEF SystemInv
  <1>3. CASE NotConnected(ch) /\ SetFailed(ch)
    BY <1>1, <1>3, FailKeeps DEF NotConnected
  <1>4. CASE /\ Connected(ch) /\ pc' = [pc EXCEPT ![ch] = "send"]
             /\ UNCHANGED <<frame_buf, failed, outcome>>
    <2>1. /\ pc' \in [Channels -> Stages] /\ pc'[ch] = "send"
          /\ \A d \in Channels \ {ch} : pc'[d] = pc[d]
      BY <1>2, <1>4 DEF ChannelState, Stages
    <2>2. ReadFrame(ch)' /\ fd[ch] = NoFd
      BY <1>1, <1>2, <2>1 DEF ReadFrame, SocketOf
    <2>3. Verdict(ch)'
      BY <1>1, <1>2, <1>4, <2>1 DEF Verdict
    <2>4. /\ ServerInv' /\ reply' \in [Conns -> Seq(ReplyParts)]
          /\ fd' \in [Channels -> Conns \cup {NoFd}] /\ fd'[ch] \in Conns
          /\ OwnerOf[fd'[ch]] = ch /\ peer'[fd'[ch]] = "open"
          /\ \A c \in Conns : fd'[ch] = c => Quiet(c)'
          /\ \A d \in Channels \ {ch} : fd'[d] = fd[d]
          /\ OwnConns(ch)
          /\ \A d \in Conns : OwnerOf[d] = ch => SocketKept(d)' /\ Fresh(d)'
          /\ \A d \in Conns : conn'[d] = conn[d] \/ conn'[d] = "connected"
      BY <1>4, <2>2, ConnectionOpens
    <2>5. SocketOf(ch)'
      BY <2>1, <2>4, NoFdAssumption DEF SocketOf
    <2>6. Conversation(ch)'
      BY <2>1, <2>4 DEF Conversation
    <2> QED
      BY <1>1, <1>4, <2>1, <2>2, <2>3, <2>4, <2>5, <2>6, MoveOnKeeps
  <1> QED
    BY <1>3, <1>4 DEF Connect

LEMMA CallMethodKeeps ==
  ASSUME SystemInv, UNCHANGED serverVars, NEW ch \in Channels, NEW m \in CalledBy[ch],
         CallMethod(ch, m)
  PROVE  SystemInv'
  <1> DEFINE stage == IF fd[ch] # NoFd THEN "send"
                      ELSE IF ip[ch] # "" THEN "connect" ELSE "query"
             chosen == IF name[ch] = "" THEN m ELSE name[ch]
             new == [method |-> m, id |-> 0]
  <1>1. /\ pc[ch] = "idle" /\ calls[ch] < MaxCalls
        /\ calls' = [calls EXCEPT ![ch] = calls[ch] + 1]
        /\ failed' = [failed EXCEPT ![ch] = failed[ch] /\ ~Resets]
        /\ name' = [name EXCEPT ![ch] = chosen]
        /\ call' = [call EXCEPT ![ch] = new]
        /\ pc' = [pc EXCEPT ![ch] = stage]
        /\ UNCHANGED <<frame_buf, outcome>> /\ UNCHANGED <<tcpVars, fd>>
    BY DEF CallMethod, Reset
  <1>2. ChannelState /\ SocketOf(ch) /\ Verdict(ch) /\ Conversation(ch)
    BY DEF SystemInv
  <1>3. /\ pc \in [Channels -> Stages] /\ name \in [Channels -> Methods \cup {""}]
        /\ call \in [Channels -> [method : Methods \cup {""}, id : Nat]]
        /\ failed \in [Channels -> BOOLEAN] /\ calls \in [Channels -> 0 .. MaxCalls]
        /\ DOMAIN frame_buf = Channels /\ DOMAIN outcome = Channels
        /\ fd \in [Channels -> Conns \cup {NoFd}]
    BY <1>2 DEF ChannelState
  <1>4. m \in Methods /\ chosen \in Methods /\ new \in [method : Methods \cup {""}, id : Nat]
    <2>1. m \in Methods
      BY CalledByAssumption DEF Methods
    <2>2. name[ch] # "" => name[ch] \in Methods
      BY <1>3
    <2> QED
      BY <2>1, <2>2
  <1>5. stage \in {"send", "connect", "query"} /\ stage \in Stages
    BY DEF Stages
  <1>6. calls[ch] + 1 \in 0 .. MaxCalls
    <2>1. calls[ch] \in 0 .. MaxCalls /\ calls[ch] < MaxCalls /\ MaxCalls \in Nat
      BY <1>1, <1>3, CallsAssumption
    <2> HIDE DEF stage, chosen
    <2> QED
      BY <2>1, SMT
  <1>7. /\ fd[ch] = NoFd <=> stage \in {"connect", "query"}
        /\ fd[ch] # NoFd <=> stage = "send"
    OBVIOUS
  <1> HIDE DEF stage, chosen
  <1>8. /\ pc' \in [Channels -> Stages] /\ pc'[ch] = stage
        /\ name' \in [Channels -> Methods \cup {""}] /\ name'[ch] = chosen
        /\ calls' \in [Channels -> 0 .. MaxCalls]
    BY <1>1, <1>3, <1>4, <1>5, <1>6
  <1>9. /\ call' \in [Channels -> [method : Methods \cup {""}, id : Nat]]
        /\ call'[ch].method = m /\ call'[ch].id = 0
    BY <1>1, <1>3, <1>4
  <1>10. failed' \in [Channels -> BOOLEAN]
    BY <1>1, <1>3, CallsAssumption
  <1>11. OwnVars(ch)
    BY <1>1, <1>3 DEF OwnVars
  <1>12. /\ ServerInv' /\ reply' \in [Conns -> Seq(ReplyParts)]
         /\ fd' \in [Channels -> Conns \cup {NoFd}]
         /\ OwnConns(ch)
         /\ \A c \in Conns : SocketKept(c)' /\ Fresh(c)'
         /\ \A c \in Conns : conn'[c] = conn[c]
         /\ \A c \in Conns : Quiet(c) => Quiet(c)'
    BY <1>1, ConnectionsStay
  <1>13. ChannelState'
    BY <1>1, <1>3, <1>8, <1>9, <1>10, <1>12 DEF ChannelState
  <1>14. UNCHANGED <<peer, fd>>
    BY <1>1 DEF tcpVars
  <1>15. SocketOf(ch)'
    BY <1>2, <1>5, <1>7, <1>8, <1>14 DEF SocketOf
  <1>16. Conversation(ch)'
    <2>1. call[ch].id \in Nat
      BY <1>3
    <2>2. \A c \in Conns : fd[ch] = c => Quiet(c)
      BY <1>1, <1>2, <2>1 DEF Conversation
    <2> QED
      BY <1>5, <1>8, <1>12, <1>14, <2>2 DEF Conversation
  <1>17. ReadFrame(ch)'
    BY <1>5, <1>8 DEF ReadFrame
  <1>18. Verdict(ch)'
    <2>1. outcome'[ch].ok \in BOOLEAN
      BY <1>1, <1>2 DEF Verdict
    <2> QED
      BY <1>4, <1>5, <1>8, <1>9, <1>10, <2>1 DEF Verdict
  <1> QED
    BY <1>11, <1>12, <1>13, <1>15, <1>16, <1>17, <1>18, OwnStepKeeps

LEMMA DestroyKeeps ==
  ASSUME SystemInv, UNCHANGED serverVars, NEW ch \in Channels, Destroy(ch)
  PROVE  SystemInv'
  <1>1. /\ pc[ch] = "idle" /\ pc' = [pc EXCEPT ![ch] = "gone"]
        /\ fd' = [fd EXCEPT ![ch] = NoFd]
        /\ UNCHANGED <<name, call, frame_buf, failed, calls, outcome>>
        /\ UNCHANGED <<up, conn, wire, arrived, sent>>
        /\ IF fd[ch] = NoFd THEN UNCHANGED <<peer, reply>> ELSE SocketClose(fd[ch])
    BY DEF Destroy
  <1>2. ChannelState /\ Verdict(ch)
    BY DEF SystemInv
  <1>3. fd \in [Channels -> Conns \cup {NoFd}]
    BY <1>2 DEF ChannelState
  <1>4. /\ pc' \in [Channels -> Stages] /\ pc'[ch] = "gone"
        /\ \A d \in Channels \ {ch} : pc'[d] = pc[d]
    BY <1>1, <1>2 DEF ChannelState, Stages
  <1>5. fd'[ch] = NoFd
    BY <1>1, <1>3
  <1>6. SocketOf(ch)' /\ Conversation(ch)'
    BY <1>4, <1>5, NoFdAssumption DEF SocketOf, Conversation
  <1>7. ReadFrame(ch)'
    BY <1>4 DEF ReadFrame
  <1>8. Verdict(ch)'
    BY <1>1, <1>2, <1>4 DEF Verdict
  <1>9. CASE fd[ch] = NoFd
    <2>1. fd' = fd
      BY <1>1, <1>3, <1>9
    <2>2. UNCHANGED <<tcpVars, fd>>
      BY <1>1, <1>9, <2>1 DEF tcpVars
    <2>3. /\ ServerInv' /\ reply' \in [Conns -> Seq(ReplyParts)]
          /\ fd' \in [Channels -> Conns \cup {NoFd}]
          /\ OwnConns(ch)
          /\ \A c \in Conns : SocketKept(c)' /\ Fresh(c)'
          /\ \A c \in Conns : conn'[c] = conn[c]
      BY <2>2, ConnectionsStay
    <2> QED
      BY <1>1, <1>4, <1>6, <1>7, <1>8, <2>1, <2>3, MoveOnKeeps
  <1>10. CASE fd[ch] # NoFd
    <2>1. PICK c \in Conns : fd[ch] = c
      BY <1>3, <1>10
    <2>2. /\ ServerInv' /\ reply' \in [Conns -> Seq(ReplyParts)]
          /\ fd' \in [Channels -> Conns \cup {NoFd}]
          /\ \A d \in Channels \ {ch} : fd'[d] = fd[d]
          /\ OwnConns(ch)
          /\ \A d \in Conns : OwnerOf[d] = ch => SocketKept(d)' /\ Fresh(d)'
          /\ \A d \in Conns : conn'[d] = conn[d]
      BY <1>1, <1>10, <2>1, ConnectionCloses
    <2> QED
      BY <1>1, <1>4, <1>6, <1>7, <1>8, <2>2, MoveOnKeeps
  <1> QED
    BY <1>9, <1>10

(***************************************************************************)
(* Send: the request is numbered after the last one of its connection.  On *)
(* a connection the server has left it goes nowhere.                       *)
(***************************************************************************)
LEMMA SendKeeps ==
  ASSUME SystemInv, UNCHANGED serverVars, NEW ch \in Channels, Send(ch)
  PROVE  SystemInv'
  <1>1. ChannelState /\ SocketOf(ch) /\ Verdict(ch) /\ Conversation(ch) /\ ServerInv
    BY DEF SystemInv
  <1>2. pc[ch] = "send"
    BY DEF Send
  <1>3. fd[ch] # NoFd /\ fd \in [Channels -> Conns \cup {NoFd}] /\ call[ch].id \in Nat
    BY <1>1, <1>2 DEF SocketOf, ChannelState
  <1>4. PICK c \in Conns : fd[ch] = c
    BY <1>3
  <1>5. Quiet(c) /\ OwnerOf[c] = ch /\ peer[c] = "open"
    BY <1>1, <1>2, <1>3, <1>4 DEF Conversation, SocketOf
  <1>6. PICK id \in Nat : id = sent[c] + 1
    <2>1. sent[c] \in Nat
      BY <1>1 DEF ServerInv, ServerState, TcpTypeOK
    <2> QED
      BY <2>1
  <1>7. name[ch] \in Methods /\ call[ch].method \in Methods
    BY <1>1, <1>2 DEF Verdict
  <1>8. Proto(ch) \in Protocols
    BY DEF Proto, Protocols
  <1> DEFINE e == Encoded(Proto(ch), name[ch], call[ch].method, id)
  <1>9. e.ret = kCodecOk => e.frame \in Requests /\ e.frame.body.val.id = id
    BY <1>6, <1>7, <1>8, EncodedRequest
  <1>10. \/ SetFailed(ch) /\ UNCHANGED <<tcpVars, fd, name, call, calls>>
         \/ CloseAndFail(ch)
         \/ /\ e.ret = kCodecOk /\ SocketSend(c, e.frame)
            /\ call' = [call EXCEPT ![ch].id = id]
            /\ pc' = [pc EXCEPT ![ch] = "recvHeader"]
            /\ UNCHANGED <<up, conn, peer, arrived, reply, fd, name, frame_buf, failed,
                           calls, outcome>>
    BY <1>4, <1>6 DEF Send, Encoded
  <1>11. CASE SetFailed(ch) /\ UNCHANGED <<tcpVars, fd, name, call, calls>>
    BY <1>2, <1>11, FailKeeps
  <1>12. CASE CloseAndFail(ch)
    BY <1>2, <1>12, CloseAndFailKeeps
  <1>13. CASE /\ e.ret = kCodecOk /\ SocketSend(c, e.frame)
              /\ call' = [call EXCEPT ![ch].id = id]
              /\ pc' = [pc EXCEPT ![ch] = "recvHeader"]
              /\ UNCHANGED <<up, conn, peer, arrived, reply, fd, name, frame_buf, failed,
                             calls, outcome>>
    <2>1. PICK f \in Requests : f.body.val.id = id /\ SocketSend(c, f)
      BY <1>9, <1>13
    <2> HIDE DEF e
    <2>2. UNCHANGED <<codec, task, answered>>
      BY DEF serverVars
    <2>3. ServerInv'
      BY <1>1, <1>6, <1>13, <2>1, <2>2, SocketSendKeeps
    <2>4. wire \in [Conns -> Seq(Requests)]
      BY <1>1 DEF ServerInv, ServerState
    <2>5. \/ wire' = wire
          \/ wire' = [wire EXCEPT ![c] = Append(wire[c], f)]
      BY <2>1 DEF SocketSend
    <2>6. wire[c] = << >>
      BY <1>5 DEF Quiet
    <2>7. PICK m, k : call[ch] = [method |-> m, id |-> k] /\ m \in Methods
      BY <1>1, <1>7 DEF ChannelState
    <2>8. [call[ch] EXCEPT !.id = id] = [method |-> m, id |-> id]
      BY <2>7
    <2>9. call \in [Channels -> [method : Methods \cup {""}, id : Nat]]
      BY <1>1 DEF ChannelState
    <2>10. /\ call' \in [Channels -> [method : Methods \cup {""}, id : Nat]]
           /\ call'[ch] = [method |-> m, id |-> id]
           /\ \A d \in Channels \ {ch} : call'[d] = call[d]
      BY <1>13, <2>6, <2>7, <2>8, <2>9
    <2>11. /\ pc' \in [Channels -> Stages] /\ pc'[ch] = "recvHeader"
           /\ \A d \in Channels \ {ch} : pc'[d] = pc[d]
      BY <1>1, <1>13 DEF ChannelState, Stages
    <2>12. ChannelState'
      BY <1>1, <1>13, <2>10, <2>11 DEF ChannelState
    <2>13. OwnVars(ch)
      BY <1>13, <2>10, <2>11 DEF OwnVars
    <2>14. OwnConns(ch)
      BY <1>5, <1>13, <2>4, <2>5 DEF OwnConns
    <2>15. SocketOf(ch)'
      BY <1>1, <1>2, <1>13, <2>11 DEF SocketOf
    <2>16. Pending(c, id)'
      <3>1. reply'[c] = << >> /\ ~Replying(c)'
        BY <1>5, <1>13, <2>2 DEF Quiet, Replying
      <3>2. CASE wire' = wire
        BY <2>6, <3>1, <3>2 DEF Pending
      <3>3. CASE wire' = [wire EXCEPT ![c] = Append(wire[c], f)]
        <4>1. wire'[c] = <<f>>
          BY <2>4, <2>6, <3>3
        <4>2. Len(wire'[c]) = 1 /\ WireId(c, 1)' = id
          BY <2>1, <4>1 DEF WireId
        <4> QED
          BY <3>1, <4>2 DEF Pending
      <3> QED
        BY <2>5, <3>2, <3>3
    <2>17. Conversation(ch)'
      <3>1. call'[ch].id = id /\ fd'[ch] = c
        BY <1>4, <1>13, <2>10
      <3> QED
        BY <2>11, <2>16, <3>1 DEF Conversation
    <2>18. ReadFrame(ch)'
      BY <2>11 DEF ReadFrame
    <2>19. Verdict(ch)'
      BY <1>1, <1>2, <1>13, <2>7, <2>10, <2>11 DEF Verdict
    <2>20. ASSUME NEW d \in Conns, OwnerOf[d] = ch PROVE SocketKept(d)' /\ Fresh(d)'
      <3>1. SocketKept(d) /\ Fresh(d)
        BY DEF SystemInv
      <3>2. CASE d = c
        BY <1>4, <1>5, <1>13, <3>2 DEF SocketKept, Fresh
      <3>3. CASE d # c
        <4>1. wire'[d] = wire[d]
          BY <2>4, <2>5, <3>3
        <4> QED
          BY <1>13, <3>1, <4>1 DEF SocketKept, Fresh
      <3> QED
        BY <3>2, <3>3
    <2> QED
      BY <1>13, <2>3, <2>12, <2>13, <2>14, <2>15, <2>17, <2>18, <2>19, <2>20, OwnStepKeeps
  <1> QED
    BY <1>10, <1>11, <1>12, <1>13

(***************************************************************************)
(* recv_exact takes the part at the head of the socket.                    *)
(***************************************************************************)
LEMMA ConnectionRead ==
  ASSUME SystemInv, UNCHANGED serverVars, NEW ch \in Channels, NEW c \in Conns, fd[ch] = c,
         reply[c] # << >>, reply' = [reply EXCEPT ![c] = Tail(reply[c])],
         UNCHANGED <<up, conn, peer, wire, arrived, sent, fd>>
  PROVE  /\ ServerInv' /\ reply' \in [Conns -> Seq(ReplyParts)]
         /\ reply'[c] = Tail(reply[c]) /\ reply[c] \in Seq(ReplyParts)
         /\ wire'[c] = wire[c] /\ (Replying(c)' <=> Replying(c))
         /\ OwnConns(ch)
         /\ \A d \in Conns : SocketKept(d)' /\ Fresh(d)'
         /\ \A d \in Conns : conn'[d] = conn[d]
  <1>1. UNCHANGED <<codec, task, answered>>
    BY DEF serverVars
  <1>2. /\ ServerInv /\ ChannelState /\ SocketOf(ch)
        /\ \A d \in Conns : SocketKept(d) /\ Fresh(d)
    BY DEF SystemInv
  <1>3. reply \in [Conns -> Seq(ReplyParts)] /\ TcpTypeOK /\ reply[c] \in Seq(ReplyParts)
    BY <1>2 DEF ChannelState, ServerInv, ServerState
  <1>4. Tail(reply[c]) \in Seq(ReplyParts)
    BY <1>3
  <1>5. reply' \in [Conns -> Seq(ReplyParts)] /\ reply'[c] = Tail(reply[c])
    BY <1>3, <1>4
  <1>6. TcpTypeOK'
    BY <1>3, <1>5 DEF TcpTypeOK
  <1>7. ServerInv'
    BY <1>1, <1>2, <1>6, QuietStepKeeps
  <1>8. OwnerOf[c] = ch /\ peer[c] = "open"
    BY <1>2, NoFdAssumption DEF SocketOf
  <1>9. OwnConns(ch)
    BY <1>3, <1>8 DEF OwnConns
  <1>10. ASSUME NEW d \in Conns PROVE SocketKept(d)' /\ Fresh(d)'
    <2>1. SocketKept(d)'
      BY <1>2 DEF SocketKept
    <2>2. CASE d = c
      BY <1>8, <2>1, <2>2 DEF Fresh
    <2>3. CASE d # c
      <3>1. reply'[d] = reply[d]
        BY <1>3, <2>3
      <3> QED
        BY <1>2, <2>1, <3>1 DEF Fresh
    <2> QED
      BY <2>2, <2>3
  <1>11. Replying(c)' <=> Replying(c)
    BY <1>1 DEF Replying
  <1> QED
    BY <1>3, <1>5, <1>7, <1>9, <1>10, <1>11

LEMMA RecvHeaderKeeps ==
  ASSUME SystemInv, UNCHANGED serverVars, NEW ch \in Channels, RecvHeader(ch)
  PROVE  SystemInv'
  <1>1. ChannelState /\ SocketOf(ch) /\ Verdict(ch) /\ Conversation(ch)
    BY DEF SystemInv
  <1>2. pc[ch] = "recvHeader"
    BY DEF RecvHeader
  <1>3. fd[ch] # NoFd /\ fd \in [Channels -> Conns \cup {NoFd}]
    BY <1>1, <1>2 DEF SocketOf, ChannelState
  <1>4. PICK c \in Conns : fd[ch] = c
    BY <1>3
  <1>5. PICK id \in Nat : call[ch].id = id
    BY <1>1 DEF ChannelState
  <1>6. Pending(c, id)
    BY <1>1, <1>2, <1>4, <1>5 DEF Conversation
  <1>7. CASE CloseAndFail(ch)
    BY <1>2, <1>7, CloseAndFailKeeps
  <1>8. CASE /\ HeaderReadable(ch) /\ HeaderAccepted(ch, Head(reply[c]).frame)
             /\ reply' = [reply EXCEPT ![c] = Tail(reply[c])]
             /\ frame_buf' = [frame_buf EXCEPT ![ch] = FrameBuf(Head(reply[c]).frame)]
             /\ pc' = [pc EXCEPT ![ch] = IF BodyBytes(Head(reply[c]).frame) > 0
                                         THEN "recvBody" ELSE "decode"]
             /\ UNCHANGED <<up, conn, peer, wire, arrived, sent, fd, name, call, failed,
                            calls, outcome>>
    <2>1. reply[c] # << >>
      BY <1>4, <1>8 DEF HeaderReadable
    <2>2. /\ wire[c] = << >> /\ ~Replying(c)
          /\ \E g \in Responses : g.body.val.id = id /\ reply[c] \in {Parts(g), <<HeaderPart(g)>>}
      BY <1>6, <2>1 DEF Pending
    <2>3. PICK g \in Responses : g.body.val.id = id /\ reply[c] \in {Parts(g), <<HeaderPart(g)>>}
      BY <2>2
    <2>4. \/ reply[c] = <<HeaderPart(g)>>
          \/ reply[c] = <<HeaderPart(g), BodyPart(g)>> /\ BodyBytes(g) # 0
      BY <2>3, PartsOfResponse
    <2>5. /\ Head(reply[c]) = HeaderPart(g) /\ Len(Tail(reply[c])) <= 1
          /\ BodyBytes(g) = 0 => Tail(reply[c]) = << >>
      <3>1. CASE reply[c] = <<HeaderPart(g)>>
        <4>1. Head(reply[c]) = HeaderPart(g) /\ Tail(reply[c]) = << >>
          BY <3>1
        <4>2. << >> \in Seq(ReplyParts)
          OBVIOUS
        <4>3. Len(<< >>) = 0 /\ Len(<< >>) <= 1
          BY <4>2, ShortSeq
        <4>4. Len(Tail(reply[c])) <= 1
          BY <4>1, <4>3, Zenon
        <4> QED
          BY <4>1, <4>4, Zenon
      <3>2. CASE reply[c] = <<HeaderPart(g), BodyPart(g)>> /\ BodyBytes(g) # 0
        <4>1. Head(reply[c]) = HeaderPart(g) /\ Tail(reply[c]) = <<BodyPart(g)>>
          BY <3>2
        <4> QED
          BY <3>2, <4>1
      <3> QED
        BY <2>4, <3>1, <3>2
    <2>6. Head(reply[c]).frame = g
      BY <2>5 DEF HeaderPart
    <2>7. /\ BodyBytes(g) \in Nat
          /\ g.proto # "XRpc" => ~IsValid(PeekFixedHeader(g))
          /\ g.proto = "XRpc" => ~IsValid(PeekFixedHeader(FrameBuf(g)))
          /\ FrameBuf(g).body = g.body
      BY ResponseFields
    <2>8. PICK stage : stage = IF BodyBytes(g) > 0 THEN "recvBody" ELSE "decode"
      OBVIOUS
    <2>9. stage \in {"recvBody", "decode"} /\ (stage = "decode" => BodyBytes(g) = 0)
      BY <2>7, <2>8
    <2>10. /\ pc' \in [Channels -> Stages] /\ pc'[ch] = stage
           /\ \A d \in Channels \ {ch} : pc'[d] = pc[d]
      BY <1>1, <1>8, <2>6, <2>8, <2>9 DEF ChannelState, Stages
    <2>11. /\ DOMAIN frame_buf' = Channels /\ frame_buf'[ch] = FrameBuf(g)
           /\ \A d \in Channels \ {ch} : frame_buf'[d] = frame_buf[d]
      BY <1>1, <1>8, <2>6 DEF ChannelState
    <2>12. /\ ServerInv' /\ reply' \in [Conns -> Seq(ReplyParts)]
           /\ reply'[c] = Tail(reply[c])
           /\ wire'[c] = wire[c] /\ (Replying(c)' <=> Replying(c))
           /\ OwnConns(ch)
           /\ \A d \in Conns : SocketKept(d)' /\ Fresh(d)'
           /\ \A d \in Conns : conn'[d] = conn[d]
      BY <1>4, <1>8, <2>1, ConnectionRead
    <2>13. ChannelState'
      BY <1>1, <1>8, <2>10, <2>11, <2>12 DEF ChannelState
    <2>14. OwnVars(ch)
      BY <1>8, <2>10, <2>11 DEF OwnVars
    <2>15. SocketOf(ch)'
      BY <1>1, <1>2, <1>8, <2>9, <2>10 DEF SocketOf
    <2>16. /\ stage = "recvBody" => BodyLeft(c)'
           /\ stage = "decode" => Quiet(c)'
      BY <2>2, <2>5, <2>9, <2>12 DEF BodyLeft, Quiet
    <2>17. Conversation(ch)'
      BY <1>4, <1>8, <2>9, <2>10, <2>16 DEF Conversation
    <2>18. ReadFrame(ch)'
      <3>1. frame_buf'[ch].body.val.id = call'[ch].id
        BY <1>5, <1>8, <2>3, <2>7, <2>11
      <3>2. ASSUME Proto(ch) = "XRpc" PROVE ~IsValid(PeekFixedHeader(frame_buf'[ch]))
        <4>1. IsValid(PeekFixedHeader(g))
          BY <1>8, <2>6, <3>2 DEF HeaderAccepted
        <4> QED
          BY <2>7, <2>11, <4>1
      <3> QED
        BY <3>1, <3>2 DEF ReadFrame, Proto
    <2>19. Verdict(ch)'
      BY <1>1, <1>2, <1>8, <2>9, <2>10 DEF Verdict
    <2> QED
      BY <2>12, <2>13, <2>14, <2>15, <2>17, <2>18, <2>19, OwnStepKeeps
  <1> QED
    BY <1>4, <1>7, <1>8 DEF RecvHeader

LEMMA RecvBodyKeeps ==
  ASSUME SystemInv, UNCHANGED serverVars, NEW ch \in Channels, RecvBody(ch)
  PROVE  SystemInv'
  <1>1. ChannelState /\ SocketOf(ch) /\ Verdict(ch) /\ Conversation(ch) /\ ReadFrame(ch)
    BY DEF SystemInv
  <1>2. pc[ch] = "recvBody"
    BY DEF RecvBody
  <1>3. /\ fd[ch] # NoFd /\ fd \in [Channels -> Conns \cup {NoFd}] /\ call[ch].id \in Nat
    BY <1>1, <1>2 DEF SocketOf, ChannelState
  <1>4. PICK c \in Conns : fd[ch] = c
    BY <1>3
  <1>5. BodyLeft(c)
    BY <1>1, <1>2, <1>3, <1>4 DEF Conversation
  <1>6. CASE CloseAndFail(ch)
    BY <1>2, <1>6, CloseAndFailKeeps
  <1>7. CASE /\ reply[c] # << >>
             /\ reply' = [reply EXCEPT ![c] = Tail(reply[c])]
             /\ pc' = [pc EXCEPT ![ch] = "decode"]
             /\ UNCHANGED <<up, conn, peer, wire, arrived, sent, fd, name, call, frame_buf,
                            failed, calls, outcome>>
    <2>1. /\ ServerInv' /\ reply' \in [Conns -> Seq(ReplyParts)]
          /\ reply'[c] = Tail(reply[c]) /\ reply[c] \in Seq(ReplyParts)
          /\ wire'[c] = wire[c] /\ (Replying(c)' <=> Replying(c))
          /\ OwnConns(ch)
          /\ \A d \in Conns : SocketKept(d)' /\ Fresh(d)'
          /\ \A d \in Conns : conn'[d] = conn[d]
      BY <1>4, <1>7, ConnectionRead
    <2>2. Tail(reply[c]) = << >>
      BY <1>5, <1>7, <2>1 DEF BodyLeft
    <2>3. Quiet(c)'
      BY <1>5, <2>1, <2>2 DEF BodyLeft, Quiet
    <2>4. /\ pc' \in [Channels -> Stages] /\ pc'[ch] = "decode"
          /\ \A d \in Channels \ {ch} : pc'[d] = pc[d]
      BY <1>1, <1>7 DEF ChannelState, Stages
    <2>5. SocketOf(ch)'
      BY <1>1, <1>2, <1>7, <2>4 DEF SocketOf
    <2>6. Conversation(ch)'
      BY <1>4, <1>7, <2>3, <2>4 DEF Conversation
    <2>7. ReadFrame(ch)'
      BY <1>1, <1>2, <1>7, <2>4 DEF ReadFrame
    <2>8. Verdict(ch)'
      BY <1>1, <1>2, <1>7, <2>4 DEF Verdict
    <2>9. fd' \in [Channels -> Conns \cup {NoFd}]
      BY <1>3, <1>7
    <2> QED
      BY <1>7, <2>1, <2>4, <2>5, <2>6, <2>7, <2>8, <2>9, MoveOnKeeps
  <1> QED
    BY <1>4, <1>6, <1>7 DEF RecvBody

(***************************************************************************)
(* The response is decoded.  A Legacy body is that of the frame read; an   *)
(* XRpc header was turned round before it was handed to the codec, which   *)
(* refuses it, so such a call never succeeds.                              *)
(***************************************************************************)
LEMMA DecodeResponseKeeps ==
  ASSUME SystemInv, UNCHANGED serverVars, NEW ch \in Channels, DecodeResponse(ch)
  PROVE  SystemInv'
  <1>1. ChannelState /\ SocketOf(ch) /\ Verdict(ch) /\ Conversation(ch) /\ ReadFrame(ch)
    BY DEF SystemInv
  <1>2. pc[ch] = "decode"
    BY DEF DecodeResponse
  <1>3. PICK o \in ClientDecode(ch) :
          \/ CloseAndFail(ch)
          \/ /\ o.ret = kCodecOk /\ Finish(ch, TRUE, o.body.val)
             /\ UNCHANGED <<tcpVars, fd, ip, name, call, calls>>
    BY DEF DecodeResponse
  <1>4. CASE CloseAndFail(ch)
    BY <1>2, <1>4, CloseAndFailKeeps
  <1>5. CASE /\ o.ret = kCodecOk /\ Finish(ch, TRUE, o.body.val)
             /\ UNCHANGED <<tcpVars, fd, ip, name, call, calls>>
    <2>1. o.body.val.id = call[ch].id /\ Proto(ch) # "XRpc"
      <3>1. /\ frame_buf[ch].body.val.id = call[ch].id
            /\ Proto(ch) = "XRpc" => ~IsValid(PeekFixedHeader(frame_buf[ch]))
        BY <1>1, <1>2 DEF ReadFrame
      <3>2. Proto(ch) # "XRpc"
        <4>1. ASSUME Proto(ch) = "XRpc" PROVE FALSE
          <5>1. o = [ret |-> kCodecInvalidMagic]
            BY <3>1, <4>1 DEF ClientDecode, XRpcClientDecode
          <5> QED
            BY <1>5, <5>1, SMT DEF kCodecOk, kCodecInvalidMagic
        <4> QED
          BY <4>1
      <3>3. o.body.val = frame_buf[ch].body.val
        <4>1. o \in LegacyClientDecode(frame_buf[ch], 4 + BodyBytes(frame_buf[ch]))
          BY <3>2 DEF ClientDecode
        <4>2. o # [ret |-> kCodecOversized] /\ o # [ret |-> kCodecIncomplete]
          BY <1>5, SMT DEF kCodecOk, kCodecOversized, kCodecIncomplete
        <4>3. o = [ret |-> kCodecOk, body |-> [val |-> frame_buf[ch].body.val,
                                              size |-> First32(frame_buf[ch])]]
          BY <4>1, <4>2 DEF LegacyClientDecode
        <4> QED
          BY <4>3
      <3> QED
        BY <3>1, <3>2, <3>3
    <2>2. /\ ServerInv' /\ reply' \in [Conns -> Seq(ReplyParts)]
          /\ fd' \in [Channels -> Conns \cup {NoFd}]
          /\ OwnConns(ch)
          /\ \A c \in Conns : SocketKept(c)' /\ Fresh(c)'
          /\ \A c \in Conns : conn'[c] = conn[c]
          /\ \A c \in Conns : Quiet(c) => Quiet(c)'
      BY <1>5, ConnectionsStay
    <2>3. /\ pc' \in [Channels -> Stages] /\ pc'[ch] = "idle"
          /\ DOMAIN frame_buf' = Channels
          /\ failed' \in [Channels -> BOOLEAN]
          /\ DOMAIN outcome' = Channels
          /\ Verdict(ch)' /\ ReadFrame(ch)'
          /\ \A d \in Channels \ {ch} :
               /\ pc'[d] = pc[d] /\ frame_buf'[d] = frame_buf[d] /\ failed'[d] = failed[d]
               /\ outcome'[d] = outcome[d]
      BY <1>1, <1>2, <1>5, <2>1, FinishKeeps
    <2>4. ChannelState'
      BY <1>1, <1>5, <2>2, <2>3 DEF ChannelState
    <2>5. OwnVars(ch)
      BY <1>5, <2>3 DEF OwnVars
    <2>6. SocketOf(ch)'
      BY <1>1, <1>5, <2>3 DEF SocketOf, tcpVars
    <2>7. Conversation(ch)'
      <3>1. call[ch].id \in Nat
        BY <1>1 DEF ChannelState
      <3>2. \A c \in Conns : fd[ch] = c => Quiet(c)
        BY <1>1, <1>2, <3>1 DEF Conversation
      <3> QED
        BY <1>5, <2>2, <2>3, <3>2 DEF Conversation
    <2> QED
      BY <2>2, <2>3, <2>4, <2>5, <2>6, <2>7, OwnStepKeeps
  <1> QED
    BY <1>3, <1>4, <1>5

-----------------------------------------------------------------------------
(***************************************************************************)
(* The invariant is inductive.                                             *)
(***************************************************************************)
LEMMA ChannelStepKeeps ==
  ASSUME SystemInv, UNCHANGED serverVars, NEW ch \in Channels, ChannelStep(ch)
  PROVE  SystemInv'
  BY ConstructKeeps, QueryKeeps, ConnectKeeps, SendKeeps, RecvHeaderKeeps, RecvBodyKeeps,
     DecodeResponseKeeps, DestroyKeeps, CallMethodKeeps DEF ChannelStep, Stage

(***************************************************************************)
(* Nothing but the server's being up changes: Restart, and stuttering.     *)
(***************************************************************************)
LEMMA RestartKeeps ==
  ASSUME SystemInv, up' \in BOOLEAN,
         UNCHANGED <<conn, peer, wire, arrived, sent, reply, serverVars, channelVars>>
  PROVE  SystemInv'
  <1>1. /\ UNCHANGED <<conn, peer, wire, arrived, sent, reply>>
        /\ UNCHANGED <<codec, task, answered>>
        /\ UNCHANGED <<pc, fd, name, call, frame_buf, failed, calls, outcome>>
    BY DEF serverVars, channelVars
  <1>2. /\ ServerInv /\ ChannelState
        /\ \A ch \in Channels : SocketOf(ch) /\ Conversation(ch) /\ ReadFrame(ch) /\ Verdict(ch)
        /\ \A c \in Conns : SocketKept(c) /\ Fresh(c)
        /\ \A l \in Loops : TaskUsed(l)
    BY DEF SystemInv
  <1>3. TcpTypeOK'
    BY <1>1, <1>2 DEF ServerInv, ServerState, TcpTypeOK
  <1>4. ServerInv'
    BY <1>1, <1>2, <1>3, QuietStepKeeps
  <1>5. ChannelState'
    BY <1>1, <1>2 DEF ChannelState
  <1>6. ASSUME NEW ch \in Channels
        PROVE  (SocketOf(ch) /\ Conversation(ch) /\ ReadFrame(ch) /\ Verdict(ch))'
    <2>1. SocketOf(ch)'
      BY <1>1, <1>2 DEF SocketOf
    <2>2. Conversation(ch)'
      BY <1>1, <1>2 DEF Conversation, Quiet, Pending, BodyLeft, Replying, WireId
    <2>3. ReadFrame(ch)'
      BY <1>1, <1>2 DEF ReadFrame
    <2>4. Verdict(ch)'
      BY <1>1, <1>2 DEF Verdict
    <2> QED
      BY <2>1, <2>2, <2>3, <2>4
  <1>7. \A c \in Conns : (SocketKept(c) /\ Fresh(c))'
    BY <1>1, <1>2 DEF SocketKept, Fresh
  <1>8. \A l \in Loops : TaskUsed(l)'
    BY <1>1, <1>2 DEF TaskUsed
  <1> QED
    BY <1>4, <1>5, <1>6, <1>7, <1>8 DEF SystemInv

LEMMA SystemStarts == Init => SystemInv
  <1> SUFFICES ASSUME Init PROVE SystemInv
    OBVIOUS
  <1>1. TcpInit({}) /\ ServerInit /\ ChannelInit
    BY DEF Init
  <1>2. ServerInv
    BY <1>1, ServerStarts
  <1>3. ChannelState
    <2>1. reply \in [Conns -> Seq(ReplyParts)]
      BY <1>1 DEF TcpInit
    <2>2. pc \in [Channels -> Stages] /\ fd \in [Channels -> Conns \cup {NoFd}]
      BY <1>1 DEF ChannelInit, Stages
    <2>3. calls \in [Channels -> 0 .. MaxCalls]
      <3>1. 0 \in 0 .. MaxCalls
        BY CallsAssumption
      <3> QED
        BY <1>1, <3>1 DEF ChannelInit
    <2>4. call \in [Channels -> [method : Methods \cup {""}, id : Nat]]
      BY <1>1 DEF ChannelInit
    <2>5. /\ name \in [Channels -> Methods \cup {""}] /\ failed \in [Channels -> BOOLEAN]
          /\ DOMAIN frame_buf = Channels /\ DOMAIN outcome = Channels
      BY <1>1 DEF ChannelInit
    <2> QED
      BY <2>1, <2>2, <2>3, <2>4, <2>5 DEF ChannelState
  <1>4. ASSUME NEW ch \in Channels
        PROVE  SocketOf(ch) /\ Conversation(ch) /\ ReadFrame(ch) /\ Verdict(ch)
    <2>1. /\ pc[ch] = "construct" /\ fd[ch] = NoFd /\ calls[ch] = 0 /\ failed[ch] = FALSE
          /\ outcome[ch].ok = TRUE
      BY <1>1 DEF ChannelInit
    <2> QED
      BY <2>1, NoFdAssumption DEF SocketOf, Conversation, ReadFrame, Verdict
  <1>5. ASSUME NEW c \in Conns PROVE SocketKept(c) /\ Fresh(c)
    BY <1>1 DEF TcpInit, SocketKept, Fresh
  <1>6. ASSUME NEW l \in Loops PROVE TaskUsed(l)
    BY <1>1 DEF ServerInit, TaskUsed
  <1> QED
    BY <1>2, <1>3, <1>4, <1>5, <1>6 DEF SystemInv

LEMMA SystemInductive == Spec => []SystemInv
  <1>1. SystemInv /\ [Next]_vars => SystemInv'
    <2> SUFFICES ASSUME SystemInv, [Next]_vars PROVE SystemInv'
      OBVIOUS
    <2>1. ASSUME NEW ch \in Channels, ChannelStep(ch), UNCHANGED serverVars PROVE SystemInv'
      BY <2>1, ChannelStepKeeps
    <2>2. ASSUME NEW l \in Loops, LoopStep(l), UNCHANGED channelVars PROVE SystemInv'
      BY <2>2, ServerStepKeeps DEF ServerStep
    <2>3. CASE Crash
      BY <2>3, ServerStepKeeps DEF Crash, ServerStep
    <2>4. CASE Restart
      BY <2>4, RestartKeeps DEF Restart
    <2>5. CASE UNCHANGED vars
      <3>1. up' = up /\ up \in BOOLEAN
        BY <2>5 DEF vars, tcpVars, SystemInv, ServerInv, ServerState, TcpTypeOK
      <3> QED
        BY <2>5, <3>1, RestartKeeps DEF vars, tcpVars
    <2> QED
      BY <2>1, <2>2, <2>3, <2>4, <2>5 DEF Next
  <1> QED
    BY SystemStarts, <1>1, PTL DEF Spec

-----------------------------------------------------------------------------
(***************************************************************************)
(* Type correctness: CallMethod is always in one of its stages, a channel  *)
(* never holds a socket of another one, and in the stages that use         *)
(* m_clientfd there is one.                                                *)
(***************************************************************************)
THEOREM ChannelTypeCorrect == Spec => []ChannelTypeOK
  <1>1. SystemInv => ChannelTypeOK
    <2> SUFFICES ASSUME SystemInv PROVE ChannelTypeOK
      OBVIOUS
    <2>1. ChannelState /\ \A ch \in Channels : SocketOf(ch)
      BY DEF SystemInv
    <2>2. ASSUME NEW ch \in Channels
          PROVE  /\ pc[ch] \in {"construct", "idle", "query", "connect", "send", "recvHeader",
                                "recvBody", "decode", "gone"}
                 /\ fd[ch] = NoFd \/ OwnerOf[fd[ch]] = ch
                 /\ pc[ch] \in {"send", "recvHeader", "recvBody", "decode"} => fd[ch] # NoFd
      BY <2>1 DEF SocketOf, ChannelState, Stages
    <2> QED
      BY <2>1, <2>2 DEF ChannelTypeOK, ChannelState
  <1> QED
    BY SystemInductive, <1>1, PTL

(***************************************************************************)
(* The sockets that are open are exactly those in some m_clientfd: every   *)
(* error path of CallMethod closes its socket and forgets it, the          *)
(* destructor closes the last one, and none is opened over another.        *)
(***************************************************************************)
THEOREM SocketsOwnedCorrect == Spec => []SocketsOwned
  <1>1. SystemInv => SocketsOwned
    <2> SUFFICES ASSUME SystemInv, NEW c \in Conns
                 PROVE  (peer[c] = "open") <=> (fd[OwnerOf[c]] = c)
      BY DEF SocketsOwned
    <2>1. OwnerOf[c] \in Channels
      BY OwnerOfAssumption
    <2>2. SocketKept(c) /\ SocketOf(OwnerOf[c])
      BY <2>1 DEF SystemInv
    <2> QED
      BY <2>2, NoFdAssumption DEF SocketKept, SocketOf
  <1> QED
    BY SystemInductive, <1>1, PTL

(***************************************************************************)
(* A socket kept between two calls is silent: whatever happened in the     *)
(* first, no byte of its response is left for the second to read.          *)
(***************************************************************************)
THEOREM QuietBetweenCallsCorrect == Spec => []QuietBetweenCalls
  <1>1. SystemInv => QuietBetweenCalls
    <2> SUFFICES ASSUME SystemInv, NEW ch \in Channels, pc[ch] \in {"idle", "send"},
                        fd[ch] # NoFd
                 PROVE  reply[fd[ch]] = << >> /\ wire[fd[ch]] = << >>
      BY DEF QuietBetweenCalls
    <2>1. Conversation(ch) /\ fd[ch] \in Conns /\ call[ch].id \in Nat
      BY DEF SystemInv, ChannelState
    <2>2. Quiet(fd[ch])
      BY <2>1 DEF Conversation
    <2> QED
      BY <2>2 DEF Quiet
  <1> QED
    BY SystemInductive, <1>1, PTL

(***************************************************************************)
(* A call that succeeds returns the answer to its own request, although    *)
(* responses carry no number and are matched by their place alone, and     *)
(* although the server may die and come back at any point of the call.     *)
(***************************************************************************)
THEOREM ResponseMatchesCorrect == Spec => []ResponseMatches
  <1>1. SystemInv => ResponseMatches
    BY DEF SystemInv, Verdict, ResponseMatches
  <1> QED
    BY SystemInductive, <1>1, PTL

(***************************************************************************)
(* The server's own promises hold with channels as its clients: a          *)
(* connection is answered in the order of its requests, and the input      *)
(* buffer always begins with a frame.                                      *)
(***************************************************************************)
THEOREM ServerWithChannelsCorrect == Spec => [](ServerTypeOK /\ AnswersInOrder /\ BufferAligned)
  <1>1. SystemInv => ServerTypeOK /\ AnswersInOrder /\ BufferAligned
    BY ServerInvImplies DEF SystemInv
  <1> QED
    BY SystemInductive, <1>1, PTL

(***************************************************************************)
(* No call of a channel built with useXrpc ever succeeds: CallMethod hands *)
(* the codec a header already in host order, which it refuses.  So the     *)
(* failure the SystemXRpc run shows is one of every instance.              *)
(***************************************************************************)
XRpcCallsFail == \A ch \in UseXrpc \cap Channels : pc[ch] = "idle" /\ calls[ch] > 0 => ~outcome[ch].ok

THEOREM XRpcCallsFailCorrect == Spec => []XRpcCallsFail
  <1>1. SystemInv => XRpcCallsFail
    BY DEF SystemInv, Verdict, XRpcCallsFail, Proto
  <1> QED
    BY SystemInductive, <1>1, PTL
=============================================================================
