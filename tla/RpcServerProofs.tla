-------------------------- MODULE RpcServerProofs ---------------------------
(***************************************************************************)
(* What every OnMessage step of RpcServer preserves, whoever the clients   *)
(* are: the lemmas the theorems about RpcServerLoad and RpcSystem share.   *)
(***************************************************************************)
EXTENDS RpcServer, SequenceLemmas

-----------------------------------------------------------------------------
(***************************************************************************)
(* Every frame a client codec can put on a connection: the method named in *)
(* the header and the one the body belongs to need not agree.              *)
(***************************************************************************)
Methods == DOMAIN ReqSize

Encoded(p, m, k, id) == ClientEncode(p, RpcHeader(m), RequestBody(k, id))

Requests == {Encoded(a[1], a[2], a[3], a[4]).frame :
               a \in {b \in Protocols \X Methods \X Methods \X Nat :
                        Encoded(b[1], b[2], b[3], b[4]).ret = kCodecOk}}

(***************************************************************************)
(* Frame f is request number id for the method k, under a header that      *)
(* names the method m.                                                     *)
(***************************************************************************)
Says(f, m, k, id) ==
  /\ f.header = [val |-> m, size |-> 24]
  /\ f.body = [val |-> [id |-> id, type |-> k], size |-> ReqSize[k]]
  /\ \/ f.proto = "Legacy" /\ f.total = 28 + ReqSize[k]
     \/ /\ f.proto = "XRpc" /\ 40 + ReqSize[k] <= kMaxFrameSize
        /\ PeekFixedHeader(f) = [magic |-> kMagicNumber, type |-> kRequest,
                                 total_size |-> 40 + ReqSize[k], header_size |-> 24]

(***************************************************************************)
(* What a request frame says.                                              *)
(***************************************************************************)
LEMMA RequestFields ==
  ASSUME NEW f \in Requests
  PROVE  \E m \in Methods, k \in Methods, id \in Nat : Says(f, m, k, id)
  <1>1. PICK p \in Protocols, m \in Methods, k \in Methods, id \in Nat :
          Encoded(p, m, k, id).ret = kCodecOk /\ f = Encoded(p, m, k, id).frame
    BY SMT DEF Requests
  <1>2. ReqSize[k] \in Nat
    BY SizesAssumption, SMT DEF Methods
  <1> DEFINE h == [val |-> m, size |-> 24]
             b == [val |-> [id |-> id, type |-> k], size |-> ReqSize[k]]
  <1>3. CASE p = "Legacy"
    <2>1. f = [proto |-> "Legacy", total |-> 4 + h.size + b.size, header |-> h, body |-> b]
      BY <1>1, <1>3, SMT DEF Encoded, ClientEncode, LegacyClientEncode, RpcHeader, RequestBody
    <2>2. 4 + h.size + b.size = 28 + ReqSize[k]
      BY <1>2, SMT
    <2>3. Says(f, m, k, id)
      BY <2>1, <2>2, SMT DEF Says
    <2> QED
      BY <2>3
  <1>4. CASE p = "XRpc"
    <2> DEFINE fh == [magic |-> kMagicNumber, type |-> kRequest,
                      total_size |-> 40 + ReqSize[k], header_size |-> 24]
    <2>1. FixedHeaderOf(kRequest, h, b) = fh
      BY <1>2, SMT DEF FixedHeaderOf, kFixedHeaderSize
    <2> HIDE DEF fh
    <2>2. Encoded(p, m, k, id) = XRpcEncode(kRequest, h, b)
      BY <1>4, SMT DEF Encoded, ClientEncode, RpcHeader, RequestBody
    <2> HIDE DEF h, b
    <2>3. ~(fh.total_size > kMaxFrameSize)
      BY <1>1, <2>1, <2>2, SMT DEF XRpcEncode, kCodecOversized, kCodecOk
    <2>4. f = [proto |-> "XRpc", fh |-> HToN(fh), header |-> h, body |-> b]
      BY <1>1, <2>1, <2>2, <2>3, SMT DEF XRpcEncode
    <2>5. PeekFixedHeader(f) = fh
      BY <2>4, SMT DEF PeekFixedHeader, HToN
    <2>6. 40 + ReqSize[k] <= kMaxFrameSize
      BY <1>2, <2>3, SMT DEF fh, kMaxFrameSize
    <2>7. Says(f, m, k, id)
      BY <2>4, <2>5, <2>6, SMT DEF Says, fh, h, b
    <2> QED
      BY <2>7
  <1> QED
    BY <1>3, <1>4 DEF Protocols

(***************************************************************************)
(* What a client codec encodes is a request, with the number it was given. *)
(***************************************************************************)
LEMMA EncodedRequest ==
  ASSUME NEW p \in Protocols, NEW m \in Methods, NEW k \in Methods, NEW id \in Nat,
         Encoded(p, m, k, id).ret = kCodecOk
  PROVE  Encoded(p, m, k, id).frame \in Requests /\ Encoded(p, m, k, id).frame.body.val.id = id
  <1> DEFINE e == Encoded(p, m, k, id)
             a == <<p, m, k, id>>
  <1>1. e.frame.body = RequestBody(k, id)
    BY SMT DEF Encoded, ClientEncode, LegacyClientEncode, XRpcEncode, kCodecOk, kCodecOversized
  <1>2. e.frame.body.val.id = id
    BY <1>1, SMT DEF RequestBody
  <1>3. a \in Protocols \X Methods \X Methods \X Nat /\ Encoded(a[1], a[2], a[3], a[4]) = e
    OBVIOUS
  <1>4. e.ret = kCodecOk
    OBVIOUS
  <1> HIDE DEF a, e
  <1>5. e.frame \in Requests
    BY <1>3, <1>4 DEF Requests
  <1> QED
    BY <1>2, <1>5 DEF e

(***************************************************************************)
(* A positive verdict of CheckAndPick is the size of the frame, and the    *)
(* whole frame has arrived: a codec never cuts a frame of the other        *)
(* protocol, it refuses it.                                                *)
(***************************************************************************)
LEMMA PickedWhole ==
  ASSUME NEW f \in Requests, NEW p, NEW n \in Nat
  PROVE  /\ CheckAndPick(p, f, n) \in Int
         /\ CheckAndPick(p, f, n) > 0 => /\ CheckAndPick(p, f, n) = FrameSize(f)
                                         /\ FrameSize(f) <= n
  <1>1. PICK m \in Methods, k \in Methods, id \in Nat : Says(f, m, k, id)
    BY RequestFields
  <1>2. ReqSize[k] \in Nat /\ ReqSize[k] <= 20000000
    BY SizesAssumption, SMT DEF Methods
  <1>3. CASE f.proto = "Legacy"
    <2>1. First32(f) = 28 + ReqSize[k] /\ FrameSize(f) = 32 + ReqSize[k]
      BY <1>1, <1>2, <1>3, SMT DEF Says, First32, FrameSize
    <2>2. PeekFixedHeader(f).magic # kMagicNumber
      <3>1. PeekFixedHeader(f).magic = (28 + ReqSize[k]) \div 65536
        BY <1>1, <1>3, SMT DEF Says, PeekFixedHeader
      <3> QED
        BY <1>2, <3>1, SMT DEF kMagicNumber
    <2>3. XRpcCheckAndPick(f, n) \in {0, -1}
      BY <2>2, SMT DEF XRpcCheckAndPick, IsValid, kCodecInvalidMagic
    <2>4. /\ LegacyCheckAndPick(f, n) \in Int
          /\ LegacyCheckAndPick(f, n) > 0 =>
               LegacyCheckAndPick(f, n) = 32 + ReqSize[k] /\ 32 + ReqSize[k] <= n
      BY <1>2, <2>1, SMT DEF LegacyCheckAndPick, kCodecOversized, kCodecParseError
    <2> QED
      BY <2>1, <2>3, <2>4, SMT DEF CheckAndPick
  <1>4. CASE f.proto = "XRpc"
    <2>1. FrameSize(f) = 40 + ReqSize[k]
      BY <1>1, <1>2, <1>4, SMT DEF Says, FrameSize, kFixedHeaderSize
    <2>2. First32(f) > kMaxFrameSize
      BY <1>1, <1>4, SMT DEF Says, First32, kMagicNumber, kRequest, kMaxFrameSize
    <2>3. LegacyCheckAndPick(f, n) \in {0, -2}
      BY <2>2, SMT DEF LegacyCheckAndPick, kCodecOversized
    <2>4. /\ XRpcCheckAndPick(f, n) \in Int
          /\ XRpcCheckAndPick(f, n) > 0 =>
               XRpcCheckAndPick(f, n) = 40 + ReqSize[k] /\ 40 + ReqSize[k] <= n
      BY <1>1, <1>2, <1>4, SMT
         DEF Says, XRpcCheckAndPick, kCodecOversized, kCodecInvalidMagic, kCodecParseError
    <2> QED
      BY <2>1, <2>3, <2>4, SMT DEF CheckAndPick
  <1> QED
    BY <1>1, <1>3, <1>4, SMT DEF Says

(***************************************************************************)
(* A request takes some bytes and carries a number.                        *)
(***************************************************************************)
LEMMA RequestSize ==
  ASSUME NEW f \in Requests
  PROVE  FrameSize(f) \in Nat /\ f.body.val.id \in Nat
  <1>1. PICK m \in Methods, k \in Methods, id \in Nat : Says(f, m, k, id)
    BY RequestFields
  <1>2. ReqSize[k] \in Nat
    BY SizesAssumption, SMT DEF Methods
  <1> QED
    BY <1>1, <1>2, SMT DEF Says, FrameSize, kFixedHeaderSize

(***************************************************************************)
(* What a server codec decodes is garbled or the request that was sent.    *)
(***************************************************************************)
LEMMA DecodedRequest ==
  ASSUME NEW f \in Requests, NEW p, NEW o \in ServerDecode(p, f), o.ret = kCodecOk
  PROVE  o.header = Garbled \/ o.body.val = f.body.val
  <1>1. o \in DecodedOutcome(f, BodySize(PeekFixedHeader(f)))
          \/ o \in GarbledOutcomes(BodySize(PeekFixedHeader(f)))
          \/ o \in DecodedOutcome(f, First32(f) - 4 - f.header.size)
          \/ o \in GarbledOutcomes(First32(f))
    <2>1. o # [ret |-> kCodecInvalidMagic]
      BY SMT DEF kCodecOk, kCodecInvalidMagic
    <2> QED
      BY <2>1, SMT DEF ServerDecode, DecodeXRpc, DecodeLegacy
  <1> QED
    BY <1>1, SMT DEF DecodedOutcome, GarbledOutcomes, kCodecOk, kCodecParseError

-----------------------------------------------------------------------------
(***************************************************************************)
(* FrameEnds is the function its recursive definition describes.           *)
(***************************************************************************)
LEMMA FrameEndsDef ==
  ASSUME NEW w \in Seq(Requests)
  PROVE  FrameEnds(w) = [i \in 0 .. Len(w) |->
                           IF i = 0 THEN 0 ELSE FrameEnds(w)[i - 1] + FrameSize(w[i])]
  <1> DEFINE Ends(g, k) == g = [i \in 0 .. k |->
                                  IF i = 0 THEN 0 ELSE g[i - 1] + FrameSize(w[i])]
             T == {k \in Nat : ~\E g : Ends(g, k)}
  <1>1. ASSUME T # {} PROVE FALSE
    <2>1. PICK k \in T : \A y \in T : k <= y
      <3> HIDE DEF Ends
      <3> QED
        BY <1>1, LeastNat
    <2>2. CASE k = 0
      <3>1. Ends([i \in 0 .. 0 |-> 0], 0)
        OBVIOUS
      <3> QED
        BY <2>1, <2>2, <3>1
    <2>3. CASE k # 0
      <3>1. k - 1 \in Nat /\ k - 1 \notin T
        <4> HIDE DEF Ends
        <4> QED
          BY <2>1, <2>3
      <3>2. PICK g : Ends(g, k - 1)
        BY <3>1
      <3>3. Ends([i \in 0 .. k |-> IF i = k THEN g[k - 1] + FrameSize(w[k]) ELSE g[i]], k)
        BY <2>3, <3>1, <3>2
      <3> QED
        BY <3>3
    <2> QED
      BY <2>2, <2>3
  <1>2. PICK g : Ends(g, Len(w))
    BY <1>1
  <1> QED
    BY <1>2 DEF FrameEnds

LEMMA FrameEndsNat ==
  ASSUME NEW w \in Seq(Requests), NEW n \in 0 .. Len(w)
  PROVE  FrameEnds(w)[n] \in Nat
  <1> DEFINE end == FrameEnds(w)
             T == {k \in Nat : k <= Len(w) /\ end[k] \notin Nat}
  <1>1. end = [i \in 0 .. Len(w) |-> IF i = 0 THEN 0 ELSE end[i - 1] + FrameSize(w[i])]
    BY FrameEndsDef
  <1> HIDE DEF end
  <1>2. ASSUME T # {} PROVE FALSE
    <2>1. PICK k \in T : \A y \in T : k <= y
      BY <1>2, LeastNat
    <2>2. k # 0
      BY <1>1, <2>1
    <2>3. k - 1 \in Nat /\ end[k - 1] \in Nat
      BY <2>1, <2>2
    <2>4. FrameSize(w[k]) \in Nat
      BY <2>1, <2>2, RequestSize
    <2> QED
      <3>1. k \in 0 .. Len(w)
        BY <2>1
      <3>2. end[k] = end[k - 1] + FrameSize(w[k])
        BY <1>1, <2>2, <3>1
      <3> QED
        BY <2>1, <2>3, <2>4, <3>2
  <1>3. n \in Nat /\ n <= Len(w) /\ n \notin T
    BY <1>2
  <1>4. end[n] \in Nat
    BY <1>3
  <1> QED
    BY <1>4 DEF end

(***************************************************************************)
(* The bytes of a stream: none at first, and a frame's worth more with     *)
(* every frame sent, less with every frame retrieved.                      *)
(***************************************************************************)
Bytes(w) == FrameEnds(w)[Len(w)]

LEMMA BytesEmpty == Bytes(<< >>) = 0
  <1> DEFINE w == << >>
             end == FrameEnds(w)
  <1>1. w \in Seq(Requests) /\ Len(w) = 0
    OBVIOUS
  <1> HIDE DEF w
  <1>2. end = [i \in 0 .. Len(w) |-> IF i = 0 THEN 0 ELSE end[i - 1] + FrameSize(w[i])]
    BY <1>1, FrameEndsDef
  <1> HIDE DEF end
  <1>3. end[0] = 0
    BY <1>1, <1>2
  <1> QED
    BY <1>1, <1>3 DEF Bytes, end, w

LEMMA BytesNat ==
  ASSUME NEW w \in Seq(Requests)
  PROVE  Bytes(w) \in Nat
  BY FrameEndsNat DEF Bytes

LEMMA BytesAppend ==
  ASSUME NEW w \in Seq(Requests), NEW f \in Requests
  PROVE  Bytes(Append(w, f)) = Bytes(w) + FrameSize(f)
  <1> DEFINE v == Append(w, f)
             e == FrameEnds(w)
             g == FrameEnds(v)
             T == {k \in Nat : k <= Len(w) /\ g[k] # e[k]}
  <1>1. v \in Seq(Requests) /\ Len(v) = Len(w) + 1 /\ v[Len(w) + 1] = f
    OBVIOUS
  <1>2. \A i \in 1 .. Len(w) : v[i] = w[i]
    OBVIOUS
  <1> HIDE DEF v
  <1>3. e = [i \in 0 .. Len(w) |-> IF i = 0 THEN 0 ELSE e[i - 1] + FrameSize(w[i])]
    BY FrameEndsDef
  <1>4. g = [i \in 0 .. Len(v) |-> IF i = 0 THEN 0 ELSE g[i - 1] + FrameSize(v[i])]
    BY <1>1, FrameEndsDef
  <1> HIDE DEF e, g
  <1>5. ASSUME T # {} PROVE FALSE
    <2>1. PICK k \in T : \A y \in T : k <= y
      BY <1>5, LeastNat
    <2>2. k # 0
      BY <1>3, <1>4, <2>1
    <2>3. k - 1 \in Nat /\ g[k - 1] = e[k - 1]
      BY <2>1, <2>2
    <2>4. k \in 1 .. Len(w) /\ k \in 0 .. Len(w) /\ k \in 0 .. Len(v)
      BY <1>1, <2>1, <2>2
    <2>5. g[k] = g[k - 1] + FrameSize(v[k])
      BY <1>4, <2>2, <2>4
    <2>6. e[k] = e[k - 1] + FrameSize(w[k])
      BY <1>3, <2>2, <2>4
    <2> QED
      BY <1>2, <2>1, <2>3, <2>4, <2>5, <2>6
  <1>6. Len(w) \in Nat /\ g[Len(w)] = e[Len(w)]
    BY <1>5
  <1>7. g[Len(v)] = g[Len(w)] + FrameSize(f)
    BY <1>1, <1>4, <1>6
  <1> QED
    BY <1>6, <1>7 DEF Bytes, e, g, v

LEMMA BytesTail ==
  ASSUME NEW w \in Seq(Requests), w # << >>
  PROVE  Bytes(w) = FrameSize(Head(w)) + Bytes(Tail(w))
  <1> DEFINE v == Tail(w)
             e == FrameEnds(w)
             g == FrameEnds(v)
             T == {k \in Nat : k <= Len(v) /\ e[k + 1] # FrameSize(w[1]) + g[k]}
  <1>1. v \in Seq(Requests) /\ Len(w) \in Nat \ {0} /\ Len(v) = Len(w) - 1
    OBVIOUS
  <1>2. \A i \in 1 .. Len(v) : v[i] = w[i + 1]
    OBVIOUS
  <1>3. w[1] = Head(w)
    OBVIOUS
  <1>4. \A i \in 0 .. Len(v) : g[i] \in Nat
    BY <1>1, FrameEndsNat
  <1>5. FrameSize(w[1]) \in Nat /\ \A i \in 1 .. Len(w) : FrameSize(w[i]) \in Nat
    BY <1>1, RequestSize
  <1> HIDE DEF v
  <1>6. e = [i \in 0 .. Len(w) |-> IF i = 0 THEN 0 ELSE e[i - 1] + FrameSize(w[i])]
    BY FrameEndsDef
  <1>7. g = [i \in 0 .. Len(v) |-> IF i = 0 THEN 0 ELSE g[i - 1] + FrameSize(v[i])]
    BY <1>1, FrameEndsDef
  <1> HIDE DEF e, g
  <1>8. ASSUME T # {} PROVE FALSE
    <2>1. PICK k \in T : \A y \in T : k <= y
      BY <1>8, LeastNat
    <2>2. k + 1 \in 0 .. Len(w) /\ e[k + 1] = e[k] + FrameSize(w[k + 1])
      BY <1>1, <1>6, <2>1
    <2>3. k # 0
      BY <1>1, <1>5, <1>6, <1>7, <2>1, <2>2
    <2>4. k - 1 \in Nat /\ e[k] = FrameSize(w[1]) + g[k - 1]
      BY <2>1, <2>3
    <2>5. k \in 1 .. Len(v) /\ k \in 0 .. Len(v) /\ k - 1 \in 0 .. Len(v) /\ k + 1 \in 1 .. Len(w)
      BY <1>1, <2>1, <2>3
    <2>6. g[k] = g[k - 1] + FrameSize(v[k])
      BY <1>7, <2>3, <2>5
    <2>7. v[k] = w[k + 1] /\ g[k - 1] \in Nat /\ FrameSize(w[k + 1]) \in Nat
      BY <1>2, <1>4, <1>5, <2>5
    <2> QED
      BY <1>5, <2>1, <2>2, <2>4, <2>6, <2>7
  <1>9. e[Len(v) + 1] = FrameSize(w[1]) + g[Len(v)]
    BY <1>1, <1>8
  <1> QED
    BY <1>1, <1>3, <1>9 DEF Bytes, e, g, v

-----------------------------------------------------------------------------
(***************************************************************************)
(* The server's inductive invariant.  Its state is well formed; a loop     *)
(* works on its own connections only, and holds the size of a frame that   *)
(* is complete at the head of the stream; the buffer holds no more than    *)
(* was sent; and the numbers of the requests answered, the one in the      *)
(* reply stage and those still on the wire follow each other.              *)
(***************************************************************************)
Tasks == {Idle}
           \cup [pc : {"probe", "install", "pick"}, conn : Conns]
           \cup [pc : {"decode"}, conn : Conns, size : Nat]
           \cup [pc : {"reply"}, conn : Conns, method : Services, id : Nat]

ServerState ==
  /\ TcpTypeOK
  /\ wire \in [Conns -> Seq(Requests)]
  /\ codec \in {"none"} \cup Protocols
  /\ answered \in [Conns -> Seq(Nat)]
  /\ task \in [Loops -> Tasks]

Aligned(c) == arrived[c] <= Bytes(wire[c])

OwnTask(l) ==
  /\ task[l] # Idle => LoopOf[task[l].conn] = l
  /\ task[l].pc = "decode" =>
       /\ wire[task[l].conn] # << >>
       /\ task[l].size = FrameSize(Head(wire[task[l].conn]))
       /\ task[l].size <= arrived[task[l].conn]

WireId(c, i) == wire[c][i].body.val.id

AnswersOrdered(c) ==
  /\ \A i, j \in 1 .. Len(answered[c]) : i < j => answered[c][i] < answered[c][j]
  /\ \A i \in 1 .. Len(answered[c]) : answered[c][i] <= sent[c]

WireOrdered(c) ==
  /\ \A i, j \in 1 .. Len(wire[c]) : i < j => WireId(c, i) < WireId(c, j)
  /\ \A i \in 1 .. Len(wire[c]) : WireId(c, i) <= sent[c]
  /\ \A i \in 1 .. Len(answered[c]), j \in 1 .. Len(wire[c]) : answered[c][i] < WireId(c, j)

ReplyOrdered(l) ==
  task[l].pc = "reply" =>
    LET c == task[l].conn
    IN  /\ task[l].id <= sent[c]
        /\ \A i \in 1 .. Len(answered[c]) : answered[c][i] < task[l].id
        /\ \A i \in 1 .. Len(wire[c]) : task[l].id < WireId(c, i)

ServerInv ==
  /\ ServerState
  /\ \A c \in Conns : Aligned(c) /\ AnswersOrdered(c) /\ WireOrdered(c)
  /\ \A l \in Loops : OwnTask(l) /\ ReplyOrdered(l)

(***************************************************************************)
(* What the stages of a task tell about its fields.                        *)
(***************************************************************************)
LEMMA TaskFields ==
  ASSUME NEW t \in Tasks
  PROVE  /\ t.pc \in {"idle", "probe", "install", "pick", "decode", "reply"}
         /\ t # Idle => t.pc # "idle" /\ t.conn \in Conns
         /\ t.pc # "idle" => t # Idle
         /\ t.pc \in {"probe", "install", "pick"} => t = [pc |-> t.pc, conn |-> t.conn]
         /\ t.pc = "decode" => t.size \in Nat
         /\ t.pc = "reply" => t.method \in Services /\ t.id \in Nat
  BY DEF Tasks, Idle

(***************************************************************************)
(* A loop that only moves on in OnMessage, and decodes only what is there, *)
(* preserves the invariant.                                                *)
(***************************************************************************)
LEMMA TaskMoves ==
  ASSUME ServerInv, NEW l \in Loops, NEW t \in Tasks,
         task' = [task EXCEPT ![l] = t],
         TcpTypeOK', codec' \in {"none"} \cup Protocols,
         UNCHANGED <<wire, arrived, sent, answered>>,
         t # Idle => LoopOf[t.conn] = l,
         t.pc # "reply",
         t.pc = "decode" => /\ wire[t.conn] # << >>
                            /\ t.size = FrameSize(Head(wire[t.conn]))
                            /\ t.size <= arrived[t.conn]
  PROVE  ServerInv'
  <1>1. ServerState'
    BY DEF ServerInv, ServerState
  <1>2. ASSUME NEW c \in Conns PROVE (Aligned(c) /\ AnswersOrdered(c) /\ WireOrdered(c))'
    BY DEF ServerInv, Aligned, AnswersOrdered, WireOrdered, WireId
  <1>3. ASSUME NEW k \in Loops PROVE (OwnTask(k) /\ ReplyOrdered(k))'
    <2>1. CASE k = l
      <3>1. task'[k] = t
        BY <2>1 DEF ServerInv, ServerState
      <3> QED
        BY <2>1, <3>1 DEF OwnTask, ReplyOrdered
    <2>2. CASE k # l
      <3>1. task'[k] = task[k]
        BY <2>2 DEF ServerInv, ServerState
      <3> QED
        BY <3>1 DEF ServerInv, OwnTask, ReplyOrdered, WireId
    <2> QED
      BY <2>1, <2>2
  <1> QED
    BY <1>1, <1>2, <1>3 DEF ServerInv

(***************************************************************************)
(* muduo's next read brings more bytes, never more than were sent.         *)
(***************************************************************************)
LEMMA ArrivalBound ==
  ASSUME ServerState, NEW c \in Conns, NEW a \in NextArrivals(c)
  PROVE  a \in Nat /\ arrived[c] < a /\ a <= Bytes(wire[c])
  <1> DEFINE w == wire[c]
             end == FrameEnds(w)
  <1>1. w \in Seq(Requests)
    BY DEF ServerState
  <1>2. Len(w) \in Nat /\ \A i \in 0 .. Len(w) : end[i] \in Nat
    BY <1>1, FrameEndsNat
  <1>3. /\ a \in {end[i] : i \in 1 .. Len(w)} \cup {end[i - 1] + k : i \in 1 .. Len(w), k \in Cuts}
        /\ arrived[c] < a /\ a <= Bytes(w)
    BY DEF NextArrivals, BytesSent, Bytes
  <1> HIDE DEF end, w
  <1>4. ASSUME a \in {end[i] : i \in 1 .. Len(w)} PROVE a \in Nat
    BY <1>2, <1>4
  <1>5. ASSUME a \in {end[i - 1] + k : i \in 1 .. Len(w), k \in Cuts} PROVE a \in Nat
    <2>1. PICK i \in 1 .. Len(w), k \in Cuts : a = end[i - 1] + k
      BY <1>5
    <2>2. i - 1 \in 0 .. Len(w) /\ k \in Nat
      BY <1>2, CutsAssumption
    <2> QED
      BY <1>2, <2>1, <2>2
  <1>6. a \in Nat
    BY <1>3, <1>4, <1>5
  <1> QED
    BY <1>3, <1>6 DEF w

LEMMA OnMessageStep ==
  ASSUME ServerInv, NEW l \in Loops, NEW c \in Conns, OnMessage(l, c)
  PROVE  ServerInv'
  <1>1. PICK a \in NextArrivals(c) : arrived' = [arrived EXCEPT ![c] = a]
    BY DEF OnMessage
  <1>2. a \in Nat /\ arrived[c] < a /\ a <= Bytes(wire[c])
    BY ArrivalBound DEF ServerInv
  <1>3. arrived \in [Conns -> Nat] /\ task \in [Loops -> Tasks]
    BY DEF ServerInv, ServerState, TcpTypeOK
  <1> DEFINE t == [pc |-> "probe", conn |-> c]
  <1>4. t \in Tasks /\ task' = [task EXCEPT ![l] = t] /\ LoopOf[c] = l
    BY DEF OnMessage, Tasks
  <1>5. UNCHANGED <<conn, peer, wire, sent, reply, codec, answered, up>>
    BY DEF OnMessage
  <1>6. ServerState'
    BY <1>1, <1>2, <1>3, <1>4, <1>5 DEF ServerInv, ServerState, TcpTypeOK
  <1>7. ASSUME NEW d \in Conns PROVE (Aligned(d) /\ AnswersOrdered(d) /\ WireOrdered(d))'
    <2>1. Aligned(d)'
      BY <1>1, <1>2, <1>3, <1>5 DEF ServerInv, Aligned
    <2>2. (AnswersOrdered(d) /\ WireOrdered(d))'
      BY <1>5 DEF ServerInv, AnswersOrdered, WireOrdered, WireId
    <2> QED
      BY <2>1, <2>2
  <1>8. ASSUME NEW k \in Loops PROVE (OwnTask(k) /\ ReplyOrdered(k))'
    <2>1. CASE k = l
      <3>1. task'[k] = t
        BY <1>3, <1>4, <2>1
      <3> QED
        BY <1>4, <2>1, <3>1 DEF OwnTask, ReplyOrdered
    <2>2. CASE k # l
      <3>1. task'[k] = task[k]
        BY <1>3, <1>4, <2>2
      <3>2. ReplyOrdered(k)'
        BY <1>5, <3>1 DEF ServerInv, ReplyOrdered, WireId
      <3>3. task[k] # Idle => task[k].conn # c
        BY <1>4, <2>2 DEF ServerInv, OwnTask
      <3>4. task[k].pc = "decode" => task[k].conn \in Conns /\ task[k] # Idle
        BY <1>3, TaskFields
      <3>5. task[k].pc = "decode" => arrived'[task[k].conn] = arrived[task[k].conn]
        BY <1>1, <1>3, <3>3, <3>4
      <3>6. OwnTask(k)'
        BY <1>5, <3>1, <3>5 DEF ServerInv, OwnTask
      <3> QED
        BY <3>2, <3>6
    <2> QED
      BY <2>1, <2>2
  <1> QED
    BY <1>6, <1>7, <1>8 DEF ServerInv

LEMMA ProbeStep ==
  ASSUME ServerInv, NEW l \in Loops, Probe(l)
  PROVE  ServerInv'
  <1> DEFINE next == IF codec = "none" THEN "install" ELSE "pick"
             t == [pc |-> next, conn |-> task[l].conn]
  <1>1. task \in [Loops -> Tasks] /\ task[l].pc = "probe"
    BY DEF ServerInv, ServerState, Probe
  <1>2. task[l] = [pc |-> "probe", conn |-> task[l].conn] /\ task[l].conn \in Conns
          /\ task[l] # Idle
    BY <1>1, TaskFields
  <1>3. task' = [task EXCEPT ![l].pc = next]
    BY DEF Probe
  <1>4. task' = [task EXCEPT ![l] = t]
    <2> HIDE DEF next
    <2>1. PICK c \in Conns : task[l] = [pc |-> "probe", conn |-> c]
      BY <1>2
    <2>2. [task[l] EXCEPT !.pc = next] = t
      BY <2>1
    <2> QED
      BY <1>1, <1>3, <2>2
  <1>5. t \in Tasks /\ t.pc \notin {"reply", "decode"}
    BY <1>2 DEF Tasks
  <1>6. TcpTypeOK' /\ codec' \in {"none"} \cup Protocols
    BY DEF Probe, tcpVars, ServerInv, ServerState, TcpTypeOK
  <1>7. UNCHANGED <<wire, arrived, sent, answered>>
    BY DEF Probe, tcpVars
  <1>8. LoopOf[t.conn] = l
    BY <1>2 DEF ServerInv, OwnTask
  <1> HIDE DEF t
  <1> QED
    BY <1>4, <1>5, <1>6, <1>7, <1>8, TaskMoves

LEMMA ProcessDiesStep ==
  ASSUME ServerInv, ProcessDies
  PROVE  ServerInv'
  <1>1. /\ up' = FALSE /\ codec' = "none" /\ task' = [l \in Loops |-> Idle]
        /\ conn' = [c \in Conns |-> IF conn[c] = "unused" THEN "unused" ELSE "disconnected"]
        /\ wire' = [c \in Conns |-> << >>] /\ arrived' = [c \in Conns |-> 0]
        /\ UNCHANGED <<peer, sent, answered>>
    BY DEF ProcessDies
  <1>2. DOMAIN reply' = Conns
    BY DEF ProcessDies
  <1>3. ServerState'
    <2>1. conn' \in [Conns -> ConnStates]
      BY <1>1 DEF ConnStates
    <2>2. wire' \in [Conns -> Seq(Requests)] /\ DOMAIN wire' = Conns
      BY <1>1
    <2>3. task' \in [Loops -> Tasks]
      BY <1>1 DEF Tasks
    <2>4. arrived' \in [Conns -> Nat]
      BY <1>1
    <2> QED
      BY <1>1, <1>2, <2>1, <2>2, <2>3, <2>4 DEF ServerInv, ServerState, TcpTypeOK
  <1>4. ASSUME NEW c \in Conns PROVE (Aligned(c) /\ AnswersOrdered(c) /\ WireOrdered(c))'
    <2>1. wire'[c] = << >> /\ Len(wire'[c]) = 0 /\ arrived'[c] = 0
      BY <1>1
    <2>2. Aligned(c)'
      BY <2>1, BytesEmpty DEF Aligned
    <2>3. AnswersOrdered(c)'
      BY <1>1 DEF ServerInv, AnswersOrdered
    <2>4. WireOrdered(c)'
      BY <2>1 DEF WireOrdered
    <2> QED
      BY <2>2, <2>3, <2>4
  <1>5. ASSUME NEW l \in Loops PROVE (OwnTask(l) /\ ReplyOrdered(l))'
    BY <1>1 DEF OwnTask, ReplyOrdered, Idle
  <1> QED
    BY <1>3, <1>4, <1>5 DEF ServerInv

LEMMA InstallStep ==
  ASSUME ServerInv, NEW l \in Loops, Install(l)
  PROVE  ServerInv'
  <1> DEFINE t == [pc |-> "pick", conn |-> task[l].conn]
  <1>1. task \in [Loops -> Tasks] /\ task[l].pc = "install"
    BY DEF ServerInv, ServerState, Install
  <1>2. task[l] = [pc |-> "install", conn |-> task[l].conn] /\ task[l].conn \in Conns
          /\ task[l] # Idle
    BY <1>1, TaskFields
  <1>3. CASE /\ codec' = CreateServerCodec(Head(wire[task[l].conn]), arrived[task[l].conn])
             /\ task'  = [task EXCEPT ![l].pc = "pick"]
             /\ UNCHANGED <<tcpVars, answered>>
    <2>1. task' = [task EXCEPT ![l] = t]
      <3>1. PICK c \in Conns : task[l] = [pc |-> "install", conn |-> c]
        BY <1>2
      <3>2. [task[l] EXCEPT !.pc = "pick"] = t
        BY <3>1
      <3> QED
        BY <1>1, <1>3, <3>2
    <2>2. t \in Tasks /\ t.pc \notin {"reply", "decode"}
      BY <1>2 DEF Tasks
    <2>3. codec' \in {"none"} \cup Protocols
      BY <1>3 DEF CreateServerCodec, Protocols
    <2>4. TcpTypeOK' /\ UNCHANGED <<wire, arrived, sent, answered>>
      BY <1>3 DEF tcpVars, ServerInv, ServerState, TcpTypeOK
    <2>5. LoopOf[t.conn] = l
      BY <1>2 DEF ServerInv, OwnTask
    <2> HIDE DEF t
    <2> QED
      BY <2>1, <2>2, <2>3, <2>4, <2>5, TaskMoves
  <1>4. CASE ProcessDies
    BY <1>4, ProcessDiesStep
  <1> QED
    BY <1>3, <1>4 DEF Install

LEMMA ShutdownType ==
  ASSUME conn \in [Conns -> ConnStates], NEW c \in Conns, ConnShutdown(c)
  PROVE  conn' \in [Conns -> ConnStates]
  BY DEF ConnShutdown, ConnStates

LEMMA PickStep ==
  ASSUME ServerInv, NEW l \in Loops, Pick(l)
  PROVE  ServerInv'
  <1> DEFINE c == task[l].conn
             r == IF arrived[c] = 0 THEN 0 ELSE CheckAndPick(codec, Head(wire[c]), arrived[c])
             t == IF r <= 0 THEN Idle ELSE [pc |-> "decode", conn |-> c, size |-> r]
  <1>1. task \in [Loops -> Tasks] /\ task[l].pc = "pick"
    BY DEF ServerInv, ServerState, Pick
  <1>2. c \in Conns /\ LoopOf[c] = l
    <2>1. task[l] \in Tasks
      BY <1>1
    <2>2. c \in Conns /\ task[l] # Idle
      BY <1>1, <2>1, TaskFields
    <2> QED
      BY <2>2 DEF ServerInv, OwnTask
  <1>3. /\ task' = [task EXCEPT ![l] = t]
        /\ IF r < 0 THEN ConnShutdown(c) ELSE UNCHANGED conn
        /\ UNCHANGED <<peer, wire, arrived, sent, reply, codec, answered, up>>
    BY DEF Pick
  <1>4. arrived[c] \in Nat /\ wire[c] \in Seq(Requests) /\ arrived[c] <= Bytes(wire[c])
    BY <1>2 DEF ServerInv, ServerState, TcpTypeOK, Aligned
  <1>5. /\ r \in Int
        /\ r > 0 => /\ wire[c] # << >> /\ r = FrameSize(Head(wire[c])) /\ r <= arrived[c]
    <2>1. CASE arrived[c] = 0
      BY <2>1
    <2>2. CASE arrived[c] # 0
      <3>1. wire[c] # << >>
        BY <1>4, <2>2, BytesEmpty
      <3>2. Head(wire[c]) \in Requests
        BY <1>4, <3>1
      <3>3. r = CheckAndPick(codec, Head(wire[c]), arrived[c])
        BY <2>2
      <3> QED
        BY <1>4, <3>1, <3>2, <3>3, PickedWhole
    <2> QED
      BY <2>1, <2>2
  <1> HIDE DEF r
  <1>6. t \in Tasks /\ t.pc # "reply" /\ (t # Idle => t.conn = c)
    BY <1>2, <1>5 DEF Tasks, Idle
  <1>7. t.pc = "decode" => /\ wire[t.conn] # << >>
                           /\ t.size = FrameSize(Head(wire[t.conn]))
                           /\ t.size <= arrived[t.conn]
    BY <1>5 DEF Idle
  <1>8. TcpTypeOK' /\ codec' \in {"none"} \cup Protocols
    <2>1. conn' \in [Conns -> ConnStates]
      BY <1>2, <1>3, ShutdownType DEF ServerInv, ServerState, TcpTypeOK
    <2> QED
      BY <1>3, <2>1 DEF ServerInv, ServerState, TcpTypeOK
  <1> HIDE DEF t
  <1> QED
    BY <1>2, <1>3, <1>6, <1>7, <1>8, TaskMoves

(***************************************************************************)
(* The frame at the head leaves the buffer, and the loop answers it or     *)
(* goes on.                                                                *)
(***************************************************************************)
LEMMA RetrieveStep ==
  ASSUME ServerInv, NEW l \in Loops, NEW t \in Tasks,
         task[l].pc = "decode",
         task' = [task EXCEPT ![l] = t],
         Retrieve(task[l].conn, task[l].size),
         UNCHANGED <<up, conn, peer, sent, reply, codec, answered>>,
         \/ t = [pc |-> "pick", conn |-> task[l].conn]
         \/ t.pc = "reply" /\ t.conn = task[l].conn /\ t.id = WireId(task[l].conn, 1)
  PROVE  ServerInv'
  <1> DEFINE c == task[l].conn
             f == Head(wire[c])
  <1>1. /\ task \in [Loops -> Tasks] /\ arrived \in [Conns -> Nat]
        /\ wire \in [Conns -> Seq(Requests)] /\ sent \in [Conns -> Nat]
        /\ answered \in [Conns -> Seq(Nat)]
    BY DEF ServerInv, ServerState, TcpTypeOK
  <1>2. c \in Conns /\ LoopOf[c] = l /\ wire[c] # << >> /\ task[l].size = FrameSize(f)
          /\ FrameSize(f) <= arrived[c]
    <2>1. task[l] # Idle /\ c \in Conns
      BY <1>1, TaskFields
    <2> QED
      BY <2>1 DEF ServerInv, OwnTask
  <1>3. t.conn = c /\ t # Idle /\ t.pc # "decode"
    BY DEF Idle
  <1>4. f \in Requests /\ f = wire[c][1]
    BY <1>1, <1>2
  <1>5. FrameSize(f) \in Nat
    BY <1>4, RequestSize
  <1>6. /\ wire' = [wire EXCEPT ![c] = Tail(wire[c])]
        /\ arrived' = [arrived EXCEPT ![c] = arrived[c] - FrameSize(f)]
    BY <1>2 DEF Retrieve
  <1> HIDE DEF f
  <1>7. /\ Tail(wire[c]) \in Seq(Requests) /\ Len(wire[c]) \in Nat \ {0}
        /\ Len(Tail(wire[c])) = Len(wire[c]) - 1
        /\ \A i \in 1 .. Len(wire[c]) - 1 : Tail(wire[c])[i] = wire[c][i + 1]
    BY <1>1, <1>2
  <1>8. ServerState'
    <2>1. wire' \in [Conns -> Seq(Requests)] /\ DOMAIN wire' = Conns
      BY <1>1, <1>6, <1>7
    <2>2. arrived' \in [Conns -> Nat]
      BY <1>1, <1>2, <1>5, <1>6
    <2> QED
      BY <2>1, <2>2 DEF ServerInv, ServerState, TcpTypeOK
  <1>9. ASSUME NEW d \in Conns PROVE (Aligned(d) /\ AnswersOrdered(d) /\ WireOrdered(d))'
    <2>1. AnswersOrdered(d)'
      BY DEF ServerInv, AnswersOrdered
    <2>2. CASE d = c
      <3>1. wire'[d] = Tail(wire[c]) /\ arrived'[d] = arrived[c] - FrameSize(f)
        BY <1>1, <1>6, <2>2
      <3>2. Aligned(d)'
        <4>1. Bytes(wire[c]) = FrameSize(f) + Bytes(Tail(wire[c]))
          BY <1>1, <1>2, BytesTail DEF f
        <4>2. Bytes(Tail(wire[c])) \in Nat /\ arrived[c] \in Nat
          BY <1>1, <1>2, <1>7, BytesNat
        <4>3. arrived[c] <= Bytes(wire[c])
          BY <1>2 DEF ServerInv, Aligned
        <4> QED
          BY <1>5, <3>1, <4>1, <4>2, <4>3 DEF Aligned
      <3>3. WireOrdered(c)
        BY <1>2 DEF ServerInv
      <3>4. WireOrdered(d)'
        <4>1. \A i \in 1 .. Len(wire'[d]) : i + 1 \in 1 .. Len(wire[c])
                                            /\ WireId(d, i)' = WireId(c, i + 1)
          BY <1>7, <3>1 DEF WireId
        <4>2. Len(wire'[d]) \in Nat
          BY <1>7, <3>1
        <4>3. ASSUME NEW i \in 1 .. Len(wire'[d]), NEW j \in 1 .. Len(wire'[d]), i < j
              PROVE  WireId(d, i)' < WireId(d, j)'
          <5>1. i + 1 < j + 1
            BY <4>2, <4>3
          <5> QED
            BY <3>3, <4>1, <5>1 DEF WireOrdered
        <4>4. \A i \in 1 .. Len(wire'[d]) : WireId(d, i)' <= sent[c]
          BY <3>3, <4>1 DEF WireOrdered
        <4>5. \A i \in 1 .. Len(answered[c]), j \in 1 .. Len(wire'[d]) :
                answered[c][i] < WireId(d, j)'
          BY <3>3, <4>1 DEF WireOrdered
        <4> QED
          BY <2>2, <4>3, <4>4, <4>5 DEF WireOrdered
      <3> QED
        BY <2>1, <3>2, <3>4
    <2>3. CASE d # c
      <3>1. wire'[d] = wire[d] /\ arrived'[d] = arrived[d]
        BY <1>1, <1>6, <2>3
      <3>2. Aligned(d)' /\ WireOrdered(d)'
        BY <3>1 DEF ServerInv, Aligned, WireOrdered, WireId
      <3> QED
        BY <2>1, <3>2
    <2> QED
      BY <2>2, <2>3
  <1>10. ASSUME NEW k \in Loops PROVE (OwnTask(k) /\ ReplyOrdered(k))'
    <2>1. CASE k = l
      <3>1. task'[k] = t
        BY <1>1, <2>1
      <3>2. OwnTask(k)'
        BY <1>2, <1>3, <2>1, <3>1 DEF OwnTask
      <3>3. ASSUME t.pc = "reply" PROVE ReplyOrdered(k)'
        <4>1. t.id = WireId(c, 1) /\ WireOrdered(c)
          BY <1>2, <3>3 DEF ServerInv
        <4>2. t.id <= sent[c] /\ \A i \in 1 .. Len(answered[c]) : answered[c][i] < t.id
          BY <1>7, <4>1 DEF WireOrdered
        <4>3. \A i \in 1 .. Len(wire'[c]) : 1 < i + 1 /\ i + 1 \in 1 .. Len(wire[c])
                                              /\ WireId(c, i)' = WireId(c, i + 1)
          BY <1>1, <1>2, <1>6, <1>7 DEF WireId
        <4>4. \A i \in 1 .. Len(wire'[c]) : t.id < WireId(c, i)'
          BY <1>7, <4>1, <4>3 DEF WireOrdered
        <4> QED
          BY <1>3, <3>1, <4>2, <4>4 DEF ReplyOrdered
      <3>4. ASSUME t.pc # "reply" PROVE ReplyOrdered(k)'
        BY <3>1, <3>4 DEF ReplyOrdered
      <3> QED
        BY <3>2, <3>3, <3>4
    <2>2. CASE k # l
      <3>1. task'[k] = task[k] /\ task[k] \in Tasks
        BY <1>1, <2>2
      <3>2. task[k] # Idle => task[k].conn \in Conns /\ task[k].conn # c
        BY <1>2, <2>2, <3>1, TaskFields DEF ServerInv, OwnTask
      <3>3. task[k] # Idle => /\ wire'[task[k].conn] = wire[task[k].conn]
                              /\ arrived'[task[k].conn] = arrived[task[k].conn]
        BY <1>1, <1>6, <3>2
      <3>4. task[k].pc \in {"decode", "reply"} => task[k] # Idle
        BY DEF Idle
      <3>5. OwnTask(k)'
        BY <3>1, <3>3, <3>4 DEF ServerInv, OwnTask
      <3>6. ReplyOrdered(k)'
        BY <3>1, <3>3, <3>4 DEF ServerInv, ReplyOrdered, WireId
      <3> QED
        BY <3>5, <3>6
    <2> QED
      BY <2>1, <2>2
  <1> QED
    BY <1>8, <1>9, <1>10 DEF ServerInv

LEMMA DecodeStep ==
  ASSUME ServerInv, NEW l \in Loops, Decode(l)
  PROVE  ServerInv'
  <1> DEFINE c == task[l].conn
             f == Head(wire[c])
  <1>1. task \in [Loops -> Tasks] /\ task[l] \in Tasks /\ task[l].pc = "decode"
    BY DEF ServerInv, ServerState, Decode
  <1>2. c \in Conns /\ f \in Requests /\ f = wire[c][1]
    <2>1. task[l] # Idle /\ c \in Conns
      BY <1>1, TaskFields
    <2>2. wire[c] # << >> /\ wire[c] \in Seq(Requests)
      BY <1>1, <2>1 DEF ServerInv, ServerState, OwnTask
    <2> QED
      BY <2>1, <2>2
  <1> HIDE DEF f
  <1>3. UNCHANGED <<up, peer, sent, reply, codec, answered>>
    BY DEF Decode
  <1>4. PICK o \in ServerDecode(codec, f) :
          IF o.ret # kCodecOk
          THEN /\ task' = [task EXCEPT ![l] = Idle]
               /\ ConnShutdown(c)
               /\ UNCHANGED <<wire, arrived>>
          ELSE /\ Retrieve(c, task[l].size)
               /\ UNCHANGED conn
               /\ \E ok \in IF o.header \in Services
                            THEN ParseFromString(o.body.val, o.header) ELSE {FALSE} :
                    task' = [task EXCEPT ![l] =
                               IF ok THEN [pc |-> "reply", conn |-> c, method |-> o.header,
                                           id |-> o.body.val.id]
                               ELSE NextFrame(c)]
    BY DEF Decode, f
  <1>5. CASE o.ret # kCodecOk
    <2>1. task' = [task EXCEPT ![l] = Idle] /\ ConnShutdown(c) /\ UNCHANGED <<wire, arrived>>
      BY <1>4, <1>5
    <2>2. TcpTypeOK' /\ codec' \in {"none"} \cup Protocols
      BY <1>2, <1>3, <2>1, ShutdownType DEF ServerInv, ServerState, TcpTypeOK
    <2>3. Idle \in Tasks /\ Idle.pc # "reply" /\ Idle.pc # "decode"
      BY DEF Tasks, Idle
    <2> QED
      BY <1>3, <2>1, <2>2, <2>3, TaskMoves
  <1>6. CASE o.ret = kCodecOk
    <2>1. Retrieve(c, task[l].size) /\ UNCHANGED conn
      BY <1>4, <1>6
    <2>2. PICK ok \in IF o.header \in Services
                      THEN ParseFromString(o.body.val, o.header) ELSE {FALSE} :
            task' = [task EXCEPT ![l] =
                       IF ok THEN [pc |-> "reply", conn |-> c, method |-> o.header,
                                   id |-> o.body.val.id]
                       ELSE NextFrame(c)]
      BY <1>4, <1>6
    <2>3. CASE ok
      <3> DEFINE t == [pc |-> "reply", conn |-> c, method |-> o.header, id |-> o.body.val.id]
      <3>1. o.header \in Services
        BY <2>2, <2>3
      <3>2. o.body.val = f.body.val
        BY <1>2, <1>6, <3>1, DecodedRequest, ServicesAssumption
      <3>3. o.body.val.id = WireId(c, 1) /\ o.body.val.id \in Nat
        BY <1>2, <3>2, RequestSize DEF WireId
      <3>4. t \in Tasks
        BY <1>2, <3>1, <3>3 DEF Tasks
      <3>5. task' = [task EXCEPT ![l] = t] /\ t.pc = "reply" /\ t.conn = c /\ t.id = WireId(c, 1)
        BY <2>2, <2>3, <3>3
      <3> HIDE DEF t
      <3> QED
        BY <1>1, <1>3, <2>1, <3>4, <3>5, RetrieveStep
    <2>4. CASE ~ok
      <3> DEFINE t == [pc |-> "pick", conn |-> c]
      <3>1. t \in Tasks
        BY <1>2 DEF Tasks
      <3>2. task' = [task EXCEPT ![l] = t]
        BY <2>2, <2>4 DEF NextFrame
      <3> QED
        BY <1>1, <1>3, <2>1, <3>1, <3>2, RetrieveStep
    <2> QED
      BY <2>3, <2>4
  <1> QED
    BY <1>5, <1>6

LEMMA SendRpcResponseStep ==
  ASSUME ServerInv, NEW l \in Loops, SendRpcResponse(l)
  PROVE  ServerInv'
  <1> DEFINE c == task[l].conn
             id == task[l].id
             t == [pc |-> "pick", conn |-> c]
             e == ServerEncode(codec, ResponseHeader, ResponseBody(task[l].method, id))
  <1>1. /\ task \in [Loops -> Tasks] /\ task[l] \in Tasks /\ task[l].pc = "reply"
        /\ answered \in [Conns -> Seq(Nat)]
    BY DEF ServerInv, ServerState, SendRpcResponse
  <1>2. c \in Conns /\ LoopOf[c] = l /\ id \in Nat
    <2>1. task[l] # Idle /\ c \in Conns /\ id \in Nat
      BY <1>1, TaskFields
    <2> QED
      BY <2>1 DEF ServerInv, OwnTask
  <1>3. /\ task' = [task EXCEPT ![l] = t]
        /\ IF e.ret = kCodecOk
           THEN ConnSend(c, e.frame) /\ answered' = [answered EXCEPT ![c] = Append(@, id)]
           ELSE UNCHANGED <<reply, answered>>
        /\ UNCHANGED <<conn, peer, wire, arrived, sent, codec, up>>
    BY DEF SendRpcResponse, NextFrame
  <1>4. t \in Tasks /\ t.conn = c /\ t.pc = "pick"
    BY <1>2 DEF Tasks
  <1>5. TcpTypeOK' /\ codec' \in {"none"} \cup Protocols
    <2>1. DOMAIN reply' = Conns
      BY <1>3 DEF ConnSend, ServerInv, ServerState, TcpTypeOK
    <2> QED
      BY <1>3, <2>1 DEF ServerInv, ServerState, TcpTypeOK
  <1> HIDE DEF t
  <1>6. CASE e.ret # kCodecOk
    BY <1>2, <1>3, <1>4, <1>5, <1>6, TaskMoves
  <1>7. CASE e.ret = kCodecOk
    <2>1. answered' = [answered EXCEPT ![c] = Append(answered[c], id)]
      BY <1>3, <1>7
    <2>2. Append(answered[c], id) \in Seq(Nat)
      BY <1>1, <1>2
    <2>3. ServerState'
      BY <1>1, <1>3, <1>4, <1>5, <2>1, <2>2 DEF ServerInv, ServerState
    <2>4. ASSUME NEW d \in Conns PROVE (Aligned(d) /\ AnswersOrdered(d) /\ WireOrdered(d))'
      <3>1. Aligned(d)'
        BY <1>3 DEF ServerInv, Aligned
      <3>2. CASE d = c
        <4>1. answered'[d] = Append(answered[c], id)
          BY <1>1, <2>1, <3>2
        <4>2. /\ Len(answered[c]) \in Nat /\ Len(answered'[d]) = Len(answered[c]) + 1
              /\ answered'[d][Len(answered[c]) + 1] = id
              /\ \A i \in 1 .. Len(answered[c]) : answered'[d][i] = answered[c][i]
          BY <1>1, <1>2, <4>1
        <4>3. /\ id <= sent[c]
              /\ \A i \in 1 .. Len(answered[c]) : answered[c][i] < id
              /\ \A i \in 1 .. Len(wire[c]) : id < WireId(c, i)
          BY <1>1 DEF ServerInv, ReplyOrdered
        <4>4. AnswersOrdered(c) /\ WireOrdered(c)
          BY <1>2 DEF ServerInv
        <4>5. AnswersOrdered(d)'
          <5>1. \A i \in 1 .. Len(answered'[d]) :
                  i \in 1 .. Len(answered[c]) \/ i = Len(answered[c]) + 1
            BY <4>2
          <5>2. \A i \in 1 .. Len(answered'[d]) : answered'[d][i] <= sent'[d]
            BY <1>3, <3>2, <4>2, <4>3, <4>4, <5>1 DEF AnswersOrdered
          <5>3. ASSUME NEW i \in 1 .. Len(answered'[d]), NEW j \in 1 .. Len(answered'[d]), i < j
                PROVE  answered'[d][i] < answered'[d][j]
            <6>1. i \in 1 .. Len(answered[c])
              BY <4>2, <5>3
            <6>2. CASE j \in 1 .. Len(answered[c])
              BY <4>2, <4>4, <5>3, <6>1, <6>2 DEF AnswersOrdered
            <6>3. CASE j = Len(answered[c]) + 1
              BY <4>2, <4>3, <6>1, <6>3
            <6> QED
              BY <5>1, <6>2, <6>3
          <5> QED
            BY <5>2, <5>3 DEF AnswersOrdered
        <4>6. WireOrdered(d)'
          <5>1. wire'[d] = wire[c] /\ sent'[d] = sent[c]
            BY <1>3, <3>2
          <5>2. ASSUME NEW i \in 1 .. Len(answered'[d]), NEW j \in 1 .. Len(wire[c])
                PROVE  answered'[d][i] < WireId(c, j)
            <6>1. CASE i \in 1 .. Len(answered[c])
              BY <4>2, <4>4, <6>1 DEF WireOrdered
            <6>2. CASE i = Len(answered[c]) + 1
              BY <4>2, <4>3, <6>2
            <6>3. i \in 1 .. Len(answered[c]) \/ i = Len(answered[c]) + 1
              BY <4>2
            <6> QED
              BY <6>1, <6>2, <6>3
          <5> QED
            BY <3>2, <4>4, <5>1, <5>2 DEF WireOrdered, WireId
        <4> QED
          BY <3>1, <4>5, <4>6
      <3>3. CASE d # c
        <4>1. answered'[d] = answered[d]
          BY <1>1, <2>1, <3>3
        <4>2. (AnswersOrdered(d) /\ WireOrdered(d))'
          BY <1>3, <4>1 DEF ServerInv, AnswersOrdered, WireOrdered, WireId
        <4> QED
          BY <3>1, <4>2
      <3> QED
        BY <3>2, <3>3
    <2>5. ASSUME NEW k \in Loops PROVE (OwnTask(k) /\ ReplyOrdered(k))'
      <3>1. CASE k = l
        <4>1. task'[k] = t
          BY <1>1, <1>3, <3>1
        <4> QED
          BY <1>2, <1>4, <3>1, <4>1 DEF OwnTask, ReplyOrdered
      <3>2. CASE k # l
        <4>1. task'[k] = task[k] /\ task[k] \in Tasks
          BY <1>1, <1>3, <3>2
        <4>2. task[k] # Idle => task[k].conn \in Conns /\ task[k].conn # c
          BY <1>2, <3>2, <4>1, TaskFields DEF ServerInv, OwnTask
        <4>3. task[k].pc = "reply" => answered'[task[k].conn] = answered[task[k].conn]
          BY <1>1, <2>1, <4>2 DEF Idle
        <4>4. OwnTask(k)'
          BY <1>3, <4>1 DEF ServerInv, OwnTask
        <4>5. ReplyOrdered(k)'
          BY <1>3, <4>1, <4>3 DEF ServerInv, ReplyOrdered, WireId
        <4> QED
          BY <4>4, <4>5
      <3> QED
        BY <3>1, <3>2
    <2> QED
      BY <2>3, <2>4, <2>5 DEF ServerInv
  <1> QED
    BY <1>6, <1>7

LEMMA OnConnectionStep ==
  ASSUME ServerInv, NEW l \in Loops, NEW c \in Conns, OnConnection(l, c)
  PROVE  ServerInv'
  <1>1. /\ task[l] = Idle /\ LoopOf[c] = l
        /\ conn' = [conn EXCEPT ![c] = "disconnected"]
        /\ wire' = [wire EXCEPT ![c] = << >>]
        /\ arrived' = [arrived EXCEPT ![c] = 0]
        /\ UNCHANGED <<peer, sent, reply, codec, task, answered, up>>
    BY DEF OnConnection
  <1>2. /\ task \in [Loops -> Tasks] /\ arrived \in [Conns -> Nat]
        /\ wire \in [Conns -> Seq(Requests)] /\ conn \in [Conns -> ConnStates]
    BY DEF ServerInv, ServerState, TcpTypeOK
  <1>3. ServerState'
    <2>1. conn' \in [Conns -> ConnStates]
      BY <1>1, <1>2 DEF ConnStates
    <2>2. wire' \in [Conns -> Seq(Requests)] /\ DOMAIN wire' = Conns
      BY <1>1, <1>2
    <2>3. arrived' \in [Conns -> Nat]
      BY <1>1, <1>2
    <2> QED
      BY <1>1, <2>1, <2>2, <2>3 DEF ServerInv, ServerState, TcpTypeOK
  <1>4. ASSUME NEW d \in Conns PROVE (Aligned(d) /\ AnswersOrdered(d) /\ WireOrdered(d))'
    <2>1. AnswersOrdered(d)'
      BY <1>1 DEF ServerInv, AnswersOrdered
    <2>2. CASE d = c
      <3>1. wire'[d] = << >> /\ Len(wire'[d]) = 0 /\ arrived'[d] = 0
        BY <1>1, <1>2, <2>2
      <3>2. Aligned(d)'
        BY <3>1, BytesEmpty DEF Aligned
      <3>3. WireOrdered(d)'
        BY <3>1 DEF WireOrdered
      <3> QED
        BY <2>1, <3>2, <3>3
    <2>3. CASE d # c
      <3>1. wire'[d] = wire[d] /\ arrived'[d] = arrived[d]
        BY <1>1, <1>2, <2>3
      <3>2. Aligned(d)' /\ WireOrdered(d)'
        BY <1>1, <3>1 DEF ServerInv, Aligned, WireOrdered, WireId
      <3> QED
        BY <2>1, <3>2
    <2> QED
      BY <2>2, <2>3
  <1>5. ASSUME NEW k \in Loops PROVE (OwnTask(k) /\ ReplyOrdered(k))'
    <2>1. task[k] \in Tasks
      BY <1>2
    <2>2. task[k] # Idle => task[k].conn \in Conns /\ task[k].conn # c
      BY <1>1, <2>1, TaskFields DEF ServerInv, OwnTask
    <2>3. task[k] # Idle => /\ wire'[task[k].conn] = wire[task[k].conn]
                            /\ arrived'[task[k].conn] = arrived[task[k].conn]
      BY <1>1, <1>2, <2>2
    <2>4. task[k].pc \in {"decode", "reply"} => task[k] # Idle
      BY DEF Idle
    <2>5. OwnTask(k)'
      BY <1>1, <2>3, <2>4 DEF ServerInv, OwnTask
    <2>6. ReplyOrdered(k)'
      BY <1>1, <2>3, <2>4 DEF ServerInv, ReplyOrdered, WireId
    <2> QED
      BY <2>5, <2>6
  <1> QED
    BY <1>3, <1>4, <1>5 DEF ServerInv

(***************************************************************************)
(* Every step of an IO loop preserves the invariant.                       *)
(***************************************************************************)
LEMMA LoopStepKeeps ==
  ASSUME ServerInv, NEW l \in Loops, LoopStep(l)
  PROVE  ServerInv'
  BY OnMessageStep, OnConnectionStep, ProbeStep, InstallStep, PickStep, DecodeStep,
     SendRpcResponseStep DEF LoopStep

-----------------------------------------------------------------------------
(***************************************************************************)
(* The clients' side of the interface: a step that leaves the server's own *)
(* state and its buffers alone preserves the invariant, whether it sends   *)
(* nothing or the request that comes next on its connection.               *)
(***************************************************************************)
LEMMA QuietStepKeeps ==
  ASSUME ServerInv, TcpTypeOK', UNCHANGED <<wire, arrived, sent, codec, task, answered>>
  PROVE  ServerInv'
  <1>1. ServerState'
    BY DEF ServerInv, ServerState
  <1>2. ASSUME NEW c \in Conns PROVE (Aligned(c) /\ AnswersOrdered(c) /\ WireOrdered(c))'
    BY DEF ServerInv, Aligned, AnswersOrdered, WireOrdered, WireId
  <1>3. ASSUME NEW l \in Loops PROVE (OwnTask(l) /\ ReplyOrdered(l))'
    BY DEF ServerInv, OwnTask, ReplyOrdered, WireId
  <1> QED
    BY <1>1, <1>2, <1>3 DEF ServerInv

LEMMA SocketSendKeeps ==
  ASSUME ServerInv, NEW c \in Conns, NEW f \in Requests, f.body.val.id = sent[c] + 1,
         SocketSend(c, f), UNCHANGED <<up, conn, peer, arrived, reply, codec, task, answered>>
  PROVE  ServerInv'
  <1>1. /\ wire \in [Conns -> Seq(Requests)] /\ sent \in [Conns -> Nat]
        /\ answered \in [Conns -> Seq(Nat)] /\ arrived \in [Conns -> Nat]
        /\ task \in [Loops -> Tasks]
    BY DEF ServerInv, ServerState, TcpTypeOK
  <1>2. sent' = [sent EXCEPT ![c] = sent[c] + 1]
    BY DEF SocketSend
  <1>3. wire' = wire \/ wire' = [wire EXCEPT ![c] = Append(wire[c], f)]
    BY DEF SocketSend
  <1>4. \A d \in Conns : sent[d] \in Nat /\ sent'[d] \in Nat /\ sent[d] <= sent'[d]
    BY <1>1, <1>2
  <1>5. \A d \in Conns : wire[d] \in Seq(Requests)
                           /\ \/ wire'[d] = wire[d]
                              \/ d = c /\ wire'[d] = Append(wire[c], f)
    BY <1>1, <1>3
  <1>6. \A d \in Conns : Len(wire[d]) \in Nat
                           /\ \A i \in 1 .. Len(wire[d]) : i \in 1 .. Len(wire'[d])
                                                             /\ wire'[d][i] = wire[d][i]
    BY <1>5
  <1>7. \A d \in Conns : \A i \in 1 .. Len(wire'[d]) :
          i \in 1 .. Len(wire[d]) \/ (d = c /\ i = Len(wire[c]) + 1 /\ wire'[d][i] = f)
    <2>1. ASSUME NEW d \in Conns, NEW i \in 1 .. Len(wire'[d])
          PROVE  i \in 1 .. Len(wire[d]) \/ (d = c /\ i = Len(wire[c]) + 1 /\ wire'[d][i] = f)
      <3>1. CASE wire'[d] = wire[d]
        BY <3>1
      <3>2. CASE d = c /\ wire'[d] = Append(wire[c], f)
        BY <1>5, <3>2
      <3> QED
        BY <1>5, <3>1, <3>2
    <2> QED
      BY <2>1
  <1>8. ServerState'
    <2>1. wire' \in [Conns -> Seq(Requests)] /\ DOMAIN wire' = Conns
      <3>1. Append(wire[c], f) \in Seq(Requests)
        BY <1>1
      <3> QED
        BY <1>1, <1>3, <3>1
    <2>2. sent' \in [Conns -> Nat]
      BY <1>1, <1>2
    <2> QED
      BY <2>1, <2>2 DEF ServerInv, ServerState, TcpTypeOK
  <1>9. \A d \in Conns : \A i \in 1 .. Len(answered[d]) :
          answered[d][i] \in Nat /\ answered[d][i] <= sent[d]
    BY <1>1 DEF ServerInv, AnswersOrdered
  <1>10. \A d \in Conns : \A i \in 1 .. Len(wire[d]) :
           WireId(d, i) \in Nat /\ WireId(d, i) <= sent[d] /\ WireId(d, i)' = WireId(d, i)
    <2>1. ASSUME NEW d \in Conns, NEW i \in 1 .. Len(wire[d])
          PROVE  WireId(d, i) \in Nat /\ WireId(d, i) <= sent[d] /\ WireId(d, i)' = WireId(d, i)
      <3>1. wire[d][i] \in Requests
        BY <1>5
      <3>2. WireId(d, i) \in Nat
        BY <3>1, RequestSize DEF WireId
      <3>3. WireId(d, i) <= sent[d]
        BY DEF ServerInv, WireOrdered
      <3> QED
        BY <1>6, <3>2, <3>3 DEF WireId
    <2> QED
      BY <2>1
  <1>11. sent'[c] = sent[c] + 1 /\ sent[c] \in Nat
    BY <1>1, <1>2
  <1>12. ASSUME NEW d \in Conns PROVE (Aligned(d) /\ AnswersOrdered(d) /\ WireOrdered(d))'
    <2>1. Aligned(d)'
      <3>1. arrived[d] \in Nat /\ arrived[d] <= Bytes(wire[d]) /\ Bytes(wire[d]) \in Nat
        BY <1>1, BytesNat DEF ServerInv, Aligned
      <3>2. CASE wire'[d] = wire[d]
        BY <3>1, <3>2 DEF Aligned
      <3>3. CASE d = c /\ wire'[d] = Append(wire[c], f)
        <4>1. Bytes(wire'[d]) = Bytes(wire[d]) + FrameSize(f) /\ FrameSize(f) \in Nat
          BY <1>1, <3>3, BytesAppend, RequestSize
        <4> QED
          BY <3>1, <4>1 DEF Aligned
      <3> QED
        BY <1>5, <3>2, <3>3
    <2>2. AnswersOrdered(d)'
      <3>1. \A i \in 1 .. Len(answered[d]) : answered[d][i] <= sent'[d]
        BY <1>4, <1>9
      <3> QED
        BY <3>1 DEF ServerInv, AnswersOrdered
    <2>3. WireOrdered(d)'
      <3>1. ASSUME NEW i \in 1 .. Len(wire'[d])
            PROVE  WireId(d, i)' <= sent'[d]
        <4>1. CASE i \in 1 .. Len(wire[d])
          BY <1>4, <1>10, <4>1
        <4>2. CASE d = c /\ wire'[d][i] = f
          BY <1>11, <4>2 DEF WireId
        <4> QED
          BY <1>7, <4>1, <4>2
      <3>2. ASSUME NEW i \in 1 .. Len(wire'[d]), NEW j \in 1 .. Len(wire'[d]), i < j
            PROVE  WireId(d, i)' < WireId(d, j)'
        <4>1. i \in 1 .. Len(wire[d])
          BY <1>6, <1>7, <3>2
        <4>2. CASE j \in 1 .. Len(wire[d])
          BY <1>10, <3>2, <4>1, <4>2 DEF ServerInv, WireOrdered
        <4>3. CASE d = c /\ wire'[d][j] = f
          BY <1>10, <1>11, <4>1, <4>3 DEF WireId
        <4> QED
          BY <1>7, <4>2, <4>3
      <3>3. ASSUME NEW i \in 1 .. Len(answered[d]), NEW j \in 1 .. Len(wire'[d])
            PROVE  answered[d][i] < WireId(d, j)'
        <4>1. CASE j \in 1 .. Len(wire[d])
          BY <1>10, <4>1 DEF ServerInv, WireOrdered
        <4>2. CASE d = c /\ wire'[d][j] = f
          BY <1>9, <1>11, <4>2 DEF WireId
        <4> QED
          BY <1>7, <4>1, <4>2
      <3> QED
        BY <3>1, <3>2, <3>3 DEF WireOrdered
    <2> QED
      BY <2>1, <2>2, <2>3
  <1>13. ASSUME NEW l \in Loops PROVE (OwnTask(l) /\ ReplyOrdered(l))'
    <2>1. task[l] \in Tasks
      BY <1>1
    <2>2. OwnTask(l)'
      <3>1. CASE task[l].pc = "decode"
        <4>1. task[l].conn \in Conns
          BY <2>1, <3>1, TaskFields
        <4>2. wire[task[l].conn] # << >>
          BY <3>1 DEF ServerInv, OwnTask
        <4>3. wire'[task[l].conn] # << >> /\ Head(wire'[task[l].conn]) = Head(wire[task[l].conn])
          BY <1>5, <4>1, <4>2
        <4> QED
          BY <4>3 DEF ServerInv, OwnTask
      <3>2. CASE task[l].pc # "decode"
        BY <3>2 DEF ServerInv, OwnTask
      <3> QED
        BY <3>1, <3>2
    <2>3. ReplyOrdered(l)'
      <3>1. CASE task[l].pc = "reply"
        <4> DEFINE d == task[l].conn
                   id == task[l].id
        <4>1. d \in Conns /\ id \in Nat
          BY <2>1, <3>1, TaskFields
        <4>2. /\ id <= sent[d]
              /\ \A i \in 1 .. Len(answered[d]) : answered[d][i] < id
              /\ \A i \in 1 .. Len(wire[d]) : id < WireId(d, i)
          BY <3>1 DEF ServerInv, ReplyOrdered
        <4>3. id <= sent'[d]
          BY <1>4, <4>1, <4>2
        <4>4. ASSUME NEW i \in 1 .. Len(wire'[d]) PROVE id < wire'[d][i].body.val.id
          <5>1. CASE i \in 1 .. Len(wire[d])
            BY <1>6, <4>1, <4>2, <5>1 DEF WireId
          <5>2. CASE d = c /\ wire'[d][i] = f
            BY <1>11, <4>1, <4>2, <5>2
          <5> QED
            BY <1>7, <4>1, <5>1, <5>2
        <4> QED
          BY <4>2, <4>3, <4>4 DEF ReplyOrdered, WireId
      <3>2. CASE task[l].pc # "reply"
        BY <3>2 DEF ReplyOrdered
      <3> QED
        BY <3>1, <3>2
    <2> QED
      BY <2>2, <2>3
  <1> QED
    BY <1>8, <1>12, <1>13 DEF ServerInv

-----------------------------------------------------------------------------
(***************************************************************************)
(* The server starts with empty buffers and nothing to do.                 *)
(***************************************************************************)
LEMMA ServerStarts ==
  ASSUME NEW C, TcpInit(C), ServerInit
  PROVE  ServerInv
  <1>1. ServerState
    <2>1. conn \in [Conns -> ConnStates] /\ peer \in [Conns -> PeerStates]
      BY DEF TcpInit, ConnStates, PeerStates
    <2>2. task \in [Loops -> Tasks]
      BY DEF ServerInit, Tasks
    <2> QED
      BY <2>1, <2>2 DEF ServerState, TcpTypeOK, TcpInit, ServerInit
  <1>2. ASSUME NEW c \in Conns PROVE Aligned(c) /\ AnswersOrdered(c) /\ WireOrdered(c)
    <2>1. wire[c] = << >> /\ answered[c] = << >> /\ arrived[c] = 0
      BY DEF TcpInit, ServerInit
    <2>2. Len(wire[c]) = 0 /\ Len(answered[c]) = 0
      BY <2>1
    <2>3. Aligned(c)
      BY <2>1, BytesEmpty DEF Aligned
    <2>4. AnswersOrdered(c) /\ WireOrdered(c)
      BY <2>2 DEF AnswersOrdered, WireOrdered
    <2> QED
      BY <2>3, <2>4
  <1>3. ASSUME NEW l \in Loops PROVE OwnTask(l) /\ ReplyOrdered(l)
    BY DEF ServerInit, OwnTask, ReplyOrdered, Idle
  <1> QED
    BY <1>1, <1>2, <1>3 DEF ServerInv

(***************************************************************************)
(* The invariant implies the properties of RpcServer.                      *)
(***************************************************************************)
LEMMA ServerInvImplies == ServerInv => ServerTypeOK /\ AnswersInOrder /\ BufferAligned
  <1> SUFFICES ASSUME ServerInv PROVE ServerTypeOK /\ AnswersInOrder /\ BufferAligned
    OBVIOUS
  <1>1. ASSUME NEW l \in Loops
        PROVE  /\ task[l].pc \in {"idle", "probe", "install", "pick", "decode", "reply"}
               /\ task[l] # Idle => task[l].conn \in Conns
    BY TaskFields DEF ServerInv, ServerState
  <1>2. ServerTypeOK
    BY <1>1 DEF ServerTypeOK, ServerInv, ServerState
  <1>3. AnswersInOrder
    BY DEF AnswersInOrder, ServerInv, AnswersOrdered
  <1>4. ASSUME NEW c \in Conns PROVE arrived[c] \in 0 .. BytesSent(c)
    <2>1. arrived[c] \in Nat /\ wire[c] \in Seq(Requests) /\ arrived[c] <= Bytes(wire[c])
      BY DEF ServerInv, ServerState, TcpTypeOK, Aligned
    <2>2. Bytes(wire[c]) \in Nat
      BY <2>1, BytesNat
    <2> QED
      BY <2>1, <2>2 DEF BytesSent, Bytes
  <1> QED
    BY <1>2, <1>3, <1>4 DEF BufferAligned
=============================================================================
