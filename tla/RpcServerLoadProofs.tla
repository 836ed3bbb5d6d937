------------------------ MODULE RpcServerLoadProofs -------------------------
(***************************************************************************)
(* The server under clients that pipeline: theorems for every number of    *)
(* loops, connections and requests, every mix of protocols and every way   *)
(* of cutting the streams.                                                 *)
(***************************************************************************)
EXTENDS RpcServerLoad, RpcServerProofs

(***************************************************************************)
(* The clients' protocols never change, so what they send are requests.    *)
(***************************************************************************)
LoadInv == ServerInv /\ proto \in [Conns -> Protocols]

LEMMA ClientSendKeeps ==
  ASSUME LoadInv, NEW c \in Conns, ClientSend(c)
  PROVE  ServerInv'
  <1>1. PICK m \in Called :
          LET e == ClientEncode(proto[c], RpcHeader(m), RequestBody(m, sent[c] + 1))
          IN  e.ret = kCodecOk /\ SocketSend(c, e.frame)
    BY DEF ClientSend
  <1> DEFINE e == Encoded(proto[c], m, m, sent[c] + 1)
  <1>2. e.ret = kCodecOk /\ SocketSend(c, e.frame)
    BY <1>1 DEF Encoded
  <1>3. m \in Methods /\ proto[c] \in Protocols /\ sent[c] + 1 \in Nat
    BY CalledAssumption DEF Methods, LoadInv, ServerInv, ServerState, TcpTypeOK
  <1>4. e.frame \in Requests /\ e.frame.body.val.id = sent[c] + 1
    BY <1>2, <1>3, EncodedRequest
  <1>5. UNCHANGED <<up, conn, peer, arrived, reply, codec, task, answered>>
    BY DEF ClientSend, serverVars
  <1> HIDE DEF e
  <1> QED
    BY <1>2, <1>4, <1>5, SocketSendKeeps DEF LoadInv

LEMMA LoadInductive == Spec => []LoadInv
  <1>1. Init => LoadInv
    <2>1. Init => ServerInv
      BY ServerStarts DEF Init
    <2> QED
      BY <2>1, MixesAssumption DEF Init, LoadInv
  <1>2. LoadInv /\ [Next]_vars => LoadInv'
    <2> SUFFICES ASSUME LoadInv, [Next]_vars PROVE LoadInv'
      OBVIOUS
    <2>1. proto' = proto
      BY DEF Next, ClientSend, ClientRecv, ClientHangUp, vars
    <2>2. ASSUME NEW c \in Conns, ClientSend(c) PROVE ServerInv'
      BY <2>2, ClientSendKeeps
    <2>3. ASSUME NEW c \in Conns, ClientRecv(c) PROVE ServerInv'
      <3>1. UNCHANGED <<up, conn, peer, wire, arrived, sent, codec, task, answered>>
        BY <2>3 DEF ClientRecv, serverVars
      <3>2. TcpTypeOK'
        BY <2>3, <3>1 DEF ClientRecv, LoadInv, ServerInv, ServerState, TcpTypeOK
      <3> QED
        BY <3>1, <3>2, QuietStepKeeps DEF LoadInv
    <2>4. ASSUME NEW c \in Conns, ClientHangUp(c) PROVE ServerInv'
      <3>1. UNCHANGED <<up, conn, wire, arrived, sent, codec, task, answered>>
        BY <2>4 DEF ClientHangUp, serverVars
      <3>2. TcpTypeOK'
        BY <2>4, <3>1
           DEF ClientHangUp, SocketClose, PeerStates, LoadInv, ServerInv, ServerState, TcpTypeOK
      <3> QED
        BY <3>1, <3>2, QuietStepKeeps DEF LoadInv
    <2>5. ASSUME NEW l \in Loops, LoopStep(l) PROVE ServerInv'
      BY <2>5, LoopStepKeeps DEF LoadInv
    <2>6. ASSUME UNCHANGED vars PROVE ServerInv'
      <3>1. UNCHANGED <<wire, arrived, sent, codec, task, answered>> /\ UNCHANGED tcpVars
        BY <2>6 DEF vars, tcpVars, serverVars
      <3>2. TcpTypeOK'
        BY <3>1 DEF tcpVars, LoadInv, ServerInv, ServerState, TcpTypeOK
      <3> QED
        BY <3>1, <3>2, QuietStepKeeps DEF LoadInv
    <2>7. ServerInv'
      BY <2>2, <2>3, <2>4, <2>5, <2>6 DEF Next
    <2> QED
      BY <2>1, <2>7 DEF LoadInv
  <1> QED
    BY <1>1, <1>2, PTL DEF Spec

-----------------------------------------------------------------------------
(***************************************************************************)
(* However many loops share the codec, the server's state is well formed:  *)
(* a loop that is busy is busy with a connection.                          *)
(***************************************************************************)
THEOREM LoadTypeCorrect == Spec => []ServerTypeOK
  <1>1. LoadInv => ServerTypeOK
    BY ServerInvImplies DEF LoadInv
  <1> QED
    BY <1>1, LoadInductive, PTL

(***************************************************************************)
(* No request is answered twice, and the answers of a connection go out in *)
(* the order of its requests, whatever the loops do to the shared codec    *)
(* and whether or not the process dies of it.                              *)
(***************************************************************************)
THEOREM AnswersInOrderCorrect == Spec => []AnswersInOrder
  <1>1. LoadInv => AnswersInOrder
    BY ServerInvImplies DEF LoadInv
  <1> QED
    BY <1>1, LoadInductive, PTL

(***************************************************************************)
(* The input buffer never loses the frame boundary: it holds no more than  *)
(* the bytes of the frames that were sent and not yet retrieved, however   *)
(* the stream was cut.                                                     *)
(***************************************************************************)
THEOREM BufferAlignedCorrect == Spec => []BufferAligned
  <1>1. LoadInv => BufferAligned
    BY ServerInvImplies DEF LoadInv
  <1> QED
    BY <1>1, LoadInductive, PTL
=============================================================================
