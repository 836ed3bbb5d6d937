--------------------------- MODULE RpcServerLoad ----------------------------
(***************************************************************************)
(* RpcServer under open-loop clients: every connection belongs to a client *)
(* of one protocol that pipelines requests without waiting for responses   *)
(* and may hang up at any time.                                            *)
(***************************************************************************)
EXTENDS RpcServer

CONSTANTS Mixes,        \* which protocols the connections' clients may speak
          Called,       \* the methods clients call, registered or not
          MaxRequests,  \* bound: requests per connection
          HangUps       \* connections whose clients may close before they are answered

ASSUME MixesAssumption == Mixes \subseteq [Conns -> Protocols]
ASSUME CalledAssumption == Called \subseteq DOMAIN ReqSize

VARIABLE proto           \* the protocol of each connection's client

vars == <<tcpVars, serverVars, proto>>

Init == TcpInit(Conns) /\ ServerInit /\ proto \in Mixes

(***************************************************************************)
(* A client encodes a request with its codec and sends the frame.          *)
(***************************************************************************)
ClientSend(c) ==
  /\ peer[c] = "open" /\ conn[c] # "disconnected" /\ sent[c] < MaxRequests
  /\ \E m \in Called :
       LET e == ClientEncode(proto[c], RpcHeader(m), RequestBody(m, sent[c] + 1))
       IN  e.ret = kCodecOk /\ SocketSend(c, e.frame)
  /\ UNCHANGED <<up, conn, peer, arrived, reply, serverVars, proto>>

(***************************************************************************)
(* A client reads the next part of a response, or hangs up.                *)
(***************************************************************************)
ClientRecv(c) ==
  /\ peer[c] = "open" /\ reply[c] # << >>
  /\ reply' = [reply EXCEPT ![c] = Tail(@)]
  /\ UNCHANGED <<up, conn, peer, wire, arrived, sent, serverVars, proto>>

ClientHangUp(c) ==
  /\ c \in HangUps /\ peer[c] = "open"
  /\ SocketClose(c)
  /\ UNCHANGED <<up, conn, wire, arrived, sent, serverVars, proto>>

Next ==
  \/ \E c \in Conns : ClientSend(c) \/ ClientRecv(c) \/ ClientHangUp(c)
  \/ \E l \in Loops : LoopStep(l) /\ UNCHANGED proto

Spec     == Init /\ [][Next]_vars
FairSpec == Spec /\ \A l \in Loops : WF_vars(LoopStep(l) /\ UNCHANGED proto)

-----------------------------------------------------------------------------
(***************************************************************************)
(* Where all clients speak one protocol, every request for a registered    *)
(* method that is sent is eventually answered, unless its connection or    *)
(* the process goes away: no whole frame is left in a buffer, however the  *)
(* stream was cut, and none is skipped with the unknown ones around it.    *)
(***************************************************************************)
OneProtocol == \A c, d \in Conns : proto[c] = proto[d]

Asked(c, id) == \E i \in 1 .. Len(wire[c]) :
                  wire[c][i].header.val \in Services /\ wire[c][i].body.val.id = id

Answered(c, id) == \E i \in 1 .. Len(answered[c]) : answered[c][i] = id

RequestsAnswered ==
  \A c \in Conns : \A id \in 1 .. MaxRequests :
    (OneProtocol /\ Asked(c, id)) ~> (Answered(c, id) \/ conn[c] # "connected" \/ ~up)
=============================================================================
