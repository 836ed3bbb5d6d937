----------------------------- MODULE RpcSystem ------------------------------
(***************************************************************************)
(* Channels and the server together, over TCP, with a server process that  *)
(* may die and be started again.                                           *)
(***************************************************************************)
EXTENDS RpcChannel, RpcServer

vars == <<tcpVars, serverVars, channelVars>>

Init == TcpInit({}) /\ ServerInit /\ ChannelInit

(***************************************************************************)
(* The server process is killed, and started again by its operator.        *)
(***************************************************************************)
Crash == "crash" \in Faults /\ up /\ ProcessDies /\ UNCHANGED channelVars

Restart == /\ ~up /\ up' = TRUE
           /\ UNCHANGED <<conn, peer, wire, arrived, sent, reply, serverVars, channelVars>>

Next ==
  \/ \E ch \in Channels : ChannelStep(ch) /\ UNCHANGED serverVars
  \/ \E l \in Loops : LoopStep(l) /\ UNCHANGED channelVars
  \/ Crash
  \/ Restart

Spec == Init /\ [][Next]_vars

(***************************************************************************)
(* The kernel runs both programs: a stage of CallMethod that can go on     *)
(* does, and an IO loop with something to do does it.  Callers need not    *)
(* call, and a dead server need not come back.                             *)
(***************************************************************************)
FairSpec == /\ Spec
            /\ \A ch \in Channels : WF_vars(Stage(ch) /\ UNCHANGED serverVars)
            /\ \A l \in Loops : WF_vars(LoopStep(l) /\ UNCHANGED channelVars)

-----------------------------------------------------------------------------
ChannelTypeOK ==
  /\ \A ch \in Channels :
       /\ pc[ch] \in {"construct", "idle", "query", "connect", "send", "recvHeader",
                      "recvBody", "decode", "gone"}
       /\ fd[ch] = NoFd \/ OwnerOf[fd[ch]] = ch
       /\ pc[ch] \in {"send", "recvHeader", "recvBody", "decode"} => fd[ch] # NoFd
  /\ failed \in [Channels -> BOOLEAN]
  /\ calls \in [Channels -> 0 .. MaxCalls]

(***************************************************************************)
(* A call that succeeds returns the response to the request it sent, never *)
(* one left over from an earlier call: CallMethod matches responses by     *)
(* position alone (request_id is never set).                               *)
(***************************************************************************)
ResponseMatches ==
  \A ch \in Channels : pc[ch] = "idle" /\ calls[ch] > 0 /\ outcome[ch].ok
                         => outcome[ch].got.id = call[ch].id

(***************************************************************************)
(* Between calls a connection the channel keeps is silent: no request of   *)
(* an earlier call is unanswered on it and no byte of a response unread.   *)
(***************************************************************************)
QuietBetweenCalls ==
  \A ch \in Channels : pc[ch] \in {"idle", "send"} /\ fd[ch] # NoFd
                         => reply[fd[ch]] = << >> /\ wire[fd[ch]] = << >>

(***************************************************************************)
(* The open sockets are exactly those channels hold: no error path leaks   *)
(* one, and none is used after it was closed.                              *)
(***************************************************************************)
SocketsOwned ==
  \A c \in Conns : (peer[c] = "open") <=> (fd[OwnerOf[c]] = c)

(***************************************************************************)
(* The caller waits for a response no one will send: its connection is     *)
(* alive, nothing is under way in either direction, and no loop works on   *)
(* its request.  recv has no timeout.                                      *)
(***************************************************************************)
PassedOver(ch) ==
  /\ pc[ch] = "recvHeader"
  /\ conn[fd[ch]] = "connected"
  /\ wire[fd[ch]] = << >>
  /\ ~HeaderReadable(ch)
  /\ \A l \in Loops : task[l].pc # "idle" => task[l].conn # fd[ch]

(***************************************************************************)
(* The requests the server may leave without an answer: one for a method   *)
(* it does not have, or sent under another method's name; one whose        *)
(* response the codec refuses to encode; and any, once a channel of the    *)
(* other protocol has called too, as all connections share one codec.      *)
(***************************************************************************)
MayBePassedOver(ch) ==
  \/ name[ch] \notin Services
  \/ name[ch] # call[ch].method
  \/ ServerEncode(Proto(ch), ResponseHeader, ResponseBody(name[ch], 1)).ret # kCodecOk
  \/ \E other \in Channels : Proto(other) # Proto(ch) /\ calls[other] > 0

(***************************************************************************)
(* Every call returns, with a response or with the controller failed,      *)
(* whatever crashes meanwhile.  Only the callers of the requests above may *)
(* be left waiting instead.                                                *)
(***************************************************************************)
CallReturns ==
  \A ch \in Channels :
    (pc[ch] \notin {"construct", "idle", "gone"})
      ~> (pc[ch] = "idle" \/ (MayBePassedOver(ch) /\ PassedOver(ch)))

(***************************************************************************)
(* With a healthy server and a healthy network no call fails.              *)
(***************************************************************************)
CallsSucceed == \A ch \in Channels : outcome[ch].ok

(***************************************************************************)
(* A successful call was executed by the method the caller asked for.      *)
(***************************************************************************)
MethodHonoured ==
  \A ch \in Channels : pc[ch] = "idle" /\ calls[ch] > 0 /\ outcome[ch].ok
                         => outcome[ch].got.type = call[ch].method

(***************************************************************************)
(* Controller::Failed tells whether the current call failed, as its        *)
(* comment says: once a call is over, m_failed is that call's verdict.     *)
(***************************************************************************)
FailedIsCurrent == \A ch \in Channels : pc[ch] = "idle" => failed[ch] = ~outcome[ch].ok
=============================================================================
