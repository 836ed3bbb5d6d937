----------------------------- MODULE RpcChannel -----------------------------
(***************************************************************************)
(* RpcChannel and Controller (src/src/rpc/channel.cc, controller.cc): the  *)
(* stages of CallMethod, a blocking call on one socket that is opened      *)
(* lazily, kept between calls and closed on every error after the send.    *)
(***************************************************************************)
EXTENDS Tcp

CONSTANTS Channels,
          OwnerOf,     \* the channel each connection is opened by
          UseXrpc,     \* the channels built with useXrpc
          DirectTo,    \* per channel: its preset address, "" in ZooKeeper mode
          Routes,      \* what QueryServiceHost may find: addresses, "" (no
                       \* provider) or " " (an address without a port)
          Server,      \* the address the server listens on
          CalledBy,    \* the methods each channel is used for
          MaxCalls,    \* bound: calls per channel
          Resets,      \* whether callers Reset the controller between calls
          Faults       \* faults of the environment: "connect"

NoFd == << >>

ASSUME OwnerOfAssumption == OwnerOf \in [Conns -> Channels]
ASSUME NoFdAssumption == NoFd \notin Conns
ASSUME CalledByAssumption == \A ch \in Channels : CalledBy[ch] \subseteq DOMAIN ReqSize
ASSUME DirectToAssumption == DOMAIN DirectTo = Channels
ASSUME CallsAssumption == MaxCalls \in Nat /\ Resets \in BOOLEAN

VARIABLES pc,        \* the stage CallMethod is in
          fd,        \* m_clientfd: the connection, or NoFd for -1
          ip,        \* m_ip
          name,      \* service_name and method_name, cached
          call,      \* the call in progress: what was asked, and its id
          frame_buf, \* the response frame as read from the socket
          failed,    \* Controller::m_failed
          calls,     \* number of calls made
          outcome    \* how the last call itself ended, and with what

channelVars == <<pc, fd, ip, name, call, frame_buf, failed, calls, outcome>>

Proto(ch) == IF ch \in UseXrpc THEN "XRpc" ELSE "Legacy"

ChannelInit ==
  /\ pc = [ch \in Channels |-> "construct"]
  /\ fd = [ch \in Channels |-> NoFd]
  /\ ip = DirectTo
  /\ name = [ch \in Channels |-> ""]
  /\ call = [ch \in Channels |-> [method |-> "", id |-> 0]]
  /\ frame_buf = [ch \in Channels |-> << >>]
  /\ failed = [ch \in Channels |-> FALSE]
  /\ calls = [ch \in Channels |-> 0]
  /\ outcome = [ch \in Channels |-> [ok |-> TRUE, got |-> << >>]]

-----------------------------------------------------------------------------
(***************************************************************************)
(* CallMethod returns: normally, or after SetFailed.                       *)
(***************************************************************************)
Finish(ch, ok, got) ==
  /\ pc' = [pc EXCEPT ![ch] = "idle"]
  /\ frame_buf' = [frame_buf EXCEPT ![ch] = << >>]
  /\ failed' = [failed EXCEPT ![ch] = @ \/ ~ok]
  /\ outcome' = [outcome EXCEPT ![ch] = [ok |-> ok, got |-> got]]

SetFailed(ch) == Finish(ch, FALSE, << >>)

(***************************************************************************)
(* close(m_clientfd); m_clientfd = -1; SetFailed(...); return              *)
(***************************************************************************)
\* Wrong: the socket is not closed; and: the descriptor is kept as well.
CloseAndFailLeak(ch) ==
  /\ fd' = [fd EXCEPT ![ch] = NoFd]
  /\ SetFailed(ch)
  /\ UNCHANGED <<tcpVars, ip, name, call, calls>>
CloseAndFailKeep(ch) == SetFailed(ch) /\ UNCHANGED <<tcpVars, fd, ip, name, call, calls>>

CloseAndFail(ch) ==
  /\ SocketClose(fd[ch])
  /\ fd' = [fd EXCEPT ![ch] = NoFd]
  /\ SetFailed(ch)
  /\ UNCHANGED <<up, conn, wire, arrived, sent, ip, name, call, calls>>

(***************************************************************************)
(* newConnect: a fresh socket, connected to the server or closed again.    *)
(* Conns bounds how many sockets a channel may ever open.                  *)
(***************************************************************************)
FreshConns(ch) == {c \in Conns : OwnerOf[c] = ch /\ peer[c] = "unused"}

\* Wrong: the connected socket is not stored in m_clientfd.
ConnectedNotKept(ch) ==
  /\ ip[ch] = Server /\ up /\ FreshConns(ch) # {}
  /\ Accept(CHOOSE c \in FreshConns(ch) : TRUE)
  /\ UNCHANGED <<up, wire, arrived, sent, reply, fd>>

Connected(ch) ==
  /\ ip[ch] = Server /\ up /\ FreshConns(ch) # {}
  /\ LET c == CHOOSE c \in FreshConns(ch) : TRUE
     IN  Accept(c) /\ fd' = [fd EXCEPT ![ch] = c]
  /\ UNCHANGED <<up, wire, arrived, sent, reply>>

NotConnected(ch) ==
  /\ ip[ch] # Server \/ ~up \/ "connect" \in Faults
  /\ UNCHANGED <<tcpVars, fd>>

-----------------------------------------------------------------------------
(***************************************************************************)
(* The constructors: direct mode connects at once and only logs a failure. *)
(* The connecting constructor makes up to three more attempts after a      *)
(* failed one; the outcome here is that of the last attempt it makes.      *)
(***************************************************************************)
Construct(ch) ==
  /\ pc[ch] = "construct"
  /\ IF DirectTo[ch] = "" THEN UNCHANGED <<tcpVars, fd>> ELSE Connected(ch) \/ NotConnected(ch)
  /\ pc' = [pc EXCEPT ![ch] = "idle"]
  /\ UNCHANGED <<ip, name, call, frame_buf, failed, calls, outcome>>

(***************************************************************************)
(* m_failed when a call starts: CallMethod leaves it alone, a caller that  *)
(* calls Controller::Reset first clears it.                                *)
(***************************************************************************)
Reset(ch) == failed[ch] /\ ~Resets

(***************************************************************************)
(* CallMethod is entered.  The names are taken from the descriptor only    *)
(* the first time.                                                         *)
(***************************************************************************)
CallMethod(ch, m) ==
  /\ pc[ch] = "idle" /\ calls[ch] < MaxCalls
  /\ calls' = [calls EXCEPT ![ch] = @ + 1]
  /\ failed' = [failed EXCEPT ![ch] = Reset(ch)]
  /\ name' = [name EXCEPT ![ch] = IF @ = "" THEN m ELSE @]
  /\ call' = [call EXCEPT ![ch] = [method |-> m, id |-> 0]]
  /\ pc' = [pc EXCEPT ![ch] = IF fd[ch] # NoFd THEN "send"
                              ELSE IF ip[ch] # "" THEN "connect" ELSE "query"]
  /\ UNCHANGED <<tcpVars, fd, ip, frame_buf, outcome>>

(***************************************************************************)
(* ZooKeeper mode: QueryServiceHost, whose answer becomes m_ip before the  *)
(* connection is tried, and stays there.                                   *)
(***************************************************************************)
Query(ch) ==
  /\ pc[ch] = "query"
  /\ \E host \in Routes : ip' = [ip EXCEPT ![ch] = host]
  /\ pc' = [pc EXCEPT ![ch] = "connect"]
  /\ UNCHANGED <<tcpVars, fd, name, call, frame_buf, failed, calls, outcome>>

Connect(ch) ==
  /\ pc[ch] = "connect"
  /\ \/ Connected(ch) /\ pc' = [pc EXCEPT ![ch] = "send"]
                      /\ UNCHANGED <<frame_buf, failed, outcome>>
     \/ NotConnected(ch) /\ SetFailed(ch)
  /\ UNCHANGED <<ip, name, call, calls>>

(***************************************************************************)
(* Encode and send.  A request that does not encode leaves the connection  *)
(* open; a send on a connection the server has left may fail.              *)
(***************************************************************************)
Send(ch) ==
  /\ pc[ch] = "send"
  /\ LET c  == fd[ch]
         id == sent[c] + 1
         e  == ClientEncode(Proto(ch), RpcHeader(name[ch]), RequestBody(call[ch].method, id))
     IN  \/ /\ e.ret # kCodecOk
            /\ SetFailed(ch)
            /\ UNCHANGED <<tcpVars, fd, ip, name, call, calls>>
         \/ /\ e.ret = kCodecOk /\ conn[c] = "disconnected"
            /\ CloseAndFail(ch)
         \/ /\ e.ret = kCodecOk
            /\ SocketSend(c, e.frame)
            /\ call' = [call EXCEPT ![ch].id = id]
            /\ pc' = [pc EXCEPT ![ch] = "recvHeader"]
            /\ UNCHANGED <<up, conn, peer, arrived, reply, fd, ip, name, frame_buf,
                           failed, calls, outcome>>

(***************************************************************************)
(* recv_exact gives up when recv returns 0 or an error: the server has     *)
(* closed its side, and what it had sent is not enough.                    *)
(***************************************************************************)
\* Wrong: a recv that returns 0 is tried again.
RecvNeverFails(c) == FALSE

RecvFails(c) == conn[c] \in {"disconnecting", "disconnected"}

(***************************************************************************)
(* recv_exact of the fixed part: 16 bytes or 4.  A Legacy response may be  *)
(* shorter than the 16 bytes an XRpc client waits for.                     *)
(***************************************************************************)
HeaderReadable(ch) ==
  /\ reply[fd[ch]] # << >>
  /\ LET f == Head(reply[fd[ch]]).frame
     IN  Proto(ch) = "XRpc" /\ f.proto = "Legacy" => 4 + f.body.size >= kFixedHeaderSize

HeaderAccepted(ch, f) ==
  IF Proto(ch) = "XRpc"
  THEN LET fh == PeekFixedHeader(f)
       IN  /\ IsValid(fh)
           /\ fh.total_size <= kMaxFrameSize /\ fh.total_size >= kFixedHeaderSize
  ELSE First32(f) <= kMaxFrameSize

(***************************************************************************)
(* What lies in frame_buf: the XRpc branch copies the header after NToH,   *)
(* the Legacy branch copies the length prefix as received.                 *)
(***************************************************************************)
FrameBuf(f) == IF f.proto = "XRpc" THEN [f EXCEPT !.fh = NToH(@)] ELSE f

RecvHeader(ch) ==
  /\ pc[ch] = "recvHeader"
  /\ LET c == fd[ch]
         f == Head(reply[c]).frame
     IN  \/ /\ HeaderReadable(ch) /\ HeaderAccepted(ch, f)
            /\ reply' = [reply EXCEPT ![c] = Tail(@)]
            /\ frame_buf' = [frame_buf EXCEPT ![ch] = FrameBuf(f)]
            /\ pc' = [pc EXCEPT ![ch] = IF BodyBytes(f) > 0 THEN "recvBody" ELSE "decode"]
            /\ UNCHANGED <<up, conn, peer, wire, arrived, sent, fd, ip, name, call, failed,
                           calls, outcome>>
         \/ /\ HeaderReadable(ch) /\ ~HeaderAccepted(ch, f)
            /\ CloseAndFail(ch)
         \/ /\ ~HeaderReadable(ch) /\ RecvFails(c)
            /\ CloseAndFail(ch)

RecvBody(ch) ==
  /\ pc[ch] = "recvBody"
  /\ \/ /\ reply[fd[ch]] # << >>
        /\ reply' = [reply EXCEPT ![fd[ch]] = Tail(@)]
        /\ pc' = [pc EXCEPT ![ch] = "decode"]
        /\ UNCHANGED <<up, conn, peer, wire, arrived, sent, fd, ip, name, call, frame_buf,
                       failed, calls, outcome>>
     \/ reply[fd[ch]] = << >> /\ RecvFails(fd[ch]) /\ CloseAndFail(ch)

(***************************************************************************)
(* ZeroCopyDecode, then ParseFromString into the caller's response.        *)
(***************************************************************************)
ClientDecode(ch) ==
  LET f == frame_buf[ch]
  IN  IF Proto(ch) = "XRpc" THEN XRpcClientDecode(f, kFixedHeaderSize + BodyBytes(f))
                            ELSE LegacyClientDecode(f, 4 + BodyBytes(f))

DecodeResponse(ch) ==
  /\ pc[ch] = "decode"
  /\ \E o \in ClientDecode(ch) :
       \E ok \in IF o.ret = kCodecOk THEN ParseFromString(o.body.val, call[ch].method)
                                     ELSE {FALSE} :
         IF ok THEN /\ Finish(ch, TRUE, o.body.val)
                    /\ UNCHANGED <<tcpVars, fd, ip, name, call, calls>>
               ELSE CloseAndFail(ch)

(***************************************************************************)
(* ~RpcChannel, between calls.                                             *)
(***************************************************************************)
Destroy(ch) ==
  /\ pc[ch] = "idle"
  /\ pc' = [pc EXCEPT ![ch] = "gone"]
  /\ IF fd[ch] = NoFd THEN UNCHANGED <<peer, reply>> ELSE SocketClose(fd[ch])
  /\ fd' = [fd EXCEPT ![ch] = NoFd]
  /\ UNCHANGED <<up, conn, wire, arrived, sent, ip, name, call, frame_buf, failed, calls,
                 outcome>>

Stage(ch) == Construct(ch) \/ Query(ch) \/ Connect(ch) \/ Send(ch) \/ RecvHeader(ch)
               \/ RecvBody(ch) \/ DecodeResponse(ch)

ChannelStep(ch) == Stage(ch) \/ Destroy(ch) \/ \E m \in CalledBy[ch] : CallMethod(ch, m)
=============================================================================
