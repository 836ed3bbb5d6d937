-------------------------------- MODULE Tcp ---------------------------------
(***************************************************************************)
(* The TCP connections between RPC clients and the server, as src/src/rpc  *)
(* uses them: blocking sockets on the client side, muduo's TcpConnection   *)
(* and its input Buffer on the server side.  Both are outside the          *)
(* repository.                                                             *)
(*                                                                         *)
(* Towards the server a connection carries request frames of which any     *)
(* number of bytes may have arrived.  Towards the client it carries parts: *)
(* every response frame is a header part and, unless it is empty, a body   *)
(* part, the two pieces recv_exact reads.                                  *)
(***************************************************************************)
EXTENDS RpcMessages, Sequences

CONSTANTS Conns    \* every connection there will ever be

VARIABLES up,       \* the server process is running and accepts
          conn,     \* server side: TcpConnection's state
          peer,     \* client side: the socket of the connection
          wire,     \* request frames sent and not yet retrieved by the server
          arrived,  \* how many bytes of wire are in the input buffer
          sent,     \* how many requests the client has sent
          reply     \* parts of response frames not yet read by the client

tcpVars == <<up, conn, peer, wire, arrived, sent, reply>>

ConnStates == {"unused", "connected", "disconnecting", "disconnected"}
PeerStates == {"unused", "open", "closed"}

TcpInit(initial) ==
  /\ up      = TRUE
  /\ conn    = [c \in Conns |-> IF c \in initial THEN "connected" ELSE "unused"]
  /\ peer    = [c \in Conns |-> IF c \in initial THEN "open" ELSE "unused"]
  /\ wire    = [c \in Conns |-> << >>]
  /\ arrived = [c \in Conns |-> 0]
  /\ sent    = [c \in Conns |-> 0]
  /\ reply   = [c \in Conns |-> << >>]

-----------------------------------------------------------------------------
(***************************************************************************)
(* Byte offsets at which the frames of w end.                              *)
(***************************************************************************)
FrameEnds(w) ==
  LET end[i \in 0 .. Len(w)] == IF i = 0 THEN 0 ELSE end[i - 1] + FrameSize(w[i])
  IN  end

BytesSent(c) == FrameEnds(wire[c])[Len(wire[c])]

(***************************************************************************)
(* The parts recv_exact reads from a response frame.                       *)
(***************************************************************************)
BodyBytes(f) == IF f.proto = "XRpc" THEN f.header.size + f.body.size ELSE f.body.size

Parts(f) == IF BodyBytes(f) = 0 THEN <<[part |-> "header", frame |-> f]>>
            ELSE <<[part |-> "header", frame |-> f], [part |-> "body", frame |-> f]>>

(***************************************************************************)
(* TcpConnection::send queues the frame only while the connection is up;   *)
(* shutdown closes the write side and leaves the read side open.           *)
(***************************************************************************)
ConnSend(c, f) == reply' = IF conn[c] = "connected" /\ peer[c] = "open"
                           THEN [reply EXCEPT ![c] = @ \o Parts(f)] ELSE reply

ConnShutdown(c) == conn' = IF conn[c] = "connected"
                           THEN [conn EXCEPT ![c] = "disconnecting"] ELSE conn

(***************************************************************************)
(* The client connects and the server accepts.                             *)
(***************************************************************************)
Accept(c) == /\ peer' = [peer EXCEPT ![c] = "open"]
             /\ conn' = [conn EXCEPT ![c] = "connected"]

(***************************************************************************)
(* The client's socket: send, and a close that drops what was not read.    *)
(***************************************************************************)
SocketSend(c, f) ==
  /\ sent' = [sent EXCEPT ![c] = @ + 1]
  /\ wire' = IF conn[c] = "disconnected" THEN wire ELSE [wire EXCEPT ![c] = Append(@, f)]

SocketClose(c) == /\ peer'  = [peer EXCEPT ![c] = "closed"]
                  /\ reply' = [reply EXCEPT ![c] = << >>]

TcpTypeOK ==
  /\ up \in BOOLEAN
  /\ conn \in [Conns -> ConnStates]
  /\ peer \in [Conns -> PeerStates]
  /\ arrived \in [Conns -> Nat]
  /\ sent \in [Conns -> Nat]
  /\ DOMAIN wire = Conns
  /\ DOMAIN reply = Conns
=============================================================================
