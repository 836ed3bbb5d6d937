----------------------------- MODULE RpcServer ------------------------------
(***************************************************************************)
(* RpcServer (src/src/rpc/server.cc): OnMessage on muduo's IO loops, with  *)
(* the one _serverCodec that every loop and every connection of the server *)
(* shares without a lock.                                                  *)
(*                                                                         *)
(* OnMessage is cut at every access to that shared pointer: the null test, *)
(* the assignment, CheckAndPick, ZeroCopyDecode and, in SendRpcResponse,   *)
(* ZeroCopyEncode.  Everything else it touches belongs to one connection,  *)
(* and a connection belongs to one loop.                                   *)
(***************************************************************************)
EXTENDS Tcp

CONSTANTS Loops,       \* IO loops (setThreadNum)
          LoopOf,      \* the loop muduo gave each connection
          Services,    \* the methods in service_map
          Cuts         \* offsets inside a frame at which TCP may split it

ASSUME LoopOfAssumption == LoopOf \in [Conns -> Loops]
ASSUME CutsAssumption == Cuts \subseteq Nat
ASSUME ServicesAssumption == Services \subseteq DOMAIN RespSize /\ Garbled \notin Services

VARIABLES codec,     \* _serverCodec: "none" or the protocol of the codec
          task,      \* per loop: the OnMessage call it is executing
          answered   \* per connection: ids of the requests answered (history)

serverVars == <<codec, task, answered>>

Idle == [pc |-> "idle"]

ServerInit ==
  /\ codec    = "none"
  /\ task     = [l \in Loops |-> Idle]
  /\ answered = [c \in Conns |-> << >>]

-----------------------------------------------------------------------------
(***************************************************************************)
(* How many bytes can be in the input buffer after muduo's next read.      *)
(***************************************************************************)
NextArrivals(c) ==
  LET end == FrameEnds(wire[c])
  IN  {a \in {end[i] : i \in 1 .. Len(wire[c])} \cup
             {end[i - 1] + k : i \in 1 .. Len(wire[c]), k \in Cuts} :
         arrived[c] < a /\ a <= BytesSent(c)}

-----------------------------------------------------------------------------
(***************************************************************************)
(* muduo reads a segment and calls OnMessage on the connection's loop.     *)
(***************************************************************************)
OnMessage(l, c) ==
  /\ up /\ task[l] = Idle /\ LoopOf[c] = l
  /\ conn[c] \in {"connected", "disconnecting"}
  /\ \E a \in NextArrivals(c) : arrived' = [arrived EXCEPT ![c] = a]
  /\ task' = [task EXCEPT ![l] = [pc |-> "probe", conn |-> c]]
  /\ UNCHANGED <<conn, peer, wire, sent, reply, codec, answered, up>>

(***************************************************************************)
(* if (!_serverCodec)                                                      *)
(***************************************************************************)
Probe(l) ==
  /\ up /\ task[l].pc = "probe"
  /\ task' = [task EXCEPT ![l].pc = IF codec = "none" THEN "install" ELSE "pick"]
  /\ UNCHANGED <<tcpVars, codec, answered>>

(***************************************************************************)
(* The process dies: its connections close and what they had not delivered *)
(* is cut anywhere.                                                        *)
(***************************************************************************)
ProcessDies ==
  /\ up' = FALSE
  /\ codec' = "none"
  /\ task'  = [l \in Loops |-> Idle]
  /\ conn'  = [c \in Conns |-> IF conn[c] = "unused" THEN "unused" ELSE "disconnected"]
  /\ wire'  = [c \in Conns |-> << >>]
  /\ arrived' = [c \in Conns |-> 0]
  /\ LET backlog == {c \in Conns : reply[c] # << >>}
     IN  \E kept \in [backlog -> {0} \cup UNION {DOMAIN reply[c] : c \in backlog}] :
           /\ \A c \in backlog : kept[c] <= Len(reply[c])
           /\ reply' = [c \in Conns |-> IF c \in backlog THEN SubSeq(reply[c], 1, kept[c])
                                        ELSE << >>]
  /\ UNCHANGED <<peer, sent, answered>>

(***************************************************************************)
(* _serverCodec = CreateServerCodec(probe).  Two loops can both get here:  *)
(* the second assignment destroys the codec the first one installed, which *)
(* another loop may be calling; the process may then die.                  *)
(***************************************************************************)
Install(l) ==
  /\ up /\ task[l].pc = "install"
  /\ LET c == task[l].conn
     IN  \/ /\ codec' = CreateServerCodec(Head(wire[c]), arrived[c])
            /\ task'  = [task EXCEPT ![l].pc = "pick"]
            /\ UNCHANGED <<tcpVars, answered>>
         \/ /\ codec # "none"
            /\ \E k \in Loops \ {l} : task[k].pc \in {"pick", "decode", "reply"}
            /\ ProcessDies

(***************************************************************************)
(* One turn of the sticky-packet loop, up to CheckAndPick's verdict.       *)
(***************************************************************************)
Pick(l) ==
  /\ up /\ task[l].pc = "pick"
  /\ LET c == task[l].conn
         r == IF arrived[c] = 0 THEN 0 ELSE CheckAndPick(codec, Head(wire[c]), arrived[c])
     IN  /\ task' = [task EXCEPT ![l] = IF r <= 0 THEN Idle
                                        ELSE [pc |-> "decode", conn |-> c, size |-> r]]
         /\ IF r < 0 THEN ConnShutdown(c) ELSE UNCHANGED conn
  /\ UNCHANGED <<peer, wire, arrived, sent, reply, codec, answered, up>>

(***************************************************************************)
(* The sticky-packet loop goes on with the next frame.                     *)
(***************************************************************************)
\* Wrong: one frame for each OnMessage.
OneFrameOnly(c) == Idle

NextFrame(c) == [pc |-> "pick", conn |-> c]

(***************************************************************************)
(* buf->retrieve(size): the frame leaves the input buffer.                 *)
(***************************************************************************)
\* Wrong: the decoded frame stays in the buffer.
RetrieveNothing(c, size) == UNCHANGED <<wire, arrived>>

Retrieve(c, size) == /\ wire'    = [wire EXCEPT ![c] = Tail(@)]
                     /\ arrived' = [arrived EXCEPT ![c] = @ - size]

(***************************************************************************)
(* ZeroCopyDecode, retrieve and the lookups: an unknown method and a body  *)
(* that does not parse are skipped without a response.                     *)
(***************************************************************************)
Decode(l) ==
  /\ up /\ task[l].pc = "decode"
  /\ LET c == task[l].conn
     IN  \E o \in ServerDecode(codec, Head(wire[c])) :
           IF o.ret # kCodecOk
           THEN /\ task' = [task EXCEPT ![l] = Idle]
                /\ ConnShutdown(c)
                /\ UNCHANGED <<wire, arrived>>
           ELSE /\ Retrieve(c, task[l].size)
                /\ UNCHANGED conn
                /\ \E ok \in IF o.header \in Services
                             THEN ParseFromString(o.body.val, o.header) ELSE {FALSE} :
                     task' = [task EXCEPT ![l] =
                                IF ok THEN [pc |-> "reply", conn |-> c, method |-> o.header,
                                            id |-> o.body.val.id]
                                ELSE NextFrame(c)]
  /\ UNCHANGED <<peer, sent, reply, codec, answered, up>>

(***************************************************************************)
(* service->CallMethod runs to completion on the loop and its closure is   *)
(* SendRpcResponse: a response that does not encode is dropped.            *)
(***************************************************************************)
SendRpcResponse(l) ==
  /\ up /\ task[l].pc = "reply"
  /\ LET t == task[l]
         e == ServerEncode(codec, ResponseHeader, ResponseBody(t.method, t.id))
     IN  /\ task' = [task EXCEPT ![l] = NextFrame(t.conn)]
         /\ IF e.ret = kCodecOk
            THEN /\ ConnSend(t.conn, e.frame)
                 /\ answered' = [answered EXCEPT ![t.conn] = Append(@, t.id)]
            ELSE UNCHANGED <<reply, answered>>
  /\ UNCHANGED <<conn, peer, wire, arrived, sent, codec, up>>

(***************************************************************************)
(* The client is gone: muduo closes the connection and OnConnection finds  *)
(* it down already.                                                        *)
(***************************************************************************)
OnConnection(l, c) ==
  /\ up /\ task[l] = Idle /\ LoopOf[c] = l
  /\ peer[c] = "closed" /\ conn[c] \in {"connected", "disconnecting"}
  /\ conn'    = [conn EXCEPT ![c] = "disconnected"]
  /\ wire'    = [wire EXCEPT ![c] = << >>]
  /\ arrived' = [arrived EXCEPT ![c] = 0]
  /\ UNCHANGED <<peer, sent, reply, codec, task, answered, up>>

LoopStep(l) ==
  \/ \E c \in Conns : OnMessage(l, c) \/ OnConnection(l, c)
  \/ Probe(l) \/ Install(l) \/ Pick(l) \/ Decode(l) \/ SendRpcResponse(l)

-----------------------------------------------------------------------------
ServerTypeOK ==
  /\ TcpTypeOK
  /\ codec \in {"none"} \cup Protocols
  /\ DOMAIN answered = Conns
  /\ \A l \in Loops :
       /\ task[l].pc \in {"idle", "probe", "install", "pick", "decode", "reply"}
       /\ task[l] # Idle => task[l].conn \in Conns

(***************************************************************************)
(* A request is answered at most once and the answers of a connection go   *)
(* out in the order of its requests: the sticky-packet loop consumes each  *)
(* frame exactly once, whatever the other loops do to the shared codec.    *)
(***************************************************************************)
AnswersInOrder ==
  \A c \in Conns :
    /\ \A i, j \in 1 .. Len(answered[c]) : i < j => answered[c][i] < answered[c][j]
    /\ \A i \in 1 .. Len(answered[c]) : answered[c][i] <= sent[c]

(***************************************************************************)
(* The input buffer never loses the frame boundary: what CheckAndPick      *)
(* reported and retrieve consumed are exactly the bytes of the frames      *)
(* taken off the stream.                                                   *)
(***************************************************************************)
BufferAligned ==
  \A c \in Conns : up => arrived[c] \in 0 .. BytesSent(c)
=============================================================================
