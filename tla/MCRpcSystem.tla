---------------------------- MODULE MCRpcSystem -----------------------------
(* Bounded instances of RpcSystem: a channel opens at most one connection   *)
(* per call, and one when it is constructed.                                *)
EXTENDS RpcSystem

MCConns   == Channels \X (1 .. (MaxCalls + 1))
MCOwnerOf == [c \in MCConns |-> c[1]]
MCLoopOf  == [c \in MCConns |-> IF c[1] = "a" THEN "l1" ELSE "l2"]

\* "Big" asks for a response over the 16 MB limit, "Huge" is such a request.
MCReqSize  == [m \in {"Login", "Register", "Big", "Huge"} |->
                 IF m = "Huge" THEN kMaxFrameSize ELSE 8]
MCRespSize == [m \in {"Login", "Register", "Big", "Huge"} |->
                 CASE m = "Big" -> kMaxFrameSize + 1
                   [] m = "Register" -> 0
                   [] OTHER -> 4]

Logins    == [ch \in Channels |-> {"Login"}]
Both      == [ch \in Channels |-> {"Login", "Register"}]
Uneven    == [ch \in Channels |-> IF ch = "a" THEN {"Login"} ELSE {"Login", "Big", "Huge"}]

ZooKeeper == [ch \in Channels |-> ""]
Direct    == [ch \in Channels |-> Server]
OneDirect == [ch \in Channels |-> IF ch = "a" THEN "" ELSE Server]
=============================================================================
