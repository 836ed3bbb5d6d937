-------------------------- MODULE MCRpcServerLoad ---------------------------
(* Bounded instances of RpcServerLoad.                                      *)
EXTENDS RpcServerLoad

OwnLoop   == [c \in Conns |-> IF c = "c1" THEN "l1" ELSE "l2"]
AllLegacy == [c \in Conns |-> "Legacy"]
Mixed     == [c \in Conns |-> IF c = "c1" THEN "Legacy" ELSE "XRpc"]
OneOrTwo  == {AllLegacy, Mixed}

MCReqSize  == [m \in Called |-> IF m = "Login" THEN 0 ELSE 8]
MCRespSize == [m \in Called |-> 4]
=============================================================================
