---------------------------- MODULE RpcMessages -----------------------------
(***************************************************************************)
(* The protobuf messages RPC clients and the server exchange.              *)
(***************************************************************************)
EXTENDS FrameCodec

CONSTANTS ReqSize,     \* bytes of a serialised request, by method
          RespSize     \* bytes of a serialised response, by method

(***************************************************************************)
(* Messages stay far below the 2 GB protobuf can serialise.                *)
(***************************************************************************)
ASSUME SizesAssumption ==
  /\ \A m \in DOMAIN ReqSize : ReqSize[m] \in Nat /\ ReqSize[m] <= 20000000
  /\ \A m \in DOMAIN RespSize : RespSize[m] \in Nat /\ RespSize[m] <= 20000000

(***************************************************************************)
(* A request as the client codec encodes it, and its response.  proto3     *)
(* leaves the all-default ResponseProtocol header empty.                   *)
(***************************************************************************)
RpcHeader(m)   == [val |-> m, size |-> 24]
RequestBody(m, id) == [val |-> [id |-> id, type |-> m], size |-> ReqSize[m]]
ResponseHeader == [val |-> "response", size |-> 0]
ResponseBody(m, id) == [val |-> [id |-> id, type |-> m], size |-> RespSize[m]]

(***************************************************************************)
(* ParseFromString: bytes of the right message type always parse, those of *)
(* another type may or may not.                                            *)
(***************************************************************************)
ParseFromString(bytes, type) == IF bytes.type = type THEN {TRUE} ELSE BOOLEAN
=============================================================================
