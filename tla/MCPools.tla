------------------------------ MODULE MCPools ------------------------------
(***************************************************************************)
(* The two connection pools for TLC.  They share nothing, so a behaviour   *)
(* is one of the gRPC pool or one of the KMIP pool, and the other stays as *)
(* it is.                                                                  *)
(***************************************************************************)
EXTENDS ClientPool, KmipPool

VARIABLE service   \* the pool that is used

pvars == <<service, poolVars, kmipVars>>

Init ==
    /\ service \in {"grpc", "kmip"}
    /\ PoolInit
    /\ KmipInit

Grpc(A) == service = "grpc" /\ A /\ UNCHANGED service /\ UNCHANGED kmipVars
Kmip(A) == service = "kmip" /\ A /\ UNCHANGED service /\ UNCHANGED poolVars

Next == Grpc(PoolNext) \/ Kmip(KmipNext)

Spec == Init /\ [][Next]_pvars /\ PoolFairness
=============================================================================
