--------------------------- MODULE MCNodeRegistry ---------------------------
(***************************************************************************)
(* NodeRegistry for TLC: any goroutine serves any kind of request.         *)
(***************************************************************************)
EXTENDS NodeRegistry, TLC

CONSTANTS id1, id2, r1, r2, A, B, host_info, grpc_port, old, new

Anything == [r \in Requests |-> AllOps]

\* A registration gives one value to every column; a PATCH tells them apart.
Uniform == {[f \in Fields |-> v] : v \in Values}

\* No definition tells one id, config, value or goroutine from another.
Symmetry == Permutations(Ids) \cup Permutations(Configs)
            \cup Permutations(Values) \cup Permutations(Requests)
=============================================================================
