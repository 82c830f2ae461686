--------------------------- MODULE MCProvisioning ---------------------------
(***************************************************************************)
(* Provisioning for TLC: who may send which requests.                      *)
(***************************************************************************)
EXTENDS Provisioning, TLC

CONSTANTS c1, c2, p1, n1, n2, i1, i2, i3, r1, r2

\* Anyone may send anything.
Anything == [r \in Requests |-> AllOps]

\* Two sellers: sales overlap the deletion of their customer.
Sellers == [r \in Requests |-> {"create", "deleteCustomer"}]

Symmetry == Permutations(Customers) \cup Permutations(Nodes) \cup Permutations(Ids)
            \cup Permutations(Requests)
=============================================================================
