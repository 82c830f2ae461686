----------------------------- MODULE MCMetering -----------------------------
(***************************************************************************)
(* Metering for TLC.  Each cfg names the subscriptions and requests (model *)
(* values) and the bounds; quotas and bursts are chosen so that one burst  *)
(* reaches the 80% notice and two reach the 100% one and the cut-off.      *)
(***************************************************************************)
EXTENDS Metering, TLC

CONSTANTS s1, s2, r1, r2

\* Neither subscriptions nor goroutines differ in anything.
Symmetry == Permutations(Subs) \cup Permutations(Requests)
=============================================================================
