----------------------------- MODULE MCZeusHop -----------------------------
(* A small instance of ZeusHop for TLC. *)
EXTENDS ZeusHop, TLC

CONSTANTS a, b, k1

\* Every call goes to one bucket and scope, so that they share its cache entry.
OneScope == [x \in Calls |-> k1]

\* Two calls share the cache, or one of them goes past it.
Pairs == {f \in [Calls -> Hows] : \E x \in Calls : f[x] = "cached"}

\* The calls are interchangeable.
Symmetry == Permutations(Calls)
=============================================================================
