--------------------------- MODULE MCPeerExecutor ---------------------------
(***************************************************************************)
(* Instances of PeerExecutor for TLC.                                      *)
(***************************************************************************)
EXTENDS PeerExecutor, TLC

CONSTANTS p1, p2, k1

R(p, k, pr, c) ==
    [peer |-> p, key |-> k, priority |-> pr, criticality |-> c, generation |-> 1]

\* Queue policy: both peers flood the ordinary queue; p1 also sends coalescing
\* critical work, and p2 critical work of each value that does not coalesce.
QueueRequests ==
    {R(p1, NoKey, "Ordinary", State), R(p2, k1, "Ordinary", State),
     R(p1, k1, "Critical", State),
     R(p2, NoKey, "Critical", Replaceable), R(p2, NoKey, "Critical", Convergent)}

\* Lifecycle: ordinary work of the peer's first transport, and critical work of
\* the one that replaces it.
LifecycleRequests ==
    {R(p1, NoKey, "Ordinary", State),
     [R(p1, k1, "Critical", Convergent) EXCEPT !.generation = 2]}

Symmetric == Permutations(Ops)

=============================================================================
