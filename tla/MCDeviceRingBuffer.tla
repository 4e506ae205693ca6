------------------------- MODULE MCDeviceRingBuffer -------------------------
(* Small instances of DeviceRingBuffer for TLC. *)
EXTENDS DeviceRingBuffer, TLC

CONSTANTS c1, c2

Symmetry == Permutations(Consumers)

\* Queries around the frames the bound lets the producer publish: the exact
\* frame, and the nearest within one.
MCRequests == {[at |-> 2, tol |-> 0, closest |-> FALSE], [at |-> 2, tol |-> 1, closest |-> TRUE]}
=============================================================================
