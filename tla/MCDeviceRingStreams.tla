------------------------ MODULE MCDeviceRingStreams ------------------------
(* Small instances of DeviceRingStreams for TLC. *)
EXTENDS DeviceRingStreams, TLC

CONSTANTS c1, c2

Symmetry == Permutations(Consumers)

\* A query for one frame the bound lets the producer publish.
MCRequests == {[at |-> 2, tol |-> 0, closest |-> TRUE]}
=============================================================================
