---------------------------- MODULE FramePairing ----------------------------
(***************************************************************************)
(* capture/include/frame_pairing.hpp: the merge that decides which frames   *)
(* of two streams belong together, from their stamps alone.  The pairing of *)
(* a recording is this merge; the live pairings are compared with it.       *)
(***************************************************************************)
EXTENDS Integers, Sequences, FiniteSets, FiniteSetsExt

Distance(x, y) == IF x < y THEN y - x ELSE x - y

\* Whose head cannot pair any more: the first stream's, when it is the older one.
FirstIsOlder(x, y) == x < y

\* One step of the merge: what it makes of the frames from i and j on, given what it makes
\* of the frames that come later.
MergeFrom(a, b, tolerance, merge, i, j) ==
  IF i > Len(a) \/ j > Len(b) THEN {}
  ELSE IF Distance(a[i], b[j]) <= tolerance THEN {<<i, j>>} \cup merge[<<i + 1, j + 1>>]
  ELSE IF FirstIsOlder(a[i], b[j]) THEN merge[<<i + 1, j>>]
  ELSE merge[<<i, j + 1>>]

MergePlaces(a, b) == (1 .. Len(a) + 1) \X (1 .. Len(b) + 1)

\* pair_by_timestamp: the pairs, as indices into the two streams.  What is in no pair
\* is unpaired.
PairUp(a, b, tolerance) ==
  LET merge[at \in MergePlaces(a, b)] == MergeFrom(a, b, tolerance, merge, at[1], at[2])
  IN merge[<<1, 1>>]

\* Reference: the sets of pairs that use no frame twice and keep the tolerance.
Matchings(a, b, tolerance) ==
  {M \in SUBSET {p \in (DOMAIN a) \X (DOMAIN b) : Distance(a[p[1]], b[p[2]]) <= tolerance} :
     \A p, q \in M : (p[1] = q[1] \/ p[2] = q[2]) => p = q}

\* The merge pairs as many frames as can be paired at all, and none twice.
PairsAllItCan(a, b, tolerance) ==
  LET found == PairUp(a, b, tolerance)
      possible == Matchings(a, b, tolerance)
  IN found \in possible /\ \A M \in possible : Cardinality(M) <= Cardinality(found)
=============================================================================
