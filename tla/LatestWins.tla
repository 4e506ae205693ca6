------------------------------ MODULE LatestWins ------------------------------
(***************************************************************************)
(* What the latest-wins hand-offs of pipeline/ promise their consumers      *)
(* (host_frame_ring.hpp: "A consumer always gets the newest frame and       *)
(* counts what it stepped over"): frames are numbered as they are           *)
(* published, a consumer takes the newest and none twice, nothing is taken  *)
(* once the hand-off is stopped, and no consumer holds up the producer or   *)
(* another consumer.                                                        *)
(***************************************************************************)
EXTENDS Naturals

CONSTANT Readers

VARIABLES
  newest,   \* the number of the newest frame, 0 before the first
  taken,    \* the last frame each reader took
  open      \* stop() has not been called

latestWinsVars == <<newest, taken, open>>

Begin == newest = 0 /\ taken = [r \in Readers |-> 0] /\ open = TRUE

Offer == newest' = newest + 1 /\ UNCHANGED <<taken, open>>

TakeNewest(r) ==
  /\ open
  /\ newest > taken[r]
  /\ taken' = [taken EXCEPT ![r] = newest]
  /\ UNCHANGED <<newest, open>>

Close == open /\ open' = FALSE /\ UNCHANGED <<newest, taken>>

Step == Offer \/ Close \/ \E r \in Readers : TakeNewest(r)

Promise == Begin /\ [][Step]_latestWinsVars
=============================================================================
