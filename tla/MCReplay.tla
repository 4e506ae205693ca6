------------------------------ MODULE MCReplay ------------------------------
(* Small instances of Replay for TLC.  Topics are numbers, in the order of their *)
(* names: 1 the left image, 2 the right one, 3 the IMU.                            *)
EXTENDS Replay

Msg(t, log, pub) == [topic |-> t, log |-> log, stamp |-> pub, good |-> TRUE]
Stereo == [t \in {1, 2, 3} |-> IF t = 3 THEN "imu" ELSE "image"]

MCRecordings == {
  \* Written in order; the right frame is stamped before the left one it follows.
  [channels |-> Stereo, indexed |-> TRUE, epoch |-> 0,
   messages |-> <<Msg(1, 2, 2), Msg(2, 3, 1), Msg(3, 3, 3), Msg(1, 4, 4)>>],
  \* A killed run: no index, the queues drained out of order, a broken frame.
  [channels |-> Stereo, indexed |-> FALSE, epoch |-> 0,
   messages |-> <<Msg(1, 1, 1), Msg(2, 3, 3), [Msg(1, 2, 2) EXCEPT !.good = FALSE], Msg(1, 3, 3)>>],
  \* One channel only, and a raw recording whose other stream began before it.
  [channels |-> [t \in {1} |-> "image"], indexed |-> TRUE, epoch |-> 2,
   messages |-> <<Msg(1, 3, 3), Msg(1, 3, 3), Msg(1, 4, 4)>>] }

Plain == [topics |-> {}, exclude |-> {}, images |-> <<>>, start |-> 0, duration |-> 0,
          loop |-> FALSE, rebase |-> TRUE]
MCConfigs == {
  Plain, [Plain EXCEPT !.loop = TRUE], [Plain EXCEPT !.rebase = FALSE],
  [Plain EXCEPT !.topics = {3}, !.images = <<2, 1>>],
  [Plain EXCEPT !.exclude = {2}, !.loop = TRUE],
  [Plain EXCEPT !.exclude = {1}, !.images = <<1>>],
  [Plain EXCEPT !.start = 1, !.duration = 2] }
=============================================================================
