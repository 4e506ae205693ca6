----------------------------- MODULE MCRecordings -----------------------------
(* Small instances of Recordings for TLC. *)
EXTENDS Recordings

\* An image topic that asks for a queue of one, and one whose depth is cut to
\* the memory budget.
MCFeeds == [p \in Pushers |-> p]
MCQueueDepth == [t \in Topics |-> IF t = "image" THEN 1 ELSE 0]
MCWanted == [t \in Topics |-> 1]
MCMessageBytes == [t \in Topics |-> 1]

\* Five frames at a steady rate, and a second camera that started earlier, off beat.
MCCameras == <<<<3, 5, 7, 9, 11>>, <<2, 4>>>>

\* Every offset a frame_id gives the payload behind it, and a long one.
MCFrameNames == 0 .. 7 \cup {40}
=============================================================================
