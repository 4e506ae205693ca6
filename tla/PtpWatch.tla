------------------------------- MODULE PtpWatch -------------------------------
(***************************************************************************)
(* stereo_view --ptp-watch (tools/stereo_view/src/stereo_view_main.cpp):    *)
(* the class PtpWatch, which counts for how long both cameras stay locked   *)
(* to the PTP master, and the loop that samples them.                       *)
(***************************************************************************)
EXTENDS Integers, Sequences, FiniteSets, FiniteSetsExt, SequencesExt

CONSTANTS
  Offsets,   \* the offsets from the master a locked pair may report; 0 is none
  Ticks      \* how many samples are taken

ASSUME WatchAssumption == Offsets \subseteq Nat /\ Ticks \in Nat

Unlocked == -1   \* a sample: Unlocked, or the larger offset of the two cameras

VARIABLES
  watch,     \* the counters of a PtpWatch
  samples    \* history: what was sampled

watchVars == <<watch, samples>>

WatchInit ==
  /\ watch = [samples |-> 0, locked |-> 0, run |-> 0, longest |-> 0, was |-> FALSE, worst |-> 0,
              lockedRuns |-> <<>>, unlockedRuns |-> <<>>]
  /\ samples = <<>>

\* The run a sample belongs to, with it.
Run(w, locked) == IF locked = w.was THEN w.run + 1 ELSE 1

\* PtpWatch::observe().
ObserveLock(sample) ==
  LET locked == sample # Unlocked
      over == watch.samples > 0 /\ locked # watch.was
      run == Run(watch, locked)
      longer(kind, now) == IF over /\ watch.was = now THEN Append(watch[kind], watch.run) ELSE watch[kind]
  IN
  /\ samples' = Append(samples, sample)
  /\ watch' = [samples |-> watch.samples + 1,
               locked |-> watch.locked + (IF locked THEN 1 ELSE 0),
               run |-> run, was |-> locked,
               longest |-> IF locked /\ run > watch.longest THEN run ELSE watch.longest,
               worst |-> IF sample > watch.worst THEN sample ELSE watch.worst,
               lockedRuns |-> longer("lockedRuns", TRUE),
               unlockedRuns |-> longer("unlockedRuns", FALSE)]

WatchOnce == watch.samples < Ticks /\ \E sample \in Offsets \cup {Unlocked} : ObserveLock(sample)

Total(runs) == FoldSeq(LAMBDA x, y : x + y, 0, runs)

\* is_regular(): two runs of each kind, and each within one sample of the mean.
IsRegular ==
  \A runs \in {watch.lockedRuns, watch.unlockedRuns} :
    /\ Len(runs) >= 2
    /\ \A i \in DOMAIN runs : LET d == runs[i] * Len(runs) - Total(runs)
                              IN d <= Len(runs) /\ -d <= Len(runs)

\* report().
Report ==
  CASE 100 * watch.locked >= 99 * watch.samples -> "steady"
    [] watch.lockedRuns = <<>> \/ watch.unlockedRuns = <<>> -> "not holding"
    [] OTHER -> IF IsRegular THEN "repeating" ELSE "irregular"

-----------------------------------------------------------------------------
Locked(i) == samples[i] # Unlocked
\* Reference: the maximal stretches of samples of one kind.
Stretches ==
  {p \in (DOMAIN samples) \X (DOMAIN samples) :
     /\ p[1] <= p[2] /\ \A k \in p[1] .. p[2] : Locked(k) = Locked(p[1])
     /\ p[1] > 1 => Locked(p[1] - 1) # Locked(p[1])
     /\ p[2] < Len(samples) => Locked(p[2] + 1) # Locked(p[2])}
LengthsOf(S) == [k \in 1 .. Len(S) |-> S[k][2] - S[k][1] + 1]
Completed(locked) ==
  LengthsOf(SetToSortSeq({p \in Stretches : p[2] < Len(samples) /\ Locked(p[1]) = locked},
                         LAMBDA p, q : p[1] < q[1]))

\* The runs are the stretches the lock held and was lost for, all but the one that still
\* goes on, which can be the longest; and a steady report leaves no room for a lost lock
\* that was seen.
WatchTrue ==
  /\ watch.lockedRuns = Completed(TRUE) /\ watch.unlockedRuns = Completed(FALSE)
  /\ \A p \in Stretches : Locked(p[1]) => p[2] - p[1] + 1 <= watch.longest
  /\ watch.longest # 0 => \E p \in Stretches : Locked(p[1]) /\ p[2] - p[1] + 1 = watch.longest
  /\ \A i \in DOMAIN samples : samples[i] <= watch.worst
  /\ Report = "steady" /\ Len(samples) < 100 => \A i \in DOMAIN samples : Locked(i)
=============================================================================
