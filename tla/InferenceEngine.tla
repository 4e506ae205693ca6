--------------------------- MODULE InferenceEngine ---------------------------
(***************************************************************************)
(* tensorrt: TrtEngine, and the two engines on it.  EssEngine turns a       *)
(* stereo pair into a disparity map, YoloEngine a picture into boxes.       *)
(*                                                                         *)
(* A call of an engine queues work on a CUDA stream and returns.  The       *)
(* device does it in order, later.  The engine has one buffer per tensor,   *)
(* reused by every cycle, and TimingSlots sets of events that the host asks *)
(* for the times, and ESS for the sampled pixel, of an earlier cycle.       *)
(*                                                                         *)
(* A frame is its number; the picture that camera c took of it is <<c, n>>. *)
(* What a network computes is known by what it was given, a picture per     *)
(* role of its inputs.  Camera 0 is the calibration's left one.             *)
(***************************************************************************)
EXTENDS Integers, FiniteSets, Sequences

CONSTANTS
  TimingSlots,  \* kTimingSlots
  MaxCycles,    \* bound: how many frames are published
  MaxFaults     \* bound: how many calls into CUDA or TensorRT fail

ASSUME EngineAssumption ==
  TimingSlots \in Nat \ {0} /\ MaxCycles \in Nat /\ MaxFaults \in Nat

Lost == <<>>          \* what is in a slot of a ring that was written again
Single == {"left"}    \* the roles of a network's inputs
Pair == {"left", "right"}

VARIABLES
  wiring,        \* the engine's tensors: the role of the input each buffer is bound to
  work,          \* what the stream has still to do
  held,          \* the leases of the caller: the pictures it has not given back
  input,         \* input_device_, a picture per buffer
  output,        \* disparity_device_ or output_device_
  sampled,       \* sample_host_, per timing slot
  events,        \* events[s][e]: the frame event e of slot s was last recorded for
  timing,        \* timing_: whether slot s is armed and drawn
  cycles,        \* enqueued_
  preprocessed,  \* preprocessed_
  of,            \* history: of[i + 1] is the frame of cycle i
  faults         \* how many calls have failed

deviceVars == <<input, output, sampled>>
engineVars == <<wiring, work, held, deviceVars, events, timing, cycles, preprocessed, of, faults>>

TimedSlots == 0 .. TimingSlots - 1
EventNames == {"pre_start", "infer_start", "infer_end", "sample_done", "draw_end"}

EngineInit ==
  /\ wiring = <<>> /\ work = <<>> /\ held = {}
  /\ input = [b \in Pair |-> Lost] /\ output = Lost
  /\ sampled = [s \in TimedSlots |-> Lost]
  /\ events = [s \in TimedSlots |-> [e \in EventNames |-> 0]]
  /\ timing = [s \in TimedSlots |-> [armed |-> FALSE, drawn |-> FALSE]]
  /\ cycles = 0 /\ preprocessed = FALSE /\ of = <<>> /\ faults = 0

-----------------------------------------------------------------------------
(* The constructors.  A plan names its tensors, and each has a size or none  *)
(* that is fixed.  What a name says of an input is true of it.               *)

UpTo(S, n) == UNION {[1 .. k -> S] : k \in 0 .. n}

InputTensor ==
  {t \in [role : Pair, says : SUBSET Pair, fits : BOOLEAN] : t.says # {} => t.role \in t.says}
OutputTensor == [confidence : BOOLEAN, fits : BOOLEAN]

\* A network has one input for each role.
Inputs(roles) ==
  {ins \in UpTo(InputTensor, 2) :
     Len(ins) = Cardinality(roles) => {ins[i].role : i \in DOMAIN ins} = roles}

\* The last input whose name has the word.
NamedFor(ins, word) ==
  LET says == {i \in DOMAIN ins : word \in ins[i].says}
  IN IF says = {} THEN 0 ELSE CHOOSE i \in says : \A j \in says : j <= i

Ill(tensors) == \E i \in DOMAIN tensors : ~tensors[i].fits

EssRefuses(ins, outs) ==
  LET left == NamedFor(ins, "left")
      right == NamedFor(ins, "right")
  IN \/ Len(ins) # 2 \/ Len(outs) \notin 1 .. 2
     \/ left = 0 \/ right = 0 \/ left = right
     \/ Ill(ins) \/ Ill(outs)
     \* Exactly one of two outputs says it is a confidence, and not the only one.
     \/ Cardinality({i \in DOMAIN outs : ~outs[i].confidence}) # 1

EssWiring(ins) ==
  [b \in Pair |-> ins[NamedFor(ins, b)].role]

\* set_tensor_address(), as the constructor has taken the names in turn.
BindEss(ins, outs) ==
  /\ ~EssRefuses(ins, outs)
  /\ wiring' = EssWiring(ins)

YoloRefuses(ins, outs) == Len(ins) # 1 \/ Len(outs) # 1 \/ Ill(ins) \/ Ill(outs)

BindYolo(ins, outs) ==
  /\ ~YoloRefuses(ins, outs)
  /\ wiring' = [b \in Single |-> "left"]

-----------------------------------------------------------------------------
(* Work on the stream.                                                      *)

Slot(cycle) == cycle % TimingSlots
This == Slot(cycles)

Record(slot, event) == [kind |-> "record", slot |-> slot, event |-> event]
Read(buffer, picture) == [kind |-> "read", into |-> buffer, picture |-> picture]
Compute == [kind |-> "compute"]
Sample(slot) == [kind |-> "sample", slot |-> slot]
Release(picture) == [kind |-> "release", picture |-> picture]

Records(ops, slot, event) == \E k \in DOMAIN ops : ops[k] = Record(slot, event)

\* Calls that queue these, for frame n.  An event recorded again is not fired.
Queue(ops, n) ==
  /\ work' = work \o ops
  /\ events' = [s \in TimedSlots |-> [e \in EventNames |->
                  IF Records(ops, s, e) THEN n ELSE events[s][e]]]

\* All of them, or those before the one that throws.
Queued(ops, n) == Queue(ops, n) /\ UNCHANGED faults
Fails(ops, n) ==
  /\ faults < MaxFaults /\ faults' = faults + 1
  /\ \E k \in 0 .. Len(ops) - 1 : Queue(SubSeq(ops, 1, k), n)

Fired(slot, event) == ~Records(work, slot, event)

-----------------------------------------------------------------------------
(* The engines.                                                             *)

Blank == [armed |-> FALSE, drawn |-> FALSE]

EssPreprocessing(left, right) ==
  <<Record(This, "pre_start"), Read("left", left), Read("right", right)>>

Preprocess(left, right, n) ==
  /\ timing' = [timing EXCEPT ![This] = Blank]
  /\ \/ Queued(EssPreprocessing(left, right), n) /\ preprocessed' = TRUE
     \/ Fails(EssPreprocessing(left, right), n) /\ UNCHANGED preprocessed
  /\ UNCHANGED <<wiring, held, deviceVars, cycles, of>>

EndOfCycle(n) ==
  /\ timing' = [timing EXCEPT ![This].armed = TRUE]
  /\ cycles' = cycles + 1 /\ of' = Append(of, n)

\* Seeded fault: the event is recorded ahead of the copy it speaks for.
SampleEventFirst ==
  <<Record(This, "infer_start"), Compute, Record(This, "infer_end"),
    Record(This, "sample_done"), Sample(This)>>

\* The pixel is copied behind the inference and the event recorded behind the copy.
EssInference ==
  <<Record(This, "infer_start"), Compute, Record(This, "infer_end"),
    Sample(This), Record(This, "sample_done")>>

Inference(n) ==
  /\ preprocessed' = FALSE
  /\ \/ preprocessed /\ Queued(EssInference, n) /\ EndOfCycle(n)
     \/ preprocessed /\ Fails(EssInference, n) /\ UNCHANGED <<timing, cycles, of>>
  /\ UNCHANGED <<wiring, held, deviceVars>>

YoloCycle(picture) ==
  <<Record(This, "pre_start"), Read("left", picture),
    Record(This, "infer_start"), Compute, Record(This, "infer_end")>>

Enqueue(picture, n) ==
  /\ \/ /\ Queued(YoloCycle(picture), n)
        /\ timing' = [timing EXCEPT ![This] = [armed |-> TRUE, drawn |-> FALSE]]
        /\ cycles' = cycles + 1 /\ of' = Append(of, n)
     \/ /\ Fails(YoloCycle(picture), n)
        /\ timing' = [timing EXCEPT ![This] = Blank]
        /\ UNCHANGED <<cycles, of>>
  /\ UNCHANGED <<wiring, held, deviceVars, preprocessed>>

\* last_timing() and last_sample(): the newest cycle among the last TimingSlots
\* that is armed and whose events have fired.
Recent == {i \in 0 .. cycles - 1 : i >= cycles - TimingSlots /\ timing[Slot(i)].armed}

LastEvent(slot) == IF timing[slot].drawn THEN "draw_end" ELSE "infer_end"
Measured(slot) == {"pre_start", "infer_start", "infer_end", LastEvent(slot)}
Timed == {i \in Recent : \A e \in Measured(Slot(i)) : Fired(Slot(i), e)}
Sampled == {i \in Recent : Fired(Slot(i), "sample_done")}

Newest(cs) == CHOOSE i \in cs : \A j \in cs : j <= i

\* The frames whose events a timing is measured between.
TimingOf(i) == {events[Slot(i)][e] : e \in Measured(Slot(i))}

-----------------------------------------------------------------------------
(* The device.                                                              *)

\* A ring writes a slot again when no lease is held and the events that the leases left
\* behind have fired.
PictureIn(p) ==
  IF p \in held \/ \E k \in DOMAIN work : work[k] = Release(p) THEN p ELSE Lost

\* What the network makes of what its inputs are bound to.
Result == [r \in {wiring[b] : b \in DOMAIN wiring} |->
             input[CHOOSE b \in DOMAIN wiring : wiring[b] = r]]

Doing(kind) == work # <<>> /\ Head(work).kind = kind /\ work' = Tail(work)

EngineWorks ==
  /\ \/ Doing("record") /\ UNCHANGED deviceVars
     \/ /\ Doing("read")
        /\ input' = [input EXCEPT ![Head(work).into] = PictureIn(Head(work).picture)]
        /\ UNCHANGED <<output, sampled>>
     \/ Doing("compute") /\ output' = Result /\ UNCHANGED <<input, sampled>>
     \/ /\ Doing("sample") /\ sampled' = [sampled EXCEPT ![Head(work).slot] = output]
        /\ UNCHANGED <<input, output>>
     \/ Doing("release") /\ UNCHANGED deviceVars
  /\ UNCHANGED <<wiring, held, events, timing, cycles, preprocessed, of, faults>>

\* What the network says of frame n.
Own(n) == [r \in DOMAIN output |-> <<IF r = "left" THEN 0 ELSE 1, n>>]
=============================================================================
