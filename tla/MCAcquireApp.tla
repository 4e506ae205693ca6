----------------------------- MODULE MCAcquireApp -----------------------------
(* AcquireApp for TLC: a run of each shape, and the configurations main refuses. *)
EXTENDS AcquireApp

Left == <<"left", "image_raw">>
Right == <<"right", "image_raw">>
LeftColour == <<"left", "image_color">>

One == [streams |-> 1, cameras |-> <<"a">>, size |-> 5, calibrated |-> 0,
        topics |-> <<Left>>, stereo |-> FALSE, reference |-> LeftColour, ess |-> FALSE,
        viewer |-> "camera", recording |-> TRUE, record |-> <<Left>>, trigger |-> "off",
        maxConsumers |-> 3, frames |-> <<3, 0>>, ends |-> {"window"}]
Two == [One EXCEPT !.streams = 2, !.cameras = <<"a", "b">>, !.topics = <<Left, Right>>,
                   !.stereo = TRUE, !.ess = TRUE, !.record = <<Disparity>>, !.calibrated = 5,
                   !.frames = <<1, 1>>]

Plain == [One EXCEPT !.recording = FALSE, !.record = <<>>]

Runs == {
  Plain, [Plain EXCEPT !.viewer = "yolo", !.ends = {"fault"}],
  [One EXCEPT !.frames = <<2, 0>>, !.ends = {"signal"}, !.viewer = "ess"],
  [Plain EXCEPT !.frames = <<2, 0>>, !.ends = {"source"}, !.viewer = "headless",
                !.trigger = "frame"],
  Two,
  [Two EXCEPT !.record = <<Disparity, Right>>, !.ends = {"fault"}, !.viewer = "headless"],
  [Two EXCEPT !.viewer = "ess", !.record = <<Left>>],
  [Two EXCEPT !.ess = FALSE, !.recording = FALSE, !.record = <<>>,
              !.reference = <<"right", "image_color">>]}

Refused == {
  [One EXCEPT !.record = <<>>], [One EXCEPT !.maxConsumers = 1],
  [One EXCEPT !.record = <<LeftColour>>], [One EXCEPT !.record = <<Left, Right>>],
  [One EXCEPT !.calibrated = 4], [One EXCEPT !.streams = 3],
  [Two EXCEPT !.cameras = <<"a", "a">>], [Two EXCEPT !.maxConsumers = 2],
  [Two EXCEPT !.topics = <<Left, <<"left", "other">>>>], [Two EXCEPT !.reference = Left],
  [Two EXCEPT !.reference = Disparity], [Two EXCEPT !.reference = <<"top", "image_color">>],
  [Two EXCEPT !.viewer = "ess"]}

MCConfigs == Runs \cup Refused
===============================================================================
