----------------------------- MODULE CameraSetup -----------------------------
(***************************************************************************)
(* What SpinnakerSource does to a camera's nodes before acquisition         *)
(* (spinnaker_source.cpp), and the features a run with a trigger per frame  *)
(* adds (source_spinnaker.cpp).                                             *)
(*                                                                         *)
(* A camera is what it accepts: for each node it has, the values that can   *)
(* be written to it in this state.  Whatever is not written keeps the value *)
(* it had.  Two nodes have a value per trigger selector.                    *)
(***************************************************************************)
EXTENDS AppConfig, SequencesExt

CONSTANTS Packet    \* kUsbPacketSize

Selectors == {"FrameStart", "AcquisitionStart"}
PerSelector == {"TriggerMode", "TriggerSource"}

\* applyFeature: no such node, not writable, or no such entry throws.
Settable(camera, feature) ==
  feature[1] \in DOMAIN camera.accepts /\ feature[2] \in camera.accepts[feature[1]]

Written(camera, nodes, feature) ==
  LET name == feature[1] IN
  IF name \in camera.deaf THEN nodes
  ELSE IF name \in PerSelector
  THEN [nodes EXCEPT ![name] = [@ EXCEPT ![nodes["TriggerSelector"]] = feature[2]]]
  ELSE [nodes EXCEPT ![name] = feature[2]]

\* applyFeatures, one after the other up to the one that throws.
Refusing(camera, features) == {i \in DOMAIN features : ~Settable(camera, features[i])}
Applied(camera, nodes, features) ==
  LET done == IF Refusing(camera, features) = {} THEN features
              ELSE SubSeq(features, 1, Min(Refusing(camera, features)) - 1)
  IN FoldLeft(LAMBDA n, f : Written(camera, n, f), nodes, done)

\* append_frame_trigger_features: after the document's own, so that they win; the
\* selector before what depends on it.
TriggerFeatures(keys) == <<
  <<"ActionDeviceKey", keys[1]>>, <<"ActionGroupKey", keys[2]>>, <<"ActionGroupMask", keys[3]>>,
  <<"AcquisitionFrameRateEnable", "false">>, <<"TriggerSelector", "FrameStart">>,
  <<"TriggerSource", "Action0">>, <<"TriggerMode", "On">>>>

\* Seeded fault: the document wins.
TriggersFirstApplied(features, action) ==
  IF action.enabled /\ action.perFrame THEN TriggerFeatures(action.keys) \o features ELSE features

FeaturesOf(features, action) ==
  IF action.enabled /\ action.perFrame THEN features \o TriggerFeatures(action.keys) ELSE features

\* configure_camera, of both node maps at once.  The buffer count is forced to Manual.
Asked(config, action) ==
  FeaturesOf(config.features, action) \o config.streamFeatures
  \o <<<<"StreamBufferCountMode", "Manual">>>>

Configurable(camera, config, action) == Refusing(camera, Asked(config, action)) = {}
Configured(camera, nodes, config, action) == Applied(camera, nodes, Asked(config, action))

\* The overwrite modes keep one buffer in hand to swap.
MinSlots(nodes) ==
  IF nodes["StreamBufferHandlingMode"] \in {"NewestOnly", "OldestFirstOverwrite"} THEN 3 ELSE 2

\* The constructor's geometry: the payload is the camera's, the pitch and the size of a
\* buffer follow from it.
Payload(camera, nodes) == nodes["Height"] * (nodes["Width"] + camera.padding)
Geometry(camera, nodes) ==
  LET bytes == Payload(camera, nodes) IN
  [width |-> nodes["Width"], height |-> nodes["Height"], format |-> nodes["PixelFormat"],
   bytes |-> bytes, stride |-> IF nodes["Height"] = 0 THEN 0 ELSE bytes \div nodes["Height"],
   buffer |-> ((bytes + Packet - 1) \div Packet) * Packet]

\* Seeded fault: a camera that came back is taken as it is.
Unverified(camera, nodes, geometry) == TRUE

\* verify_geometry, after a reconnection.
SameGeometry(camera, nodes, geometry) ==
  LET now == Geometry(camera, nodes) IN
  /\ now.width = geometry.width /\ now.height = geometry.height
  /\ now.bytes = geometry.bytes /\ now.format = geometry.format

\* bind_buffers: a ring of `slots` slots of the first stream's buffer size.
Bindable(nodes, geometry, slotBytes, slots) ==
  slotBytes >= geometry.buffer /\ slots >= MinSlots(nodes)

\* action_keys, and what verify_action_keys makes of them.
KeysOf(nodes) ==
  <<nodes["ActionDeviceKey"], nodes["ActionGroupKey"], nodes["ActionGroupMask"]>>

Common(a, b) == \E bit \in 0 .. 3 : (a \div 2 ^ bit) % 2 = 1 /\ (b \div 2 ^ bit) % 2 = 1

\* What a camera answers to: the keys of the command, or none of its business.
Answers(nodes, keys) ==
  LET own == KeysOf(nodes) IN
  own[1] = keys[1] /\ own[2] = keys[2] /\ Common(own[3], keys[3])

KeysVerified(camera, nodes, keys) ==
  CASE camera.keys = "absent" -> FALSE
    [] camera.keys = "writeonly" -> TRUE
    [] OTHER -> Answers(nodes, keys)
=============================================================================
