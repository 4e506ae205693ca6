------------------------------ MODULE CdrMessages ------------------------------
(***************************************************************************)
(* What goes into a recorded message and what comes back out of it: CDR as  *)
(* CdrWriter puts it down (recording/include/cdr_writer.hpp) and CdrReader  *)
(* takes it up again (cdr_reader.hpp), for each message of ros_messages.cpp *)
(* and for the images ImageReplaySource decodes.                            *)
(*                                                                         *)
(* A buffer is a sequence of octets, and an octet is the value it belongs   *)
(* to with its place in that value: octets that are not those of one value, *)
(* in their order, are no value (Torn).  So a reader that is one octet off  *)
(* reads nothing true.  A value is a number or a name with an index.        *)
(***************************************************************************)
EXTENDS Integers, Sequences, SequencesExt

CONSTANTS
  FrameNames,   \* the lengths of the frame_ids in use
  SignBit,      \* stands for 2^31, where a signed second turns negative
  CutsPerRead   \* bound: how many octets short of a field's end a cut message may be

Origin == 4     \* kOrigin: the encapsulation header, which alignment does not count
Numeral(n) == <<"number", n>>
Name(name) == <<name, 0>>
Torn == Name("torn")

Octets(value, size) == [k \in 1 .. size |-> <<value, k>>]
Padding(length, to) == (to - ((length - Origin) % to)) % to

-----------------------------------------------------------------------------
(* CdrWriter.  A field is a run of equally large elements with its values;   *)
(* a fixed array is one, a number is a run of one.                           *)

\* clear(): the encapsulation header and nothing else, whatever the buffer held.
Cleared(buffer) == Octets(Name("encapsulation"), Origin)

\* raw() and run(): aligned once, and an empty run leaves no padding behind.
PutRun(buffer, size, values) ==
  IF values = <<>> THEN buffer
  ELSE buffer \o Octets(Name("padding"), Padding(Len(buffer), size))
              \o FlattenSeq([i \in DOMAIN values |-> Octets(values[i], size)])

Number(size, value) == [kind |-> "run", size |-> size, values |-> <<value>>]
Doubles(name, n) == [kind |-> "run", size |-> 8, values |-> [i \in 1 .. n |-> <<name, i>>]]
Text(text, length) == [kind |-> "text", text |-> text, length |-> length]
Bulk(length) == [kind |-> "bytes", text |-> "pixels", length |-> length]

\* str() counts its terminator, bytes() has none.
PutField(buffer, field) ==
  IF field.kind = "run" THEN PutRun(buffer, field.size, field.values)
  ELSE IF field.kind = "text"
       THEN PutRun(buffer, 4, <<Numeral(field.length + 1)>>) \o Octets(Name(field.text), field.length + 1)
       ELSE PutRun(buffer, 4, <<Numeral(field.length)>>) \o Octets(Name(field.text), field.length)

-----------------------------------------------------------------------------
(* The messages: the fields each writes, in their order.                     *)

\* A stamp's seconds go through an int32_t.
Signed(seconds) ==
  LET bits == seconds % (2 * SignBit) IN IF bits < SignBit THEN bits ELSE bits - 2 * SignBit

HeaderFields(m) == <<Number(4, Numeral(Signed(m.seconds))), Number(4, Name("nanoseconds")), Text("frame", m.frame)>>

\* to_image_desc() takes a camera's format by name; ros_encoding() names it for ROS, and
\* camera_format_of() is the way back.
ToPixelFormat ==
  [BayerRG8 |-> "RGGB", BayerGR8 |-> "GRBG", BayerGB8 |-> "GBRG", BayerBG8 |-> "BGGR",
   Mono8 |-> "GRAY8", RGB8 |-> "RGB", RGBa8 |-> "RGBA"]
RosEncoding ==
  [RGGB |-> "bayer_rggb8", GRBG |-> "bayer_grbg8", GBRG |-> "bayer_gbrg8", BGGR |-> "bayer_bggr8",
   GRAY8 |-> "mono8", RGB |-> "rgb8", RGBA |-> "rgba8", float |-> "32FC1"]
CameraFormatOf ==
  [bayer_rggb8 |-> "BayerRG8", bayer_grbg8 |-> "BayerGR8", bayer_gbrg8 |-> "BayerGB8",
   bayer_bggr8 |-> "BayerBG8", mono8 |-> "Mono8", rgb8 |-> "RGB8", rgba8 |-> "RGBa8"]

\* height, width, encoding, is_bigendian, step, data.
ImageFields(format, pixels) ==
  <<Number(4, Name("height")), Number(4, Name("width")),
    Text(RosEncoding[format], Len(RosEncoding[format])), Number(1, Numeral(0)), Number(4, Name("step")),
    Bulk(pixels)>>

\* A disparity carries the header twice, its own and the image's.
DisparityFields(m) ==
  HeaderFields(m) \o HeaderFields(m) \o ImageFields("float", m.pixels)
    \o <<Number(4, Name("focal length")), Number(4, Name("baseline")),
         Number(4, Name("x")), Number(4, Name("y")), Number(4, Name("height")), Number(4, Name("width")), Number(1, Name("true")),
         Number(4, Name("min")), Number(4, Name("max")), Number(4, Name("delta"))>>

ImuFields ==
  <<Doubles("orientation", 4), Doubles("orientation covariance", 9),
    Doubles("angular velocity", 3), Doubles("angular velocity covariance", 9),
    Doubles("linear acceleration", 3), Doubles("linear acceleration covariance", 9)>>
MagneticFields == <<Doubles("magnetic field", 3), Doubles("magnetic field covariance", 9)>>
PressureFields == <<Doubles("fluid pressure", 1), Doubles("variance", 1)>>

Payload(m) ==
  CASE m.type = "Image" -> ImageFields(ToPixelFormat[m.format], m.pixels)
    [] m.type = "Imu" -> ImuFields
    [] m.type = "MagneticField" -> MagneticFields
    [] m.type = "FluidPressure" -> PressureFields

\* encode(): every message is a header and its payload, but the disparity.
Fields(m) == IF m.type = "Disparity" THEN DisparityFields(m) ELSE HeaderFields(m) \o Payload(m)
Encode(buffer, m) == FoldLeft(PutField, Cleared(buffer), Fields(m))

\* max_bytes() of the types whose size is fixed.
MaxBytes == [Imu |-> 512, MagneticField |-> 256, FluidPressure |-> 128]

-----------------------------------------------------------------------------
(* CdrReader: where it is, whether every read so far was in bounds, and what *)
(* it was asked for.                                                         *)

Opened(wire) == [wire |-> wire, at |-> Origin, ok |-> Len(wire) >= Origin, got |-> <<>>]

\* The value whose octets these are.
ValueOf(octets) ==
  IF octets = Octets(octets[1][1], Len(octets)) THEN octets[1][1] ELSE Torn

\* read(): aligned, then as much as the value takes; past the end it is zero, for good.
GetRun(reader, size, n) ==
  LET aligned == Origin + ((reader.at - Origin + size - 1) \div size) * size IN
  IF n = 0 THEN reader
  ELSE IF ~reader.ok \/ aligned + size * n > Len(reader.wire)
  THEN [reader EXCEPT !.ok = FALSE, !.got = @ \o [i \in 1 .. n |-> Numeral(0)]]
  ELSE [reader EXCEPT !.at = aligned + size * n,
          !.got = @ \o [i \in 1 .. n |-> ValueOf(SubSeq(reader.wire,
                           aligned + (i - 1) * size + 1, aligned + i * size))]]

\* str() and bytes(): a count, and what it counts.  Only str() refuses a count of zero.
GetCounted(reader, kind) ==
  LET counted == GetRun(reader, 4, 1)
      count == Last(counted.got)
      n == count[2]
      short == IF kind = "text" THEN 1 ELSE 0
      from == counted.at + 1
      name == IF n = 0 THEN "pixels" ELSE ValueOf(SubSeq(reader.wire, from, counted.at + n))[1] IN
  IF ~counted.ok \/ count[1] # "number" \/ n < short \/ counted.at + n > Len(reader.wire)
  THEN [counted EXCEPT !.ok = FALSE, !.got = Append(Front(@), Numeral(0))]
  ELSE [counted EXCEPT !.at = @ + n, !.got = Append(Front(@), <<name, n - short>>)]

GetField(reader, field) ==
  IF field.kind = "run" THEN GetRun(reader, field.size, Len(field.values))
  ELSE GetCounted(reader, field.kind)

\* decode_image() and decode(): the decoder asks for the fields of its type and looks
\* at ok() once, at the end.
Decoded(wire, m) == FoldLeft(GetField, Opened(wire), Fields(m))

\* decode_image() has no image with a negative second; read_header() has no stamp.
Accepts(reader, m) == reader.ok /\ (m.type = "Image" => reader.got[1][2] >= 0)
StampOf(reader) == IF reader.got[1][2] < 0 THEN 0 ELSE reader.got[1][2]

-----------------------------------------------------------------------------
(* A pooled buffer, new or used before, with one message written to it; and  *)
(* a reader, which may be given a message that is cut short.                 *)

VARIABLES
  buffer,      \* the CdrWriter's octets
  message,     \* the message encoded last
  readerOf     \* what its decoder made of it, and how much of it there was

cdrVars == <<buffer, message, readerOf>>

Unread == [wire |-> <<>>, at |-> 0, ok |-> FALSE, got |-> <<>>]

Messages ==
  LET seconds == {0, SignBit - 1, SignBit} IN
  [type : {"Image"}, frame : FrameNames, seconds : seconds, format : DOMAIN ToPixelFormat,
   pixels : {0, 3}]
    \cup [type : {"Disparity"}, frame : FrameNames, seconds : seconds, pixels : {12}]
    \cup [type : DOMAIN MaxBytes, frame : FrameNames, seconds : seconds]

NothingEncoded == buffer = <<>> /\ message = [type |-> "none"] /\ readerOf = Unread
CdrInit ==
  buffer \in {<<>>, Octets(Name("old"), 9)} /\ message = [type |-> "none"] /\ readerOf = Unread

\* A message, into a buffer that may hold an old one.
EncodeOne ==
  /\ message.type = "none"
  /\ \E m \in Messages : buffer' = Encode(buffer, m) /\ message' = m
  /\ readerOf' = Unread

\* Whole, or cut short by a little.  The disparity is for other readers of its schema.
DecodeOne ==
  /\ message.type # "none"
  /\ \E short \in 0 .. CutsPerRead :
       readerOf' = Decoded(SubSeq(buffer, 1, Len(buffer) - short), message)
  /\ UNCHANGED <<buffer, message>>

CdrNext == EncodeOne \/ DecodeOne

-----------------------------------------------------------------------------

\* What the reader should have got: every value that was written.
Written(m) ==
  FlattenSeq([i \in DOMAIN Fields(m) |->
                LET f == Fields(m)[i] IN
                IF f.kind = "run" THEN f.values ELSE <<<<f.text, f.length>>>>])

\* "Two rules, both silently corrupting when broken" (cdr_writer.hpp): a message that is
\* whole is read back as it was written, to its last octet, whatever the frame_id does
\* to the alignment and whatever the buffer held before; one that is cut short is
\* refused.  A stamp the wire cannot hold is no stamp, and no image.
ReadBack ==
  readerOf # Unread =>
    LET whole == Len(readerOf.wire) = Len(buffer)
        held == message.seconds < SignBit IN
    /\ Accepts(readerOf, message) = (whole /\ (message.type = "Image" => held))
    /\ whole => readerOf.got = Written(message) /\ readerOf.at = Len(buffer)
    /\ whole => StampOf(readerOf) = IF held THEN message.seconds ELSE 0

\* An image is replayed in the format its camera took it in: its encoding is the sixth
\* value of the message.
FormatKept ==
  readerOf # Unread /\ message.type = "Image" /\ Accepts(readerOf, message) =>
    CameraFormatOf[readerOf.got[6][1]] = message.format

\* A message fits the buffer its topic reserved: add_topic()'s bound is one.
Fits == message.type \in DOMAIN MaxBytes => Len(buffer) <= MaxBytes[message.type]
=============================================================================
