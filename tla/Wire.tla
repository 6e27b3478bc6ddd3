-------------------------------- MODULE Wire --------------------------------
(***************************************************************************)
(* One datagram between the programs of this repository: what was asked of *)
(* a sender, the bytes it made of it, what the network did to them, and    *)
(* what the Java simulator answered.  Every reader of the repository may   *)
(* be given the bytes in any state.                                        *)
(***************************************************************************)
EXTENDS ServoFrame, StatusFrame

CONSTANTS
  CameraCalls,   \* arguments of make_camera_command: func, ctrl, payload
  ServoCalls,    \* arguments of build_servo_packet
  Focuses,       \* what current_ptz_.focus may be
  Reports,       \* status reports
  Deltas         \* what the network may add to a byte

ASSUME WireAssumption ==
  /\ \A c \in CameraCalls : make_camera_command(c.func, c.ctrl, c.payload) \in Packet
  /\ ServoCalls \subseteq ServoArguments
  /\ Focuses \subseteq Word
  /\ Reports \subseteq LoadStatusReport
  /\ Deltas \subseteq 1..255

VARIABLES
  asked,    \* the sender and what it was asked to send
  wire,     \* the datagram
  state     \* "none" sent yet; "intact"; "changed" or "cut" by the network;
            \* "answer" to an intact datagram; "misled", an answer to a damaged one

vars == <<asked, wire, state>>

Init ==
  /\ asked = [by |-> "nobody"]
  /\ wire = <<>>
  /\ state = "none"

Emit(request, bytes) ==
  /\ state = "none"
  /\ asked' = request
  /\ wire' = bytes
  /\ state' = "intact"

Camera(c) == make_camera_command(c.func, c.ctrl, c.payload)

\* cammon_send_camera_command, and what a Java program sends in its place.
SendCamera ==
  \E c \in CameraCalls :
    \/ Emit([by |-> "camera", packet |-> Camera(c)], serialize(Camera(c)))
    \/ Emit([by |-> "java_camera", packet |-> Camera(c)],
            buildCommand(ADDR_CAMERA_VIS, c.func, c.ctrl, c.payload))

\* cammon_send_servo_command.
SendServo ==
  \E m \in ServoCalls : Emit([by |-> "servo", fields |-> m], build_servo_packet(m))

\* CamAJFLib::set_ptz, bare and wrapped.
SetPtz ==
  \E m \in ServoCalls, focus \in Focuses :
    LET packet == WithFocus(build_servo_packet(m), focus)
        fields == [name \in DOMAIN m \cup {"vis_focal_value", "ir_focal_value"} |->
                     IF name \in DOMAIN m THEN m[name] ELSE focus]
    IN  \/ Emit([by |-> "ptz", fields |-> fields], packet)
        \/ Emit([by |-> "wrapped", fields |-> fields, packet |-> Wrapped(packet)],
                serialize(Wrapped(packet)))

\* The data of a report, as a Python sender puts them in a standard packet.
InPacket(r) == [addr |-> r.addr, func |-> 0, ctrl |-> 0, data |-> Put(report_write_order, r)]

\* A device reports.
Report ==
  \E r \in Reports :
    \/ Emit([by |-> "report", report |-> r], serialize_report(r))
    \/ Emit([by |-> "report_in_packet", report |-> r, packet |-> InPacket(r)],
            serialize(InPacket(r)))

\* Two bytes and, among 49 others, the focal lengths and the position.
StatusBytes(r) ==
  LET blank == REPORT_HDR \o [i \in 1..49 |-> 0]
      focal == Patch(Patch(blank, 6, write_le_uint32(r.ir_focal_length)),
                     10, write_le_uint32(r.vis_focal_length))
  IN  Patch(Patch(focal, 28, write_le_uint32(r.servo_azimuth)),
            32, write_le_uint32(r.servo_elevation))

\* The status frame of IntegrationMain and of DebugClient: no seal, no tail.
JavaStatus == \E r \in Reports : Emit([by |-> "java_status", report |-> r], StatusBytes(r))

\* The same with the seal and the tail that CamAJFLib and the controller's log
\* ask for.
SealedStatus(r) ==
  LET front == Slice(StatusBytes(r), 0, 48)
  IN  front \o <<Xor(Slice(front, 2, 48))>> \o REPORT_TAIL

\* A device with a protocol of 51 bytes reports.
Report51 == \E r \in Reports : Emit([by |-> "report51", report |-> r], SealedStatus(r))

\* What ServerSimulator answers to a packet: an acknowledgement without data.
Acknowledged(func) == IF func < 128 THEN 128 + func ELSE func

\* ServerSimulator: it tries a servo frame first, and answers with the same one.
Answer ==
  /\ state \in {"intact", "changed", "cut"}
  /\ LET servo == parseServo(wire)
         pkt == parsePacket(wire)
     IN  \/ /\ servo # nullopt
            /\ wire' = serializeServo(servo)
         \/ /\ servo = nullopt /\ pkt # nullopt
            /\ wire' = buildCommand(pkt.addr, Acknowledged(pkt.func), pkt.ctrl, <<0>>)
  /\ state' = IF state = "intact" THEN "answer" ELSE "misled"
  /\ UNCHANGED asked

\* The network changes one byte, or cuts the datagram short.
Change ==
  /\ state = "intact"
  /\ \E i \in DOMAIN wire, d \in Deltas : wire' = [wire EXCEPT ![i] = (@ + d) % 256]
  /\ state' = "changed"
  /\ UNCHANGED asked

Cut ==
  /\ state = "intact"
  /\ \E n \in 1..(Len(wire) - 1) : wire' = SubSeq(wire, 1, n)
  /\ state' = "cut"
  /\ UNCHANGED asked

Next ==
  \/ SendCamera \/ SendServo \/ SetPtz \/ Report \/ JavaStatus \/ Report51
  \/ Answer \/ Change \/ Cut

Spec == Init /\ [][Next]_vars

---------------------------------------------------------------------------
(* Properties.                                                             *)

Intact(who) == state = "intact" /\ asked.by \in who
Damaged(who) == state \in {"changed", "cut"} /\ asked.by \in who
InStandardFrame == {"camera", "wrapped", "report_in_packet"}

Padded(p) == [p EXCEPT !.data = Pad(@)]

\* Among the data of the frame is a tail, and before it the sum of all that
\* precedes it.
EndsEarly ==
  \E t \in 22..(Len(wire) - 3) :
    /\ Slice(wire, t, t + 2) = FRAME_TAIL
    /\ compute_checksum(Slice(wire, 2, t - 1)) = At(wire, t - 1)

\* A servo frame says what was asked, bare or in a standard frame, whatever
\* its bytes look like: serialize_servo, set_ptz and deserialize_servo put
\* and look for each of the 26 fields in the same place.
ServoFieldsArrive ==
  /\ Intact({"servo", "ptz"}) => deserialize_servo(wire) = Members(asked.fields)
  /\ Intact({"wrapped"}) =>
       LET p == parsePacket(wire) IN
         /\ p.addr = ADDR_SERVO
         /\ deserialize_servo(p.data) = Members(asked.fields)
         /\ EndsEarly \/ deserialize(wire) = p

\* A camera command with more data than fill the frame is found in the
\* stream of bytes, from its start and, unless its data hold a tail with a
\* sum of its own, whole; one with 15 bytes of data is not (see
\* MinimalFrameAccepted).  The simulator reads every camera command the
\* library sends, whatever its data, and those of a Java program whose data
\* end in a zero (for the others see JavaCommandsArrive).
CameraCommandsArrive ==
  LET padded == Padded(asked.packet) IN
  /\ Intact({"camera"}) =>
       /\ parsePacket(wire) = padded
       /\ Len(wire) > 23 =>
            LET p == deserialize(wire) IN
              /\ p = [padded EXCEPT !.data = SubSeq(@, 1, Len(p.data))]
              /\ EndsEarly \/ p = padded
  /\ Intact({"java_camera"}) /\ Last(padded.data) = 0 => parsePacket(wire) = padded

\* The readers of a 49-byte report (the receiver's, the compatible one's and
\* the controller's) agree on it, and on the same data in a standard frame;
\* CamAJFLib and the controller's log, which expect 51 bytes, see neither.
\* Of a sealed frame of 51 bytes CamAJFLib reads all four words; the log and
\* get_ptz, which look for the position two bytes before it, agree with it on
\* the focal lengths only, and the readers of 49 bytes refuse the frame.  The
\* frame of the Java tests has no seal and no tail: every reader that wants a
\* tail refuses it, the log takes it only if the exclusive or of its words
\* happens to be the 0 behind them, and get_ptz reads its focal lengths (for
\* its position see PositionsArrive).
StatusReadersAgree ==
  /\ Intact({"report"}) =>
       /\ deserialize_report(wire) = asked.report
       /\ parseReceivedPacket(wire) = asked.report
       /\ parse_payload_status(wire) = asked.report
       /\ get_ptz(wire) = [az |-> asked.report.servo_azimuth, el |-> asked.report.servo_elevation,
                           ir |-> asked.report.ir_focal_length, vis |-> asked.report.vis_focal_length]
  /\ Intact({"report", "report_in_packet"}) =>
       {LoggedStatus(wire), parse_status_report(wire)} = {nullopt}
  /\ Intact({"report_in_packet"}) =>
       EndsEarly \/ parse_payload_status(wire) = [asked.report EXCEPT !.frame_seq = 0]
  /\ Intact({"report51", "java_status"}) =>
       /\ get_ptz(wire).ir = asked.report.ir_focal_length
       /\ get_ptz(wire).vis = asked.report.vis_focal_length
       /\ {deserialize_report(wire), parseReceivedPacket(wire), parse_payload_status(wire)} = {nullopt}
  /\ Intact({"report51"}) =>
       /\ parse_status_report(wire) =
            [az |-> asked.report.servo_azimuth, el |-> asked.report.servo_elevation,
             ir |-> asked.report.ir_focal_length, vis |-> asked.report.vis_focal_length]
       /\ LoggedStatus(wire) = get_ptz(wire)
  /\ Intact({"java_status"}) =>
       /\ parse_status_report(wire) = nullopt
       /\ LoggedStatus(wire) # nullopt => Xor(Slice(wire, 2, 48)) = 0

\* Of a datagram with one byte changed, or without its end, no reader that
\* asks for a seal makes what was sent: a servo frame and a report, of 49 or of
\* 51 bytes, are no frame any more, nor is a standard frame with a changed byte
\* for the reader that wants a frame and nothing else.  (In the data of a frame
\* that is cut another may be found.)  The controller's log asks for the seal of
\* 51 bytes and not for the tail behind it: what it makes of a damaged frame is
\* nothing or what it makes of the whole one.  (get_ptz asks for no seal at
\* all, and reads what is left of any report.)
DamageIsSeen ==
  /\ Damaged({"servo", "ptz"}) =>
       deserialize_servo(wire) = nullopt /\ parseServo(wire) = nullopt
  /\ Damaged({"report"}) =>
       parseReceivedPacket(wire) = nullopt /\ parse_payload_status(wire) = nullopt
  /\ Damaged({"report51"}) =>
       /\ parse_status_report(wire) = nullopt
       /\ LoggedStatus(wire) \in {nullopt, LoggedStatus(SealedStatus(asked.report))}
  /\ Damaged(InStandardFrame) =>
       /\ state = "changed" => parsePacket(wire) = nullopt
       /\ Padded(asked.packet) \notin {parsePacket(wire), deserialize(wire)}

\* What was asked, with its angles as Java writes them.
Rewritten(fields) ==
  [name \in DOMAIN fields |->
     IF name \in {"azimuth", "elevation", "az_speed", "el_speed"}
     THEN floatToIntBits(fields[name]) ELSE fields[name]]

\* The simulator, though it divides a servo frame into other fields, answers
\* one of the library with a frame that says the same (an angle that is not a
\* number comes back as the one Java has for all of them), and a standard frame
\* with one its own reader accepts as the acknowledgement.  It answers no
\* report, and no damaged servo frame.
AnswerIsAFrame ==
  /\ state = "answer" =>
       /\ asked.by \notin {"report", "report51", "java_status"}
       /\ asked.by \in {"servo", "ptz"} => deserialize_servo(wire) = Members(Rewritten(asked.fields))
       /\ asked.by \in InStandardFrame \cup {"java_camera"} =>
            parsePacket(wire) = [asked.packet EXCEPT !.func = Acknowledged(@), !.data = Pad(<<>>)]
  /\ state = "misled" => asked.by \in InStandardFrame \cup {"java_camera"}

---------------------------------------------------------------------------
(* What the comments say and the code does not do.                         *)

\* protocol.h: the smallest standard frame has 23 bytes, and deserialize
\* checks for at least 23.
MinimalFrameAccepted == Intact({"camera"}) => deserialize(wire) # nullopt

\* Protocol.java: the checksum of a command goes over addr..data, so that the
\* reader of the same file takes what buildCommand writes.
JavaCommandsArrive == Intact({"java_camera"}) => parsePacket(wire) = Padded(asked.packet)

\* IntegrationMain.java: its status frame has the floats at the expected
\* offsets, so that get_ptz finds the position where the test put it.
PositionsArrive ==
  Intact({"java_status"}) =>
    get_ptz(wire).az = asked.report.servo_azimuth /\ get_ptz(wire).el = asked.report.servo_elevation
=============================================================================
