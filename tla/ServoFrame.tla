----------------------------- MODULE ServoFrame -----------------------------
(***************************************************************************)
(* The servo frame: 72 bytes from 7E 48 to the exclusive or of the others. *)
(* The C++ library and the Java programs divide bytes 27 to 63 differently.*)
(***************************************************************************)
EXTENDS StandardFrame

SERVO_PACKET_TYPE_POINT == 2
servo_frame_len == 72
servo_header == 126

\* The order in which serialize_servo pushes the fields.
serialize_order ==
  Each("u8", <<"header", "frame_len", "seq", "device_type", "packet_type", "device_ip",
               "main_conn", "control", "wiper_heater_ctrl">>)
  \o Each("u32", <<"azimuth", "elevation", "az_speed", "el_speed">>)
  \o Each("u16", <<"target_distance">>) \o Each("i16", <<"target_el_aberration">>)
  \o Each("u32", <<"track_az_aberration", "track_el_aberration", "fov_angle">>)
  \o Each("u8", <<"ir_power_ctrl", "vis_focal_unit">>)
  \o Each("u32", <<"vis_focal_value", "ir_focal_value">>)
  \o Each("u8x13", <<"reserved">>)
  \o Each("u32", <<"timestamp">>) \o Each("u8", <<"track_status">>) \o Each("u16", <<"backup">>)

\* The order in which deserialize_servo takes them.
deserialize_order ==
  Each("u8", <<"header", "frame_len", "seq", "device_type", "packet_type", "device_ip",
               "main_conn", "control", "wiper_heater_ctrl">>)
  \o Each("u32", <<"azimuth", "elevation", "az_speed", "el_speed">>)
  \o Each("u16", <<"target_distance">>) \o Each("i16", <<"target_el_aberration">>)
  \o Each("u32", <<"track_az_aberration", "track_el_aberration", "fov_angle">>)
  \o Each("u8", <<"ir_power_ctrl", "vis_focal_unit">>)
  \o Each("u32", <<"vis_focal_value", "ir_focal_value">>)
  \o Each("u8x13", <<"reserved">>)
  \o Each("u32", <<"timestamp">>) \o Each("u8", <<"track_status">>) \o Each("u16", <<"backup">>)

Sealed(bytes) == Append(bytes, Xor(bytes))

serialize_servo(s) == Sealed(Put(serialize_order, s))

deserialize_servo(buf) ==
  IF /\ Len(buf) >= servo_frame_len
     /\ At(buf, 0) = servo_header
     /\ Xor(Slice(buf, 0, 71)) = At(buf, 71)
  THEN Get(deserialize_order, buf, 0)
  ELSE nullopt

\* The members of a ServoPacket nobody has set.
ServoPacket ==
  [name \in {serialize_order[k].name : k \in DOMAIN serialize_order} |->
     CASE name = "header" -> servo_header
       [] name = "frame_len" -> servo_frame_len
       [] name = "reserved" -> [i \in 1..13 |-> 0]
       [] name \in {"azimuth", "elevation", "az_speed", "el_speed", "track_az_aberration",
                    "track_el_aberration", "fov_angle", "vis_focal_value", "ir_focal_value",
                    "timestamp"} -> <<0, 0>>
       [] OTHER -> 0]

\* A ServoPacket with some members set.
Members(m) == [name \in DOMAIN ServoPacket |-> IF name \in DOMAIN m THEN m[name] ELSE ServoPacket[name]]

\* The arguments of build_servo_packet.
ServoArguments ==
  [azimuth : Word, elevation : Word, az_speed : Word, el_speed : Word, target_distance : Half,
   seq : Byte, control : Byte, device_type : Byte, packet_type : Byte]

build_servo_packet(m) == serialize_servo(Members(m))

\* Fault: the offset of the value before it.
WithFocus_early(packet, focus) ==
  LET focal == <<0>> \o write_le_uint32(focus) \o write_le_uint32(focus)
  IN  Sealed(Slice(Patch(packet, 41, focal), 0, 71))

\* set_ptz writes the focus over bytes 42 to 50 and seals the frame again.
WithFocus(packet, focus) ==
  LET focal == <<0>> \o write_le_uint32(focus) \o write_le_uint32(focus)
  IN  Sealed(Slice(Patch(packet, 42, focal), 0, 71))

\* wrap_servo_in_standard_packet: the frame is the data of a standard one.
Wrapped(packet) == [addr |-> ADDR_SERVO, func |-> 0, ctrl |-> 0, data |-> packet]

---------------------------------------------------------------------------
(* Protocol.ServoPacket, in Java.                                          *)

java_order ==
  Each("u8", <<"header", "frameLen", "seq", "deviceType", "packetType", "deviceIp",
               "reservedConn", "control", "reservedCtrl">>)
  \o Each("u32", <<"azimuth", "elevation", "azSpeed", "elSpeed">>)
  \o Each("u16", <<"targetDistance">>) \o Each("u8x33", <<"reserved">>)
  \o Each("u16", <<"reservedHorz", "reservedVert">>)
  \o Each("u32", <<"timestamp">>) \o Each("u8", <<"reservedState">>) \o Each("u16", <<"backup">>)

java_floats == {"azimuth", "elevation", "azSpeed", "elSpeed"}

\* The words a float takes for no number: the exponent is all ones, and of
\* the other bits (but the sign) one is set.
IsNaN(w) == w[1] % 32768 > 32640 \/ (w[1] % 32768 = 32640 /\ w[2] # 0)

\* Float.floatToIntBits has one word for all of them.
floatToIntBits(w) == IF IsNaN(w) THEN <<32704, 0>> ELSE w

\* The first two bytes it writes are constants, and the angles go through
\* floatToIntBits.
serializeServo(p) ==
  LET written == [name \in DOMAIN p |->
        CASE name = "header" -> servo_header
          [] name = "frameLen" -> servo_frame_len
          [] name \in java_floats -> floatToIntBits(p[name])
          [] OTHER -> p[name]]
  IN  Sealed(Put(java_order, written))

\* Fault: the seal is not compared.
parseServo_unsealed(buf) ==
  IF Len(buf) >= servo_frame_len /\ At(buf, 0) = servo_header THEN Get(java_order, buf, 0) ELSE nullopt

\* A float is the word it was read from: Float.intBitsToFloat loses no bit that
\* floatToIntBits would give back.
parseServo(buf) ==
  IF /\ Len(buf) >= servo_frame_len
     /\ At(buf, 0) = servo_header
     /\ Xor(Slice(buf, 0, 71)) = At(buf, 71)
  THEN Get(java_order, buf, 0)
  ELSE nullopt
============================================================================
