---------------------------- MODULE StatusFrame ----------------------------
(***************************************************************************)
(* The status report of a device, and the five readers this repository has *)
(* for it.  LoadStatusReport is 49 bytes, sealed with a sum; CamAJFLib and *)
(* the controller's log expect 51, sealed with an exclusive or.            *)
(***************************************************************************)
EXTENDS StandardFrame

REPORT_HDR == <<31, 241>>
REPORT_TAIL == <<241, 31>>
REPORT_LOAD_STATUS_DATA_LEN == 41
REPORT_LOAD_STATUS_FRAME_LEN == 49

\* The members of a report that are not fixed.
LoadStatusReport ==
  [addr : Byte, frame_seq : Half, servo_work_mode : Byte,
   ir_focal_length : Word, vis_focal_length : Word, az_aberration : Word, el_aberration : Word,
   env_ctrl_byte1 : Byte, env_ctrl_byte2 : Byte, env_ctrl_byte3 : Byte, env_ctrl_byte4 : Byte,
   servo_azimuth : Word, servo_elevation : Word, self_check_status : Byte,
   vis_cam_image_status : Byte, vis_cam_comm_status : Byte,
   ir_cam_image_status : Byte, ir_cam_comm_status : Byte, servo_fault_code : Byte,
   defog_status : Byte, wiper_status : Byte, heater_status : Byte,
   el_servo_fault_code : Byte, memory_track_time : Half]

\* The order in which serialize pushes the data.
report_write_order ==
  Each("u8", <<"servo_work_mode">>)
  \o Each("u32", <<"ir_focal_length", "vis_focal_length", "az_aberration", "el_aberration">>)
  \o Each("u8", <<"env_ctrl_byte1", "env_ctrl_byte2", "env_ctrl_byte3", "env_ctrl_byte4">>)
  \o Each("u32", <<"servo_azimuth", "servo_elevation">>)
  \o Each("u8", <<"self_check_status", "vis_cam_image_status", "vis_cam_comm_status",
                  "ir_cam_image_status", "ir_cam_comm_status", "servo_fault_code",
                  "defog_status", "wiper_status", "heater_status", "el_servo_fault_code">>)
  \o Each("u16", <<"memory_track_time">>)

\* The order in which deserialize, and parse_payload_status, take it.
report_read_order ==
  Each("u8", <<"servo_work_mode">>)
  \o Each("u32", <<"ir_focal_length", "vis_focal_length", "az_aberration", "el_aberration">>)
  \o Each("u8", <<"env_ctrl_byte1", "env_ctrl_byte2", "env_ctrl_byte3", "env_ctrl_byte4">>)
  \o Each("u32", <<"servo_azimuth", "servo_elevation">>)
  \o Each("u8", <<"self_check_status", "vis_cam_image_status", "vis_cam_comm_status",
                  "ir_cam_image_status", "ir_cam_comm_status", "servo_fault_code",
                  "defog_status", "wiper_status", "heater_status", "el_servo_fault_code">>)
  \o Each("u16", <<"memory_track_time">>)

report_head == Each("u8", <<"addr">>) \o Each("u16", <<"frame_seq">>)

serialize_report(r) ==
  LET summed == Put(report_head \o report_write_order, r)
  IN  REPORT_HDR \o summed \o <<compute_checksum(summed)>> \o REPORT_TAIL

\* Fault: the sum is not compared.
deserialize_report_unsummed(buf) ==
  IF /\ Len(buf) >= REPORT_LOAD_STATUS_FRAME_LEN
     /\ Slice(buf, 0, 2) = REPORT_HDR
     /\ Slice(buf, 47, 49) = REPORT_TAIL
  THEN Get(report_head \o report_read_order, buf, 2)
  ELSE nullopt

deserialize_report(buf) ==
  IF /\ Len(buf) >= REPORT_LOAD_STATUS_FRAME_LEN
     /\ Slice(buf, 0, 2) = REPORT_HDR
     /\ Slice(buf, 47, 49) = REPORT_TAIL
     /\ compute_checksum(Slice(buf, 2, 46)) = At(buf, 46)
  THEN Get(report_head \o report_read_order, buf, 2)
  ELSE nullopt

\* A sender may also put the data of a report in a standard frame.
parse_payload_status(buf) ==
  IF Len(buf) >= REPORT_LOAD_STATUS_FRAME_LEN /\ Slice(buf, 0, 2) = REPORT_HDR
  THEN deserialize_report(buf)
  ELSE LET p == IF Len(buf) >= 2 /\ Slice(buf, 0, 2) = FRAME_HDR THEN deserialize(buf) ELSE nullopt
       IN  IF p = nullopt THEN nullopt
           ELSE IF Len(p.data) < REPORT_LOAD_STATUS_DATA_LEN THEN nullopt
           ELSE LET status == Get(report_read_order, p.data, 0)
                IN  [name \in {"addr", "frame_seq"} \cup DOMAIN status |->
                       CASE name = "addr" -> p.addr [] name = "frame_seq" -> 0 [] OTHER -> status[name]]

\* MulticastReceiver wants the tail at the end of the datagram as well.
parseReceivedPacket(buf) ==
  IF /\ Len(buf) >= REPORT_LOAD_STATUS_FRAME_LEN
     /\ Slice(buf, 0, 2) = REPORT_HDR
     /\ Slice(buf, Len(buf) - 2, Len(buf)) = REPORT_TAIL
  THEN deserialize_report(buf)
  ELSE nullopt

---------------------------------------------------------------------------
(* The readers that want the bytes where they expect them.                 *)

WordAt(buf, i) == read_le_uint32(Slice(buf, i, i + 4))

\* Fault: the offsets of the other reader of positions.
get_ptz_late(buf) ==
  IF Len(buf) < 34 THEN nullopt
  ELSE [az |-> WordAt(buf, 28), el |-> WordAt(buf, 32), ir |-> WordAt(buf, 6), vis |-> WordAt(buf, 10)]

\* cam_controller_get_ptz reads any datagram that is long enough.
get_ptz(buf) ==
  IF Len(buf) < 34 THEN nullopt
  ELSE [az |-> WordAt(buf, 26), el |-> WordAt(buf, 30), ir |-> WordAt(buf, 6), vis |-> WordAt(buf, 10)]

\* What the 51-byte readers have in common.
Sealed51(buf) ==
  /\ Len(buf) >= 51
  /\ Slice(buf, 0, 2) = REPORT_HDR
  /\ Xor(Slice(buf, 2, 48)) = At(buf, 48)

\* parse_and_log_status: the position the controller logs.
LoggedStatus(buf) == IF Sealed51(buf) THEN get_ptz(buf) ELSE nullopt

\* CamAJFLib::parse_status_report.
parse_status_report(buf) ==
  IF Sealed51(buf) /\ Slice(buf, 49, 51) = REPORT_TAIL
  THEN [az |-> WordAt(buf, 28), el |-> WordAt(buf, 32), ir |-> WordAt(buf, 6), vis |-> WordAt(buf, 10)]
  ELSE nullopt
============================================================================
