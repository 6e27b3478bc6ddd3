--------------------------- MODULE StandardFrame ---------------------------
(***************************************************************************)
(* The standard frame: 0F F0, address, function, control, at least 15      *)
(* bytes of data, the sum of all of these, F0 0F.  It is written and read  *)
(* by the C++ library and, separately, by the Java programs.               *)
(***************************************************************************)
EXTENDS ByteStrings

\* What a reader answers when it finds no frame.
CONSTANT nullopt

FRAME_HDR == <<15, 240>>
FRAME_TAIL == <<240, 15>>
DATA_LEN_DEFAULT == 15
ADDR_CAMERA_VIS == 2
ADDR_SERVO == 5

Packet == [addr : Byte, func : Byte, ctrl : Byte, data : Seq(Byte)]

\* No frame is no packet.
ASSUME NulloptAssumption == nullopt \notin Packet

Pad(data) == data \o SubSeq([i \in 1..DATA_LEN_DEFAULT |-> 0], Len(data) + 1, DATA_LEN_DEFAULT)

\* The bytes the checksum is taken of.
Body(p) == <<p.addr, p.func, p.ctrl>> \o Pad(p.data)

serialize(p) == FRAME_HDR \o Body(p) \o <<compute_checksum(Body(p))>> \o FRAME_TAIL

make_camera_command(func, ctrl, payload) ==
  [addr |-> ADDR_CAMERA_VIS, func |-> func, ctrl |-> ctrl, data |-> payload]

\* The packet in a string of bytes that is one whole frame.
Fields(frame) ==
  [addr |-> At(frame, 2), func |-> At(frame, 3), ctrl |-> At(frame, 4),
   data |-> Slice(frame, 5, Len(frame) - 3)]

\* Fault: the first tail ends the frame, whatever the sum.
FrameAt_unsummed(buf, start, tail_idx) ==
  /\ Slice(buf, start, start + 2) = FRAME_HDR
  /\ tail_idx >= start + 22
  /\ Slice(buf, tail_idx, tail_idx + 2) = FRAME_TAIL

\* deserialize looks for a header at start and a tail at least 22 bytes later,
\* at tail_idx, and sums what lies between.
FrameAt(buf, start, tail_idx) ==
  /\ Slice(buf, start, start + 2) = FRAME_HDR
  /\ tail_idx >= start + 22
  /\ Slice(buf, tail_idx, tail_idx + 2) = FRAME_TAIL
  /\ compute_checksum(Slice(buf, start + 2, tail_idx - 1)) = At(buf, tail_idx - 1)

\* The first start that has a tail, and its first tail.
deserialize(buf) ==
  LET n == Len(buf)
      Tails(start) == {t \in (start + 22)..(n - 2) : FrameAt(buf, start, t)}
      starts == {s \in 0..(n - 2) : Tails(s) # {}}
      start == Min(starts)
  IN  IF starts = {} THEN nullopt
      ELSE Fields(Slice(buf, start, Min(Tails(start)) + 2))

---------------------------------------------------------------------------
(* Protocol.java.                                                          *)

\* The sum stops one byte before the end of the data.
buildCommand(addr, func, ctrl, payload) ==
  LET head == FRAME_HDR \o <<addr, func, ctrl>> \o Pad(payload)
      csEnd == 2 + 1 + 1 + (IF Len(payload) > DATA_LEN_DEFAULT THEN Len(payload) ELSE DATA_LEN_DEFAULT)
  IN  head \o <<compute_checksum(Slice(head, 2, csEnd))>> \o FRAME_TAIL

\* A datagram is one frame or none.
parsePacket(buf) ==
  IF /\ Len(buf) >= 23
     /\ Slice(buf, 0, 2) = FRAME_HDR
     /\ Slice(buf, Len(buf) - 2, Len(buf)) = FRAME_TAIL
     /\ compute_checksum(Slice(buf, 2, Len(buf) - 3)) = At(buf, Len(buf) - 3)
  THEN Fields(buf)
  ELSE nullopt
============================================================================
