------------------------------- MODULE MCWire -------------------------------
(***************************************************************************)
(* Instances of Wire for TLC: records whose bytes all differ, so that no   *)
(* two fields, and no two bytes of one, can be exchanged unseen.           *)
(***************************************************************************)
EXTENDS Wire

\* Bytes b, b + 1, ...
NumberedHalf(b) == b + 256 * (b + 1)
NumberedWord(b) == <<NumberedHalf(b + 2), NumberedHalf(b)>>
Numbered(layout, b) ==
  [name \in {layout[k].name : k \in DOMAIN layout} |->
     LET k == CHOOSE j \in DOMAIN layout : layout[j].name = name
         at == b + Offset(layout, k)
         kind == layout[k].kind
     IN  CASE kind = "u8" -> at
           [] kind \in {"u16", "i16"} -> NumberedHalf(at)
           [] kind = "u32" -> NumberedWord(at)]

\* A layout shuffled in memory only: where a status report has which value.
MCReports ==
  {Numbered(report_head \o report_write_order, b) : b \in {1, 200}}
  \cup {[Numbered(report_head \o report_write_order, 1) EXCEPT !.addr = 1, !.frame_seq = 65535]}

servo_args ==
  Each("u32", <<"azimuth", "elevation", "az_speed", "el_speed">>)
  \o Each("u16", <<"target_distance">>)
  \o Each("u8", <<"seq", "control", "device_type", "packet_type">>)

\* The second call has a standard header and a standard tail among its bytes,
\* late enough for the reader of the wrapped frame to try them.  In the third
\* two angles are no numbers, and one is infinite.
MCServoCalls ==
  {Numbered(servo_args, 1),
   [Numbered(servo_args, 100) EXCEPT !.el_speed = <<61455, 4080>>, !.target_distance = 4080],
   [Numbered(servo_args, 1) EXCEPT !.azimuth = <<65472, 0>>, !.elevation = <<32640, 0>>,
                                   !.az_speed = <<32640, 1>>]}

MCFocuses == {<<0, 0>>, <<17096, 61440>>}

\* The last data end the frame early: 3 is the sum of what precedes it, if func
\* is 1 and ctrl 0.
MCCameraCalls ==
  [func : {1, 6, 200}, ctrl : {0, 255},
   payload : {<<>>, <<5>>,
              [i \in 1..15 |-> i], [i \in 1..15 |-> 0],
              [i \in 1..16 |-> 16 * i - 1],
              [i \in 1..14 |-> 0] \o <<15, 240, 9, 240, 15, 240, 15, 7>>,
              [i \in 1..16 |-> 0] \o <<3, 240, 15, 7>>}]

MCDeltas == {1, 128, 255}
=============================================================================
