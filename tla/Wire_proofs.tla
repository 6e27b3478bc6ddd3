---------------------------- MODULE Wire_proofs ----------------------------
(***************************************************************************)
(* Theorems about the frames, for every string of bytes, and from them the *)
(* five properties of Wire, for every argument, every byte in it, and      *)
(* everything the network may add to one.                                  *)
(*                                                                         *)
(* Standard frames: which ones the C++ reader finds, which it cannot, and  *)
(* that both readers take the same frames for good.  Servo and report      *)
(* frames: what is written is read, by every reader it is meant for, and   *)
(* refused with a byte changed or without its end.                         *)
(*                                                                         *)
(* The invariant under the properties of Wire says where the datagram      *)
(* comes from: what its sender made of what it was asked, the same with a  *)
(* byte changed or without its end, or what the simulator answers to one   *)
(* of these.  What the readers then make of it is a fact about frames.     *)
(***************************************************************************)
EXTENDS Wire, ByteStrings_proofs

-------------------------------------------------------------------------------

\* deserialize looks at tails that are at least 22 bytes behind the header: it
\* finds nothing in 23 bytes, the length of a frame with no data of its own
\* that protocol.h calls the shortest (protocol.cpp:97-100).
THEOREM ShortFramesAreLost ==
  ASSUME NEW buf \in Seq(Byte), Len(buf) <= 23
  PROVE  deserialize(buf) = nullopt
<1>1. Len(buf) \in Nat
  OBVIOUS
<1>2. \A s \in 0..(Len(buf) - 2) : (s + 22)..(Len(buf) - 2) = {}
  BY <1>1
<1> QED BY <1>2 DEF deserialize

\* What deserialize finds begins and ends where FrameAt says.
LEMMA FoundFrame ==
  ASSUME NEW buf \in Seq(Byte), deserialize(buf) # nullopt
  PROVE  \E s \in 0..(Len(buf) - 2) : \E t \in (s + 22)..(Len(buf) - 2) :
           FrameAt(buf, s, t) /\ deserialize(buf) = Fields(Slice(buf, s, t + 2))
<1> DEFINE n == Len(buf)
           Tails(s) == {t \in (s + 22)..(n - 2) : FrameAt(buf, s, t)}
           starts == {s \in 0..(n - 2) : Tails(s) # {}}
<1>1. n \in Nat
  OBVIOUS
<1>2. starts # {} /\ deserialize(buf) = Fields(Slice(buf, Min(starts), Min(Tails(Min(starts))) + 2))
  BY DEF deserialize
<1>3. Min(starts) \in starts
  <2>1. starts \subseteq 0..(n - 2)
    OBVIOUS
  <2>2. 0 \in Int /\ n - 2 \in Int
    BY <1>1
  <2> HIDE DEF starts, n
  <2> QED BY <1>2, <2>1, <2>2, LeastElement
<1>4. PICK s : s = Min(starts)
  OBVIOUS
<1>5. s \in 0..(n - 2) /\ Tails(s) # {}
  BY <1>3, <1>4
<1>6. Min(Tails(s)) \in Tails(s)
  <2>1. Tails(s) \subseteq (s + 22)..(n - 2) /\ s + 22 \in Int /\ n - 2 \in Int
    BY <1>1, <1>5
  <2> HIDE DEF Tails
  <2> QED BY <1>5, <2>1, LeastElement
<1>7. PICK t : t = Min(Tails(s))
  OBVIOUS
<1>8. t \in (s + 22)..(n - 2) /\ FrameAt(buf, s, t)
  BY <1>6, <1>7
<1>9. deserialize(buf) = Fields(Slice(buf, s, t + 2))
  <2> HIDE DEF Tails, starts
  <2> QED BY <1>2, <1>4, <1>7
<1> QED BY <1>5, <1>8, <1>9

\* A frame at s in buf, cut out of it, is one the Java reader accepts.
LEMMA WholeFrame ==
  ASSUME NEW buf \in Seq(Byte), NEW s \in Nat, NEW t \in (s + 22)..(Len(buf) - 2),
         FrameAt(buf, s, t)
  PROVE  parsePacket(Slice(buf, s, t + 2)) = Fields(Slice(buf, s, t + 2))
<1> DEFINE frame == Slice(buf, s, t + 2)
           len == t + 2 - s
<1>1. Len(buf) \in Nat /\ t \in Nat /\ t + 2 \in s..Len(buf) /\ len \in Nat /\ len >= 24
  OBVIOUS
<1>2. /\ 0 \in 0..len /\ 2 \in 0..len /\ 2 \in 2..len /\ len - 3 \in 2..len /\ len - 3 \in 0..len
      /\ len - 2 \in 0..len /\ len \in (len - 2)..len /\ len - 3 < len
      /\ s + 0 = s /\ s + (len - 2) = t /\ s + len = t + 2 /\ s + (len - 3) = t - 1
  BY <1>1
<1>3. Len(frame) = len
  BY <1>1, <1>2, SliceOfSlice
<1> DEFINE Same(i, j) == Slice(frame, i, j) = Slice(buf, s + i, s + j)
<1>s. \A i \in 0..len : \A j \in i..len : Same(i, j)
  <2> SUFFICES ASSUME NEW i \in 0..len, NEW j \in i..len PROVE Same(i, j)
    OBVIOUS
  <2> QED BY <1>1, SliceOfSlice
<1>4. Slice(frame, 0, 2) = Slice(buf, s, s + 2)
  <2> HIDE DEF frame, len
  <2>1. Same(0, 2)
    BY <1>s, <1>2
  <2> QED BY <2>1, <1>2
<1>5. Slice(frame, len - 2, len) = Slice(buf, t, t + 2)
  <2> HIDE DEF frame, len
  <2>1. Same(len - 2, len)
    BY <1>s, <1>2
  <2> QED BY <2>1, <1>2
<1>6. Slice(frame, 2, len - 3) = Slice(buf, s + 2, t - 1)
  <2> HIDE DEF frame, len
  <2>1. Same(2, len - 3)
    BY <1>s, <1>2
  <2> QED BY <2>1, <1>2
<1>7. At(frame, len - 3) = At(buf, t - 1)
  <2>1. ASSUME NEW i \in 0..len, i < len PROVE At(frame, i) = At(buf, s + i)
    <3>1. i \in 0..(t + 2 - s) /\ i \in i..(t + 2 - s)
      BY <2>1
    <3> QED BY <1>1, <2>1, <3>1, SliceOfSlice
  <2> HIDE DEF frame, len
  <2> QED BY <2>1, <1>2
<1> HIDE DEF frame, len
<1>8. len >= 23
  BY <1>1
<1> QED BY <1>3, <1>4, <1>5, <1>6, <1>7, <1>8 DEF parsePacket, FrameAt, frame

\* What the C++ reader finds in a string is a frame the Java reader takes for
\* good: neither trusts a tail without a sum, and a tail inside the data does
\* not end the frame (protocol.cpp:95-137, Protocol.java:124-138).
THEOREM FoundFramesAreSealed ==
  ASSUME NEW buf \in Seq(Byte), deserialize(buf) # nullopt
  PROVE  \E s, e \in Nat : parsePacket(Slice(buf, s, e)) = deserialize(buf)
<1>1. PICK s \in 0..(Len(buf) - 2) : \E t \in (s + 22)..(Len(buf) - 2) :
        FrameAt(buf, s, t) /\ deserialize(buf) = Fields(Slice(buf, s, t + 2))
  BY FoundFrame
<1>2. PICK t \in (s + 22)..(Len(buf) - 2) :
        FrameAt(buf, s, t) /\ deserialize(buf) = Fields(Slice(buf, s, t + 2))
  BY <1>1
<1>3. s \in Nat /\ t + 2 \in Nat
  OBVIOUS
<1> QED BY <1>2, <1>3, WholeFrame

\* Of the frames the Java reader takes for good the C++ reader overlooks those
\* of 23 bytes and no others: in every longer one it finds a frame, from the
\* header of that one to a tail with its sum.
THEOREM LongFramesAreFound ==
  ASSUME NEW buf \in Seq(Byte), Len(buf) > 23, parsePacket(buf) # nullopt
  PROVE  \E t \in 22..(Len(buf) - 2) :
           FrameAt(buf, 0, t) /\ deserialize(buf) = Fields(Slice(buf, 0, t + 2))
<1> DEFINE n == Len(buf)
           Tails(s) == {t \in (s + 22)..(n - 2) : FrameAt(buf, s, t)}
           starts == {s \in 0..(n - 2) : Tails(s) # {}}
<1>1. n \in Nat /\ n > 23
  OBVIOUS
<1>2. FrameAt(buf, 0, n - 2)
  <2>1. /\ Slice(buf, 0, 2) = FRAME_HDR /\ Slice(buf, n - 2, n) = FRAME_TAIL
        /\ compute_checksum(Slice(buf, 2, n - 3)) = At(buf, n - 3)
    BY DEF parsePacket
  <2>2. 0 + 2 = 2 /\ n - 2 + 2 = n /\ (n - 2) - 1 = n - 3 /\ n - 2 >= 0 + 22
    BY <1>1
  <2> QED BY <2>1, <2>2 DEF FrameAt
<1>3. n - 2 \in Tails(0)
  BY <1>1, <1>2
<1>4. 0 \in starts
  BY <1>1, <1>3
<1>5. deserialize(buf) = Fields(Slice(buf, Min(starts), Min(Tails(Min(starts))) + 2))
  BY <1>4 DEF deserialize
<1>6. Min(starts) = 0
  <2>1. starts \subseteq 0..(n - 2)
    OBVIOUS
  <2>2. Min(starts) \in starts /\ \A y \in starts : Min(starts) <= y
    <3>1. 0 \in Int /\ n - 2 \in Int
      BY <1>1
    <3> HIDE DEF starts, n
    <3> QED BY <1>4, <2>1, <3>1, LeastElement
  <2>3. Min(starts) <= 0 /\ Min(starts) \in 0..(n - 2)
    <3> HIDE DEF starts
    <3> QED BY <1>4, <2>1, <2>2
  <2> QED BY <1>1, <2>3
<1>7. Tails(0) \subseteq 22..(n - 2)
  BY <1>1
<1>8. Min(Tails(0)) \in Tails(0)
  <2>1. 22 \in Int /\ n - 2 \in Int
    BY <1>1
  <2> HIDE DEF Tails, n
  <2> QED BY <1>3, <1>7, <2>1, LeastElement
<1>9. Min(Tails(0)) \in 22..(n - 2) /\ FrameAt(buf, 0, Min(Tails(0)))
  BY <1>7, <1>8
<1> HIDE DEF starts, Tails
<1> QED BY <1>5, <1>6, <1>9

-------------------------------------------------------------------------------

\* The data is filled up to 15 bytes.
LEMMA PadType ==
  ASSUME NEW data \in Seq(Byte) PROVE Pad(data) \in Seq(Byte) /\ Len(Pad(data)) >= 15
<1> DEFINE zeros == [i \in 1..15 |-> 0]
           m == Len(data) + 1
<1>1. m \in Int /\ m >= 1 /\ 15 \in Int
  OBVIOUS
<1>2. \A i \in m..15 : zeros[i] \in Byte
  <2>1. \A i \in m..15 : i \in 1..15
    BY <1>1
  <2>2. \A i \in 1..15 : zeros[i] = 0
    OBVIOUS
  <2> QED BY <2>1, <2>2 DEF Byte
<1>3. /\ SubSeq(zeros, m, 15) \in Seq(Byte)
      /\ Len(SubSeq(zeros, m, 15)) = IF m <= 15 THEN 15 - m + 1 ELSE 0
  <2> HIDE DEF zeros, m
  <2> QED BY <1>1, <1>2, SubSeqProperties
<1>4. Pad(data) = data \o SubSeq(zeros, m, 15)
  BY DEF Pad, DATA_LEN_DEFAULT
<1>5. /\ Pad(data) \in Seq(Byte)
      /\ Len(Pad(data)) = Len(data) + Len(SubSeq(zeros, m, 15))
  <2> HIDE DEF zeros, m
  <2> QED BY <1>3, <1>4, ConcatProperties
<1> QED BY <1>3, <1>5

\* The bytes of a frame that carries the string d.
LEMMA FrameBytes ==
  ASSUME NEW S, NEW d \in Seq(S), NEW cs \in S, 15 \in S, 240 \in S
  PROVE  LET f == <<15, 240>> \o d \o <<cs>> \o <<240, 15>> IN
         /\ f \in Seq(S) /\ Len(f) = Len(d) + 5
         /\ f[1] = 15 /\ f[2] = 240
         /\ \A i \in 1..Len(d) : f[2 + i] = d[i]
         /\ f[Len(d) + 3] = cs /\ f[Len(d) + 4] = 240 /\ f[Len(d) + 5] = 15
<1> DEFINE f1 == <<15, 240>> \o d
           f2 == f1 \o <<cs>>
           f3 == f2 \o <<240, 15>>
<1>1. <<15, 240>> \in Seq(S) /\ <<cs>> \in Seq(S) /\ <<240, 15>> \in Seq(S) /\ Len(d) \in Nat
  OBVIOUS
<1>2. /\ f1 \in Seq(S) /\ Len(f1) = Len(d) + 2
      /\ f1[1] = 15 /\ f1[2] = 240 /\ \A i \in 1..Len(d) : f1[2 + i] = d[i]
  BY <1>1, ConcatProperties
<1> HIDE DEF f1
<1>3. /\ f2 \in Seq(S) /\ Len(f2) = Len(d) + 3
      /\ \A i \in 1..(Len(d) + 2) : f2[i] = f1[i]
      /\ f2[Len(d) + 3] = cs
  BY <1>1, <1>2, ConcatProperties
<1> HIDE DEF f2
<1>4. /\ f3 \in Seq(S) /\ Len(f3) = Len(d) + 5
      /\ \A i \in 1..(Len(d) + 3) : f3[i] = f2[i]
      /\ f3[Len(d) + 4] = 240 /\ f3[Len(d) + 5] = 15
  BY <1>1, <1>3, ConcatProperties
<1> HIDE DEF f3
<1>5. /\ f3 \in Seq(S) /\ Len(f3) = Len(d) + 5 /\ f3[1] = 15 /\ f3[2] = 240
      /\ f3[Len(d) + 3] = cs /\ f3[Len(d) + 4] = 240 /\ f3[Len(d) + 5] = 15
  <2>1. /\ 1 \in 1..(Len(d) + 2) /\ 2 \in 1..(Len(d) + 2)
        /\ 1 \in 1..(Len(d) + 3) /\ 2 \in 1..(Len(d) + 3) /\ Len(d) + 3 \in 1..(Len(d) + 3)
    BY <1>1
  <2>2. f2[1] = 15 /\ f2[2] = 240
    BY <1>2, <1>3, <2>1
  <2>3. f3[1] = 15 /\ f3[2] = 240 /\ f3[Len(d) + 3] = cs
    BY <1>3, <1>4, <2>1, <2>2
  <2> QED BY <1>4, <2>3
<1>6. \A i \in 1..Len(d) : f3[2 + i] = d[i]
  <2> SUFFICES ASSUME NEW i \in 1..Len(d) PROVE f3[2 + i] = d[i]
    OBVIOUS
  <2>1. 2 + i \in 1..(Len(d) + 2) /\ 2 + i \in 1..(Len(d) + 3)
    BY <1>1
  <2>2. f1[2 + i] = d[i] /\ f2[2 + i] = f1[2 + i]
    BY <1>2, <1>3, <2>1
  <2> QED BY <1>4, <2>1, <2>2
<1> QED BY <1>5, <1>6 DEF f1, f2, f3

\* The string summed in a frame, and the frame with any sum.
SummedOf(d, addr, func, ctrl, D) == d = <<addr, func, ctrl>> \o D
FrameOf(f, d, cs) == f = <<15, 240>> \o d \o <<cs>> \o <<240, 15>>

\* A frame that carries the string D.
LEMMA FrameWith ==
  ASSUME NEW addr \in Byte, NEW func \in Byte, NEW ctrl \in Byte, NEW D \in Seq(Byte), Len(D) >= 15,
         NEW cs \in Byte, NEW d, SummedOf(d, addr, func, ctrl, D), NEW f, FrameOf(f, d, cs),
         NEW n, n = Len(D) + 8
  PROVE  /\ d \in Seq(Byte) /\ Len(d) = n - 5 /\ f \in Seq(Byte) /\ Len(f) = n /\ f[1] = 15 /\ f[2] = 240
         /\ Slice(f, 0, 2) = FRAME_HDR /\ Slice(f, n - 2, n) = FRAME_TAIL
         /\ Slice(f, 2, n - 3) = d /\ At(f, n - 3) = cs
         /\ Fields(f) = [addr |-> addr, func |-> func, ctrl |-> ctrl, data |-> D]
<1>1. PICK L \in Nat : L = Len(D)
  OBVIOUS
<1>2. L >= 15 /\ n = L + 8
  BY <1>1
<1>3. /\ d \in Seq(Byte) /\ Len(d) = L + 3 /\ d[1] = addr /\ d[2] = func /\ d[3] = ctrl
      /\ \A i \in 1..L : d[3 + i] = D[i]
  <2>1. <<addr, func, ctrl>> \in Seq(Byte)
    OBVIOUS
  <2> QED BY <1>1, <2>1, ConcatProperties DEF SummedOf
<1>4. 15 \in Byte /\ 240 \in Byte
  BY DEF Byte
<1>5. /\ f \in Seq(Byte) /\ Len(f) = L + 8
      /\ f[1] = 15 /\ f[2] = 240
      /\ \A i \in 1..(L + 3) : f[2 + i] = d[i]
      /\ f[L + 6] = cs /\ f[L + 7] = 240 /\ f[L + 8] = 15
  <2>1. L + 3 + 5 = L + 8 /\ L + 3 + 3 = L + 6 /\ L + 3 + 4 = L + 7
    OBVIOUS
  <2>2. LET g == <<15, 240>> \o d \o <<cs>> \o <<240, 15>> IN
        /\ g \in Seq(Byte) /\ Len(g) = Len(d) + 5 /\ g[1] = 15 /\ g[2] = 240
        /\ \A i \in 1..Len(d) : g[2 + i] = d[i]
        /\ g[Len(d) + 3] = cs /\ g[Len(d) + 4] = 240 /\ g[Len(d) + 5] = 15
    <3>1. d \in Seq(Byte)
      BY <1>3
    <3> QED BY <1>4, <3>1, FrameBytes, SMTT(20)
  <2>3. /\ f \in Seq(Byte) /\ Len(f) = Len(d) + 5 /\ f[1] = 15 /\ f[2] = 240
        /\ \A i \in 1..Len(d) : f[2 + i] = d[i]
        /\ f[Len(d) + 3] = cs /\ f[Len(d) + 4] = 240 /\ f[Len(d) + 5] = 15
    BY <2>2, Zenon DEF FrameOf
  <2> QED BY <1>3, <2>1, <2>3
<1>6. f[3] = addr /\ f[4] = func /\ f[5] = ctrl
  <2>1. 1 \in 1..(L + 3) /\ 2 \in 1..(L + 3) /\ 3 \in 1..(L + 3)
    BY <1>2
  <2> QED BY <1>3, <1>5, <2>1
<1>7. \A i \in 1..L : f[5 + i] = D[i]
  <2> SUFFICES ASSUME NEW i \in 1..L PROVE f[5 + i] = D[i]
    OBVIOUS
  <2>1. 3 + i \in 1..(L + 3) /\ 2 + (3 + i) = 5 + i
    BY <1>2
  <2> QED BY <1>3, <1>5, <2>1
<1>s. f \in Seq(Byte) /\ Len(f) = n
  BY <1>2, <1>5
<1>8. Slice(f, 0, 2) = <<15, 240>>
  <2>1. PICK w, a, b : w = <<15, 240>> /\ a = 0 /\ b = 2
    OBVIOUS
  <2>2. w \in Seq(Byte) /\ Len(w) = b - a /\ w[1] = 15 /\ w[2] = 240
    BY <1>4, <2>1
  <2>3. a \in Nat /\ b \in a..Len(f) /\ b - a = 2 /\ f[a + 1] = 15 /\ f[a + 2] = 240
    BY <1>2, <1>5, <2>1
  <2>4. \A k \in 1..(b - a) : w[k] = f[a + k]
    BY <2>2, <2>3
  <2>5. Slice(f, a, b) = w
    BY <1>s, <2>2, <2>3, <2>4, SliceEqual
  <2> QED BY <2>1, <2>5
<1>9. Slice(f, n - 2, n) = <<240, 15>>
  <2>1. PICK w, m : w = <<240, 15>> /\ m = n - 2
    OBVIOUS
  <2>2. w \in Seq(Byte) /\ Len(w) = n - m /\ w[1] = 240 /\ w[2] = 15
    BY <1>2, <1>4, <2>1
  <2>3. m \in Nat /\ n \in m..Len(f) /\ f[m + 1] = 240 /\ f[m + 2] = 15 /\ n - m = 2
    BY <1>2, <1>5, <2>1, SMTT(25)
  <2>4. \A k \in 1..(n - m) : w[k] = f[m + k]
    BY <2>2, <2>3
  <2>5. Slice(f, m, n) = w
    BY <1>s, <2>2, <2>3, <2>4, SliceEqual
  <2> QED BY <2>1, <2>5
<1>10. Slice(f, 2, n - 3) = d
  <2>1. PICK m : m = n - 3
    OBVIOUS
  <2>2. 2 \in Nat /\ m \in 2..Len(f) /\ Len(d) = m - 2 /\ m - 2 = L + 3
    BY <1>2, <1>3, <1>5, <2>1
  <2>3. \A k \in 1..(m - 2) : d[k] = f[2 + k]
    BY <1>5, <2>2
  <2>4. d \in Seq(Byte)
    BY <1>3
  <2>5. Slice(f, 2, m) = d
    BY <1>s, <2>2, <2>3, <2>4, SliceEqual
  <2> QED BY <2>1, <2>5
<1>11. Slice(f, 5, n - 3) = D
  <2>1. PICK m : m = n - 3
    OBVIOUS
  <2>2. 5 \in Nat /\ m \in 5..Len(f) /\ Len(D) = m - 5 /\ m - 5 = L
    BY <1>1, <1>2, <1>5, <2>1
  <2>3. \A k \in 1..(m - 5) : D[k] = f[5 + k]
    BY <1>7, <2>2
  <2>5. Slice(f, 5, m) = D
    BY <1>s, <2>2, <2>3, SliceEqual
  <2> QED BY <2>1, <2>5
<1>12. At(f, n - 3) = cs /\ At(f, 2) = addr /\ At(f, 3) = func /\ At(f, 4) = ctrl
  <2>1. n - 3 + 1 = L + 6
    BY <1>2
  <2> QED BY <1>5, <1>6, <2>1, SMTT(25) DEF At
<1>13. Fields(f) = [addr |-> addr, func |-> func, ctrl |-> ctrl, data |-> D]
  BY <1>2, <1>5, <1>11, <1>12 DEF Fields
<1>14. Len(d) = n - 5
  BY <1>2, <1>3
<1> QED BY <1>2, <1>3, <1>5, <1>8, <1>9, <1>10, <1>12, <1>13, <1>14 DEF FRAME_HDR, FRAME_TAIL

\* What one side serializes the other side parses, whatever bytes the data
\* holds, the header or the tail of a frame among them (protocol.cpp:49-74,
\* Protocol.java:124-138).
THEOREM WhatIsWrittenIsRead ==
  ASSUME NEW p \in Packet
  PROVE  /\ parsePacket(serialize(p)) = [p EXCEPT !.data = Pad(@)]
         /\ serialize(p) \in Seq(Byte) /\ Len(serialize(p)) = Len(Pad(p.data)) + 8
         /\ serialize(p)[1] = 15 /\ serialize(p)[2] = 240
<1>1. /\ p.addr \in Byte /\ p.func \in Byte /\ p.ctrl \in Byte /\ p.data \in Seq(Byte)
      /\ \A d : [p EXCEPT !.data = d] = [addr |-> p.addr, func |-> p.func, ctrl |-> p.ctrl, data |-> d]
  BY DEF Packet
<1>2. PICK D, d, cs, f, n : /\ D = Pad(p.data) /\ SummedOf(d, p.addr, p.func, p.ctrl, D)
                            /\ cs = compute_checksum(d) /\ n = Len(D) + 8 /\ FrameOf(f, d, cs)
  BY DEF SummedOf, FrameOf
<1>3. serialize(p) = f
  BY <1>2 DEF serialize, Body, FRAME_HDR, FRAME_TAIL, SummedOf, FrameOf
<1>4. D \in Seq(Byte) /\ Len(D) >= 15
  BY <1>1, <1>2, PadType
<1>5. cs \in Byte
  <2>1. <<p.addr, p.func, p.ctrl>> \in Seq(Byte)
    BY <1>1
  <2>2. d \in Seq(Byte)
    BY <1>2, <1>4, <2>1, ConcatProperties DEF SummedOf
  <2> QED BY <1>2, <2>2, SumsAreBytes
<1>6. /\ f \in Seq(Byte) /\ Len(f) = n /\ f[1] = 15 /\ f[2] = 240
      /\ Slice(f, 0, 2) = FRAME_HDR /\ Slice(f, n - 2, n) = FRAME_TAIL
      /\ Slice(f, 2, n - 3) = d /\ At(f, n - 3) = cs
      /\ Fields(f) = [addr |-> p.addr, func |-> p.func, ctrl |-> p.ctrl, data |-> D]
  <2>1. PICK a, b, c : a = p.addr /\ b = p.func /\ c = p.ctrl
    OBVIOUS
  <2>2. a \in Byte /\ b \in Byte /\ c \in Byte /\ SummedOf(d, a, b, c, D)
    BY <1>1, <1>2, <2>1
  <2>3. /\ f \in Seq(Byte) /\ Len(f) = n /\ f[1] = 15 /\ f[2] = 240
        /\ Slice(f, 0, 2) = FRAME_HDR /\ Slice(f, n - 2, n) = FRAME_TAIL
        /\ Slice(f, 2, n - 3) = d /\ At(f, n - 3) = cs
        /\ Fields(f) = [addr |-> a, func |-> b, ctrl |-> c, data |-> D]
    <3>1. FrameOf(f, d, cs) /\ n = Len(D) + 8
      BY <1>2
    <3> QED BY <1>4, <1>5, <2>2, <3>1, FrameWith, SMTT(25)
  <2> QED BY <2>1, <2>3
<1>7. n >= 23
  BY <1>2, <1>4
<1>8. parsePacket(f) = Fields(f)
  BY <1>2, <1>6, <1>7 DEF parsePacket
<1> QED BY <1>1, <1>2, <1>3, <1>6, <1>8

-------------------------------------------------------------------------------

\* g is f with another byte at i.
ChangedAt(f, g, i) ==
  /\ f \in Seq(Byte) /\ g \in Seq(Byte) /\ Len(g) = Len(f)
  /\ i \in 1..Len(f) /\ g[i] # f[i]
  /\ \A j \in 1..Len(f) : j # i => g[j] = f[j]

\* A substring with the byte differs, and so do its sums; one without it is the same.
LEMMA ChangedSlice ==
  ASSUME NEW f, NEW g, NEW i, ChangedAt(f, g, i), NEW a \in Nat, NEW b \in a..Len(f)
  PROVE  /\ i \notin (a + 1)..b => Slice(g, a, b) = Slice(f, a, b)
         /\ i \in (a + 1)..b =>
              /\ Slice(g, a, b) # Slice(f, a, b)
              /\ compute_checksum(Slice(g, a, b)) # compute_checksum(Slice(f, a, b))
              /\ Xor(Slice(g, a, b)) # Xor(Slice(f, a, b))
<1>1. /\ f \in Seq(Byte) /\ g \in Seq(Byte) /\ Len(g) = Len(f) /\ i \in 1..Len(f) /\ g[i] # f[i]
      /\ \A j \in 1..Len(f) : j # i => g[j] = f[j]
  BY DEF ChangedAt
<1>2. CASE i \notin (a + 1)..b
  <2>1. b \in a..Len(g) /\ b <= Len(f) /\ \A k \in (a + 1)..b : k \in 1..Len(f) /\ k # i
    BY <1>1, <1>2
  <2>2. \A k \in (a + 1)..b : g[k] = f[k]
    BY <1>1, <2>1
  <2> QED BY <1>1, <1>2, <2>1, <2>2, SlicesAgree
<1>3. CASE i \in (a + 1)..b
  <2>1. PICK s, t : s = Slice(f, a, b) /\ t = Slice(g, a, b)
    OBVIOUS
  <2>2. /\ s \in Seq(Byte) /\ Len(s) = b - a /\ \A k \in 1..(b - a) : s[k] = f[a + k]
    BY <1>1, <2>1, SliceIs
  <2>3. /\ t \in Seq(Byte) /\ Len(t) = b - a /\ \A k \in 1..(b - a) : t[k] = g[a + k]
    <3>1. b \in a..Len(g)
      BY <1>1
    <3> QED BY <1>1, <2>1, <3>1, SliceIs
  <2>4. PICK j : j = i - a
    OBVIOUS
  <2>5. j \in 1..(b - a) /\ a + j = i /\ \A k \in 1..(b - a) : k # j => a + k \in 1..Len(f) /\ a + k # i
    BY <1>1, <1>3, <2>4
  <2>6. t[j] # s[j] /\ \A k \in 1..(b - a) : k # j => t[k] = s[k]
    BY <1>1, <2>2, <2>3, <2>5
  <2>7. j \in 1..Len(t) /\ \A k \in 1..Len(t) : k # j => t[k] = s[k]
    BY <2>3, <2>5, <2>6
  <2>8. compute_checksum(t) # compute_checksum(s) /\ Xor(t) # Xor(s)
    BY <2>2, <2>3, <2>6, <2>7, SumsDiffer
  <2>9. t # s
    BY <2>6
  <2> QED BY <1>3, <2>1, <2>8, <2>9
<1> QED BY <1>2, <1>3

\* A frame with a sum of what lies between a and b at b does not have it any
\* more when one of these bytes, or the sum, changes.
LEMMA SealIsBroken ==
  ASSUME NEW f, NEW g, NEW i, ChangedAt(f, g, i), NEW a \in Nat, NEW b \in a..Len(f), b < Len(f),
         i \in (a + 1)..(b + 1)
  PROVE  /\ compute_checksum(Slice(f, a, b)) = At(f, b) => compute_checksum(Slice(g, a, b)) # At(g, b)
         /\ Xor(Slice(f, a, b)) = At(f, b) => Xor(Slice(g, a, b)) # At(g, b)
<1>1. /\ i \in 1..Len(f) /\ g[i] # f[i] /\ \A j \in 1..Len(f) : j # i => g[j] = f[j]
  BY DEF ChangedAt
<1>2. CASE i = b + 1
  <2>1. i \notin (a + 1)..b
    BY <1>2
  <2>2. Slice(g, a, b) = Slice(f, a, b)
    BY <2>1, ChangedSlice
  <2> QED BY <1>1, <1>2, <2>2 DEF At
<1>3. CASE i # b + 1
  <2>1. i \in (a + 1)..b /\ b + 1 \in 1..Len(f)
    BY <1>3
  <2>2. At(g, b) = At(f, b)
    BY <1>1, <1>3, <2>1 DEF At
  <2> QED BY <2>1, <2>2, ChangedSlice
<1> QED BY <1>2, <1>3

\* What the Java reader takes for good.
LEMMA Accepted ==
  ASSUME NEW buf, parsePacket(buf) # nullopt
  PROVE  /\ parsePacket(buf) = Fields(buf) /\ Len(buf) >= 23
         /\ Slice(buf, 0, 2) = FRAME_HDR /\ Slice(buf, Len(buf) - 2, Len(buf)) = FRAME_TAIL
         /\ compute_checksum(Slice(buf, 2, Len(buf) - 3)) = At(buf, Len(buf) - 3)
BY DEF parsePacket

\* A standard frame with one changed byte is none for the reader that takes
\* the datagram as a whole (Protocol.java:124-138).
THEOREM ChangedPacketIsRefused ==
  ASSUME NEW f, NEW g, NEW i, ChangedAt(f, g, i), parsePacket(f) # nullopt
  PROVE  parsePacket(g) = nullopt
<1> SUFFICES ASSUME parsePacket(g) # nullopt PROVE FALSE
  OBVIOUS
<1>1. PICK n \in Nat : n = Len(f) /\ n = Len(g)
  BY DEF ChangedAt
<1>2. i \in 1..n
  BY <1>1 DEF ChangedAt
<1>3. /\ n >= 23 /\ Slice(f, 0, 2) = FRAME_HDR /\ Slice(f, n - 2, n) = FRAME_TAIL
      /\ compute_checksum(Slice(f, 2, n - 3)) = At(f, n - 3)
  BY <1>1, Accepted
<1>4. /\ Slice(g, 0, 2) = FRAME_HDR /\ Slice(g, n - 2, n) = FRAME_TAIL
      /\ compute_checksum(Slice(g, 2, n - 3)) = At(g, n - 3)
  BY <1>1, Accepted
<1>5. CASE i \in 1..2
  <2>1. 0 \in Nat /\ 2 \in 0..Len(f) /\ i \in (0 + 1)..2
    BY <1>1, <1>3, <1>5
  <2> QED BY <1>3, <1>4, <2>1, ChangedSlice
<1>6. CASE i \in (n - 1)..n
  <2>1. PICK m : m = n - 2
    OBVIOUS
  <2>2. m \in Nat /\ n \in m..Len(f) /\ i \in (m + 1)..n
    BY <1>1, <1>3, <1>6, <2>1
  <2> QED BY <1>3, <1>4, <2>1, <2>2, ChangedSlice
<1>7. CASE i \in 3..(n - 2)
  <2>1. PICK m : m = n - 3
    OBVIOUS
  <2>2. 2 \in Nat /\ m \in 2..Len(f) /\ m < Len(f) /\ i \in (2 + 1)..(m + 1)
    BY <1>1, <1>3, <1>7, <2>1
  <2> QED BY <1>3, <1>4, <2>1, <2>2, SealIsBroken
<1> QED BY <1>2, <1>5, <1>6, <1>7

\* The packet in a string of 8 bytes or more.
LEMMA FieldsIs ==
  ASSUME NEW buf \in Seq(Byte), Len(buf) >= 8
  PROVE  /\ Fields(buf) \in Packet /\ Fields(buf) # nullopt
         /\ Len(Fields(buf).data) = Len(buf) - 8
<1>1. PICK m : m = Len(buf) - 3
  OBVIOUS
<1>2. 5 \in Nat /\ m \in 5..Len(buf) /\ m - 5 = Len(buf) - 8
  BY <1>1
<1>3. Slice(buf, 5, m) \in Seq(Byte) /\ Len(Slice(buf, 5, m)) = m - 5
  BY <1>2, SliceIs
<1>4. buf[3] \in Byte /\ buf[4] \in Byte /\ buf[5] \in Byte
  OBVIOUS
<1>5. At(buf, 2) \in Byte /\ At(buf, 3) \in Byte /\ At(buf, 4) \in Byte
  BY <1>4 DEF At
<1>6. PICK d : d = Slice(buf, 5, m)
  OBVIOUS
<1>7. Fields(buf) = [addr |-> At(buf, 2), func |-> At(buf, 3), ctrl |-> At(buf, 4), data |-> d]
  BY <1>1, <1>6 DEF Fields
<1>8. d \in Seq(Byte) /\ Len(d) = Len(buf) - 8
  BY <1>2, <1>3, <1>6
<1>9. Fields(buf) \in Packet
  BY <1>5, <1>7, <1>8 DEF Packet
<1> QED BY <1>7, <1>8, <1>9, NulloptAssumption

-------------------------------------------------------------------------------

\* A packet is in no string that is too short for it, and in none of its
\* length that is no frame.
LEMMA DamagedFrame ==
  ASSUME NEW p \in Packet, NEW n, n = Len(p.data) + 8, NEW g \in Seq(Byte),
         Len(g) < n \/ (Len(g) = n /\ parsePacket(g) = nullopt)
  PROVE  p \notin {parsePacket(g), deserialize(g)}
<1>1. n \in Nat /\ Len(g) \in Nat /\ p # nullopt
  <2>1. p.data \in Seq(Byte)
    BY DEF Packet
  <2> QED BY <2>1, NulloptAssumption
<1>2. p # parsePacket(g)
  <2> SUFFICES ASSUME p = parsePacket(g) PROVE FALSE
    OBVIOUS
  <2>1. parsePacket(g) = Fields(g) /\ Len(g) >= 23
    BY <1>1, Accepted
  <2>2. Len(Fields(g).data) = Len(g) - 8
    BY <1>1, <2>1, FieldsIs
  <2> QED BY <1>1, <2>1, <2>2
<1>3. p # deserialize(g)
  <2> SUFFICES ASSUME p = deserialize(g) PROVE FALSE
    OBVIOUS
  <2>1. PICK s \in 0..(Len(g) - 2) : \E t \in (s + 22)..(Len(g) - 2) :
          FrameAt(g, s, t) /\ deserialize(g) = Fields(Slice(g, s, t + 2))
    BY <1>1, FoundFrame
  <2>2. PICK t \in (s + 22)..(Len(g) - 2) :
          FrameAt(g, s, t) /\ deserialize(g) = Fields(Slice(g, s, t + 2))
    BY <2>1
  <2>3. s \in Nat /\ t + 2 \in s..Len(g) /\ (t + 2) - s >= 24
    BY <1>1
  <2>4. PICK w : w = Slice(g, s, t + 2)
    OBVIOUS
  <2>5. w \in Seq(Byte) /\ Len(w) = (t + 2) - s
    <3>1. PICK e : e = t + 2
      OBVIOUS
    <3> QED BY <2>3, <2>4, <3>1, SliceIs
  <2>6. Len(w) = n
    <3>1. Len(w) >= 8
      BY <2>3, <2>5
    <3>2. Len(Fields(w).data) = Len(w) - 8
      BY <2>5, <3>1, FieldsIs
    <3> QED BY <1>1, <2>2, <2>4, <2>5, <3>2
  <2>7. s = 0 /\ t + 2 = Len(g) /\ Len(g) = n /\ parsePacket(g) = nullopt
    BY <1>1, <2>3, <2>5, <2>6
  <2>8. w = g
    BY <2>4, <2>7, WholeSlice
  <2>9. parsePacket(w) = Fields(w)
    BY <2>2, <2>3, <2>4, WholeFrame
  <2> QED BY <1>1, <2>2, <2>4, <2>7, <2>8, <2>9
<1> QED BY <1>2, <1>3

\* Among the data of a frame is a tail, and before it the sum of all that
\* precedes it.
Early(buf) ==
  \E t \in 22..(Len(buf) - 3) :
    /\ Slice(buf, t, t + 2) = FRAME_TAIL
    /\ compute_checksum(Slice(buf, 2, t - 1)) = At(buf, t - 1)

\* Of a frame the Java reader takes for good the C++ reader finds the packet,
\* or one with the beginning of its data, and that only if a tail with a sum is
\* among them (protocol.cpp:95-137).
THEOREM FramesAreFoundWhole ==
  ASSUME NEW buf \in Seq(Byte), Len(buf) > 23, parsePacket(buf) # nullopt
  PROVE  LET p == deserialize(buf) IN
         /\ p # nullopt /\ p = [parsePacket(buf) EXCEPT !.data = SubSeq(@, 1, Len(p.data))]
         /\ Early(buf) \/ p = parsePacket(buf)
<1> DEFINE p == deserialize(buf)
<1>1. PICK n \in Nat : n = Len(buf) /\ n > 23
  OBVIOUS
<1>2. PICK t \in 22..(Len(buf) - 2) : FrameAt(buf, 0, t) /\ p = Fields(Slice(buf, 0, t + 2))
  BY LongFramesAreFound
<1>3. PICK q, w : q = Fields(buf) /\ w = Slice(buf, 0, t + 2) /\ q = parsePacket(buf)
  BY Accepted
<1>4. t + 2 \in 0..n /\ t \in 22..(n - 2) /\ t + 2 >= 24
  BY <1>1, <1>2
<1>5. w \in Seq(Byte) /\ Len(w) = t + 2
  <2>1. PICK e : e = t + 2
    OBVIOUS
  <2>2. e \in 0..Len(buf) /\ 0 \in Nat /\ e - 0 = e
    BY <1>1, <1>4, <2>1
  <2>3. Slice(buf, 0, e) \in Seq(Byte) /\ Len(Slice(buf, 0, e)) = e - 0
    BY <2>2, SliceIs
  <2> QED BY <1>3, <2>1, <2>2, <2>3
<1>6. /\ q.addr = At(buf, 2) /\ q.func = At(buf, 3) /\ q.ctrl = At(buf, 4)
      /\ q.data = Slice(buf, 5, n - 3)
      /\ q = [addr |-> At(buf, 2), func |-> At(buf, 3), ctrl |-> At(buf, 4), data |-> Slice(buf, 5, n - 3)]
  BY <1>1, <1>3 DEF Fields
<1>7. p = [addr |-> At(w, 2), func |-> At(w, 3), ctrl |-> At(w, 4), data |-> Slice(w, 5, t - 1)]
  <2>1. (t + 2) - 3 = t - 1
    BY <1>4
  <2> QED BY <1>2, <1>3, <1>5, <2>1 DEF Fields
<1>8. p # nullopt /\ Len(p.data) = t - 6
  <2>1. Fields(w) # nullopt /\ Len(Fields(w).data) = Len(w) - 8
    BY <1>4, <1>5, FieldsIs
  <2> QED BY <1>2, <1>3, <1>4, <1>5, <2>1
<1>9. At(w, 2) = At(buf, 2) /\ At(w, 3) = At(buf, 3) /\ At(w, 4) = At(buf, 4)
  <2>1. ASSUME NEW i \in {2, 3, 4} PROVE At(w, i) = At(buf, i)
    <3>1. PICK e : e = t + 2
      OBVIOUS
    <3>2. 0 \in Nat /\ e \in 0..Len(buf) /\ i \in 0..(e - 0) /\ i \in i..(e - 0) /\ i < e - 0 /\ 0 + i = i
      BY <1>1, <1>4, <3>1
    <3>3. At(Slice(buf, 0, e), i) = At(buf, 0 + i)
      BY <3>2, SliceOfSlice
    <3> QED BY <1>3, <3>1, <3>2, <3>3
  <2> QED BY <2>1
<1>10. Slice(w, 5, t - 1) = Slice(buf, 5, t - 1)
  <2>1. PICK e, m : e = t + 2 /\ m = t - 1
    OBVIOUS
  <2>2. 0 \in Nat /\ e \in 0..Len(buf) /\ 5 \in 0..(e - 0) /\ m \in 5..(e - 0) /\ 0 + 5 = 5 /\ 0 + m = m
    BY <1>1, <1>4, <2>1
  <2>3. Slice(Slice(buf, 0, e), 5, m) = Slice(buf, 0 + 5, 0 + m)
    BY <2>2, SliceOfSlice
  <2> QED BY <1>3, <2>1, <2>2, <2>3
<1>11. Slice(q.data, 0, t - 6) = Slice(buf, 5, t - 1)
  <2>1. PICK e, m : e = n - 3 /\ m = t - 6
    OBVIOUS
  <2>2. 5 \in Nat /\ e \in 5..Len(buf) /\ 0 \in 0..(e - 5) /\ m \in 0..(e - 5) /\ 5 + 0 = 5 /\ 5 + m = t - 1
    BY <1>1, <1>4, <2>1
  <2>3. Slice(Slice(buf, 5, e), 0, m) = Slice(buf, 5 + 0, 5 + m)
    BY <2>2, SliceOfSlice
  <2> QED BY <1>6, <2>1, <2>2, <2>3
<1>12. SubSeq(q.data, 1, Len(p.data)) = p.data
  <2>1. Slice(q.data, 0, t - 6) = SubSeq(q.data, 1, t - 6)
    BY DEF Slice
  <2>2. p.data = Slice(w, 5, t - 1)
    BY <1>7
  <2> HIDE DEF p
  <2> QED BY <1>8, <1>10, <1>11, <2>1, <2>2
<1>13. p = [q EXCEPT !.data = SubSeq(@, 1, Len(p.data))]
  <2>1. PICK d : d = p.data
    OBVIOUS
  <2>2. p = [addr |-> q.addr, func |-> q.func, ctrl |-> q.ctrl, data |-> d]
    BY <1>6, <1>7, <1>9, <2>1
  <2>3. \A x : [q EXCEPT !.data = x] = [addr |-> q.addr, func |-> q.func, ctrl |-> q.ctrl, data |-> x]
    BY <1>6
  <2> HIDE DEF p
  <2> QED BY <1>12, <2>1, <2>2, <2>3
<1>14. Early(buf) \/ p = q
  <2>1. CASE t + 2 = n
    <3>1. w = buf
      BY <1>1, <1>3, <2>1, WholeSlice
    <3> QED BY <1>2, <1>3, <3>1
  <2>2. CASE t + 2 # n
    <3>1. t \in 22..(Len(buf) - 3)
      BY <1>1, <1>4, <2>2
    <3>2. Slice(buf, t, t + 2) = FRAME_TAIL /\ compute_checksum(Slice(buf, 0 + 2, t - 1)) = At(buf, t - 1)
      BY <1>2 DEF FrameAt
    <3>3. 0 + 2 = 2
      OBVIOUS
    <3> QED BY <3>1, <3>2, <3>3 DEF Early
  <2> QED BY <2>1, <2>2
<1> HIDE DEF p
<1>15. q = parsePacket(buf)
  BY <1>3
<1> QED BY <1>8, <1>13, <1>14, <1>15 DEF p

-------------------------------------------------------------------------------

\* The data is filled up with zeros to 15 bytes.
LEMMA PadIs ==
  ASSUME NEW data \in Seq(Byte), NEW n \in Nat, n = Len(data)
  PROVE  /\ Pad(data) \in Seq(Byte) /\ Len(Pad(data)) = IF n >= 15 THEN n ELSE 15
         /\ \A i \in 1..n : Pad(data)[i] = data[i]
         /\ \A i \in (n + 1)..15 : Pad(data)[i] = 0
<1> DEFINE zeros == [i \in 1..15 |-> 0]
<1>0. PICK m : m = n + 1
  OBVIOUS
<1>a. PICK z : z = SubSeq(zeros, m, 15)
  OBVIOUS
<1>1. z = SubSeq(zeros, m, 15) /\ m = n + 1 /\ m \in Int /\ m >= 1
  <2> HIDE DEF zeros
  <2> QED BY <1>0, <1>a
<1>2. /\ z \in Seq(Byte) /\ Len(z) = IF m <= 15 THEN 15 - m + 1 ELSE 0
      /\ \A k \in 1..(15 - m + 1) : z[k] = 0
  <2>1. zeros \in Seq(Byte) /\ Len(zeros) = 15 /\ \A k \in 1..15 : zeros[k] = 0
    BY ZeroIsAByte
  <2>2. \A i \in m..15 : zeros[i] \in Byte /\ zeros[i] = 0
    <3>1. \A i \in m..15 : i \in 1..15
      BY <1>1
    <3> HIDE DEF zeros
    <3> QED BY <2>1, <3>1, ZeroIsAByte
  <2>3. 15 \in Int
    OBVIOUS
  <2>4. /\ SubSeq(zeros, m, 15) \in Seq(Byte)
        /\ Len(SubSeq(zeros, m, 15)) = IF m <= 15 THEN 15 - m + 1 ELSE 0
        /\ \A k \in 1..(15 - m + 1) : SubSeq(zeros, m, 15)[k] = zeros[m + k - 1]
    <3> HIDE DEF zeros
    <3> QED BY <1>1, <2>2, <2>3, SubSeqProperties
  <2>5. \A k \in 1..(15 - m + 1) : m + k - 1 \in m..15
    BY <1>1
  <2> HIDE DEF zeros
  <2> QED BY <1>1, <2>2, <2>4, <2>5
<1>3. Pad(data) = data \o z
  BY <1>1 DEF Pad, DATA_LEN_DEFAULT
<1>4. PICK p : p = data \o z
  OBVIOUS
<1>5. /\ p \in Seq(Byte) /\ Len(p) = n + Len(z)
      /\ \A i \in 1..n : p[i] = data[i]
      /\ \A k \in 1..Len(z) : p[n + k] = z[k]
  <2>1. z \in Seq(Byte)
    BY <1>2
  <2> HIDE DEF zeros
  <2> QED BY <1>4, <2>1, ConcatProperties
<1> HIDE DEF zeros
<1>6. \A i \in (n + 1)..15 : p[i] = 0
  <2> SUFFICES ASSUME NEW i \in (n + 1)..15 PROVE p[i] = 0
    OBVIOUS
  <2>1. PICK k : k = i - n
    OBVIOUS
  <2>2. k \in 1..Len(z) /\ n + k = i /\ k \in 1..(15 - m + 1)
    BY <1>1, <1>2, <2>1
  <2> QED BY <1>2, <1>5, <2>2
<1>7. Len(p) = IF n >= 15 THEN n ELSE 15
  BY <1>1, <1>2, <1>5
<1> QED BY <1>3, <1>4, <1>5, <1>6, <1>7

\* Data that fills the frame stays as it is.
LEMMA PadLong ==
  ASSUME NEW data \in Seq(Byte), Len(data) >= 15
  PROVE  Pad(data) = data
<1>1. PICK n \in Nat : n = Len(data)
  OBVIOUS
<1>2. Pad(data) \in Seq(Byte) /\ Len(Pad(data)) = n /\ \A i \in 1..n : Pad(data)[i] = data[i]
  BY <1>1, PadIs
<1> QED BY <1>1, <1>2, SeqEqual

\* No data, or a zero: zeros.
LEMMA PadBlank ==
  /\ Pad(<<0>>) = Pad(<<>>)
  /\ <<0>> \in Seq(Byte) /\ <<>> \in Seq(Byte)
  /\ Len(Pad(<<>>)) = 15 /\ Pad(<<>>)[15] = 0
<1>1. <<0>> \in Seq(Byte) /\ Len(<<0>>) = 1 /\ <<>> \in Seq(Byte) /\ Len(<<>>) = 0 /\ <<0>>[1] = 0
  BY ZeroIsAByte
<1>2. PICK s, t : s = Pad(<<0>>) /\ t = Pad(<<>>)
  OBVIOUS
<1>3. s \in Seq(Byte) /\ Len(s) = 15 /\ s[1] = 0 /\ \A i \in 2..15 : s[i] = 0
  <2>1. PICK b, n : b = <<0>> /\ n = 1
    OBVIOUS
  <2>2. /\ Pad(b) \in Seq(Byte) /\ Len(Pad(b)) = IF n >= 15 THEN n ELSE 15
        /\ \A i \in 1..n : Pad(b)[i] = b[i]
        /\ \A i \in (n + 1)..15 : Pad(b)[i] = 0
    <3>1. b \in Seq(Byte) /\ n \in Nat /\ n = Len(b)
      BY <1>1, <2>1
    <3> QED BY <3>1, PadIs
  <2> QED BY <1>1, <1>2, <2>1, <2>2
<1>4. t \in Seq(Byte) /\ Len(t) = 15 /\ \A i \in 1..15 : t[i] = 0
  <2>1. PICK b, n : b = <<>> /\ n = 0
    OBVIOUS
  <2>2. /\ Pad(b) \in Seq(Byte) /\ Len(Pad(b)) = IF n >= 15 THEN n ELSE 15
        /\ \A i \in (n + 1)..15 : Pad(b)[i] = 0
    <3>1. b \in Seq(Byte) /\ n \in Nat /\ n = Len(b)
      BY <1>1, <2>1
    <3> QED BY <3>1, PadIs
  <2> QED BY <1>1, <1>2, <2>1, <2>2
<1>5. \A i \in 1..15 : s[i] = t[i]
  BY <1>3, <1>4
<1>6. s = t
  BY <1>3, <1>4, <1>5, SeqEqual
<1> QED BY <1>1, <1>2, <1>4, <1>6

\* The Java sum leaves out the last byte of the data: its own reader accepts a
\* command exactly if that byte is zero (Protocol.java:96-121).
THEOREM JavaCommandIsReadIfZero ==
  ASSUME NEW addr \in Byte, NEW func \in Byte, NEW ctrl \in Byte, NEW payload \in Seq(Byte)
  PROVE  LET f == buildCommand(addr, func, ctrl, payload)
             D == Pad(payload)
         IN  /\ f \in Seq(Byte) /\ Len(f) = Len(D) + 8 /\ f[1] = 15 /\ f[2] = 240
             /\ parsePacket(f) = IF Last(D) = 0
                                 THEN [addr |-> addr, func |-> func, ctrl |-> ctrl, data |-> D]
                                 ELSE nullopt
<1>1. PICK L \in Nat, P \in Nat, D \in Seq(Byte) : L = Len(payload) /\ D = Pad(payload) /\ P = Len(D)
  <2>1. Pad(payload) \in Seq(Byte)
    BY PadType
  <2>2. Len(Pad(payload)) \in Nat /\ Len(payload) \in Nat
    BY <2>1
  <2> QED BY <2>1, <2>2
<1>2. D \in Seq(Byte) /\ P >= 15 /\ P = IF L >= 15 THEN L ELSE 15
  <2>1. Pad(payload) \in Seq(Byte) /\ Len(Pad(payload)) = IF L >= 15 THEN L ELSE 15
    BY <1>1, PadIs
  <2> QED BY <1>1, <2>1
<1>3. PICK h, abc, d : h = <<15, 240>> /\ abc = <<addr, func, ctrl>> /\ d = abc \o D
  OBVIOUS
<1>4. h \in Seq(Byte) /\ Len(h) = 2 /\ abc \in Seq(Byte) /\ Len(abc) = 3
  <2>1. 15 \in Byte /\ 240 \in Byte
    BY DEF Byte
  <2> QED BY <1>3, <2>1
<1>5. d \in Seq(Byte) /\ Len(d) = P + 3 /\ d[P + 3] = D[P]
  <2>1. /\ d \in Seq(Byte) /\ Len(d) = 3 + P /\ \A k \in 1..P : d[3 + k] = D[k]
    <3>1. abc \in Seq(Byte) /\ D \in Seq(Byte) /\ Len(abc) = 3 /\ Len(D) = P
      BY <1>1, <1>2, <1>4
    <3>2. /\ abc \o D \in Seq(Byte) /\ Len(abc \o D) = 3 + P
          /\ \A k \in 1..P : (abc \o D)[3 + k] = D[k]
      <4>1. PICK m : m = 3
        OBVIOUS
      <4>2. m = Len(abc) /\ P = Len(D)
        BY <3>1, <4>1
      <4>3. abc \in Seq(Byte) /\ D \in Seq(Byte)
        BY <3>1
      <4>4. /\ abc \o D \in Seq(Byte) /\ Len(abc \o D) = m + P
            /\ \A k \in 1..P : (abc \o D)[m + k] = D[k]
        BY <4>2, <4>3, Concatenated
      <4> QED BY <4>1, <4>4
    <3>3. d = abc \o D
      BY <1>3
    <3> QED BY <3>2, <3>3
  <2>2. P \in 1..P /\ 3 + P = P + 3
    BY <1>2
  <2> QED BY <2>1, <2>2
<1>6. PICK s, cs, f, n, last : /\ s = Slice(d, 0, P + 2) /\ cs = compute_checksum(s)
                               /\ FrameOf(f, d, cs) /\ n = P + 8 /\ last = d[P + 3]
  BY DEF FrameOf
<1>7. s \in Seq(Byte) /\ last \in Byte /\ d = s \o <<last>> /\ last = Last(D)
  <2>1. P + 2 + 1 = P + 3 /\ P + 2 \in Nat
    OBVIOUS
  <2>2. PICK e \in Nat : e = P + 2
    OBVIOUS
  <2>3. Len(d) = e + 1
    BY <1>5, <2>1, <2>2
  <2>4. Slice(d, 0, e) \in Seq(Byte) /\ d[e + 1] \in Byte /\ d = Slice(d, 0, e) \o <<d[e + 1]>>
    BY <1>5, <2>3, LastByte
  <2>5. Last(D) = D[P]
    BY <1>1 DEF Last
  <2> QED BY <1>5, <1>6, <2>1, <2>2, <2>4, <2>5
<1>8. cs \in Byte /\ (compute_checksum(d) = cs <=> last = 0)
  BY <1>6, <1>7, SumsAreBytes, SumOfOneMore
<1>9. buildCommand(addr, func, ctrl, payload) = f
  <2>1. (h \o abc) \o D = h \o d
    BY <1>2, <1>3, <1>4, ConcatAssociative
  <2>2. 2 + 1 + 1 + (IF Len(payload) > DATA_LEN_DEFAULT THEN Len(payload) ELSE DATA_LEN_DEFAULT) = P + 4
    BY <1>1, <1>2 DEF DATA_LEN_DEFAULT
  <2>3. Slice(h \o d, 2, P + 4) = s
    <3>1. PICK a, b, i, j : a = 0 /\ b = P + 2 /\ i = 2 /\ j = P + 4
      OBVIOUS
    <3>2. a \in Nat /\ b \in a..Len(d) /\ i = Len(h) + a /\ j = Len(h) + b
      <4>1. PICK x, y : x = Len(h) /\ y = Len(d)
        OBVIOUS
      <4>2. x = 2 /\ y = P + 3
        BY <1>4, <1>5, <4>1
      <4>3. a \in Nat /\ b \in a..y /\ i = x + a /\ j = x + b
        BY <3>1, <4>2
      <4> QED BY <4>1, <4>3
    <3>3. Slice(h \o d, i, j) = Slice(d, a, b)
      <4>1. h \in Seq(Byte) /\ d \in Seq(Byte)
        BY <1>4, <1>5
      <4> QED BY <3>2, <4>1, SliceMiddle
    <3> QED BY <1>6, <3>1, <3>3
  <2>4. buildCommand(addr, func, ctrl, payload)
        = ((h \o abc) \o D) \o <<compute_checksum(Slice((h \o abc) \o D, 2, P + 4))>> \o <<240, 15>>
    <3>1. PICK e : e = 2 + 1 + 1 + (IF Len(payload) > DATA_LEN_DEFAULT THEN Len(payload) ELSE DATA_LEN_DEFAULT)
      OBVIOUS
    <3>2. PICK g : g = FRAME_HDR \o <<addr, func, ctrl>> \o Pad(payload)
      OBVIOUS
    <3>3. buildCommand(addr, func, ctrl, payload) = g \o <<compute_checksum(Slice(g, 2, e))>> \o FRAME_TAIL
      BY <3>1, <3>2 DEF buildCommand
    <3>4. g = (h \o abc) \o D
      BY <1>1, <1>3, <3>2 DEF FRAME_HDR
    <3>5. e = P + 4
      BY <2>2, <3>1
    <3> QED BY <3>3, <3>4, <3>5 DEF FRAME_TAIL
  <2>5. f = (h \o d) \o <<cs>> \o <<240, 15>>
    BY <1>3, <1>6 DEF FrameOf
  <2>6. cs = compute_checksum(s)
    BY <1>6
  <2> QED BY <2>1, <2>3, <2>4, <2>5, <2>6, Zenon
<1>10. /\ f \in Seq(Byte) /\ Len(f) = n /\ f[1] = 15 /\ f[2] = 240
       /\ Slice(f, 0, 2) = FRAME_HDR /\ Slice(f, n - 2, n) = FRAME_TAIL
       /\ Slice(f, 2, n - 3) = d /\ At(f, n - 3) = cs
       /\ Fields(f) = [addr |-> addr, func |-> func, ctrl |-> ctrl, data |-> D]
  <2>1. SummedOf(d, addr, func, ctrl, D) /\ Len(D) >= 15 /\ n = Len(D) + 8 /\ FrameOf(f, d, cs)
    BY <1>1, <1>2, <1>3, <1>6 DEF SummedOf
  <2> QED BY <1>2, <1>8, <2>1, FrameWith, SMTT(25)
<1>11. parsePacket(f) = IF last = 0 THEN Fields(f) ELSE nullopt
  <2>1. n >= 23
    BY <1>2, <1>6
  <2> QED BY <1>8, <1>10, <2>1 DEF parsePacket
<1>12. n = Len(D) + 8
  BY <1>1, <1>6
<1> QED BY <1>1, <1>7, <1>9, <1>10, <1>11, <1>12

-------------------------------------------------------------------------------

\* The members of a ServoPacket by the kind of their fields.
ServoHeadNames == {"header", "frame_len", "seq", "device_type", "packet_type", "device_ip",
                   "main_conn", "control", "wiper_heater_ctrl"}
ServoAngleNames == {"azimuth", "elevation", "az_speed", "el_speed"}
ServoTrackNames == {"track_az_aberration", "track_el_aberration", "fov_angle"}
FocalNames == {"vis_focal_value", "ir_focal_value"}

ServoBytes == ServoHeadNames \cup {"ir_power_ctrl", "vis_focal_unit", "track_status"}
ServoHalves == {"target_distance", "backup"}
ServoWords == ServoAngleNames \cup ServoTrackNames \cup FocalNames \cup {"timestamp"}

\* The fields up to those of the focal lengths, these, and the others.
servo_head == Each("u8", <<"header", "frame_len", "seq", "device_type", "packet_type", "device_ip",
                           "main_conn", "control", "wiper_heater_ctrl">>)
servo_angles == Each("u32", <<"azimuth", "elevation", "az_speed", "el_speed">>)
servo_track == Each("u32", <<"track_az_aberration", "track_el_aberration", "fov_angle">>)
focal_values == Each("u32", <<"vis_focal_value", "ir_focal_value">>)
One(kind, name) == Each(kind, <<name>>)

servo_early ==
  servo_head \o servo_angles \o One("u16", "target_distance") \o One("i16", "target_el_aberration")
  \o servo_track
servo_front == servo_early \o One("u8", "ir_power_ctrl")
servo_focal == One("u8", "vis_focal_unit") \o focal_values
servo_rest ==
  One("u8x13", "reserved") \o One("u32", "timestamp") \o One("u8", "track_status") \o One("u16", "backup")

ServoEarly == ServoHeadNames \cup ServoAngleNames \cup {"target_distance"} \cup {"target_el_aberration"}
              \cup ServoTrackNames
ServoFront == ServoEarly \cup {"ir_power_ctrl"}
ServoFocal == {"vis_focal_unit"} \cup FocalNames
ServoRest == {"reserved"} \cup {"timestamp"} \cup {"track_status"} \cup {"backup"}
ServoNames == ServoFront \cup ServoFocal \cup ServoRest

\* A record with a value for each field.
ServoValues(s) ==
  /\ \A x \in ServoBytes : s[x] \in Byte
  /\ \A x \in ServoHalves : s[x] \in Half
  /\ \A x \in ServoWords : s[x] \in Word
  /\ s["target_el_aberration"] \in Short
  /\ s["reserved"] \in Seq(Byte) /\ Len(s["reserved"]) = 13

LEMMA KindsAre ==
  "u8" \in Kinds /\ "u16" \in Kinds /\ "i16" \in Kinds /\ "u32" \in Kinds /\ "u8x13" \in Kinds /\ "u8x33" \in Kinds
BY DEF Kinds

\* Groups of bytes and of words.
Group(kind, layout, n, N) == \E names : layout = Each(kind, names) /\ NamesOf(names, n, N)

LEMMA BytesGroup ==
  ASSUME NEW layout, NEW n, NEW N, Group("u8", layout, n, N)
  PROVE  LayoutOf(layout, N, n) /\ \A r : (\A x \in N : r[x] \in Byte) => Typed(layout, r)
<1>1. PICK names : layout = Each("u8", names) /\ NamesOf(names, n, N)
  BY DEF Group
<1>2. Times(n, n, Width("u8")) /\ Values("u8") = Byte
  <2>1. n \in Nat
    BY <1>1 DEF NamesOf
  <2> QED BY <2>1, Widths, Codec DEF Times
<1>3. LayoutOf(layout, N, n)
  BY <1>1, <1>2, KindsAre, EachLayout
<1>4. ASSUME NEW r, \A x \in N : r[x] \in Byte PROVE Typed(layout, r)
  BY <1>1, <1>2, <1>4, KindsAre, EachTyped
<1> QED BY <1>3, <1>4

LEMMA WordsGroup ==
  ASSUME NEW layout, NEW n, NEW N, Group("u32", layout, n, N), NEW w, w = 4 * n
  PROVE  LayoutOf(layout, N, w) /\ \A r : (\A x \in N : r[x] \in Word) => Typed(layout, r)
<1>1. PICK names : layout = Each("u32", names) /\ NamesOf(names, n, N)
  BY DEF Group
<1>2. Times(w, n, Width("u32")) /\ Values("u32") = Word
  <2>1. n \in Nat
    BY <1>1 DEF NamesOf
  <2> QED BY <2>1, Widths, Codec DEF Times
<1>3. LayoutOf(layout, N, w)
  BY <1>1, <1>2, KindsAre, EachLayout
<1>4. ASSUME NEW r, \A x \in N : r[x] \in Word PROVE Typed(layout, r)
  BY <1>1, <1>2, <1>4, KindsAre, EachTyped
<1> QED BY <1>3, <1>4

LEMMA OneLayout ==
  /\ \A x : LayoutOf(One("u8", x), {x}, 1) /\ LayoutOf(One("u16", x), {x}, 2)
            /\ LayoutOf(One("i16", x), {x}, 2) /\ LayoutOf(One("u32", x), {x}, 4)
            /\ LayoutOf(One("u8x13", x), {x}, 13) /\ LayoutOf(One("u8x33", x), {x}, 33)
  /\ \A kind \in Kinds : \A x : \A r : r[x] \in Values(kind) =>
       Typed(One(kind, x), r) /\ Put(One(kind, x), r) = Encode(kind, r[x])
<1>1. ASSUME NEW kind \in Kinds, NEW x
      PROVE  /\ LayoutOf(One(kind, x), {x}, Width(kind))
             /\ \A r : r[x] \in Values(kind) =>
                  Typed(One(kind, x), r) /\ Put(One(kind, x), r) = Encode(kind, r[x])
  BY OneField DEF One
<1>2. ASSUME NEW x
      PROVE  LayoutOf(One("u8", x), {x}, 1) /\ LayoutOf(One("u16", x), {x}, 2)
             /\ LayoutOf(One("i16", x), {x}, 2) /\ LayoutOf(One("u32", x), {x}, 4)
             /\ LayoutOf(One("u8x13", x), {x}, 13) /\ LayoutOf(One("u8x33", x), {x}, 33)
  <2>1. \A kind \in Kinds : LayoutOf(One(kind, x), {x}, Width(kind))
    BY <1>1
  <2>2. /\ LayoutOf(One("u8", x), {x}, Width("u8")) /\ LayoutOf(One("u16", x), {x}, Width("u16"))
        /\ LayoutOf(One("i16", x), {x}, Width("i16")) /\ LayoutOf(One("u32", x), {x}, Width("u32"))
        /\ LayoutOf(One("u8x13", x), {x}, Width("u8x13")) /\ LayoutOf(One("u8x33", x), {x}, Width("u8x33"))
    BY <2>1, KindsAre
  <2> QED BY <2>2, Widths
<1> QED BY <1>1, <1>2

LEMMA ServoGroups ==
  /\ Group("u8", servo_head, 9, ServoHeadNames) /\ Group("u32", servo_angles, 4, ServoAngleNames)
  /\ Group("u32", servo_track, 3, ServoTrackNames) /\ Group("u32", focal_values, 2, FocalNames)
<1>1. NamesOf(<<"header", "frame_len", "seq", "device_type", "packet_type", "device_ip",
                "main_conn", "control", "wiper_heater_ctrl">>, 9, ServoHeadNames)
  BY DEF NamesOf, ServoHeadNames
<1>2. NamesOf(<<"azimuth", "elevation", "az_speed", "el_speed">>, 4, ServoAngleNames)
  BY DEF NamesOf, ServoAngleNames
<1>3. NamesOf(<<"track_az_aberration", "track_el_aberration", "fov_angle">>, 3, ServoTrackNames)
  BY DEF NamesOf, ServoTrackNames
<1>4. NamesOf(<<"vis_focal_value", "ir_focal_value">>, 2, FocalNames)
  BY DEF NamesOf, FocalNames
<1>5. Group("u8", servo_head, 9, ServoHeadNames)
  BY <1>1, Zenon DEF Group, servo_head
<1>6. Group("u32", servo_angles, 4, ServoAngleNames)
  BY <1>2, Zenon DEF Group, servo_angles
<1>7. Group("u32", servo_track, 3, ServoTrackNames)
  BY <1>3, Zenon DEF Group, servo_track
<1>8. Group("u32", focal_values, 2, FocalNames)
  BY <1>4, Zenon DEF Group, focal_values
<1> QED BY <1>5, <1>6, <1>7, <1>8

LEMMA FrontLayout ==
  /\ LayoutOf(servo_early, ServoEarly, 41) /\ LayoutOf(servo_front, ServoFront, 42)
  /\ \A s : ServoValues(s) => Typed(servo_front, s)
<1>w. 25 = 9 + 16 /\ 27 = 25 + 2 /\ 29 = 27 + 2 /\ 41 = 29 + 12 /\ 42 = 41 + 1
  OBVIOUS
<1>g. /\ LayoutOf(servo_head, ServoHeadNames, 9) /\ \A s : (\A x \in ServoHeadNames : s[x] \in Byte) => Typed(servo_head, s)
  BY ServoGroups, BytesGroup
<1>h. /\ LayoutOf(servo_angles, ServoAngleNames, 16)
      /\ \A s : (\A x \in ServoAngleNames : s[x] \in Word) => Typed(servo_angles, s)
  <2>1. 16 = 4 * 4
    OBVIOUS
  <2> QED BY <2>1, ServoGroups, WordsGroup
<1>i. /\ LayoutOf(servo_track, ServoTrackNames, 12)
      /\ \A s : (\A x \in ServoTrackNames : s[x] \in Word) => Typed(servo_track, s)
  <2>1. 12 = 4 * 3
    OBVIOUS
  <2> QED BY <2>1, ServoGroups, WordsGroup
<1>j. LayoutOf(One("u16", "target_distance"), {"target_distance"}, 2)
  BY OneLayout
<1>k. LayoutOf(One("i16", "target_el_aberration"), {"target_el_aberration"}, 2)
  BY OneLayout
<1>l. LayoutOf(One("u8", "ir_power_ctrl"), {"ir_power_ctrl"}, 1)
  BY OneLayout
<1> DEFINE A == servo_head \o servo_angles
           B == A \o One("u16", "target_distance")
           C == B \o One("i16", "target_el_aberration")
           NA == ServoHeadNames \cup ServoAngleNames
           NB == NA \cup {"target_distance"}
           NC == NB \cup {"target_el_aberration"}
<1>0. servo_early = C \o servo_track /\ ServoEarly = NC \cup ServoTrackNames
  BY DEF servo_early, ServoEarly
<1>d. /\ ServoHeadNames \cap ServoAngleNames = {} /\ NA \cap {"target_distance"} = {}
      /\ NB \cap {"target_el_aberration"} = {} /\ NC \cap ServoTrackNames = {} /\ ServoEarly \cap {"ir_power_ctrl"} = {}
  BY DEF ServoEarly, ServoHeadNames, ServoAngleNames, ServoTrackNames
<1> HIDE DEF A, B, C, NA, NB, NC
<1>1. LayoutOf(A, NA, 25)
  BY <1>w, <1>d, <1>g, <1>h, LayoutConcat, ZenonT(40) DEF A, NA
<1>2. LayoutOf(B, NB, 27)
  BY <1>w, <1>d, <1>1, <1>j, LayoutConcat, ZenonT(40) DEF B, NB
<1>3. LayoutOf(C, NC, 29)
  BY <1>w, <1>d, <1>2, <1>k, LayoutConcat, ZenonT(40) DEF C, NC
<1>4. LayoutOf(servo_early, ServoEarly, 41)
  <2>1. NC \cap ServoTrackNames = {} /\ 41 = 29 + 12
    BY <1>d, <1>w
  <2>2. LayoutOf(C \o servo_track, NC \cup ServoTrackNames, 41)
    BY <1>3, <1>i, <2>1, LayoutConcat, ZenonT(40)
  <2> QED BY <1>0, <2>2
<1>5. LayoutOf(servo_front, ServoFront, 42)
  <2>1. ServoEarly \cap {"ir_power_ctrl"} = {} /\ 42 = 41 + 1
    BY <1>d, <1>w
  <2> QED BY <1>4, <1>l, <2>1, LayoutConcat, Zenon DEF servo_front, ServoFront
<1>6. ASSUME NEW s, ServoValues(s) PROVE Typed(servo_front, s)
  <2>1. /\ \A x \in ServoHeadNames : s[x] \in Byte
        /\ \A x \in ServoAngleNames : s[x] \in Word
        /\ \A x \in ServoTrackNames : s[x] \in Word
        /\ s["ir_power_ctrl"] \in Byte /\ s["target_distance"] \in Half /\ s["target_el_aberration"] \in Short
    BY <1>6 DEF ServoValues, ServoBytes, ServoHalves, ServoWords
  <2>2. Typed(servo_head, s) /\ Typed(servo_angles, s) /\ Typed(servo_track, s)
    BY <1>g, <1>h, <1>i, <2>1
  <2>3. /\ s["ir_power_ctrl"] \in Values("u8") /\ s["target_distance"] \in Values("u16")
        /\ s["target_el_aberration"] \in Values("i16")
    BY <2>1, Codec
  <2>4. /\ Typed(One("u16", "target_distance"), s) /\ Typed(One("i16", "target_el_aberration"), s)
        /\ Typed(One("u8", "ir_power_ctrl"), s)
    BY <2>3, KindsAre, OneLayout
  <2>5. Typed(A, s)
    BY <1>g, <1>h, <2>2, PutParts DEF A
  <2>6. Typed(B, s)
    BY <1>1, <1>j, <2>4, <2>5, PutParts DEF B
  <2>7. Typed(C, s)
    BY <1>2, <1>k, <2>4, <2>6, PutParts DEF C
  <2>8. Typed(servo_early, s)
    BY <1>0, <1>3, <1>i, <2>2, <2>7, PutParts
  <2> QED BY <1>4, <1>l, <2>4, <2>8, PutParts DEF servo_front
<1> QED BY <1>4, <1>5, <1>6

LEMMA FocalLayout ==
  /\ LayoutOf(servo_focal, ServoFocal, 9)
  /\ \A s : ServoValues(s) => Typed(servo_focal, s)
<1>w. 9 = 1 + 8
  OBVIOUS
<1>g. /\ LayoutOf(focal_values, FocalNames, 8)
      /\ \A s : (\A x \in FocalNames : s[x] \in Word) => Typed(focal_values, s)
  <2>1. 8 = 4 * 2
    OBVIOUS
  <2> QED BY <2>1, ServoGroups, WordsGroup
<1>h. LayoutOf(One("u8", "vis_focal_unit"), {"vis_focal_unit"}, 1)
  BY OneLayout
<1>1. {"vis_focal_unit"} \cap FocalNames = {}
  BY DEF FocalNames
<1>2. LayoutOf(servo_focal, ServoFocal, 9)
  BY <1>w, <1>1, <1>g, <1>h, LayoutConcat, Zenon DEF servo_focal, ServoFocal
<1>3. ASSUME NEW s, ServoValues(s) PROVE Typed(servo_focal, s)
  <2>1. (\A x \in FocalNames : s[x] \in Word) /\ s["vis_focal_unit"] \in Byte
    BY <1>3 DEF ServoValues, ServoBytes, ServoWords
  <2>2. Typed(focal_values, s) /\ Typed(One("u8", "vis_focal_unit"), s)
    BY <1>g, <2>1, KindsAre, Codec, OneLayout
  <2> QED BY <1>g, <1>h, <2>2, PutParts DEF servo_focal
<1> QED BY <1>2, <1>3

LEMMA RestLayout ==
  /\ LayoutOf(servo_rest, ServoRest, 20)
  /\ \A s : ServoValues(s) => Typed(servo_rest, s)
<1>w. 17 = 13 + 4 /\ 18 = 17 + 1 /\ 20 = 18 + 2
  OBVIOUS
<1>g. LayoutOf(One("u8x13", "reserved"), {"reserved"}, 13)
  BY OneLayout
<1>h. LayoutOf(One("u32", "timestamp"), {"timestamp"}, 4)
  BY OneLayout
<1>i. LayoutOf(One("u8", "track_status"), {"track_status"}, 1)
  BY OneLayout
<1>j. LayoutOf(One("u16", "backup"), {"backup"}, 2)
  BY OneLayout
<1> DEFINE A == One("u8x13", "reserved") \o One("u32", "timestamp")
           B == A \o One("u8", "track_status")
           NA == {"reserved"} \cup {"timestamp"}
           NB == NA \cup {"track_status"}
<1>0. servo_rest = B \o One("u16", "backup") /\ ServoRest = NB \cup {"backup"}
  BY DEF servo_rest, ServoRest
<1>d. {"reserved"} \cap {"timestamp"} = {} /\ NA \cap {"track_status"} = {} /\ NB \cap {"backup"} = {}
  OBVIOUS
<1> HIDE DEF A, B, NA, NB
<1>1. LayoutOf(A, NA, 17)
  BY <1>w, <1>d, <1>g, <1>h, LayoutConcat, Zenon DEF A, NA
<1>2. LayoutOf(B, NB, 18)
  BY <1>w, <1>d, <1>1, <1>i, LayoutConcat, Zenon DEF B, NB
<1>3. LayoutOf(servo_rest, ServoRest, 20)
  <2>1. LayoutOf(B \o One("u16", "backup"), NB \cup {"backup"}, 20)
    BY <1>w, <1>d, <1>2, <1>j, LayoutConcat, Zenon
  <2> QED BY <1>0, <2>1
<1>4. ASSUME NEW s, ServoValues(s) PROVE Typed(servo_rest, s)
  <2>1. /\ s["reserved"] \in Seq(Byte) /\ Len(s["reserved"]) = 13 /\ s["timestamp"] \in Word
        /\ s["track_status"] \in Byte /\ s["backup"] \in Half
    BY <1>4 DEF ServoValues, ServoBytes, ServoHalves, ServoWords
  <2>2. /\ s["reserved"] \in Values("u8x13") /\ s["timestamp"] \in Values("u32")
        /\ s["track_status"] \in Values("u8") /\ s["backup"] \in Values("u16")
    BY <2>1, Codec, Widths
  <2>3. /\ Typed(One("u8x13", "reserved"), s) /\ Typed(One("u32", "timestamp"), s)
        /\ Typed(One("u8", "track_status"), s) /\ Typed(One("u16", "backup"), s)
    BY <2>2, KindsAre, OneLayout
  <2>4. Typed(A, s)
    BY <1>g, <1>h, <2>3, PutParts DEF A
  <2>5. Typed(B, s)
    BY <1>1, <1>i, <2>3, <2>4, PutParts DEF B
  <2> QED BY <1>0, <1>2, <1>j, <2>3, <2>5, PutParts
<1> QED BY <1>3, <1>4

\* Strings in parts, put together in one order or another.
InSeq(s, S) == s \in Seq(S)
Associate(a, b, c) == (a \o b) \o c = a \o (b \o c)
Regroup(d, a, b, c) == (d \o (a \o b)) \o c = (d \o a) \o (b \o c)
Behind(x, a, b, c, d) == (((x \o a) \o b) \o c) \o d = x \o (((a \o b) \o c) \o d)

LEMMA Joined ==
  ASSUME NEW S, NEW a, NEW b, InSeq(a, S), InSeq(b, S)
  PROVE  InSeq(a \o b, S)
BY ConcatProperties DEF InSeq

LEMMA Associates ==
  ASSUME NEW S, NEW a, NEW b, NEW c, InSeq(a, S), InSeq(b, S), InSeq(c, S)
  PROVE  Associate(a, b, c)
BY ConcatAssociative DEF InSeq, Associate

LEMMA Regroups ==
  ASSUME NEW S, NEW d, NEW a, NEW b, NEW c, InSeq(d, S), InSeq(a, S), InSeq(b, S), InSeq(c, S)
  PROVE  Regroup(d, a, b, c)
<1>1. PICK e : e = d \o a
  OBVIOUS
<1>2. InSeq(e, S)
  BY <1>1, Joined
<1>3. Associate(d, a, b) /\ Associate(e, b, c)
  BY <1>2, Associates
<1> QED BY <1>1, <1>3 DEF Associate, Regroup

LEMMA StaysBehind ==
  ASSUME NEW S, NEW x, NEW a, NEW b, NEW c, NEW d,
         InSeq(x, S), InSeq(a, S), InSeq(b, S), InSeq(c, S), InSeq(d, S)
  PROVE  Behind(x, a, b, c, d)
<1>1. PICK e : e = a \o b
  OBVIOUS
<1>2. InSeq(e, S)
  BY <1>1, Joined
<1>3. PICK f : f = e \o c
  OBVIOUS
<1>4. InSeq(f, S)
  BY <1>2, <1>3, Joined
<1>5. Associate(x, a, b) /\ Associate(x, e, c) /\ Associate(x, f, d)
  BY <1>2, <1>4, Associates
<1> QED BY <1>1, <1>3, <1>5 DEF Associate, Behind

LEMMA TwoFields ==
  ASSUME NEW kind \in Kinds, NEW x, NEW y
  PROVE  Each(kind, <<x, y>>) = One(kind, x) \o One(kind, y)
<1>1. PICK s, t, N : s = <<x>> /\ t = <<y>> /\ N = {x, y}
  OBVIOUS
<1>2. s \in Seq(N) /\ Len(s) = 1 /\ s[1] = x
  BY <1>1, OneElement
<1>3. t \in Seq(N) /\ Len(t) = 1 /\ t[1] = y
  BY <1>1, OneElement
<1>4. s \o t \in Seq(N) /\ Len(s \o t) = 2 /\ (s \o t)[1] = x /\ (s \o t)[2] = y
  <2>1. PICK m, n : m = 1 /\ n = 1
    OBVIOUS
  <2>2. /\ s \o t \in Seq(N) /\ Len(s \o t) = m + n
        /\ \A k \in 1..m : (s \o t)[k] = s[k]
        /\ \A k \in 1..n : (s \o t)[m + k] = t[k]
    <3>1. s \in Seq(N) /\ t \in Seq(N) /\ m = Len(s) /\ n = Len(t)
      BY <1>2, <1>3, <2>1
    <3> QED BY <3>1, Concatenated
  <2> QED BY <1>2, <1>3, <2>1, <2>2
<1>5. <<x, y>> = s \o t
  <2>1. PICK u : u = s \o t
    OBVIOUS
  <2>2. u \in Seq(N) /\ Len(u) = 2 /\ u[1] = x /\ u[2] = y
    BY <1>4, <2>1
  <2>3. u = <<x, y>>
    BY <2>2
  <2> QED BY <2>1, <2>3
<1>6. s \in Seq(N) /\ t \in Seq(N)
  BY <1>2, <1>3
<1>7. Each(kind, s \o t) = Each(kind, s) \o Each(kind, t)
  BY <1>6, EachConcat
<1> QED BY <1>1, <1>5, <1>7 DEF One

\* The fields of a ServoPacket, in these groups.
LEMMA ServoOrder ==
  /\ serialize_order = (servo_front \o servo_focal) \o servo_rest
  /\ LayoutOf(servo_front \o servo_focal, ServoFront \cup ServoFocal, 51)
  /\ LayoutOf(serialize_order, ServoNames, 71)
  /\ \A s : ServoValues(s) => Typed(serialize_order, s)
<1> DEFINE F == Field(ServoNames)
           a == One("u8", "ir_power_ctrl")
           b == One("u8", "vis_focal_unit")
           r1 == One("u8x13", "reserved")
           r2 == One("u32", "timestamp")
           r3 == One("u8", "track_status")
           r4 == One("u16", "backup")
           two == Each("u8", <<"ir_power_ctrl", "vis_focal_unit">>)
<1>1. serialize_order = (((((servo_early \o two) \o focal_values) \o r1) \o r2) \o r3) \o r4
  BY DEF serialize_order, servo_early, servo_head, servo_angles, servo_track, focal_values, One
<1>2. servo_front = servo_early \o a /\ servo_focal = b \o focal_values /\ servo_rest = ((r1 \o r2) \o r3) \o r4
  BY DEF servo_front, servo_focal, servo_rest
<1>3. two = a \o b
  BY KindsAre, TwoFields
<1>4. /\ servo_early \in Seq(F) /\ a \in Seq(F) /\ b \in Seq(F) /\ focal_values \in Seq(F)
      /\ r1 \in Seq(F) /\ r2 \in Seq(F) /\ r3 \in Seq(F) /\ r4 \in Seq(F)
  <2>1. ASSUME NEW l, NEW N, NEW w, LayoutOf(l, N, w), N \subseteq ServoNames PROVE l \in Seq(F)
    <3>1. Field(N) \subseteq F
      BY <2>1 DEF Field
    <3>2. l \in Seq(Field(N))
      BY <2>1 DEF LayoutOf
    <3> HIDE DEF F
    <3> QED BY <3>1, <3>2, SeqMonotonic
  <2>2. LayoutOf(servo_early, ServoEarly, 41) /\ LayoutOf(focal_values, FocalNames, 8)
    <3>1. 8 = 4 * 2
      OBVIOUS
    <3> QED BY <3>1, FrontLayout, ServoGroups, WordsGroup
  <2>3. /\ LayoutOf(a, {"ir_power_ctrl"}, 1) /\ LayoutOf(b, {"vis_focal_unit"}, 1) /\ LayoutOf(r1, {"reserved"}, 13)
        /\ LayoutOf(r2, {"timestamp"}, 4) /\ LayoutOf(r3, {"track_status"}, 1) /\ LayoutOf(r4, {"backup"}, 2)
    BY OneLayout
  <2>4. /\ ServoEarly \subseteq ServoNames /\ FocalNames \subseteq ServoNames /\ {"ir_power_ctrl"} \subseteq ServoNames
        /\ {"vis_focal_unit"} \subseteq ServoNames /\ {"reserved"} \subseteq ServoNames /\ {"timestamp"} \subseteq ServoNames
        /\ {"track_status"} \subseteq ServoNames /\ {"backup"} \subseteq ServoNames
    BY DEF ServoNames, ServoFront, ServoFocal, ServoRest
  <2> HIDE DEF F, a, b, r1, r2, r3, r4
  <2> QED BY <2>1, <2>2, <2>3, <2>4
<1> HIDE DEF F, a, b, r1, r2, r3, r4, two
<1>5. (servo_early \o (a \o b)) \o focal_values = servo_front \o servo_focal
  <2>1. (servo_early \o (a \o b)) \o focal_values = (servo_early \o a) \o (b \o focal_values)
    <3>1. InSeq(servo_early, F) /\ InSeq(a, F) /\ InSeq(b, F) /\ InSeq(focal_values, F)
      BY <1>4 DEF InSeq
    <3>2. Regroup(servo_early, a, b, focal_values)
      BY <3>1, Regroups
    <3> QED BY <3>2 DEF Regroup
  <2> QED BY <1>2, <2>1
<1>6. servo_front \o servo_focal \in Seq(F)
  <2>1. servo_front \in Seq(F) /\ servo_focal \in Seq(F)
    BY <1>2, <1>4, ConcatProperties
  <2> QED BY <2>1, ConcatProperties
<1>7. PICK x : x = servo_front \o servo_focal
  OBVIOUS
<1>8. serialize_order = x \o servo_rest
  <2>1. serialize_order = (((x \o r1) \o r2) \o r3) \o r4
    BY <1>1, <1>3, <1>5, <1>7
  <2>2. (((x \o r1) \o r2) \o r3) \o r4 = x \o (((r1 \o r2) \o r3) \o r4)
    <3>1. InSeq(x, F) /\ InSeq(r1, F) /\ InSeq(r2, F) /\ InSeq(r3, F) /\ InSeq(r4, F)
      BY <1>4, <1>6, <1>7 DEF InSeq
    <3>2. Behind(x, r1, r2, r3, r4)
      BY <3>1, StaysBehind
    <3> QED BY <3>2 DEF Behind
  <2> QED BY <1>2, <2>1, <2>2
<1>9. LayoutOf(x, ServoFront \cup ServoFocal, 51)
  <2>1. ServoFront \cap ServoFocal = {} /\ 51 = 42 + 9
    BY DEF ServoFront, ServoEarly, ServoFocal, ServoHeadNames, ServoAngleNames, ServoTrackNames, FocalNames
  <2> QED BY <1>7, <2>1, FrontLayout, FocalLayout, LayoutConcat, ZenonT(40)
<1>10. LayoutOf(serialize_order, ServoNames, 71)
  <2>1. (ServoFront \cup ServoFocal) \cap ServoRest = {} /\ 71 = 51 + 20
    BY DEF ServoFront, ServoEarly, ServoFocal, ServoRest, ServoHeadNames, ServoAngleNames, ServoTrackNames, FocalNames
  <2>2. LayoutOf(x \o servo_rest, (ServoFront \cup ServoFocal) \cup ServoRest, 71)
    <3>1. LayoutOf(servo_rest, ServoRest, 20)
      BY RestLayout
    <3> QED BY <1>9, <2>1, <3>1, LayoutConcat, ZenonT(40)
  <2> QED BY <1>8, <2>2 DEF ServoNames
<1>11. ASSUME NEW s, ServoValues(s) PROVE Typed(serialize_order, s)
  <2>1. Typed(servo_front, s) /\ Typed(servo_focal, s) /\ Typed(servo_rest, s)
    BY <1>11, FrontLayout, FocalLayout, RestLayout
  <2>2. Typed(x, s)
    BY <1>7, <2>1, FrontLayout, FocalLayout, PutParts
  <2> QED BY <1>8, <1>9, <2>1, <2>2, RestLayout, PutParts
<1> QED BY <1>7, <1>8, <1>9, <1>10, <1>11

LEMMA GroupBegins ==
  ASSUME NEW layout, NEW n, NEW N, NEW names, layout = Each("u8", names), NamesOf(names, n, N), n >= 2
  PROVE  Begins(layout, names[1], names[2])
<1>1. names \in Seq(N) /\ Len(names) = n /\ n \in Nat
  BY DEF NamesOf
<1>2. /\ layout \in Seq(Field(N)) /\ Len(layout) = n
      /\ \A k \in 1..n : layout[k].name = names[k] /\ layout[k].kind = "u8"
  <2>1. /\ Each("u8", names) \in Seq(Field(N)) /\ Len(Each("u8", names)) = Len(names)
        /\ \A k \in 1..Len(names) : Each("u8", names)[k].name = names[k] /\ Each("u8", names)[k].kind = "u8"
    BY <1>1, KindsAre, EachIs
  <2> QED BY <1>1, <2>1
<1>3. 1 \in 1..n /\ 2 \in 1..n
  BY <1>1
<1> QED BY <1>2, <1>3 DEF Begins

LEMMA ServoBegins == Begins(serialize_order, "header", "frame_len")
<1>1. Begins(servo_head, "header", "frame_len")
  <2>1. PICK names : names = <<"header", "frame_len", "seq", "device_type", "packet_type", "device_ip",
                               "main_conn", "control", "wiper_heater_ctrl">>
    OBVIOUS
  <2>2. NamesOf(names, 9, ServoHeadNames)
    BY <2>1 DEF NamesOf, ServoHeadNames
  <2>3. names[1] = "header" /\ names[2] = "frame_len"
    BY <2>1
  <2>4. servo_head = Each("u8", names) /\ 9 >= 2
    BY <2>1 DEF servo_head
  <2>5. Begins(servo_head, names[1], names[2])
    BY <2>2, <2>4, GroupBegins
  <2> QED BY <2>3, <2>5
<1>2. LayoutOf(servo_angles, ServoAngleNames, 16) /\ LayoutOf(servo_track, ServoTrackNames, 12)
  <2>1. 16 = 4 * 4 /\ 12 = 4 * 3
    OBVIOUS
  <2>2. LayoutOf(servo_angles, ServoAngleNames, 16)
    BY <2>1, ServoGroups, WordsGroup
  <2>3. LayoutOf(servo_track, ServoTrackNames, 12)
    BY <2>1, ServoGroups, WordsGroup
  <2> QED BY <2>2, <2>3
<1>3. Begins(servo_head \o servo_angles, "header", "frame_len")
  BY <1>1, <1>2, BeginsConcat
<1>4. Begins(servo_head \o servo_angles \o One("u16", "target_distance"), "header", "frame_len")
  BY <1>3, OneLayout, BeginsConcat
<1>5. Begins(servo_head \o servo_angles \o One("u16", "target_distance") \o One("i16", "target_el_aberration"),
             "header", "frame_len")
  BY <1>4, OneLayout, BeginsConcat
<1>6. Begins(servo_early, "header", "frame_len")
  BY <1>2, <1>5, BeginsConcat DEF servo_early
<1>7. Begins(servo_front, "header", "frame_len")
  BY <1>6, OneLayout, BeginsConcat DEF servo_front
<1>8. Begins(servo_front \o servo_focal, "header", "frame_len")
  BY <1>7, FocalLayout, BeginsConcat
<1>9. Begins((servo_front \o servo_focal) \o servo_rest, "header", "frame_len")
  BY <1>8, RestLayout, BeginsConcat
<1> QED BY <1>9, ServoOrder

\* A sealed string.
LEMMA SealedIs ==
  ASSUME NEW b \in Seq(Byte), NEW n \in Nat, n = Len(b), NEW w, w = Sealed(b)
  PROVE  /\ w \in Seq(Byte) /\ Len(w) = n + 1 /\ Slice(w, 0, n) = b /\ At(w, n) = Xor(b)
         /\ \A k \in 1..n : w[k] = b[k]
<1>1. PICK x : x = Xor(b)
  OBVIOUS
<1>2. x \in Byte
  BY <1>1, SumsAreBytes
<1>3. w = Append(b, x)
  BY <1>1 DEF Sealed
<1>4. w \in Seq(Byte) /\ Len(w) = n + 1 /\ w[n + 1] = x /\ \A k \in 1..n : w[k] = b[k]
  BY <1>2, <1>3
<1>5. Slice(w, 0, n) = b
  <2>1. 0 \in Nat /\ n \in 0..Len(w) /\ n - 0 = n
    BY <1>4
  <2>2. Len(b) = n - 0 /\ \A k \in 1..(n - 0) : b[k] = w[0 + k]
    BY <1>4
  <2>3. w \in Seq(Byte)
    BY <1>4
  <2> QED BY <2>1, <2>2, <2>3, SliceEqual
<1> QED BY <1>1, <1>4, <1>5 DEF At

\* What a sender may set in a ServoPacket.
Fixed == {"header", "frame_len", "target_el_aberration", "vis_focal_unit", "reserved"}
ServoFields(f) ==
  /\ \A x \in ServoBytes : x \in DOMAIN f => f[x] \in Byte
  /\ \A x \in ServoHalves : x \in DOMAIN f => f[x] \in Half
  /\ \A x \in ServoWords : x \in DOMAIN f => f[x] \in Word
  /\ \A x \in Fixed : x \notin DOMAIN f

LEMMA ServoDefaults ==
  /\ DOMAIN ServoPacket = ServoNames
  /\ ServoPacket["header"] = 126 /\ ServoPacket["frame_len"] = 72
  /\ ServoPacket["reserved"] = [i \in 1..13 |-> 0]
  /\ \A x \in ServoWords : ServoPacket[x] = <<0, 0>>
  /\ \A x \in ServoNames : x \notin ServoWords /\ x \notin {"header", "frame_len", "reserved"} => ServoPacket[x] = 0
<1>1. {serialize_order[k].name : k \in DOMAIN serialize_order} = ServoNames
  <2>1. Names(serialize_order) = ServoNames
    BY ServoOrder, LayoutType
  <2> QED BY <2>1 DEF Names
<1> DEFINE words == {"azimuth", "elevation", "az_speed", "el_speed", "track_az_aberration",
                     "track_el_aberration", "fov_angle", "vis_focal_value", "ir_focal_value", "timestamp"}
           d(name) == CASE name = "header" -> servo_header
                        [] name = "frame_len" -> servo_frame_len
                        [] name = "reserved" -> [i \in 1..13 |-> 0]
                        [] name \in words -> <<0, 0>>
                        [] OTHER -> 0
<1>2. ServoPacket = [name \in ServoNames |-> d(name)]
  BY <1>1, Zenon DEF ServoPacket
<1>3. ServoWords = words /\ words \subseteq ServoNames
  BY DEF ServoWords, ServoAngleNames, ServoTrackNames, FocalNames, ServoNames, ServoFront, ServoEarly, ServoFocal, ServoRest
<1>4. {"header", "frame_len", "reserved"} \subseteq ServoNames /\ {"header", "frame_len", "reserved"} \cap words = {}
  BY DEF ServoNames, ServoFront, ServoEarly, ServoHeadNames, ServoRest
<1>d. "header" # "frame_len" /\ "header" # "reserved" /\ "frame_len" # "reserved"
  OBVIOUS
<1>e. \A x \in words : x # "header" /\ x # "frame_len" /\ x # "reserved"
  OBVIOUS
<1> HIDE DEF words
<1>5. /\ d("header") = servo_header /\ d("frame_len") = servo_frame_len
      /\ d("reserved") = [i \in 1..13 |-> 0]
  <2>1. "header" \notin words /\ "frame_len" \notin words /\ "reserved" \notin words
    BY <1>4
  <2>2. d("header") = servo_header
    BY <1>d, <2>1, Zenon
  <2>3. d("frame_len") = servo_frame_len
    BY <1>d, <2>1, Zenon
  <2>4. d("reserved") = [i \in 1..13 |-> 0]
    BY <1>d, <2>1, Zenon
  <2> QED BY <2>2, <2>3, <2>4
<1>6. ASSUME NEW x \in words PROVE d(x) = <<0, 0>>
  BY <1>e, Zenon
<1>7. ASSUME NEW x, x \notin words, x # "header", x # "frame_len", x # "reserved" PROVE d(x) = 0
  BY <1>7, Zenon
<1>8. "header" \in ServoNames /\ "frame_len" \in ServoNames /\ "reserved" \in ServoNames
  BY <1>4
<1> HIDE DEF d
<1>9. \A x \in ServoNames : ServoPacket[x] = d(x)
  BY <1>2
<1>10. DOMAIN ServoPacket = ServoNames
  BY <1>2
<1>11. \A x \in ServoWords : ServoPacket[x] = <<0, 0>>
  BY <1>3, <1>6, <1>9
<1>12. \A x \in ServoNames : x \notin ServoWords /\ x \notin {"header", "frame_len", "reserved"} => ServoPacket[x] = 0
  BY <1>3, <1>7, <1>9
<1> QED BY <1>5, <1>8, <1>9, <1>10, <1>11, <1>12 DEF servo_header, servo_frame_len

\* The members of a packet with some of them set.
LEMMA MembersAre ==
  ASSUME NEW f, ServoFields(f)
  PROVE  /\ ServoValues(Members(f)) /\ Members(f)["header"] = 126 /\ Members(f)["frame_len"] = 72
         /\ DOMAIN Members(f) = ServoNames /\ Members(f)["vis_focal_unit"] = 0
         /\ \A x \in ServoNames : Members(f)[x] = IF x \in DOMAIN f THEN f[x] ELSE ServoPacket[x]
         /\ Members(f) = [x \in ServoNames |-> Members(f)[x]]
<1>1. PICK s : s = Members(f)
  OBVIOUS
<1>2. /\ DOMAIN s = ServoNames /\ s = [x \in ServoNames |-> s[x]]
      /\ \A x \in ServoNames : s[x] = IF x \in DOMAIN f THEN f[x] ELSE ServoPacket[x]
  BY <1>1, ServoDefaults DEF Members
<1>3. /\ ServoBytes \subseteq ServoNames /\ ServoHalves \subseteq ServoNames /\ ServoWords \subseteq ServoNames
      /\ Fixed \subseteq ServoNames
      /\ ServoBytes \cap ServoWords = {} /\ ServoHalves \cap ServoWords = {} /\ Fixed \cap ServoWords = {}
      /\ "reserved" \notin ServoBytes /\ ServoHalves \cap {"header", "frame_len", "reserved"} = {}
  BY DEF ServoBytes, ServoHalves, ServoWords, ServoAngleNames, ServoTrackNames, FocalNames, ServoHeadNames,
         ServoNames, ServoFront, ServoEarly, ServoFocal, ServoRest, Fixed
<1>4. /\ "header" \in Fixed /\ "frame_len" \in Fixed /\ "target_el_aberration" \in Fixed
      /\ "vis_focal_unit" \in Fixed /\ "reserved" \in Fixed
  BY DEF Fixed
<1>5. \A x \in Fixed : s[x] = ServoPacket[x]
  BY <1>2, <1>3 DEF ServoFields
<1>6. s["header"] = 126 /\ s["frame_len"] = 72 /\ s["reserved"] = [i \in 1..13 |-> 0]
  BY <1>4, <1>5, ServoDefaults
<1>7. s["vis_focal_unit"] = 0 /\ s["target_el_aberration"] = 0
  BY <1>3, <1>4, <1>5, ServoDefaults
<1>8. \A x \in ServoBytes : s[x] \in Byte
  <2> SUFFICES ASSUME NEW x \in ServoBytes PROVE s[x] \in Byte
    OBVIOUS
  <2>1. 126 \in Byte /\ 72 \in Byte /\ 0 \in Byte
    BY DEF Byte
  <2>2. x \in ServoNames /\ x \notin ServoWords /\ x # "reserved"
    BY <1>3
  <2>3. ServoPacket[x] \in Byte
    BY <2>1, <2>2, ServoDefaults
  <2>4. x \in DOMAIN f => f[x] \in Byte
    BY DEF ServoFields
  <2> QED BY <1>2, <2>2, <2>3, <2>4
<1>9. \A x \in ServoHalves : s[x] \in Half
  <2> SUFFICES ASSUME NEW x \in ServoHalves PROVE s[x] \in Half
    OBVIOUS
  <2>1. 0 \in Half
    BY DEF Half
  <2>2. x \in ServoNames /\ x \notin ServoWords /\ x \notin {"header", "frame_len", "reserved"}
    BY <1>3
  <2>3. ServoPacket[x] \in Half
    BY <2>1, <2>2, ServoDefaults
  <2>4. x \in DOMAIN f => f[x] \in Half
    BY DEF ServoFields
  <2> QED BY <1>2, <2>2, <2>3, <2>4
<1>10. \A x \in ServoWords : s[x] \in Word
  <2> SUFFICES ASSUME NEW x \in ServoWords PROVE s[x] \in Word
    OBVIOUS
  <2>1. <<0, 0>> \in Word
    <3>1. 0 \in Half
      BY DEF Half
    <3> QED BY <3>1 DEF Word
  <2>2. x \in ServoNames
    BY <1>3
  <2>3. ServoPacket[x] \in Word
    BY <2>1, ServoDefaults
  <2>4. x \in DOMAIN f => f[x] \in Word
    BY DEF ServoFields
  <2> QED BY <1>2, <2>2, <2>3, <2>4
<1>11. s["target_el_aberration"] \in Short
  BY <1>7 DEF Short
<1>12. s["reserved"] \in Seq(Byte) /\ Len(s["reserved"]) = 13
  BY <1>6, ZeroIsAByte
<1>13. ServoValues(s)
  BY <1>8, <1>9, <1>10, <1>11, <1>12 DEF ServoValues
<1> QED BY <1>1, <1>2, <1>6, <1>7, <1>13

\* What build_servo_packet is given, alone and with the focus set_ptz adds.
LEMMA ArgumentsAreFields ==
  ASSUME NEW m \in ServoArguments
  PROVE  ServoFields(m) /\ \A x \in FocalNames : x \notin DOMAIN m
<1>1. DOMAIN m = {"azimuth", "elevation", "az_speed", "el_speed", "target_distance",
                  "seq", "control", "device_type", "packet_type"}
  BY DEF ServoArguments
<1>2. /\ m["azimuth"] \in Word /\ m["elevation"] \in Word /\ m["az_speed"] \in Word /\ m["el_speed"] \in Word
      /\ m["target_distance"] \in Half /\ m["seq"] \in Byte /\ m["control"] \in Byte
      /\ m["device_type"] \in Byte /\ m["packet_type"] \in Byte
  BY DEF ServoArguments
<1>3. \A x \in ServoWords : x \in DOMAIN m => x \in {"azimuth", "elevation", "az_speed", "el_speed"}
  BY <1>1 DEF ServoWords, ServoAngleNames, ServoTrackNames, FocalNames
<1>4. \A x \in ServoHalves : x \in DOMAIN m => x = "target_distance"
  BY <1>1 DEF ServoHalves
<1>5. \A x \in ServoBytes : x \in DOMAIN m => x \in {"seq", "control", "device_type", "packet_type"}
  BY <1>1 DEF ServoBytes, ServoHeadNames
<1>6. \A x \in Fixed : x \notin DOMAIN m
  BY <1>1 DEF Fixed
<1>7. \A x \in FocalNames : x \notin DOMAIN m
  BY <1>1 DEF FocalNames
<1>8. \A x \in ServoWords : x \in DOMAIN m => m[x] \in Word
  BY <1>2, <1>3
<1>9. \A x \in ServoHalves : x \in DOMAIN m => m[x] \in Half
  BY <1>2, <1>4
<1>10. \A x \in ServoBytes : x \in DOMAIN m => m[x] \in Byte
  BY <1>2, <1>5
<1> QED BY <1>6, <1>7, <1>8, <1>9, <1>10 DEF ServoFields

PtzFields(m, focus) ==
  [name \in DOMAIN m \cup {"vis_focal_value", "ir_focal_value"} |->
     IF name \in DOMAIN m THEN m[name] ELSE focus]

LEMMA PtzFieldsAre ==
  ASSUME NEW m \in ServoArguments, NEW focus \in Word
  PROVE  /\ ServoFields(PtzFields(m, focus))
         /\ \A x \in ServoNames : x \notin FocalNames => Members(PtzFields(m, focus))[x] = Members(m)[x]
         /\ \A x \in FocalNames : Members(PtzFields(m, focus))[x] = focus
<1>1. PICK f : f = PtzFields(m, focus)
  OBVIOUS
<1>2. FocalNames = {"vis_focal_value", "ir_focal_value"}
  BY DEF FocalNames
<1>3. /\ DOMAIN f = DOMAIN m \cup FocalNames
      /\ \A x \in DOMAIN m : f[x] = m[x]
      /\ \A x \in FocalNames : f[x] = focus
  BY <1>1, <1>2, ArgumentsAreFields DEF PtzFields
<1>4. FocalNames \subseteq ServoWords /\ FocalNames \subseteq ServoNames /\ FocalNames \cap Fixed = {}
      /\ FocalNames \cap ServoBytes = {} /\ FocalNames \cap ServoHalves = {}
  BY DEF FocalNames, ServoWords, ServoNames, ServoFocal, Fixed, ServoBytes, ServoHalves, ServoHeadNames
<1>5. ServoFields(m)
  BY ArgumentsAreFields
<1>6. /\ \A x \in ServoBytes : x \in DOMAIN m => m[x] \in Byte
      /\ \A x \in ServoHalves : x \in DOMAIN m => m[x] \in Half
      /\ \A x \in ServoWords : x \in DOMAIN m => m[x] \in Word
      /\ \A x \in Fixed : x \notin DOMAIN m
  BY <1>5 DEF ServoFields
<1>7. \A x \in ServoBytes : x \in DOMAIN f => f[x] \in Byte
  BY <1>3, <1>4, <1>6
<1>8. \A x \in ServoHalves : x \in DOMAIN f => f[x] \in Half
  BY <1>3, <1>4, <1>6
<1>9. \A x \in ServoWords : x \in DOMAIN f => f[x] \in Word
  BY <1>3, <1>4, <1>6
<1>10. \A x \in Fixed : x \notin DOMAIN f
  BY <1>3, <1>4, <1>6
<1>11. ServoFields(f)
  BY <1>7, <1>8, <1>9, <1>10 DEF ServoFields
<1>12. \A x \in ServoNames : Members(f)[x] = IF x \in DOMAIN f THEN f[x] ELSE ServoPacket[x]
  BY <1>11, MembersAre
<1>13. \A x \in ServoNames : Members(m)[x] = IF x \in DOMAIN m THEN m[x] ELSE ServoPacket[x]
  BY <1>5, MembersAre
<1>14. \A x \in ServoNames : x \notin FocalNames => Members(f)[x] = Members(m)[x]
  BY <1>3, <1>12, <1>13
<1>15. \A x \in FocalNames : Members(f)[x] = focus
  BY <1>3, <1>4, <1>12
<1> QED BY <1>1, <1>11, <1>14, <1>15

-------------------------------------------------------------------------------

\* A frame of 72 bytes with the first two of a servo frame and its seal.
IsServo(w) ==
  /\ w \in Seq(Byte) /\ Len(w) = 72 /\ w[1] = 126 /\ w[2] = 72
  /\ Xor(Slice(w, 0, 71)) = At(w, 71)

LEMMA ServoIs ==
  ASSUME NEW w, IsServo(w)
  PROVE  Len(w) >= servo_frame_len /\ At(w, 0) = servo_header /\ Xor(Slice(w, 0, 71)) = At(w, 71)
<1>1. w \in Seq(Byte) /\ Len(w) = 72 /\ w[1] = 126
  BY DEF IsServo
<1>2. 0 + 1 = 1 /\ 72 >= 72
  OBVIOUS
<1>3. At(w, 0) = 126
  BY <1>1, <1>2 DEF At
<1> QED BY <1>1, <1>2, <1>3 DEF IsServo, servo_frame_len, servo_header

\* deserialize_servo finds each member of a ServoPacket where serialize_servo
\* put it, whatever its value (protocol.cpp:139-236).
THEOREM ServoRoundTrip ==
  ASSUME NEW f, ServoFields(f)
  PROVE  LET w == serialize_servo(Members(f)) IN
         IsServo(w) /\ deserialize_servo(w) = Members(f)
<1>1. PICK s : s = Members(f)
  OBVIOUS
<1>2. ServoValues(s) /\ s["header"] = 126 /\ s["frame_len"] = 72 /\ s = [x \in ServoNames |-> s[x]]
  BY <1>1, MembersAre
<1>3. Typed(serialize_order, s) /\ LayoutOf(serialize_order, ServoNames, 71)
  BY <1>2, ServoOrder
<1>4. PICK b, w : b = Put(serialize_order, s) /\ w = Sealed(b)
  OBVIOUS
<1>5. b \in Seq(Byte) /\ Len(b) = 71
  BY <1>3, <1>4, PutOf
<1>6. w \in Seq(Byte) /\ Len(w) = 72 /\ Slice(w, 0, 71) = b /\ At(w, 71) = Xor(b) /\ w[1] = b[1] /\ w[2] = b[2]
  <2>1. PICK n \in Nat : n = 71
    OBVIOUS
  <2>2. b \in Seq(Byte) /\ n = Len(b) /\ w = Sealed(b)
    BY <1>4, <1>5, <2>1
  <2>3. /\ w \in Seq(Byte) /\ Len(w) = n + 1 /\ Slice(w, 0, n) = b /\ At(w, n) = Xor(b)
        /\ \A k \in 1..n : w[k] = b[k]
    BY <2>2, SealedIs
  <2>4. 1 \in 1..n /\ 2 \in 1..n /\ n + 1 = 72
    BY <2>1
  <2> QED BY <2>1, <2>3, <2>4
<1>7. b[1] = 126 /\ b[2] = 72
  BY <1>2, <1>3, <1>4, ServoBegins, FirstBytes
<1>8. IsServo(w)
  BY <1>6, <1>7 DEF IsServo
<1>9. Get(serialize_order, w, 0) = s
  <2>1. 0 \in Nat /\ 71 = 0 + 71 /\ 71 <= Len(w) /\ Slice(w, 0, 71) = Put(serialize_order, s)
    BY <1>4, <1>6
  <2>2. w \in Seq(Byte)
    BY <1>6
  <2>3. Get(serialize_order, w, 0) = [x \in ServoNames |-> s[x]]
    BY <1>3, <2>1, <2>2, GetOfPut
  <2> QED BY <1>2, <2>3
<1>10. deserialize_order = serialize_order
  BY DEF deserialize_order, serialize_order
<1>11. deserialize_servo(w) = s
  BY <1>8, <1>9, <1>10, ServoIs DEF deserialize_servo
<1>12. w = serialize_servo(Members(f))
  BY <1>1, <1>4 DEF serialize_servo
<1> QED BY <1>1, <1>8, <1>11, <1>12

LEMMA PutTwo ==
  ASSUME NEW l, NEW m, NEW M, NEW N, NEW u, NEW v, LayoutOf(l, M, u), LayoutOf(m, N, v),
         NEW r, Typed(l, r), Typed(m, r)
  PROVE  Typed(l \o m, r) /\ Put(l \o m, r) = Put(l, r) \o Put(m, r)
BY PutParts

\* The bytes set_ptz writes.
FocalBytes(focus) == <<0>> \o write_le_uint32(focus) \o write_le_uint32(focus)

LEMMA FocalPut ==
  ASSUME NEW s, ServoValues(s), NEW focus \in Word, s["vis_focal_unit"] = 0, \A x \in FocalNames : s[x] = focus
  PROVE  Put(servo_focal, s) = FocalBytes(focus)
<1>1. PICK a, v, i : a = One("u8", "vis_focal_unit") /\ v = One("u32", "vis_focal_value") /\ i = One("u32", "ir_focal_value")
  OBVIOUS
<1>2. s["vis_focal_unit"] \in Values("u8") /\ s["vis_focal_value"] \in Values("u32") /\ s["ir_focal_value"] \in Values("u32")
      /\ s["vis_focal_value"] = focus /\ s["ir_focal_value"] = focus
  <2>1. "vis_focal_unit" \in ServoBytes /\ "vis_focal_value" \in FocalNames /\ "ir_focal_value" \in FocalNames
    BY DEF ServoBytes, FocalNames
  <2>2. s["vis_focal_unit"] \in Byte
    BY <2>1 DEF ServoValues
  <2>3. s["vis_focal_value"] = focus /\ s["ir_focal_value"] = focus
    BY <2>1
  <2> QED BY <2>2, <2>3, Codec
<1>3. PICK w : w = write_le_uint32(focus)
  OBVIOUS
<1>4. Put(a, s) = <<0>> /\ Put(v, s) = w /\ Put(i, s) = w /\ Typed(a, s) /\ Typed(v, s) /\ Typed(i, s)
  <2>1. /\ Typed(a, s) /\ Put(a, s) = Encode("u8", s["vis_focal_unit"])
        /\ Typed(v, s) /\ Put(v, s) = Encode("u32", s["vis_focal_value"])
        /\ Typed(i, s) /\ Put(i, s) = Encode("u32", s["ir_focal_value"])
    BY <1>1, <1>2, KindsAre, OneLayout
  <2>2. Encode("u8", s["vis_focal_unit"]) = <<0>> /\ Encode("u32", s["vis_focal_value"]) = w
        /\ Encode("u32", s["ir_focal_value"]) = w
    <3>1. Encode("u8", s["vis_focal_unit"]) = <<s["vis_focal_unit"]>>
      BY Codec
    <3>2. Encode("u32", focus) = write_le_uint32(focus)
      BY Codec
    <3> QED BY <1>2, <1>3, <3>1, <3>2
  <2> QED BY <2>1, <2>2
<1>5. LayoutOf(a, {"vis_focal_unit"}, 1) /\ LayoutOf(v, {"vis_focal_value"}, 4) /\ LayoutOf(i, {"ir_focal_value"}, 4)
  BY <1>1, OneLayout
<1>6. focal_values = v \o i
  BY <1>1, KindsAre, TwoFields DEF focal_values
<1>7. Typed(focal_values, s) /\ Put(focal_values, s) = w \o w
  <2>1. Typed(v \o i, s) /\ Put(v \o i, s) = Put(v, s) \o Put(i, s)
    <3>1. Typed(v, s) /\ Typed(i, s)
      BY <1>4
    <3> QED BY <1>5, <3>1, PutTwo
  <2> QED BY <1>4, <1>6, <2>1
<1>8. LayoutOf(focal_values, FocalNames, 8)
  <2>1. 8 = 4 * 2
    OBVIOUS
  <2> QED BY <2>1, ServoGroups, WordsGroup
<1>9. Put(servo_focal, s) = <<0>> \o (w \o w)
  <2>1. Put(a \o focal_values, s) = Put(a, s) \o Put(focal_values, s)
    <3>1. Typed(a, s) /\ Typed(focal_values, s)
      BY <1>4, <1>7
    <3> QED BY <1>5, <1>8, <3>1, PutTwo
  <2> QED BY <1>1, <1>4, <1>7, <2>1 DEF servo_focal
<1>10. Associate(<<0>>, w, w)
  <2>1. InSeq(<<0>>, Byte)
    BY ZeroIsAByte DEF InSeq
  <2>2. InSeq(w, Byte)
    BY <1>3, Uint32 DEF InSeq
  <2> QED BY <2>1, <2>2, Associates
<1> QED BY <1>3, <1>9, <1>10 DEF Associate, FocalBytes

\* The parts of the bytes of a ServoPacket.
LEMMA ServoParts ==
  ASSUME NEW s, ServoValues(s), NEW b, b = Put(serialize_order, s)
  PROVE  /\ b \in Seq(Byte) /\ Len(b) = 71
         /\ Stands(b, 0, Put(servo_front, s)) /\ Len(Put(servo_front, s)) = 42
         /\ Stands(b, 42, Put(servo_focal, s)) /\ Len(Put(servo_focal, s)) = 9
         /\ Stands(b, 51, Put(servo_rest, s)) /\ Len(Put(servo_rest, s)) = 20
<1>1. Typed(servo_front, s) /\ Typed(servo_focal, s) /\ Typed(servo_rest, s)
  BY FrontLayout, FocalLayout, RestLayout
<1>2. LayoutOf(servo_front, ServoFront, 42) /\ LayoutOf(servo_focal, ServoFocal, 9) /\ LayoutOf(servo_rest, ServoRest, 20)
  BY FrontLayout, FocalLayout, RestLayout
<1>3. PICK x, y : x = servo_front \o servo_focal /\ y = Put(servo_front \o servo_focal, s)
  OBVIOUS
<1>4. Typed(x, s) /\ Stands(y, 0, Put(servo_front, s)) /\ Stands(y, 42, Put(servo_focal, s))
  BY <1>1, <1>2, <1>3, PutParts
<1>5. LayoutOf(x, ServoFront \cup ServoFocal, 51) /\ serialize_order = x \o servo_rest
  BY <1>3, ServoOrder
<1>6. Stands(b, 0, y) /\ Stands(b, 51, Put(servo_rest, s))
  <2>1. Stands(Put(x \o servo_rest, s), 0, Put(x, s)) /\ Stands(Put(x \o servo_rest, s), 51, Put(servo_rest, s))
    BY <1>1, <1>2, <1>4, <1>5, PutParts
  <2> QED BY <1>3, <1>5, <2>1
<1>7. Stands(b, 0, Put(servo_front, s)) /\ Stands(b, 42, Put(servo_focal, s))
  <2>1. 0 = 0 + 0 /\ 42 = 0 + 42
    OBVIOUS
  <2>2. Stands(b, 0, Put(servo_front, s))
    BY <1>4, <1>6, <2>1, StandsIn
  <2>3. Stands(b, 42, Put(servo_focal, s))
    BY <1>4, <1>6, <2>1, StandsIn
  <2> QED BY <2>2, <2>3
<1>8. Len(Put(servo_front, s)) = 42 /\ Len(Put(servo_focal, s)) = 9 /\ Len(Put(servo_rest, s)) = 20
  <2>1. Put(servo_front, s) \in Seq(Byte) /\ Len(Put(servo_front, s)) = 42
    <3>1. LayoutOf(servo_front, ServoFront, 42) /\ Typed(servo_front, s)
      BY <1>1, <1>2
    <3> QED BY <3>1, PutOf
  <2>2. Put(servo_focal, s) \in Seq(Byte) /\ Len(Put(servo_focal, s)) = 9
    <3>1. LayoutOf(servo_focal, ServoFocal, 9) /\ Typed(servo_focal, s)
      BY <1>1, <1>2
    <3> QED BY <3>1, PutOf
  <2>3. Put(servo_rest, s) \in Seq(Byte) /\ Len(Put(servo_rest, s)) = 20
    <3>1. LayoutOf(servo_rest, ServoRest, 20) /\ Typed(servo_rest, s)
      BY <1>1, <1>2
    <3> QED BY <3>1, PutOf
  <2> QED BY <2>1, <2>2, <2>3
<1>9. b \in Seq(Byte) /\ Len(b) = 71
  <2>1. LayoutOf(serialize_order, ServoNames, 71) /\ Typed(serialize_order, s)
    BY ServoOrder
  <2> QED BY <2>1, PutOf
<1> QED BY <1>6, <1>7, <1>8, <1>9

\* set_ptz patches the focus into the place of the two focal lengths and of
\* the unit before them (cam_ajf_lib.cpp), as if build_servo_packet had put it.
THEOREM FocusIsInItsPlace ==
  ASSUME NEW m \in ServoArguments, NEW focus \in Word
  PROVE  WithFocus(build_servo_packet(m), focus) = serialize_servo(Members(PtzFields(m, focus)))
<1>1. PICK s, t : s = Members(m) /\ t = Members(PtzFields(m, focus))
  OBVIOUS
<1>2. ServoFields(m) /\ ServoFields(PtzFields(m, focus))
  BY ArgumentsAreFields, PtzFieldsAre
<1>3. ServoValues(s) /\ ServoValues(t) /\ t["vis_focal_unit"] = 0
  BY <1>1, <1>2, MembersAre
<1>4. (\A x \in ServoNames : x \notin FocalNames => s[x] = t[x]) /\ \A x \in FocalNames : t[x] = focus
  BY <1>1, PtzFieldsAre
<1>5. Put(servo_front, s) = Put(servo_front, t) /\ Put(servo_rest, s) = Put(servo_rest, t)
  <2>1. /\ \A x \in ServoFront : x \in ServoNames /\ x \notin FocalNames
        /\ \A x \in ServoRest : x \in ServoNames /\ x \notin FocalNames
    BY DEF ServoNames, ServoFront, ServoEarly, ServoFocal, ServoRest, ServoHeadNames, ServoAngleNames, ServoTrackNames, FocalNames
  <2>2. (\A x \in ServoFront : s[x] = t[x]) /\ \A x \in ServoRest : s[x] = t[x]
    BY <1>4, <2>1
  <2>3. Typed(servo_front, s) /\ Typed(servo_rest, s)
    BY <1>3, FrontLayout, RestLayout
  <2>4. Put(servo_front, s) = Put(servo_front, t)
    BY <2>2, <2>3, FrontLayout, PutAgrees
  <2>5. Put(servo_rest, s) = Put(servo_rest, t)
    BY <2>2, <2>3, RestLayout, PutAgrees
  <2> QED BY <2>4, <2>5
<1>6. PICK b, c, focal : b = Put(serialize_order, s) /\ c = Put(serialize_order, t) /\ focal = FocalBytes(focus)
  OBVIOUS
<1>7. PICK front, rest : front = Put(servo_front, t) /\ rest = Put(servo_rest, t)
  OBVIOUS
<1>8. Put(servo_focal, t) = focal
  BY <1>3, <1>4, <1>6, FocalPut
<1>9. /\ b \in Seq(Byte) /\ Len(b) = 71 /\ Stands(b, 0, front) /\ Stands(b, 51, rest)
  BY <1>3, <1>5, <1>6, <1>7, ServoParts
<1>10. /\ c \in Seq(Byte) /\ Len(c) = 71 /\ Stands(c, 0, front) /\ Stands(c, 42, focal) /\ Stands(c, 51, rest)
       /\ Len(front) = 42 /\ Len(focal) = 9 /\ Len(rest) = 20
  BY <1>3, <1>6, <1>7, <1>8, ServoParts
<1>11. focal \in Seq(Byte)
  BY <1>10 DEF Stands
<1>12. PICK p, q : p = Sealed(b) /\ q = Patch(p, 42, focal)
  OBVIOUS
<1>13. p \in Seq(Byte) /\ Len(p) = 72 /\ \A k \in 1..71 : p[k] = b[k]
  <2>1. PICK n \in Nat : n = 71
    OBVIOUS
  <2>2. n = Len(b) /\ b \in Seq(Byte)
    BY <1>9, <2>1
  <2>3. p \in Seq(Byte) /\ Len(p) = n + 1 /\ \A k \in 1..n : p[k] = b[k]
    BY <1>12, <2>2, SealedIs
  <2> QED BY <2>1, <2>3
<1>14. /\ q \in Seq(Byte) /\ Len(q) = 72
       /\ \A k \in 1..72 : q[k] = IF k \in 43..51 THEN focal[k - 42] ELSE p[k]
  <2>1. PICK at \in Nat : at = 42
    OBVIOUS
  <2>2. at + Len(focal) <= Len(p) /\ at + 1 = 43 /\ at + Len(focal) = 51
    BY <1>10, <1>13, <2>1
  <2>3. p \in Seq(Byte)
    BY <1>13
  <2>4. /\ Patch(p, at, focal) \in Seq(Byte) /\ Len(Patch(p, at, focal)) = Len(p)
        /\ \A k \in 1..Len(p) :
             Patch(p, at, focal)[k] = IF k \in (at + 1)..(at + Len(focal)) THEN focal[k - at] ELSE p[k]
    BY <1>11, <2>2, <2>3, PatchIs
  <2> QED BY <1>12, <1>13, <2>1, <2>2, <2>4
<1>15. /\ \A k \in 1..42 : b[k] = front[k] /\ c[k] = front[k]
       /\ \A k \in 1..20 : b[51 + k] = rest[k] /\ c[51 + k] = rest[k]
       /\ \A k \in 1..9 : c[42 + k] = focal[k]
  <2>1. /\ \A k \in 1..42 : b[0 + k] = front[k] /\ c[0 + k] = front[k]
        /\ \A k \in 1..20 : b[51 + k] = rest[k] /\ c[51 + k] = rest[k]
        /\ \A k \in 1..9 : c[42 + k] = focal[k]
    BY <1>9, <1>10 DEF Stands
  <2>2. \A k \in 1..42 : 0 + k = k
    OBVIOUS
  <2> QED BY <2>1, <2>2
<1>16. ASSUME NEW k \in 1..71 PROVE c[k] = q[k]
  <2>1. k \in 1..72
    OBVIOUS
  <2>2. CASE k \in 1..42
    <3>1. k \notin 43..51
      BY <2>2
    <3>2. q[k] = p[k]
      BY <1>14, <2>1, <3>1
    <3>3. p[k] = b[k]
      BY <1>13
    <3>4. b[k] = front[k] /\ c[k] = front[k]
      BY <1>15, <2>2
    <3> QED BY <3>2, <3>3, <3>4
  <2>3. CASE k \in 43..51
    <3>1. PICK j : j = k - 42
      OBVIOUS
    <3>2. j \in 1..9 /\ 42 + j = k
      BY <2>3, <3>1
    <3>3. q[k] = focal[j]
      BY <1>14, <2>1, <2>3, <3>1
    <3>4. c[42 + j] = focal[j]
      BY <1>15, <3>2
    <3> QED BY <3>2, <3>3, <3>4
  <2>4. CASE k \in 52..71
    <3>1. PICK j : j = k - 51
      OBVIOUS
    <3>2. j \in 1..20 /\ 51 + j = k /\ k \notin 43..51
      BY <2>4, <3>1
    <3>3. q[k] = p[k]
      BY <1>14, <2>1, <3>2
    <3>4. p[k] = b[k]
      BY <1>13
    <3>5. b[51 + j] = rest[j] /\ c[51 + j] = rest[j]
      BY <1>15, <3>2
    <3> QED BY <3>2, <3>3, <3>4, <3>5
  <2> QED BY <2>2, <2>3, <2>4
<1>17. Slice(q, 0, 71) = c
  <2>1. 0 \in Nat /\ 71 \in 0..Len(q) /\ Len(c) = 71 - 0
    BY <1>10, <1>14
  <2>2. \A k \in 1..(71 - 0) : c[k] = q[0 + k]
    BY <1>16
  <2>3. q \in Seq(Byte) /\ c \in Seq(Byte)
    BY <1>10, <1>14
  <2> QED BY <2>1, <2>2, <2>3, SliceEqual
<1>18. WithFocus(p, focus) = Sealed(c)
  BY <1>6, <1>12, <1>17 DEF WithFocus, FocalBytes
<1> QED BY <1>1, <1>6, <1>12, <1>18 DEF build_servo_packet, serialize_servo

-------------------------------------------------------------------------------

\* The fields of Protocol.ServoPacket, in Java.
JavaHeadNames == {"header", "frameLen", "seq", "deviceType", "packetType", "deviceIp",
                  "reservedConn", "control", "reservedCtrl"}
JavaAngleNames == {"azimuth", "elevation", "azSpeed", "elSpeed"}
java_head == Each("u8", <<"header", "frameLen", "seq", "deviceType", "packetType", "deviceIp",
                          "reservedConn", "control", "reservedCtrl">>)
java_angles == Each("u32", <<"azimuth", "elevation", "azSpeed", "elSpeed">>)
JavaPairNames == {"reservedHorz", "reservedVert"}
java_pair == Each("u16", <<"reservedHorz", "reservedVert">>)
JavaNames == JavaHeadNames \cup JavaAngleNames \cup {"targetDistance"} \cup {"reserved"}
             \cup JavaPairNames \cup {"timestamp"} \cup {"reservedState"} \cup {"backup"}

LEMMA JavaOrder == LayoutOf(java_order, JavaNames, 71) /\ Begins(java_order, "header", "frameLen")
<1>w. 25 = 9 + 16 /\ 27 = 25 + 2 /\ 60 = 27 + 33 /\ 64 = 60 + 4 /\ 68 = 64 + 4 /\ 69 = 68 + 1 /\ 71 = 69 + 2
  OBVIOUS
<1>n. NamesOf(<<"header", "frameLen", "seq", "deviceType", "packetType", "deviceIp",
                "reservedConn", "control", "reservedCtrl">>, 9, JavaHeadNames)
  BY DEF NamesOf, JavaHeadNames
<1>a. LayoutOf(java_head, JavaHeadNames, 9)
  <2>1. Group("u8", java_head, 9, JavaHeadNames)
    BY <1>n, Zenon DEF Group, java_head
  <2> QED BY <2>1, BytesGroup
<1>b. LayoutOf(java_angles, JavaAngleNames, 16)
  <2>1. NamesOf(<<"azimuth", "elevation", "azSpeed", "elSpeed">>, 4, JavaAngleNames)
    BY DEF NamesOf, JavaAngleNames
  <2>2. Group("u32", java_angles, 4, JavaAngleNames) /\ 16 = 4 * 4
    <3>1. Group("u32", java_angles, 4, JavaAngleNames)
      BY <2>1, Zenon DEF Group, java_angles
    <3> QED BY <3>1
  <2> QED BY <2>2, WordsGroup
<1>c. LayoutOf(java_pair, JavaPairNames, 4)
  <2>1. PICK names, N : names = <<"reservedHorz", "reservedVert">> /\ N = JavaPairNames
    OBVIOUS
  <2>2. NamesOf(names, 2, N)
    BY <2>1 DEF NamesOf, JavaPairNames
  <2>3. Times(4, 2, Width("u16"))
    BY Widths DEF Times
  <2>4. LayoutOf(Each("u16", names), N, 4)
    BY <2>2, <2>3, KindsAre, EachLayout
  <2> QED BY <2>1, <2>4 DEF java_pair
<1>d. LayoutOf(One("u16", "targetDistance"), {"targetDistance"}, 2)
  BY OneLayout
<1>e. LayoutOf(One("u8x33", "reserved"), {"reserved"}, 33)
  BY OneLayout
<1>f. LayoutOf(One("u32", "timestamp"), {"timestamp"}, 4)
  BY OneLayout
<1>g. LayoutOf(One("u8", "reservedState"), {"reservedState"}, 1)
  BY OneLayout
<1>h. LayoutOf(One("u16", "backup"), {"backup"}, 2)
  BY OneLayout
<1> DEFINE A == java_head \o java_angles
           B == A \o One("u16", "targetDistance")
           C == B \o One("u8x33", "reserved")
           D == C \o java_pair
           E == D \o One("u32", "timestamp")
           F == E \o One("u8", "reservedState")
           NA == JavaHeadNames \cup JavaAngleNames
           NB == NA \cup {"targetDistance"}
           NC == NB \cup {"reserved"}
           ND == NC \cup JavaPairNames
           NE == ND \cup {"timestamp"}
           NF == NE \cup {"reservedState"}
<1>0. java_order = F \o One("u16", "backup") /\ JavaNames = NF \cup {"backup"}
  BY DEF java_order, java_head, java_angles, java_pair, One, JavaNames
<1>i. /\ JavaHeadNames \cap JavaAngleNames = {} /\ NA \cap {"targetDistance"} = {} /\ NB \cap {"reserved"} = {}
      /\ NC \cap JavaPairNames = {} /\ ND \cap {"timestamp"} = {} /\ NE \cap {"reservedState"} = {}
      /\ NF \cap {"backup"} = {}
  BY DEF JavaHeadNames, JavaAngleNames, JavaPairNames
<1>j. Begins(java_head, "header", "frameLen")
  <2>1. PICK names : names = <<"header", "frameLen", "seq", "deviceType", "packetType", "deviceIp",
                               "reservedConn", "control", "reservedCtrl">>
    OBVIOUS
  <2>2. NamesOf(names, 9, JavaHeadNames) /\ java_head = Each("u8", names) /\ 9 >= 2
    BY <1>n, <2>1 DEF java_head
  <2>3. names[1] = "header" /\ names[2] = "frameLen"
    BY <2>1
  <2>4. Begins(java_head, names[1], names[2])
    BY <2>2, GroupBegins
  <2> QED BY <2>3, <2>4
<1> HIDE DEF A, B, C, D, E, F, NA, NB, NC, ND, NE, NF
<1>1. LayoutOf(A, NA, 25)
  <2>1. JavaHeadNames \cap JavaAngleNames = {} /\ 25 = 9 + 16
    BY <1>w, <1>i
  <2> QED BY <1>a, <1>b, <2>1, LayoutConcat, Zenon DEF A, NA
<1>2. LayoutOf(B, NB, 27)
  <2>1. NA \cap {"targetDistance"} = {} /\ 27 = 25 + 2
    BY <1>w, <1>i
  <2> QED BY <1>1, <1>d, <2>1, LayoutConcat, Zenon DEF B, NB
<1>3. LayoutOf(C, NC, 60)
  <2>1. NB \cap {"reserved"} = {} /\ 60 = 27 + 33
    BY <1>w, <1>i
  <2> QED BY <1>2, <1>e, <2>1, LayoutConcat, ZenonT(40) DEF C, NC
<1>4. LayoutOf(D, ND, 64)
  <2>1. NC \cap JavaPairNames = {}
    BY <1>i
  <2>2. 64 = 60 + 4
    OBVIOUS
  <2> QED BY <1>3, <1>c, <2>1, <2>2, LayoutConcat, ZenonT(40) DEF D, ND
<1>5. LayoutOf(E, NE, 68)
  <2>1. ND \cap {"timestamp"} = {}
    BY <1>i
  <2>2. 68 = 64 + 4
    OBVIOUS
  <2>3. LayoutOf(D \o One("u32", "timestamp"), ND \cup {"timestamp"}, 68)
    <3>1. PICK u, v, x : u = 64 /\ v = 68 /\ x = One("u32", "timestamp")
      OBVIOUS
    <3>2. v = u + 4 /\ LayoutOf(D, ND, u) /\ LayoutOf(x, {"timestamp"}, 4)
      BY <1>4, <1>f, <2>2, <3>1
    <3>3. LayoutOf(D \o x, ND \cup {"timestamp"}, v)
      BY <2>1, <3>2, LayoutConcat, Zenon
    <3> QED BY <3>1, <3>3
  <2> QED BY <2>3 DEF E, NE
<1>6. LayoutOf(F, NF, 69)
  <2>1. NE \cap {"reservedState"} = {} /\ 69 = 68 + 1
    BY <1>w, <1>i
  <2> QED BY <1>5, <1>g, <2>1, LayoutConcat, ZenonT(40) DEF F, NF
<1>7. LayoutOf(F \o One("u16", "backup"), NF \cup {"backup"}, 71)
  <2>1. NF \cap {"backup"} = {} /\ 71 = 69 + 2
    BY <1>w, <1>i
  <2> QED BY <1>6, <1>h, <2>1, LayoutConcat, ZenonT(40)
<1>8. Begins(C, "header", "frameLen")
  <2>1. Begins(A, "header", "frameLen")
    BY <1>j, <1>b, BeginsConcat DEF A
  <2>2. Begins(B, "header", "frameLen")
    BY <2>1, <1>d, BeginsConcat DEF B
  <2> QED BY <2>2, <1>e, BeginsConcat DEF C
<1>9. Begins(F, "header", "frameLen")
  <2>1. Begins(D, "header", "frameLen")
    BY <1>8, <1>c, BeginsConcat DEF D
  <2>2. Begins(E, "header", "frameLen")
    BY <2>1, <1>f, BeginsConcat DEF E
  <2> QED BY <2>2, <1>g, BeginsConcat DEF F
<1>10. Begins(F \o One("u16", "backup"), "header", "frameLen")
  BY <1>9, <1>h, BeginsConcat
<1> QED BY <1>0, <1>7, <1>10

\* The Java programs divide bytes 27 to 63 of a servo frame into other fields,
\* write the first two as constants and the four angles through floatToIntBits.

\* What one record is written as, from its byte n on, is what another one is,
\* and the n bytes before are x.
Twins(l, r, s, x, n) ==
  /\ Typed(l, r) /\ Typed(l, s) /\ Len(x) = n /\ Stands(Put(l, s), 0, x)
  /\ Len(Put(l, r)) = Len(Put(l, s))
  /\ \A k \in 1..Len(Put(l, r)) : k > n => Put(l, s)[k] = Put(l, r)[k]

LEMMA LayoutsJoin ==
  ASSUME NEW l, NEW m, NEW M, NEW N, NEW u, NEW v, LayoutOf(l, M, u), LayoutOf(m, N, v), M \cap N = {}
  PROVE  LayoutOf(l \o m, M \cup N, u + v)
BY LayoutConcat

LEMMA TwinsStart ==
  ASSUME NEW l, NEW N, NEW n, LayoutOf(l, N, n), NEW r, NEW s, Typed(l, r), Typed(l, s)
  PROVE  Twins(l, r, s, Put(l, s), n)
<1>1. PICK p, q : p = Put(l, r) /\ q = Put(l, s)
  OBVIOUS
<1>2. p \in Seq(Byte) /\ Len(p) = n /\ q \in Seq(Byte) /\ Len(q) = n
  BY <1>1, PutOf
<1>3. Stands(q, 0, q)
  BY <1>2 DEF Stands
<1>4. \A k \in 1..Len(p) : k > n => q[k] = p[k]
  BY <1>2
<1> QED BY <1>1, <1>2, <1>3, <1>4 DEF Twins

\* More fields behind them, on which the records agree.
LEMMA TwinsConcat ==
  ASSUME NEW l, NEW M, NEW u, LayoutOf(l, M, u), NEW m, NEW N, NEW v, LayoutOf(m, N, v),
         NEW r, NEW s, NEW x, NEW n, Twins(l, r, s, x, n), Typed(m, r), \A y \in N : r[y] = s[y]
  PROVE  Twins(l \o m, r, s, x, n)
<1>1. PICK p, q, a, e : p = Put(l, r) /\ q = Put(l, s) /\ a = Put(m, r) /\ e = Put(m, s)
  OBVIOUS
<1>2. Typed(m, s) /\ a = e
  BY <1>1, PutAgrees
<1>3. /\ Typed(l, r) /\ Typed(l, s) /\ Len(x) = n /\ Stands(q, 0, x) /\ Len(p) = Len(q)
      /\ \A k \in 1..Len(p) : k > n => q[k] = p[k]
  BY <1>1 DEF Twins
<1>4. Typed(l \o m, r) /\ Put(l \o m, r) = p \o a
  <2>1. Typed(l, r)
    BY <1>3
  <2>2. Typed(l \o m, r) /\ Put(l \o m, r) = Put(l, r) \o Put(m, r)
    BY <2>1, PutTwo
  <2> QED BY <1>1, <2>2
<1>5. Typed(l \o m, s) /\ Put(l \o m, s) = q \o a
  <2>1. Typed(l, s) /\ Typed(m, s)
    BY <1>2, <1>3
  <2>2. Typed(l \o m, s) /\ Put(l \o m, s) = Put(l, s) \o Put(m, s)
    BY <2>1, PutTwo
  <2> QED BY <1>1, <1>2, <2>2
<1>6. p \in Seq(Byte) /\ q \in Seq(Byte) /\ a \in Seq(Byte)
  BY <1>1, <1>3, PutOf
<1>7. PICK i, j : i = Len(p) /\ j = Len(a)
  OBVIOUS
<1>8. /\ p \o a \in Seq(Byte) /\ Len(p \o a) = i + j /\ i \in Nat /\ j \in Nat
      /\ \A k \in 1..i : (p \o a)[k] = p[k]
      /\ \A k \in 1..j : (p \o a)[i + k] = a[k]
  BY <1>6, <1>7, Concatenated
<1>9. /\ q \o a \in Seq(Byte) /\ Len(q \o a) = i + j
      /\ \A k \in 1..i : (q \o a)[k] = q[k]
      /\ \A k \in 1..j : (q \o a)[i + k] = a[k]
  BY <1>3, <1>6, <1>7, Concatenated
<1>10. ASSUME NEW k \in 1..(i + j), k > n PROVE (q \o a)[k] = (p \o a)[k]
  <2>1. CASE k \in 1..i
    BY <1>3, <1>7, <1>8, <1>9, <1>10, <2>1
  <2>2. CASE k \notin 1..i
    <3>1. PICK h : h = k - i
      OBVIOUS
    <3>2. h \in 1..j /\ i + h = k
      BY <1>8, <2>2, <3>1
    <3> QED BY <1>8, <1>9, <3>2
  <2> QED BY <2>1, <2>2
<1>11. Stands(q \o a, 0, x)
  <2>1. Stands(q \o a, 0, q) /\ 0 = 0 + 0
    BY <1>6, StandsParts
  <2> QED BY <1>3, <2>1, StandsIn
<1> QED BY <1>3, <1>4, <1>5, <1>8, <1>9, <1>10, <1>11 DEF Twins

\* The layouts up to the angles and behind them, for both languages.
LEMMA ServoTwins ==
  ASSUME NEW r, NEW s, ServoValues(r), ServoValues(s),
         \A y \in ServoNames : y \notin ServoAngleNames => r[y] = s[y]
  PROVE  /\ Twins(serialize_order, r, s, Put(servo_head \o servo_angles, s), 25)
         /\ Put(servo_head \o servo_angles, s) = Put(servo_head, r) \o Put(servo_angles, s)
         /\ Put(servo_head \o servo_angles, r) = Put(servo_head, r) \o Put(servo_angles, r)
<1>w. 25 = 9 + 16 /\ 27 = 25 + 2 /\ 29 = 27 + 2 /\ 41 = 29 + 12 /\ 16 = 4 * 4 /\ 12 = 4 * 3
  OBVIOUS
<1>g. LayoutOf(servo_head, ServoHeadNames, 9) /\ \A t : (\A x \in ServoHeadNames : t[x] \in Byte) => Typed(servo_head, t)
  BY ServoGroups, BytesGroup
<1>h. LayoutOf(servo_angles, ServoAngleNames, 16) /\ \A t : (\A x \in ServoAngleNames : t[x] \in Word) => Typed(servo_angles, t)
  BY <1>w, ServoGroups, WordsGroup
<1>i. LayoutOf(servo_track, ServoTrackNames, 12) /\ \A t : (\A x \in ServoTrackNames : t[x] \in Word) => Typed(servo_track, t)
  BY <1>w, ServoGroups, WordsGroup
<1>j. /\ LayoutOf(One("u16", "target_distance"), {"target_distance"}, 2)
      /\ LayoutOf(One("i16", "target_el_aberration"), {"target_el_aberration"}, 2)
      /\ LayoutOf(One("u8", "ir_power_ctrl"), {"ir_power_ctrl"}, 1)
  BY OneLayout
<1> DEFINE A == servo_head \o servo_angles
           B == A \o One("u16", "target_distance")
           C == B \o One("i16", "target_el_aberration")
           NA == ServoHeadNames \cup ServoAngleNames
           NB == NA \cup {"target_distance"}
           NC == NB \cup {"target_el_aberration"}
           x == Put(A, s)
<1>0. servo_early = C \o servo_track
  BY DEF servo_early
<1>d. /\ ServoHeadNames \cap ServoAngleNames = {} /\ NA \cap {"target_distance"} = {}
      /\ NB \cap {"target_el_aberration"} = {} /\ NC \cap ServoTrackNames = {}
  BY DEF ServoHeadNames, ServoAngleNames, ServoTrackNames
<1>e. /\ \A y \in ServoHeadNames : r[y] = s[y]
      /\ \A y \in {"target_distance"} : r[y] = s[y]
      /\ \A y \in {"target_el_aberration"} : r[y] = s[y]
      /\ \A y \in ServoTrackNames : r[y] = s[y]
      /\ \A y \in {"ir_power_ctrl"} : r[y] = s[y]
      /\ \A y \in ServoFocal : r[y] = s[y]
      /\ \A y \in ServoRest : r[y] = s[y]
  <2>1. ASSUME NEW y, y \in ServoHeadNames \cup {"target_distance", "target_el_aberration", "ir_power_ctrl"}
                           \cup ServoTrackNames \cup ServoFocal \cup ServoRest
        PROVE  y \in ServoNames /\ y \notin ServoAngleNames
    BY <2>1 DEF ServoNames, ServoFront, ServoEarly, ServoFocal, ServoRest, ServoHeadNames, ServoAngleNames,
                ServoTrackNames, FocalNames
  <2>2. \A y \in ServoHeadNames \cup {"target_distance", "target_el_aberration", "ir_power_ctrl"}
                   \cup ServoTrackNames \cup ServoFocal \cup ServoRest : r[y] = s[y]
    BY <2>1
  <2> QED BY <2>2
<1>t. ASSUME NEW t, ServoValues(t)
      PROVE  /\ Typed(servo_head, t) /\ Typed(servo_angles, t) /\ Typed(servo_track, t)
             /\ Typed(One("u16", "target_distance"), t) /\ Typed(One("i16", "target_el_aberration"), t)
             /\ Typed(One("u8", "ir_power_ctrl"), t) /\ Typed(servo_focal, t) /\ Typed(servo_rest, t)
  <2>1. /\ \A y \in ServoHeadNames : t[y] \in Byte
        /\ \A y \in ServoAngleNames : t[y] \in Word
        /\ \A y \in ServoTrackNames : t[y] \in Word
        /\ t["ir_power_ctrl"] \in Byte /\ t["target_distance"] \in Half /\ t["target_el_aberration"] \in Short
    BY <1>t DEF ServoValues, ServoBytes, ServoHalves, ServoWords
  <2>2. /\ t["ir_power_ctrl"] \in Values("u8") /\ t["target_distance"] \in Values("u16")
        /\ t["target_el_aberration"] \in Values("i16")
    BY <2>1, Codec
  <2>3. /\ Typed(One("u16", "target_distance"), t) /\ Typed(One("i16", "target_el_aberration"), t)
        /\ Typed(One("u8", "ir_power_ctrl"), t)
    BY <2>2, KindsAre, OneLayout
  <2>4. Typed(servo_focal, t) /\ Typed(servo_rest, t)
    BY <1>t, FocalLayout, RestLayout
  <2> QED BY <1>g, <1>h, <1>i, <2>1, <2>3, <2>4
<1> HIDE DEF A, B, C, NA, NB, NC, x
<1>1. LayoutOf(A, NA, 25)
  <2>1. ServoHeadNames \cap ServoAngleNames = {} /\ 25 = 9 + 16
    BY <1>w, <1>d
  <2>2. LayoutOf(servo_head, ServoHeadNames, 9) /\ LayoutOf(servo_angles, ServoAngleNames, 16)
    BY <1>g, <1>h
  <2>3. LayoutOf(servo_head \o servo_angles, ServoHeadNames \cup ServoAngleNames, 9 + 16)
    BY <2>1, <2>2, LayoutsJoin
  <2> QED BY <2>1, <2>3 DEF A, NA
<1>2. LayoutOf(B, NB, 27)
  <2>1. NA \cap {"target_distance"} = {} /\ 27 = 25 + 2
    BY <1>w, <1>d
  <2>2. LayoutOf(A, NA, 25) /\ LayoutOf(One("u16", "target_distance"), {"target_distance"}, 2)
    BY <1>1, <1>j
  <2>3. LayoutOf(A \o One("u16", "target_distance"), NA \cup {"target_distance"}, 25 + 2)
    BY <2>1, <2>2, LayoutsJoin
  <2> QED BY <2>1, <2>3 DEF B, NB
<1>3. LayoutOf(C, NC, 29)
  <2>1. NB \cap {"target_el_aberration"} = {} /\ 29 = 27 + 2
    BY <1>w, <1>d
  <2>2. LayoutOf(B, NB, 27) /\ LayoutOf(One("i16", "target_el_aberration"), {"target_el_aberration"}, 2)
    BY <1>2, <1>j
  <2>3. LayoutOf(B \o One("i16", "target_el_aberration"), NB \cup {"target_el_aberration"}, 27 + 2)
    BY <2>1, <2>2, LayoutsJoin
  <2> QED BY <2>1, <2>3 DEF C, NC
<1>4. /\ Typed(A, r) /\ Put(A, r) = Put(servo_head, r) \o Put(servo_angles, r)
      /\ Typed(A, s) /\ Put(A, s) = Put(servo_head, s) \o Put(servo_angles, s)
  <2>1. Typed(servo_head, r) /\ Typed(servo_angles, r) /\ Typed(servo_head, s) /\ Typed(servo_angles, s)
    BY <1>t
  <2> QED BY <1>g, <1>h, <2>1, PutTwo DEF A
<1>5. Put(servo_head, r) = Put(servo_head, s)
  BY <1>e, <1>g, <1>t, PutAgrees
<1>6. Twins(A, r, s, x, 25)
  BY <1>1, <1>4, TwinsStart DEF x
<1>7. Twins(B, r, s, x, 25)
  BY <1>1, <1>6, <1>j, <1>t, <1>e, TwinsConcat DEF B
<1>8. Twins(C, r, s, x, 25)
  BY <1>2, <1>7, <1>j, <1>t, <1>e, TwinsConcat DEF C
<1>9. Twins(servo_early, r, s, x, 25)
  BY <1>0, <1>3, <1>8, <1>i, <1>t, <1>e, TwinsConcat
<1>10. Twins(servo_front, r, s, x, 25)
  BY <1>9, <1>j, <1>t, <1>e, FrontLayout, TwinsConcat DEF servo_front
<1>11. Twins(servo_front \o servo_focal, r, s, x, 25)
  BY <1>10, <1>t, <1>e, FrontLayout, FocalLayout, TwinsConcat
<1>12. Twins((servo_front \o servo_focal) \o servo_rest, r, s, x, 25)
  BY <1>11, <1>t, <1>e, ServoOrder, RestLayout, TwinsConcat
<1> QED BY <1>4, <1>5, <1>12, ServoOrder DEF A, x

\* The layouts of the Java record.
LEMMA JavaLayouts ==
  /\ LayoutOf(java_head, JavaHeadNames, 9) /\ LayoutOf(java_angles, JavaAngleNames, 16)
  /\ LayoutOf(java_pair, JavaPairNames, 4)
<1>1. LayoutOf(java_head, JavaHeadNames, 9)
  <2>1. NamesOf(<<"header", "frameLen", "seq", "deviceType", "packetType", "deviceIp",
                  "reservedConn", "control", "reservedCtrl">>, 9, JavaHeadNames)
    BY DEF NamesOf, JavaHeadNames
  <2>2. Group("u8", java_head, 9, JavaHeadNames)
    BY <2>1, Zenon DEF Group, java_head
  <2> QED BY <2>2, BytesGroup
<1>2. LayoutOf(java_angles, JavaAngleNames, 16)
  <2>1. NamesOf(<<"azimuth", "elevation", "azSpeed", "elSpeed">>, 4, JavaAngleNames)
    BY DEF NamesOf, JavaAngleNames
  <2>2. Group("u32", java_angles, 4, JavaAngleNames) /\ 16 = 4 * 4
    <3>1. Group("u32", java_angles, 4, JavaAngleNames)
      BY <2>1, Zenon DEF Group, java_angles
    <3> QED BY <3>1
  <2> QED BY <2>2, WordsGroup
<1>3. LayoutOf(java_pair, JavaPairNames, 4)
  <2>1. PICK names, N : names = <<"reservedHorz", "reservedVert">> /\ N = JavaPairNames
    OBVIOUS
  <2>2. NamesOf(names, 2, N)
    BY <2>1 DEF NamesOf, JavaPairNames
  <2>3. Times(4, 2, Width("u16"))
    BY Widths DEF Times
  <2>4. LayoutOf(Each("u16", names), N, 4)
    BY <2>2, <2>3, KindsAre, EachLayout
  <2> QED BY <2>1, <2>4 DEF java_pair
<1> QED BY <1>1, <1>2, <1>3

\* The fields of the first and of the second layout.
LEMMA TypedParts ==
  ASSUME NEW l, NEW m, NEW M, NEW N, NEW u, NEW v, LayoutOf(l, M, u), LayoutOf(m, N, v),
         NEW r, Typed(l \o m, r)
  PROVE  Typed(l, r) /\ Typed(m, r)
<1> DEFINE F == Field(M \cup N)
<1>1. Field(M) \subseteq F /\ Field(N) \subseteq F
  BY DEF Field
<1>2. l \in Seq(Field(M)) /\ m \in Seq(Field(N))
  BY DEF LayoutOf
<1> HIDE DEF F
<1>3. l \in Seq(F) /\ m \in Seq(F)
  BY <1>1, <1>2, SeqMonotonic
<1>4. /\ Len(l \o m) = Len(l) + Len(m)
      /\ \A k \in 1..Len(l) : (l \o m)[k] = l[k]
      /\ \A k \in 1..Len(m) : (l \o m)[Len(l) + k] = m[k]
  BY <1>3, ConcatLayout DEF F
<1>5. Len(l) \in Nat /\ Len(m) \in Nat
  BY <1>2
<1>6. Typed(l, r)
  <2>1. ASSUME NEW k \in 1..Len(l) PROVE r[l[k].name] \in Values(l[k].kind)
    <3>1. k \in 1..Len(l \o m)
      BY <1>4, <1>5
    <3> QED BY <1>4, <3>1 DEF Typed
  <2> QED BY <2>1 DEF Typed
<1>7. Typed(m, r)
  <2>1. ASSUME NEW k \in 1..Len(m) PROVE r[m[k].name] \in Values(m[k].kind)
    <3>1. PICK j : j = Len(l) + k
      OBVIOUS
    <3>2. j \in 1..Len(l \o m) /\ (l \o m)[j] = m[k]
      BY <1>4, <1>5, <3>1
    <3> QED BY <3>2 DEF Typed
  <2> QED BY <2>1 DEF Typed
<1> QED BY <1>6, <1>7

\* The layouts up to the angles and behind them.
LEMMA JavaTwins ==
  ASSUME NEW r, NEW s, Typed(java_order, r),
         \A y \in JavaNames : y \notin JavaAngleNames => r[y] = s[y]
  PROVE  /\ Typed(java_head, r) /\ Typed(java_angles, r)
         /\ Typed(java_angles, s) =>
              /\ Twins(java_order, r, s, Put(java_head \o java_angles, s), 25)
              /\ Put(java_head \o java_angles, s) = Put(java_head, r) \o Put(java_angles, s)
<1>w. 25 = 9 + 16 /\ 27 = 25 + 2 /\ 60 = 27 + 33 /\ 64 = 60 + 4 /\ 68 = 64 + 4 /\ 69 = 68 + 1 /\ 71 = 69 + 2
  OBVIOUS
<1>j. /\ LayoutOf(One("u16", "targetDistance"), {"targetDistance"}, 2)
      /\ LayoutOf(One("u8x33", "reserved"), {"reserved"}, 33)
      /\ LayoutOf(One("u32", "timestamp"), {"timestamp"}, 4)
      /\ LayoutOf(One("u8", "reservedState"), {"reservedState"}, 1)
      /\ LayoutOf(One("u16", "backup"), {"backup"}, 2)
  BY OneLayout
<1> DEFINE A == java_head \o java_angles
           B == A \o One("u16", "targetDistance")
           C == B \o One("u8x33", "reserved")
           D == C \o java_pair
           E == D \o One("u32", "timestamp")
           F == E \o One("u8", "reservedState")
           NA == JavaHeadNames \cup JavaAngleNames
           NB == NA \cup {"targetDistance"}
           NC == NB \cup {"reserved"}
           ND == NC \cup JavaPairNames
           NE == ND \cup {"timestamp"}
           NF == NE \cup {"reservedState"}
           x == Put(A, s)
<1>0. java_order = F \o One("u16", "backup")
  BY DEF java_order, java_head, java_angles, java_pair, One
<1>i. /\ JavaHeadNames \cap JavaAngleNames = {} /\ NA \cap {"targetDistance"} = {} /\ NB \cap {"reserved"} = {}
      /\ NC \cap JavaPairNames = {} /\ ND \cap {"timestamp"} = {} /\ NE \cap {"reservedState"} = {}
  BY DEF JavaHeadNames, JavaAngleNames, JavaPairNames
<1>e. /\ \A y \in JavaHeadNames : r[y] = s[y]
      /\ \A y \in {"targetDistance"} : r[y] = s[y]
      /\ \A y \in {"reserved"} : r[y] = s[y]
      /\ \A y \in JavaPairNames : r[y] = s[y]
      /\ \A y \in {"timestamp"} : r[y] = s[y]
      /\ \A y \in {"reservedState"} : r[y] = s[y]
      /\ \A y \in {"backup"} : r[y] = s[y]
  <2>1. ASSUME NEW y, y \in JavaHeadNames \cup {"targetDistance", "reserved", "timestamp", "reservedState", "backup"}
                           \cup JavaPairNames
        PROVE  y \in JavaNames /\ y \notin JavaAngleNames
    BY <2>1 DEF JavaNames, JavaHeadNames, JavaAngleNames, JavaPairNames
  <2>2. \A y \in JavaHeadNames \cup {"targetDistance", "reserved", "timestamp", "reservedState", "backup"}
                   \cup JavaPairNames : r[y] = s[y]
    BY <2>1
  <2> QED BY <2>2
<1> HIDE DEF A, B, C, D, E, F, NA, NB, NC, ND, NE, NF, x
<1>1. LayoutOf(A, NA, 25)
  <2>1. JavaHeadNames \cap JavaAngleNames = {} /\ 25 = 9 + 16
    BY <1>w, <1>i
  <2>2. LayoutOf(java_head, JavaHeadNames, 9) /\ LayoutOf(java_angles, JavaAngleNames, 16)
    BY JavaLayouts
  <2>3. LayoutOf(java_head \o java_angles, JavaHeadNames \cup JavaAngleNames, 9 + 16)
    BY <2>1, <2>2, LayoutsJoin
  <2> QED BY <2>1, <2>3 DEF A, NA
<1>2. LayoutOf(B, NB, 27)
  <2>1. NA \cap {"targetDistance"} = {} /\ 27 = 25 + 2
    BY <1>w, <1>i
  <2>2. LayoutOf(A, NA, 25) /\ LayoutOf(One("u16", "targetDistance"), {"targetDistance"}, 2)
    BY <1>1, <1>j
  <2>3. LayoutOf(A \o One("u16", "targetDistance"), NA \cup {"targetDistance"}, 25 + 2)
    BY <2>1, <2>2, LayoutsJoin
  <2> QED BY <2>1, <2>3 DEF B, NB
<1>3. LayoutOf(C, NC, 60)
  <2>1. NB \cap {"reserved"} = {} /\ 60 = 27 + 33
    BY <1>w, <1>i
  <2>2. LayoutOf(B, NB, 27) /\ LayoutOf(One("u8x33", "reserved"), {"reserved"}, 33)
    BY <1>2, <1>j
  <2>3. LayoutOf(B \o One("u8x33", "reserved"), NB \cup {"reserved"}, 27 + 33)
    BY <2>1, <2>2, LayoutsJoin
  <2> QED BY <2>1, <2>3 DEF C, NC
<1>4. LayoutOf(D, ND, 64)
  <2>1. NC \cap JavaPairNames = {} /\ 64 = 60 + 4
    BY <1>w, <1>i
  <2>2. LayoutOf(C, NC, 60) /\ LayoutOf(java_pair, JavaPairNames, 4)
    BY <1>3, JavaLayouts
  <2>3. LayoutOf(C \o java_pair, NC \cup JavaPairNames, 60 + 4)
    BY <2>1, <2>2, LayoutsJoin
  <2> QED BY <2>1, <2>3 DEF D, ND
<1>5. LayoutOf(E, NE, 68)
  <2>1. ND \cap {"timestamp"} = {} /\ 68 = 64 + 4
    BY <1>w, <1>i
  <2>2. LayoutOf(D, ND, 64) /\ LayoutOf(One("u32", "timestamp"), {"timestamp"}, 4)
    BY <1>4, <1>j
  <2>3. LayoutOf(D \o One("u32", "timestamp"), ND \cup {"timestamp"}, 64 + 4)
    BY <2>1, <2>2, LayoutsJoin
  <2> QED BY <2>1, <2>3 DEF E, NE
<1>6. LayoutOf(F, NF, 69)
  <2>1. NE \cap {"reservedState"} = {} /\ 69 = 68 + 1
    BY <1>w, <1>i
  <2>2. LayoutOf(E, NE, 68) /\ LayoutOf(One("u8", "reservedState"), {"reservedState"}, 1)
    BY <1>5, <1>j
  <2>3. LayoutOf(E \o One("u8", "reservedState"), NE \cup {"reservedState"}, 68 + 1)
    BY <2>1, <2>2, LayoutsJoin
  <2> QED BY <2>1, <2>3 DEF F, NF
<1>7. Typed(F, r) /\ Typed(One("u16", "backup"), r)
  BY <1>0, <1>6, <1>j, TypedParts
<1>8. Typed(E, r) /\ Typed(One("u8", "reservedState"), r)
  BY <1>7, <1>5, <1>j, TypedParts DEF F
<1>9. Typed(D, r) /\ Typed(One("u32", "timestamp"), r)
  BY <1>8, <1>4, <1>j, TypedParts DEF E
<1>10. Typed(C, r) /\ Typed(java_pair, r)
  BY <1>9, <1>3, JavaLayouts, TypedParts DEF D
<1>11. Typed(B, r) /\ Typed(One("u8x33", "reserved"), r)
  BY <1>10, <1>2, <1>j, TypedParts DEF C
<1>12. Typed(A, r) /\ Typed(One("u16", "targetDistance"), r)
  BY <1>11, <1>1, <1>j, TypedParts DEF B
<1>13. Typed(java_head, r) /\ Typed(java_angles, r)
  BY <1>12, JavaLayouts, TypedParts DEF A
<1>14. ASSUME Typed(java_angles, s)
       PROVE  /\ Twins(java_order, r, s, x, 25)
              /\ Put(A, s) = Put(java_head, r) \o Put(java_angles, s)
  <2>1. Typed(java_head, s) /\ Put(java_head, r) = Put(java_head, s)
    BY <1>13, <1>e, JavaLayouts, PutAgrees
  <2>2. Typed(A, s) /\ Put(A, s) = Put(java_head, s) \o Put(java_angles, s)
    <3>1. Typed(java_head, s) /\ Typed(java_angles, s)
      BY <1>14, <2>1
    <3>2. LayoutOf(java_head, JavaHeadNames, 9) /\ LayoutOf(java_angles, JavaAngleNames, 16)
      BY JavaLayouts
    <3>3. Typed(java_head \o java_angles, s)
          /\ Put(java_head \o java_angles, s) = Put(java_head, s) \o Put(java_angles, s)
      BY <3>1, <3>2, PutTwo
    <3> QED BY <3>3 DEF A
  <2>3. Twins(A, r, s, x, 25)
    BY <1>1, <1>12, <2>2, TwinsStart DEF x
  <2>4. Twins(B, r, s, x, 25)
    BY <1>1, <2>3, <1>j, <1>12, <1>e, TwinsConcat DEF B
  <2>5. Twins(C, r, s, x, 25)
    BY <1>2, <2>4, <1>j, <1>11, <1>e, TwinsConcat DEF C
  <2>6. Twins(D, r, s, x, 25)
    BY <1>3, <2>5, JavaLayouts, <1>10, <1>e, TwinsConcat DEF D
  <2>7. Twins(E, r, s, x, 25)
    BY <1>4, <2>6, <1>j, <1>9, <1>e, TwinsConcat DEF E
  <2>8. Twins(F, r, s, x, 25)
    BY <1>5, <2>7, <1>j, <1>8, <1>e, TwinsConcat DEF F
  <2>9. Twins(java_order, r, s, x, 25)
    BY <1>0, <1>6, <2>8, <1>j, <1>7, <1>e, TwinsConcat
  <2> QED BY <2>1, <2>2, <2>9
<1> QED BY <1>13, <1>14 DEF A, x

\* Fields of one kind hold the same bytes exactly if they hold the same values.
LEMMA EachAlike ==
  ASSUME NEW kind \in Kinds, NEW a, NEW b, NEW n, NEW M, NEW N, NamesOf(a, n, M), NamesOf(b, n, N),
         NEW r, NEW s, Typed(Each(kind, a), r), Typed(Each(kind, b), s)
  PROVE  Put(Each(kind, a), r) = Put(Each(kind, b), s) <=> \A k \in 1..n : r[a[k]] = s[b[k]]
<1>1. PICK l, m, p, q : l = Each(kind, a) /\ m = Each(kind, b) /\ p = Put(l, r) /\ q = Put(m, s)
  OBVIOUS
<1>2. /\ a \in Seq(M) /\ Len(a) = n /\ b \in Seq(N) /\ Len(b) = n /\ n \in Nat
  BY DEF NamesOf
<1>3. /\ l \in Seq(Field(M)) /\ Len(l) = n /\ \A k \in 1..n : l[k].name = a[k] /\ l[k].kind = kind
      /\ m \in Seq(Field(N)) /\ Len(m) = n /\ \A k \in 1..n : m[k].name = b[k] /\ m[k].kind = kind
  <2>1. a \in Seq(M) /\ b \in Seq(N) /\ Len(a) = n /\ Len(b) = n
    BY <1>2
  <2>2. /\ Each(kind, a) \in Seq(Field(M)) /\ Len(Each(kind, a)) = Len(a)
        /\ \A k \in 1..Len(a) : Each(kind, a)[k].name = a[k] /\ Each(kind, a)[k].kind = kind
    BY <2>1, EachIs
  <2>3. /\ Each(kind, b) \in Seq(Field(N)) /\ Len(Each(kind, b)) = Len(b)
        /\ \A k \in 1..Len(b) : Each(kind, b)[k].name = b[k] /\ Each(kind, b)[k].kind = kind
    BY <2>1, EachIs
  <2> QED BY <1>1, <2>1, <2>2, <2>3
<1>4. Typed(l, r) /\ Typed(m, s)
  BY <1>1
<1>5. \A k \in 1..(n + 1) : Offset(l, k) = Offset(m, k)
  <2>1. TAKE k \in 1..(n + 1)
  <2>2. PICK j : j = k - 1
    OBVIOUS
  <2>3. j \in 0..n /\ j + 1 = k
    BY <1>2, <2>2
  <2>4. Times(Offset(Each(kind, a), j + 1), j, Width(kind)) /\ Times(Offset(Each(kind, b), j + 1), j, Width(kind))
    BY <2>3, EachOffset
  <2> QED BY <1>1, <2>3, <2>4 DEF Times
<1>6. Size(l) = Size(m)
  <2>1. n + 1 \in 1..(n + 1)
    BY <1>2
  <2> QED BY <1>3, <1>5, <2>1 DEF Size
<1>7. /\ p \in Seq(Byte) /\ Len(p) = Size(l)
      /\ \A k \in 1..n : Slice(p, Offset(l, k), Offset(l, k + 1)) = Encoded(l, r, k)
  BY <1>1, <1>3, <1>4, PutFields
<1>8. /\ q \in Seq(Byte) /\ Len(q) = Size(m)
      /\ \A k \in 1..n : Slice(q, Offset(m, k), Offset(m, k + 1)) = Encoded(m, s, k)
  BY <1>1, <1>3, <1>4, PutFields
<1>9. \A k \in 1..n : Slice(q, Offset(l, k), Offset(l, k + 1)) = Encoded(m, s, k)
  <2>1. TAKE k \in 1..n
  <2>2. k \in 1..(n + 1) /\ k + 1 \in 1..(n + 1)
    BY <1>2
  <2> QED BY <1>5, <1>8, <2>2
<1>10. ASSUME p = q, NEW k \in 1..n PROVE r[a[k]] = s[b[k]]
  <2>1. Encoded(l, r, k) = Encoded(m, s, k)
    BY <1>7, <1>9, <1>10
  <2>2. Decode(l[k].kind, Encoded(l, r, k)) = r[l[k].name]
    <3>1. l \in Seq(Field(M)) /\ Typed(l, r) /\ k \in 1..Len(l)
      BY <1>3, <1>4
    <3> QED BY <3>1, EncodedIs
  <2>3. Decode(m[k].kind, Encoded(m, s, k)) = s[m[k].name]
    <3>1. m \in Seq(Field(N)) /\ Typed(m, s) /\ k \in 1..Len(m)
      BY <1>3, <1>4
    <3> QED BY <3>1, EncodedIs
  <2> QED BY <1>3, <2>1, <2>2, <2>3
<1>11. ASSUME \A k \in 1..n : r[a[k]] = s[b[k]] PROVE p = q
  <2>1. \A k \in 1..n : Encoded(l, r, k) = Encoded(m, s, k)
    BY <1>3, <1>11 DEF Encoded
  <2>2. \A k \in 1..Len(l) : Slice(q, Offset(l, k), Offset(l, k + 1)) = Encoded(l, r, k)
    BY <1>3, <1>9, <2>1
  <2>3. Len(q) = Size(l)
    BY <1>6, <1>8
  <2>4. q = Put(l, r)
    BY <1>3, <1>4, <1>8, <2>2, <2>3, PutIsOnly
  <2> QED BY <1>1, <2>4
<1> QED BY <1>1, <1>10, <1>11

JavaAngles == <<"azimuth", "elevation", "azSpeed", "elSpeed">>
ServoAngles == <<"azimuth", "elevation", "az_speed", "el_speed">>

\* The angles of both records, one by one.
LEMMA AnglesAlike ==
  /\ \A r, s : Typed(java_angles, r) /\ Typed(servo_angles, s) =>
       (Put(java_angles, r) = Put(servo_angles, s) <=> \A k \in 1..4 : r[JavaAngles[k]] = s[ServoAngles[k]])
  /\ JavaAngleNames = {JavaAngles[k] : k \in 1..4} /\ ServoAngleNames = {ServoAngles[k] : k \in 1..4}
  /\ \A r : Typed(java_angles, r) <=> \A k \in 1..4 : r[JavaAngles[k]] \in Word
  /\ \A s : Typed(servo_angles, s) <=> \A k \in 1..4 : s[ServoAngles[k]] \in Word
<1>1. NamesOf(JavaAngles, 4, JavaAngleNames)
  BY DEF NamesOf, JavaAngleNames, JavaAngles
<1>2. NamesOf(ServoAngles, 4, ServoAngleNames)
  BY DEF NamesOf, ServoAngleNames, ServoAngles
<1>3. java_angles = Each("u32", JavaAngles) /\ servo_angles = Each("u32", ServoAngles)
  BY DEF java_angles, servo_angles, JavaAngles, ServoAngles
<1>4. ASSUME NEW r, NEW s, Typed(java_angles, r), Typed(servo_angles, s)
      PROVE  Put(java_angles, r) = Put(servo_angles, s) <=> \A k \in 1..4 : r[JavaAngles[k]] = s[ServoAngles[k]]
  BY <1>1, <1>2, <1>3, <1>4, KindsAre, EachAlike
<1>5. JavaAngleNames = {JavaAngles[k] : k \in 1..4} /\ ServoAngleNames = {ServoAngles[k] : k \in 1..4}
  BY <1>1, <1>2 DEF NamesOf
<1>6. ASSUME NEW names, NEW N, NamesOf(names, 4, N)
      PROVE  \A r : Typed(Each("u32", names), r) <=> \A k \in 1..4 : r[names[k]] \in Word
  <2>1. names \in Seq(N) /\ Len(names) = 4
    BY <1>6 DEF NamesOf
  <2>2. /\ Len(Each("u32", names)) = 4
        /\ \A k \in 1..4 : Each("u32", names)[k].name = names[k] /\ Each("u32", names)[k].kind = "u32"
    <3>1. /\ Len(Each("u32", names)) = Len(names)
          /\ \A k \in 1..Len(names) : Each("u32", names)[k].name = names[k] /\ Each("u32", names)[k].kind = "u32"
      <4>1. names \in Seq(N) /\ "u32" \in Kinds
        BY <2>1, KindsAre
      <4>2. PICK kind \in Kinds : kind = "u32"
        BY <4>1
      <4>3. /\ Len(Each(kind, names)) = Len(names)
            /\ \A k \in 1..Len(names) : Each(kind, names)[k].name = names[k] /\ Each(kind, names)[k].kind = kind
        BY <4>1, EachIs
      <4> QED BY <4>2, <4>3
    <3> QED BY <2>1, <3>1
  <2>3. Values("u32") = Word
    BY Codec
  <2> QED BY <2>2, <2>3 DEF Typed
<1>7. \A r : Typed(java_angles, r) <=> \A k \in 1..4 : r[JavaAngles[k]] \in Word
  BY <1>1, <1>3, <1>6
<1>8. \A s : Typed(servo_angles, s) <=> \A k \in 1..4 : s[ServoAngles[k]] \in Word
  BY <1>2, <1>3, <1>6
<1> QED BY <1>4, <1>5, <1>7, <1>8

LEMMA FloatBits == ASSUME NEW w \in Word PROVE floatToIntBits(w) \in Word
BY DEF floatToIntBits, Word, Half

\* The fields a sender set, with the angles as Java writes them.
LEMMA RewrittenIs ==
  ASSUME NEW f, ServoFields(f)
  PROVE  /\ ServoFields(Rewritten(f))
         /\ \A x \in ServoNames : x \notin ServoAngleNames => Members(Rewritten(f))[x] = Members(f)[x]
         /\ \A x \in ServoAngleNames : Members(Rewritten(f))[x] = floatToIntBits(Members(f)[x])
<1>1. PICK g : g = Rewritten(f)
  OBVIOUS
<1>2. /\ DOMAIN g = DOMAIN f
      /\ \A x \in DOMAIN f : x \notin ServoAngleNames => g[x] = f[x]
      /\ \A x \in DOMAIN f : x \in ServoAngleNames => g[x] = floatToIntBits(f[x])
  BY <1>1 DEF Rewritten, ServoAngleNames
<1>3. /\ ServoAngleNames \subseteq ServoWords /\ ServoAngleNames \subseteq ServoNames
      /\ \A x \in ServoAngleNames : x \notin ServoBytes /\ x \notin ServoHalves
  BY DEF ServoAngleNames, ServoWords, ServoNames, ServoFront, ServoEarly, ServoBytes, ServoHalves, ServoHeadNames
<1>4. ServoFields(g)
  <2>1. \A x \in ServoBytes : x \in DOMAIN g => g[x] \in Byte
    BY <1>2, <1>3 DEF ServoFields
  <2>2. \A x \in ServoHalves : x \in DOMAIN g => g[x] \in Half
    BY <1>2, <1>3 DEF ServoFields
  <2>3. \A x \in ServoWords : x \in DOMAIN g => g[x] \in Word
    <3>1. \A x \in ServoWords : x \in DOMAIN f => f[x] \in Word
      BY DEF ServoFields
    <3> QED BY <1>2, <3>1, FloatBits
  <2>4. \A x \in Fixed : x \notin DOMAIN g
    BY <1>2 DEF ServoFields
  <2> QED BY <2>1, <2>2, <2>3, <2>4 DEF ServoFields
<1>5. \A x \in ServoNames : Members(f)[x] = IF x \in DOMAIN f THEN f[x] ELSE ServoPacket[x]
  BY MembersAre
<1>6. \A x \in ServoNames : Members(g)[x] = IF x \in DOMAIN g THEN g[x] ELSE ServoPacket[x]
  BY <1>4, MembersAre
<1>7. \A x \in ServoNames : x \notin ServoAngleNames => Members(g)[x] = Members(f)[x]
  BY <1>2, <1>5, <1>6
<1>8. \A x \in ServoAngleNames : Members(g)[x] = floatToIntBits(Members(f)[x])
  <2>1. floatToIntBits(<<0, 0>>) = <<0, 0>>
    BY DEF floatToIntBits, IsNaN
  <2>2. \A x \in ServoAngleNames : ServoPacket[x] = <<0, 0>>
    BY <1>3, ServoDefaults
  <2> QED BY <1>2, <1>3, <1>5, <1>6, <2>1, <2>2
<1> QED BY <1>1, <1>4, <1>7, <1>8

\* Two strings that begin the same way and go on the same way.
LEMMA SameBytes ==
  ASSUME NEW p \in Seq(Byte), NEW q \in Seq(Byte), Len(p) = Len(q), NEW x, Stands(p, 0, x), Stands(q, 0, x),
         NEW n, n = Len(x), \A k \in 1..Len(p) : k > n => p[k] = q[k]
  PROVE  p = q
<1>1. /\ x \in Seq(Byte) /\ \A k \in 1..Len(x) : p[0 + k] = x[k]
      /\ \A k \in 1..Len(x) : q[0 + k] = x[k]
  BY DEF Stands
<1>2. ASSUME NEW k \in 1..Len(p) PROVE p[k] = q[k]
  <2>1. CASE k > n
    BY <2>1
  <2>2. CASE ~(k > n)
    <3>1. k \in 1..Len(x) /\ 0 + k = k
      BY <1>1, <2>2
    <3> QED BY <1>1, <3>1
  <2> QED BY <2>1, <2>2
<1> QED BY <1>2

\* Of every servo frame that the library seals the simulator makes the frame
\* that it would have made of the same fields with the angles as Java writes
\* them: the same 72 bytes, unless an angle is not a number (Protocol.java:146-237).
THEOREM ServoFramesAreEchoed ==
  ASSUME NEW f, ServoFields(f)
  PROVE  serializeServo(parseServo(serialize_servo(Members(f)))) = serialize_servo(Members(Rewritten(f)))
<1>1. PICK s, t, w, b, d : /\ s = Members(f) /\ t = Members(Rewritten(f)) /\ w = serialize_servo(s)
                           /\ b = Put(serialize_order, s) /\ d = Put(serialize_order, t)
  OBVIOUS
<1>2. /\ ServoValues(s) /\ ServoValues(t)
      /\ \A x \in ServoNames : x \notin ServoAngleNames => s[x] = t[x]
      /\ \A x \in ServoAngleNames : t[x] = floatToIntBits(s[x])
  <2>1. /\ ServoFields(Rewritten(f))
        /\ \A x \in ServoNames : x \notin ServoAngleNames => t[x] = s[x]
        /\ \A x \in ServoAngleNames : t[x] = floatToIntBits(s[x])
    BY <1>1, RewrittenIs
  <2> QED BY <1>1, <2>1, MembersAre
<1>3. IsServo(w) /\ w = Sealed(b)
  BY <1>1, ServoRoundTrip DEF serialize_servo
<1>4. Typed(serialize_order, s) /\ Typed(serialize_order, t) /\ LayoutOf(serialize_order, ServoNames, 71)
  BY <1>2, ServoOrder
<1>5. b \in Seq(Byte) /\ Len(b) = 71 /\ d \in Seq(Byte) /\ Len(d) = 71
  BY <1>1, <1>4, PutOf
<1>6. Slice(w, 0, 71) = b
  <2>1. PICK n \in Nat : n = 71
    OBVIOUS
  <2>2. b \in Seq(Byte) /\ n = Len(b) /\ w = Sealed(b)
    BY <1>3, <1>5, <2>1
  <2>3. Slice(w, 0, n) = b
    BY <2>2, SealedIs
  <2> QED BY <2>1, <2>3
<1>7. PICK q : q = Get(java_order, w, 0)
  OBVIOUS
<1>8. parseServo(w) = q
  BY <1>3, <1>7, ServoIs DEF parseServo
<1>9. Typed(java_order, q) /\ DOMAIN q = JavaNames /\ Put(java_order, q) = b
  <2>1. LayoutOf(java_order, JavaNames, 71) /\ w \in Seq(Byte) /\ 71 <= Len(w)
    BY <1>3, JavaOrder DEF IsServo
  <2>2. /\ Typed(java_order, Get(java_order, w, 0)) /\ DOMAIN Get(java_order, w, 0) = JavaNames
        /\ Put(java_order, Get(java_order, w, 0)) = Slice(w, 0, 71)
    BY <2>1, PutOfGet
  <2> QED BY <1>6, <1>7, <2>2
<1>10. q["header"] = 126 /\ q["frameLen"] = 72
  <2>1. b[1] = q["header"] /\ b[2] = q["frameLen"]
    BY <1>9, JavaOrder, FirstBytes
  <2>2. s["header"] = 126 /\ s["frame_len"] = 72
    BY <1>1, MembersAre
  <2>3. b[1] = s["header"] /\ b[2] = s["frame_len"]
    BY <1>1, <1>4, ServoBegins, FirstBytes
  <2> QED BY <2>1, <2>2, <2>3
<1>11. PICK r : r = [name \in DOMAIN q |->
                       CASE name = "header" -> servo_header
                         [] name = "frameLen" -> servo_frame_len
                         [] name \in java_floats -> floatToIntBits(q[name])
                         [] OTHER -> q[name]]
  OBVIOUS
<1>12. serializeServo(q) = Sealed(Put(java_order, r))
  BY <1>11 DEF serializeServo
<1>13. /\ \A x \in JavaNames : x \notin JavaAngleNames => q[x] = r[x]
       /\ \A x \in JavaAngleNames : r[x] = floatToIntBits(q[x])
  <2>1. java_floats = JavaAngleNames
    BY DEF java_floats, JavaAngleNames
  <2>2. "header" \notin JavaAngleNames /\ "frameLen" \notin JavaAngleNames /\ JavaAngleNames \subseteq JavaNames
    BY DEF JavaAngleNames, JavaNames
  <2>h. /\ "header" \in DOMAIN q => r["header"] = servo_header
        /\ "frameLen" \in DOMAIN q => r["frameLen"] = servo_frame_len
    BY <1>11 DEF java_floats
  <2>3. ASSUME NEW x \in JavaNames, x \notin JavaAngleNames PROVE q[x] = r[x]
    <3>1. CASE x = "header"
      <4>1. r[x] = servo_header
        BY <1>9, <2>h, <3>1
      <4> QED BY <1>10, <3>1, <4>1 DEF servo_header
    <3>2. CASE x = "frameLen"
      <4>1. r[x] = servo_frame_len
        BY <1>9, <2>h, <3>2
      <4> QED BY <1>10, <3>2, <4>1 DEF servo_frame_len
    <3>3. CASE x # "header" /\ x # "frameLen"
      BY <1>9, <1>11, <2>1, <2>3, <3>3
    <3> QED BY <3>1, <3>2, <3>3
  <2>4. ASSUME NEW x \in JavaAngleNames PROVE r[x] = floatToIntBits(q[x])
    <3>1. x \in DOMAIN q /\ x # "header" /\ x # "frameLen" /\ x \in java_floats
      BY <1>9, <2>1, <2>2
    <3> QED BY <1>11, <3>1
  <2> QED BY <2>3, <2>4
<1>14. PICK h, g, j, a, z, y : /\ h = Put(java_head, q) /\ g = Put(servo_head, s)
                               /\ j = Put(java_angles, q) /\ a = Put(servo_angles, s)
                               /\ z = Put(java_angles, r) /\ y = Put(servo_angles, t)
  OBVIOUS
<1>15. Typed(servo_head, s) /\ Typed(servo_angles, s) /\ Typed(servo_angles, t)
  <2>1. ServoAngleNames \subseteq ServoWords /\ ServoHeadNames \subseteq ServoBytes
    BY DEF ServoWords, ServoBytes
  <2>2. \A x \in ServoAngleNames : s[x] \in Word /\ t[x] \in Word
    BY <1>2, <2>1 DEF ServoValues
  <2>3. \A x \in ServoHeadNames : s[x] \in Byte
    BY <1>2, <2>1 DEF ServoValues
  <2> QED BY <2>2, <2>3, ServoGroups, BytesGroup, AnglesAlike
<1>16. Typed(java_head, q) /\ Typed(java_angles, q) /\ Typed(java_angles, r)
  <2>1. Typed(java_angles, q) /\ Typed(java_head, q)
    BY <1>9, <1>13, JavaTwins
  <2>2. \A k \in 1..4 : q[JavaAngles[k]] \in Word /\ r[JavaAngles[k]] = floatToIntBits(q[JavaAngles[k]])
    BY <1>13, <2>1, AnglesAlike
  <2> QED BY <2>1, <2>2, FloatBits, AnglesAlike
<1>17. Stands(b, 0, h \o j) /\ Stands(b, 0, g \o a)
  <2>1. Stands(b, 0, h \o j)
    <3>1. Twins(java_order, q, q, Put(java_head \o java_angles, q), 25)
          /\ Put(java_head \o java_angles, q) = h \o j
      BY <1>9, <1>14, <1>16, JavaTwins
    <3> QED BY <1>9, <3>1 DEF Twins
  <2>2. Stands(b, 0, g \o a)
    <3>1. Twins(serialize_order, s, s, Put(servo_head \o servo_angles, s), 25)
          /\ Put(servo_head \o servo_angles, s) = g \o a
      BY <1>2, <1>14, ServoTwins
    <3> QED BY <1>1, <3>1 DEF Twins
  <2> QED BY <2>1, <2>2
<1>18. /\ h \in Seq(Byte) /\ Len(h) = 9 /\ g \in Seq(Byte) /\ Len(g) = 9
       /\ j \in Seq(Byte) /\ Len(j) = 16 /\ a \in Seq(Byte) /\ Len(a) = 16
  <2>1. h \in Seq(Byte) /\ Len(h) = 9 /\ j \in Seq(Byte) /\ Len(j) = 16
    <3>1. LayoutOf(java_head, JavaHeadNames, 9) /\ Typed(java_head, q)
      BY <1>16, JavaLayouts
    <3>2. LayoutOf(java_angles, JavaAngleNames, 16) /\ Typed(java_angles, q)
      BY <1>16, JavaLayouts
    <3>3. Put(java_head, q) \in Seq(Byte) /\ Len(Put(java_head, q)) = 9
      BY <3>1, PutOf
    <3>4. Put(java_angles, q) \in Seq(Byte) /\ Len(Put(java_angles, q)) = 16
      BY <3>2, PutOf
    <3> QED BY <1>14, <3>3, <3>4
  <2>2. LayoutOf(servo_head, ServoHeadNames, 9)
    BY ServoGroups, BytesGroup
  <2>3. LayoutOf(servo_angles, ServoAngleNames, 16)
    <3>1. Group("u32", servo_angles, 4, ServoAngleNames) /\ 16 = 4 * 4
      BY ServoGroups
    <3> QED BY <3>1, WordsGroup
  <2>4. g \in Seq(Byte) /\ Len(g) = 9
    <3>1. Typed(servo_head, s)
      BY <1>15
    <3>2. Put(servo_head, s) \in Seq(Byte) /\ Len(Put(servo_head, s)) = 9
      BY <2>2, <3>1, PutOf
    <3> QED BY <1>14, <3>2
  <2>5. a \in Seq(Byte) /\ Len(a) = 16
    <3>1. Typed(servo_angles, s)
      BY <1>15
    <3>2. Put(servo_angles, s) \in Seq(Byte) /\ Len(Put(servo_angles, s)) = 16
      BY <2>3, <3>1, PutOf
    <3> QED BY <1>14, <3>2
  <2> QED BY <2>1, <2>4, <2>5
<1>19. h = g /\ j = a
  <2>1. PICK u, v, n, i : u = h \o j /\ v = g \o a /\ n = 9 /\ i = 16
    OBVIOUS
  <2>2. /\ u \in Seq(Byte) /\ Len(u) = 25 /\ \A k \in 1..9 : u[k] = h[k]
        /\ \A k \in 1..16 : u[n + k] = j[k]
    <3>1. n = Len(h) /\ i = Len(j) /\ n + i = 25
      BY <1>18, <2>1
    <3>2. h \in Seq(Byte) /\ j \in Seq(Byte)
      BY <1>18
    <3>3. /\ h \o j \in Seq(Byte) /\ Len(h \o j) = n + i
          /\ \A k \in 1..n : (h \o j)[k] = h[k]
          /\ \A k \in 1..i : (h \o j)[n + k] = j[k]
      BY <3>1, <3>2, Concatenated
    <3> QED BY <2>1, <3>1, <3>3
  <2>3. /\ v \in Seq(Byte) /\ Len(v) = 25 /\ \A k \in 1..9 : v[k] = g[k]
        /\ \A k \in 1..16 : v[n + k] = a[k]
    <3>1. n = Len(g) /\ i = Len(a) /\ n + i = 25
      BY <1>18, <2>1
    <3>2. g \in Seq(Byte) /\ a \in Seq(Byte)
      BY <1>18
    <3>3. /\ g \o a \in Seq(Byte) /\ Len(g \o a) = n + i
          /\ \A k \in 1..n : (g \o a)[k] = g[k]
          /\ \A k \in 1..i : (g \o a)[n + k] = a[k]
      BY <3>1, <3>2, Concatenated
    <3> QED BY <2>1, <3>1, <3>3
  <2>4. \A k \in 1..25 : u[k] = v[k]
    <3>1. \A k \in 1..25 : b[0 + k] = u[k]
      BY <1>17, <2>1, <2>2 DEF Stands
    <3>2. \A k \in 1..25 : b[0 + k] = v[k]
      BY <1>17, <2>1, <2>3 DEF Stands
    <3> QED BY <3>1, <3>2
  <2>5. ASSUME NEW k \in 1..9 PROVE h[k] = g[k]
    <3>1. k \in 1..25
      OBVIOUS
    <3>2. u[k] = h[k] /\ v[k] = g[k]
      BY <2>2, <2>3
    <3> QED BY <2>4, <3>1, <3>2
  <2>6. ASSUME NEW k \in 1..16 PROVE j[k] = a[k]
    <3>1. n + k \in 1..25
      BY <2>1
    <3>2. u[n + k] = j[k] /\ v[n + k] = a[k]
      BY <2>2, <2>3
    <3> QED BY <2>4, <3>1, <3>2
  <2>7. h = g
    <3>1. h \in Seq(Byte) /\ g \in Seq(Byte) /\ Len(h) = Len(g) /\ \A k \in 1..Len(h) : h[k] = g[k]
      BY <1>18, <2>5
    <3> QED BY <3>1
  <2>8. j = a
    <3>1. j \in Seq(Byte) /\ a \in Seq(Byte) /\ Len(j) = Len(a) /\ \A k \in 1..Len(j) : j[k] = a[k]
      BY <1>18, <2>6
    <3> QED BY <3>1
  <2> QED BY <2>7, <2>8
<1>20. z = y
  <2>1. \A k \in 1..4 : q[JavaAngles[k]] = s[ServoAngles[k]]
    <3>1. Typed(java_angles, q) /\ Typed(servo_angles, s) /\ Put(java_angles, q) = Put(servo_angles, s)
      BY <1>14, <1>15, <1>16, <1>19
    <3> QED BY <3>1, AnglesAlike
  <2>2. \A k \in 1..4 : r[JavaAngles[k]] = floatToIntBits(q[JavaAngles[k]])
    BY <1>13, AnglesAlike
  <2>3. \A k \in 1..4 : t[ServoAngles[k]] = floatToIntBits(s[ServoAngles[k]])
    BY <1>2, AnglesAlike
  <2>4. \A k \in 1..4 : r[JavaAngles[k]] = t[ServoAngles[k]]
    BY <2>1, <2>2, <2>3
  <2> QED BY <1>14, <1>15, <1>16, <2>4, AnglesAlike
<1>21. PICK c : c = Put(java_order, r)
  OBVIOUS
<1>22. /\ Stands(c, 0, h \o z) /\ Len(h \o z) = 25 /\ Len(b) = Len(c) /\ c \in Seq(Byte)
       /\ \A k \in 1..Len(b) : k > 25 => c[k] = b[k]
  <2>1. /\ Twins(java_order, q, r, Put(java_head \o java_angles, r), 25)
        /\ Put(java_head \o java_angles, r) = h \o z
    BY <1>9, <1>13, <1>14, <1>16, JavaTwins
  <2>2. c \in Seq(Byte)
    BY <1>21, <2>1 DEF Twins, Stands
  <2> QED BY <1>9, <1>21, <2>1, <2>2 DEF Twins
<1>23. /\ Stands(d, 0, g \o y)
       /\ \A k \in 1..Len(b) : k > 25 => d[k] = b[k]
  <2>1. /\ Twins(serialize_order, s, t, Put(servo_head \o servo_angles, t), 25)
        /\ Put(servo_head \o servo_angles, t) = g \o y
    BY <1>2, <1>14, ServoTwins
  <2> QED BY <1>1, <2>1 DEF Twins
<1>24. c = d
  <2>1. Stands(c, 0, g \o y) /\ 25 = Len(g \o y)
    BY <1>19, <1>20, <1>22
  <2>2. Len(c) = Len(d) /\ \A k \in 1..Len(c) : k > 25 => c[k] = d[k]
    BY <1>5, <1>22, <1>23
  <2>3. Stands(d, 0, g \o y) /\ c \in Seq(Byte) /\ d \in Seq(Byte)
    BY <1>5, <1>22, <1>23
  <2>4. PICK u, n : u = g \o y /\ n = 25
    OBVIOUS
  <2>5. /\ Stands(c, 0, u) /\ Stands(d, 0, u) /\ n = Len(u) /\ Len(c) = Len(d)
        /\ \A k \in 1..Len(c) : k > n => c[k] = d[k]
    BY <2>1, <2>2, <2>3, <2>4
  <2> QED BY <2>3, <2>5, SameBytes
<1>25. serialize_servo(t) = Sealed(d)
  BY <1>1 DEF serialize_servo
<1> QED BY <1>1, <1>8, <1>12, <1>21, <1>24, <1>25

\* g is f without its end.
CutShort(f, g) == \E n \in 1..(Len(f) - 1) : g = SubSeq(f, 1, n)

LEMMA CutIs ==
  ASSUME NEW f \in Seq(Byte), NEW g, CutShort(f, g)
  PROVE  /\ g \in Seq(Byte) /\ Len(g) >= 1 /\ Len(g) < Len(f)
         /\ \A k \in 1..Len(g) : g[k] = f[k]
<1>1. PICK n \in 1..(Len(f) - 1) : g = SubSeq(f, 1, n)
  BY DEF CutShort
<1>2. g = Slice(f, 0, n)
  BY <1>1 DEF Slice
<1>3. 0 \in Nat /\ n \in 0..Len(f) /\ n - 0 = n /\ n >= 1 /\ n < Len(f)
  BY <1>1
<1>4. /\ Slice(f, 0, n) \in Seq(Byte) /\ Len(Slice(f, 0, n)) = n - 0
      /\ \A k \in 1..(n - 0) : Slice(f, 0, n)[k] = f[0 + k]
  BY <1>3, SliceIs
<1>5. \A k \in 1..n : 0 + k = k
  OBVIOUS
<1> QED BY <1>2, <1>3, <1>4, <1>5

\* The first two bytes.
LEMMA HeadIs ==
  ASSUME NEW buf \in Seq(Byte), NEW a, NEW b, Slice(buf, 0, 2) = <<a, b>>, Len(buf) >= 2
  PROVE  buf[1] = a /\ buf[2] = b
<1>1. 0 \in Nat /\ 2 \in 0..Len(buf) /\ 1 \in 1..(2 - 0) /\ 2 \in 1..(2 - 0) /\ 0 + 1 = 1 /\ 0 + 2 = 2
  OBVIOUS
<1>2. \A k \in 1..(2 - 0) : Slice(buf, 0, 2)[k] = buf[0 + k]
  BY <1>1, SliceIs
<1> QED BY <1>1, <1>2

LEMMA NoPacket ==
  ASSUME NEW buf \in Seq(Byte), Len(buf) >= 2 => buf[1] # 15 \/ buf[2] # 240
  PROVE  parsePacket(buf) = nullopt
<1> SUFFICES ASSUME parsePacket(buf) # nullopt PROVE FALSE
  OBVIOUS
<1>1. Slice(buf, 0, 2) = <<15, 240>> /\ Len(buf) >= 2
  BY Accepted DEF FRAME_HDR
<1> QED BY <1>1, HeadIs

\* Neither reader of servo frames takes one with a changed byte, or without
\* its end, and the simulator does not take it for a standard frame either.
THEOREM ServoDamageIsSeen ==
  ASSUME NEW w, IsServo(w), NEW g, (\E i : ChangedAt(w, g, i)) \/ CutShort(w, g)
  PROVE  deserialize_servo(g) = nullopt /\ parseServo(g) = nullopt /\ parsePacket(g) = nullopt
<1>1. w \in Seq(Byte) /\ Len(w) = 72 /\ w[1] = 126 /\ w[2] = 72 /\ Xor(Slice(w, 0, 71)) = At(w, 71)
  BY DEF IsServo
<1>2. CASE CutShort(w, g)
  <2>0. w \in Seq(Byte)
    BY <1>1
  <2>1. g \in Seq(Byte) /\ Len(g) >= 1 /\ Len(g) < 72 /\ \A k \in 1..Len(g) : g[k] = w[k]
    <3>1. /\ g \in Seq(Byte) /\ Len(g) >= 1 /\ Len(g) < Len(w)
          /\ \A k \in 1..Len(g) : g[k] = w[k]
      BY <1>2, <2>0, CutIs
    <3> QED BY <1>1, <3>1
  <2>2. ~(Len(g) >= servo_frame_len)
    BY <2>1 DEF servo_frame_len
  <2>3. Len(g) >= 2 => g[1] # 15
    BY <1>1, <2>1
  <2>4. parsePacket(g) = nullopt
    BY <2>1, <2>3, NoPacket
  <2> QED BY <2>2, <2>4 DEF deserialize_servo, parseServo
<1>3. CASE \E i : ChangedAt(w, g, i)
  <2>1. PICK i : ChangedAt(w, g, i)
    BY <1>3
  <2>2. /\ g \in Seq(Byte) /\ Len(g) = 72 /\ i \in 1..72
        /\ \A j \in 1..72 : j # i => g[j] = w[j]
    BY <1>1, <2>1 DEF ChangedAt
  <2>3. Xor(Slice(g, 0, 71)) # At(g, 71)
    <3>1. 0 \in Nat /\ 71 \in 0..Len(w) /\ 71 < Len(w) /\ i \in (0 + 1)..(71 + 1)
      BY <1>1, <2>2
    <3>2. Xor(Slice(w, 0, 71)) = At(w, 71) => Xor(Slice(g, 0, 71)) # At(g, 71)
      BY <2>1, <3>1, SealIsBroken
    <3> QED BY <1>1, <3>2
  <2>4. g[1] # 15 \/ g[2] # 240
    <3>1. g[1] = 126 \/ g[2] = 72
      BY <1>1, <2>2
    <3> QED BY <3>1
  <2>5. parsePacket(g) = nullopt
    BY <2>2, <2>4, NoPacket
  <2> QED BY <2>3, <2>5 DEF deserialize_servo, parseServo
<1> QED BY <1>2, <1>3

-------------------------------------------------------------------------------

\* The fields of a status report.
FocalLengthNames == {"ir_focal_length", "vis_focal_length", "az_aberration", "el_aberration"}
EnvNames == {"env_ctrl_byte1", "env_ctrl_byte2", "env_ctrl_byte3", "env_ctrl_byte4"}
AxisNames == {"servo_azimuth", "servo_elevation"}
CheckNames == {"self_check_status", "vis_cam_image_status", "vis_cam_comm_status",
               "ir_cam_image_status", "ir_cam_comm_status", "servo_fault_code",
               "defog_status", "wiper_status", "heater_status", "el_servo_fault_code"}
report_words == Each("u32", <<"ir_focal_length", "vis_focal_length", "az_aberration", "el_aberration">>)
report_env == Each("u8", <<"env_ctrl_byte1", "env_ctrl_byte2", "env_ctrl_byte3", "env_ctrl_byte4">>)
report_axes == Each("u32", <<"servo_azimuth", "servo_elevation">>)
report_checks == Each("u8", <<"self_check_status", "vis_cam_image_status", "vis_cam_comm_status",
                              "ir_cam_image_status", "ir_cam_comm_status", "servo_fault_code",
                              "defog_status", "wiper_status", "heater_status", "el_servo_fault_code">>)
DataNames == {"servo_work_mode"} \cup FocalLengthNames \cup EnvNames \cup AxisNames \cup CheckNames
             \cup {"memory_track_time"}
HeadNames == {"addr"} \cup {"frame_seq"}

\* A record with a value for each.
ReportValues(r) ==
  /\ r["addr"] \in Byte /\ r["frame_seq"] \in Half /\ r["servo_work_mode"] \in Byte
  /\ \A x \in FocalLengthNames : r[x] \in Word
  /\ \A x \in EnvNames : r[x] \in Byte
  /\ \A x \in AxisNames : r[x] \in Word
  /\ \A x \in CheckNames : r[x] \in Byte
  /\ r["memory_track_time"] \in Half

LEMMA ReportIs ==
  ASSUME NEW r \in LoadStatusReport
  PROVE  ReportValues(r) /\ DOMAIN r = HeadNames \cup DataNames /\ r = [x \in HeadNames \cup DataNames |-> r[x]]
<1>1. DOMAIN r = HeadNames \cup DataNames
  <2>1. DOMAIN r = {"addr", "frame_seq", "servo_work_mode", "ir_focal_length", "vis_focal_length", "az_aberration",
          "el_aberration", "env_ctrl_byte1", "env_ctrl_byte2", "env_ctrl_byte3", "env_ctrl_byte4",
          "servo_azimuth", "servo_elevation", "self_check_status", "vis_cam_image_status", "vis_cam_comm_status",
          "ir_cam_image_status", "ir_cam_comm_status", "servo_fault_code", "defog_status", "wiper_status",
          "heater_status", "el_servo_fault_code", "memory_track_time"}
    BY DEF LoadStatusReport
  <2> QED BY <2>1 DEF HeadNames, DataNames, FocalLengthNames, EnvNames, AxisNames, CheckNames
<1>2. r = [x \in DOMAIN r |-> r[x]]
  BY DEF LoadStatusReport
<1>3. r["addr"] \in Byte /\ r["frame_seq"] \in Half /\ r["servo_work_mode"] \in Byte /\ r["memory_track_time"] \in Half
  BY DEF LoadStatusReport
<1>4. \A x \in FocalLengthNames : r[x] \in Word
  BY DEF LoadStatusReport, FocalLengthNames
<1>5. \A x \in EnvNames : r[x] \in Byte
  BY DEF LoadStatusReport, EnvNames
<1>6. \A x \in AxisNames : r[x] \in Word
  BY DEF LoadStatusReport, AxisNames
<1>7. \A x \in CheckNames : r[x] \in Byte
  BY DEF LoadStatusReport, CheckNames
<1> QED BY <1>1, <1>2, <1>3, <1>4, <1>5, <1>6, <1>7 DEF ReportValues

\* A layout, and one behind it.
LEMMA PutBehind ==
  ASSUME NEW l, NEW m, NEW M, NEW N, NEW u, NEW v, LayoutOf(l, M, u), LayoutOf(m, N, v),
         NEW r, Typed(l, r), Typed(m, r)
  PROVE  /\ \A i, s : Stands(Put(l, r), i, s) => Stands(Put(l \o m, r), i, s)
         /\ Stands(Put(l \o m, r), u, Put(m, r))
<1>1. Stands(Put(l \o m, r), 0, Put(l, r)) /\ Stands(Put(l \o m, r), u, Put(m, r))
  BY PutParts
<1>2. ASSUME NEW i, NEW s, Stands(Put(l, r), i, s) PROVE Stands(Put(l \o m, r), i, s)
  <2>1. i = 0 + i
    <3>1. i \in Nat
      BY <1>2 DEF Stands
    <3> QED BY <3>1
  <2> QED BY <1>1, <1>2, <2>1, StandsIn
<1> QED BY <1>1, <1>2

LEMMA ReportGroups ==
  /\ LayoutOf(report_words, FocalLengthNames, 16) /\ LayoutOf(report_env, EnvNames, 4)
  /\ LayoutOf(report_axes, AxisNames, 8) /\ LayoutOf(report_checks, CheckNames, 10)
  /\ \A r : ReportValues(r) =>
       Typed(report_words, r) /\ Typed(report_env, r) /\ Typed(report_axes, r) /\ Typed(report_checks, r)
<1>1. Group("u32", report_words, 4, FocalLengthNames)
  <2>1. NamesOf(<<"ir_focal_length", "vis_focal_length", "az_aberration", "el_aberration">>, 4, FocalLengthNames)
    BY DEF NamesOf, FocalLengthNames
  <2> QED BY <2>1, Zenon DEF Group, report_words
<1>2. Group("u8", report_env, 4, EnvNames)
  <2>1. NamesOf(<<"env_ctrl_byte1", "env_ctrl_byte2", "env_ctrl_byte3", "env_ctrl_byte4">>, 4, EnvNames)
    BY DEF NamesOf, EnvNames
  <2> QED BY <2>1, Zenon DEF Group, report_env
<1>3. Group("u32", report_axes, 2, AxisNames)
  <2>1. NamesOf(<<"servo_azimuth", "servo_elevation">>, 2, AxisNames)
    BY DEF NamesOf, AxisNames
  <2> QED BY <2>1, Zenon DEF Group, report_axes
<1>4. Group("u8", report_checks, 10, CheckNames)
  <2>1. NamesOf(<<"self_check_status", "vis_cam_image_status", "vis_cam_comm_status",
                  "ir_cam_image_status", "ir_cam_comm_status", "servo_fault_code",
                  "defog_status", "wiper_status", "heater_status", "el_servo_fault_code">>, 10, CheckNames)
    BY DEF NamesOf, CheckNames
  <2> QED BY <2>1, Zenon DEF Group, report_checks
<1>5. /\ LayoutOf(report_words, FocalLengthNames, 16)
      /\ \A r : (\A x \in FocalLengthNames : r[x] \in Word) => Typed(report_words, r)
  <2>1. 16 = 4 * 4
    OBVIOUS
  <2> QED BY <1>1, <2>1, WordsGroup
<1>6. /\ LayoutOf(report_axes, AxisNames, 8)
      /\ \A r : (\A x \in AxisNames : r[x] \in Word) => Typed(report_axes, r)
  <2>1. 8 = 4 * 2
    OBVIOUS
  <2> QED BY <1>3, <2>1, WordsGroup
<1>7. /\ LayoutOf(report_env, EnvNames, 4)
      /\ \A r : (\A x \in EnvNames : r[x] \in Byte) => Typed(report_env, r)
  BY <1>2, BytesGroup
<1>8. /\ LayoutOf(report_checks, CheckNames, 10)
      /\ \A r : (\A x \in CheckNames : r[x] \in Byte) => Typed(report_checks, r)
  BY <1>4, BytesGroup
<1>9. ASSUME NEW r, ReportValues(r)
      PROVE  Typed(report_words, r) /\ Typed(report_env, r) /\ Typed(report_axes, r) /\ Typed(report_checks, r)
  <2>1. /\ \A x \in FocalLengthNames : r[x] \in Word
        /\ \A x \in EnvNames : r[x] \in Byte
        /\ \A x \in AxisNames : r[x] \in Word
        /\ \A x \in CheckNames : r[x] \in Byte
    BY <1>9 DEF ReportValues
  <2> QED BY <1>5, <1>6, <1>7, <1>8, <2>1
<1> QED BY <1>5, <1>6, <1>7, <1>8, <1>9

\* The four words of a report that the readers of positions take.
LEMMA ReportWords ==
  ASSUME NEW r, ReportValues(r)
  PROVE  /\ Stands(Put(report_words, r), 0, Encode("u32", r["ir_focal_length"]))
         /\ Stands(Put(report_words, r), 4, Encode("u32", r["vis_focal_length"]))
         /\ Stands(Put(report_axes, r), 0, Encode("u32", r["servo_azimuth"]))
         /\ Stands(Put(report_axes, r), 4, Encode("u32", r["servo_elevation"]))
<1>1. PICK names, n, N : /\ names = <<"ir_focal_length", "vis_focal_length", "az_aberration", "el_aberration">>
                         /\ n = 4 /\ N = FocalLengthNames
  OBVIOUS
<1>2. NamesOf(names, n, N) /\ names[1] = "ir_focal_length" /\ names[2] = "vis_focal_length"
  BY <1>1 DEF NamesOf, FocalLengthNames
<1>3. PICK axes, k, K : axes = <<"servo_azimuth", "servo_elevation">> /\ k = 2 /\ K = AxisNames
  OBVIOUS
<1>4. NamesOf(axes, k, K) /\ axes[1] = "servo_azimuth" /\ axes[2] = "servo_elevation"
  BY <1>3 DEF NamesOf, AxisNames
<1>5. "u32" \in Kinds /\ Values("u32") = Word
  BY KindsAre, Codec
<1>6. Times(0, 0, Width("u32")) /\ Times(4, 1, Width("u32"))
  BY Widths DEF Times
<1>7. (\A x \in N : r[x] \in Values("u32")) /\ \A x \in K : r[x] \in Values("u32")
  BY <1>1, <1>3, <1>5 DEF ReportValues
<1>8. 0 \in 0..(n - 1) /\ 1 \in 0..(n - 1) /\ 0 \in 0..(k - 1) /\ 1 \in 0..(k - 1)
  BY <1>1, <1>3
<1>9. Stands(Put(Each("u32", names), r), 0, Encode("u32", r[names[0 + 1]]))
  BY <1>2, <1>5, <1>6, <1>7, <1>8, FieldStands
<1>10. Stands(Put(Each("u32", names), r), 4, Encode("u32", r[names[1 + 1]]))
  BY <1>2, <1>5, <1>6, <1>7, <1>8, FieldStands
<1>11. Stands(Put(Each("u32", axes), r), 0, Encode("u32", r[axes[0 + 1]]))
  BY <1>4, <1>5, <1>6, <1>7, <1>8, FieldStands
<1>12. Stands(Put(Each("u32", axes), r), 4, Encode("u32", r[axes[1 + 1]]))
  BY <1>4, <1>5, <1>6, <1>7, <1>8, FieldStands
<1>13. names[0 + 1] = names[1] /\ names[1 + 1] = names[2] /\ axes[0 + 1] = axes[1] /\ axes[1 + 1] = axes[2]
  OBVIOUS
<1>14. report_words = Each("u32", names) /\ report_axes = Each("u32", axes)
  BY <1>1, <1>3 DEF report_words, report_axes
<1> QED BY <1>2, <1>4, <1>9, <1>10, <1>11, <1>12, <1>13, <1>14

\* The layout of the data of a report, and of what is summed.
LEMMA ReportOrder ==
  /\ LayoutOf(report_head, HeadNames, 3) /\ LayoutOf(report_write_order, DataNames, 41)
  /\ LayoutOf(report_head \o report_write_order, HeadNames \cup DataNames, 44)
  /\ \A r : ReportValues(r) =>
       /\ Typed(report_head, r) /\ Typed(report_write_order, r)
       /\ Typed(report_head \o report_write_order, r)
       /\ Stands(Put(report_write_order, r), 1, Put(report_words, r))
       /\ Stands(Put(report_write_order, r), 21, Put(report_axes, r))
<1>w. 3 = 1 + 2 /\ 17 = 1 + 16 /\ 21 = 17 + 4 /\ 29 = 21 + 8 /\ 39 = 29 + 10 /\ 41 = 39 + 2 /\ 44 = 3 + 41
  OBVIOUS
<1> DEFINE A == One("u8", "servo_work_mode") \o report_words
           B == A \o report_env
           C == B \o report_axes
           D == C \o report_checks
           mode == One("u8", "servo_work_mode")
           time == One("u16", "memory_track_time")
           NA == {"servo_work_mode"} \cup FocalLengthNames
           NB == NA \cup EnvNames
           NC == NB \cup AxisNames
           ND == NC \cup CheckNames
<1>0. report_write_order = D \o time /\ DataNames = ND \cup {"memory_track_time"}
  BY DEF report_write_order, report_words, report_env, report_axes, report_checks, One, DataNames
<1>1. report_head = One("u8", "addr") \o One("u16", "frame_seq")
  BY DEF report_head, One
<1>a. {"servo_work_mode"} \cap FocalLengthNames = {} /\ NA \cap EnvNames = {}
  BY DEF FocalLengthNames, EnvNames
<1>b. NB \cap AxisNames = {}
  BY DEF FocalLengthNames, EnvNames, AxisNames
<1>c. NC \cap CheckNames = {}
  BY DEF FocalLengthNames, EnvNames, AxisNames, CheckNames
<1>d. ND \cap {"memory_track_time"} = {} /\ HeadNames \cap DataNames = {} /\ {"addr"} \cap {"frame_seq"} = {}
  BY DEF FocalLengthNames, EnvNames, AxisNames, CheckNames, HeadNames, DataNames
<1>2. LayoutOf(mode, {"servo_work_mode"}, 1) /\ LayoutOf(time, {"memory_track_time"}, 2)
      /\ LayoutOf(One("u8", "addr"), {"addr"}, 1) /\ LayoutOf(One("u16", "frame_seq"), {"frame_seq"}, 2)
  BY OneLayout
<1>p. A = mode \o report_words
  OBVIOUS
<1> HIDE DEF A, B, C, D, mode, time, NA, NB, NC, ND
<1>3. LayoutOf(A, NA, 17)
  <2>1. {"servo_work_mode"} \cap FocalLengthNames = {} /\ 17 = 1 + 16
    BY <1>a, <1>w
  <2>2. LayoutOf(report_words, FocalLengthNames, 16)
    BY ReportGroups
  <2> QED BY <1>2, <1>p, <2>1, <2>2, LayoutConcat, Zenon DEF NA
<1>4. LayoutOf(B, NB, 21)
  <2>1. NA \cap EnvNames = {} /\ 21 = 17 + 4
    BY <1>a, <1>w
  <2>2. LayoutOf(report_env, EnvNames, 4)
    BY ReportGroups
  <2> QED BY <1>3, <2>1, <2>2, LayoutConcat, Zenon DEF B, NB
<1>5. LayoutOf(C, NC, 29)
  <2>1. NB \cap AxisNames = {} /\ 29 = 21 + 8
    BY <1>b, <1>w
  <2>2. LayoutOf(report_axes, AxisNames, 8)
    BY ReportGroups
  <2> QED BY <1>4, <2>1, <2>2, LayoutConcat, Zenon DEF C, NC
<1>6. LayoutOf(D, ND, 39)
  <2>1. NC \cap CheckNames = {} /\ 39 = 29 + 10
    BY <1>c, <1>w
  <2>2. LayoutOf(report_checks, CheckNames, 10)
    BY ReportGroups
  <2> QED BY <1>5, <2>1, <2>2, LayoutConcat, Zenon DEF D, ND
<1>7. LayoutOf(report_write_order, DataNames, 41)
  <2>1. ND \cap {"memory_track_time"} = {} /\ 41 = 39 + 2
    BY <1>d, <1>w
  <2>2. LayoutOf(D \o time, ND \cup {"memory_track_time"}, 41)
    BY <1>2, <1>6, <2>1, LayoutConcat, Zenon
  <2> QED BY <1>0, <2>2
<1>8. LayoutOf(report_head, HeadNames, 3)
  <2>1. {"addr"} \cap {"frame_seq"} = {} /\ 3 = 1 + 2
    BY <1>d, <1>w
  <2> QED BY <1>1, <1>2, <2>1, LayoutConcat, Zenon DEF HeadNames
<1>9. LayoutOf(report_head \o report_write_order, HeadNames \cup DataNames, 44)
  <2>1. HeadNames \cap DataNames = {} /\ 44 = 3 + 41
    BY <1>d, <1>w
  <2> QED BY <1>7, <1>8, <2>1, LayoutConcat, Zenon
<1>10. ASSUME NEW r, ReportValues(r)
       PROVE  /\ Typed(report_head, r) /\ Typed(report_write_order, r)
              /\ Typed(report_head \o report_write_order, r)
              /\ Stands(Put(report_write_order, r), 1, Put(report_words, r))
              /\ Stands(Put(report_write_order, r), 21, Put(report_axes, r))
  <2>1. /\ Typed(One("u8", "addr"), r) /\ Typed(One("u16", "frame_seq"), r) /\ Typed(mode, r) /\ Typed(time, r)
    <3>1. /\ r["addr"] \in Values("u8") /\ r["frame_seq"] \in Values("u16")
          /\ r["servo_work_mode"] \in Values("u8") /\ r["memory_track_time"] \in Values("u16")
      BY <1>10, Codec DEF ReportValues
    <3> QED BY <3>1, KindsAre, OneLayout DEF mode, time
  <2>2. Typed(report_words, r) /\ Typed(report_env, r) /\ Typed(report_axes, r) /\ Typed(report_checks, r)
    BY <1>10, ReportGroups
  <2>3. Typed(report_head, r)
    BY <1>1, <1>2, <2>1, PutTwo
  <2>4. Typed(A, r) /\ Stands(Put(A, r), 1, Put(report_words, r))
    <3>1. LayoutOf(mode, {"servo_work_mode"}, 1) /\ LayoutOf(report_words, FocalLengthNames, 16)
      BY <1>2, ReportGroups
    <3> QED BY <1>p, <2>1, <2>2, <3>1, PutParts
  <2>5. Typed(B, r) /\ Stands(Put(B, r), 1, Put(report_words, r))
    <3>1. LayoutOf(report_env, EnvNames, 4)
      BY ReportGroups
    <3>2. Typed(B, r)
      BY <1>3, <2>2, <2>4, <3>1, PutTwo DEF B
    <3>3. \A i, s : Stands(Put(A, r), i, s) => Stands(Put(A \o report_env, r), i, s)
      BY <1>3, <2>2, <2>4, <3>1, PutBehind
    <3> QED BY <2>4, <3>2, <3>3 DEF B
  <2>6. Typed(C, r) /\ Stands(Put(C, r), 1, Put(report_words, r)) /\ Stands(Put(C, r), 21, Put(report_axes, r))
    <3>1. LayoutOf(report_axes, AxisNames, 8)
      BY ReportGroups
    <3>2. Typed(C, r)
      BY <1>4, <2>2, <2>5, <3>1, PutTwo DEF C
    <3>3. /\ \A i, s : Stands(Put(B, r), i, s) => Stands(Put(B \o report_axes, r), i, s)
          /\ Stands(Put(B \o report_axes, r), 21, Put(report_axes, r))
      BY <1>4, <2>2, <2>5, <3>1, PutBehind
    <3> QED BY <2>5, <3>2, <3>3 DEF C
  <2>7. Typed(D, r) /\ Stands(Put(D, r), 1, Put(report_words, r)) /\ Stands(Put(D, r), 21, Put(report_axes, r))
    <3>1. LayoutOf(report_checks, CheckNames, 10)
      BY ReportGroups
    <3>2. Typed(D, r)
      BY <1>5, <2>2, <2>6, <3>1, PutTwo DEF D
    <3>3. \A i, s : Stands(Put(C, r), i, s) => Stands(Put(C \o report_checks, r), i, s)
      BY <1>5, <2>2, <2>6, <3>1, PutBehind
    <3> QED BY <2>6, <3>2, <3>3 DEF D
  <2>8. /\ Typed(report_write_order, r) /\ Stands(Put(report_write_order, r), 1, Put(report_words, r))
        /\ Stands(Put(report_write_order, r), 21, Put(report_axes, r))
    <3>2. Typed(D \o time, r)
      BY <1>2, <1>6, <2>1, <2>7, PutTwo
    <3>3. \A i, s : Stands(Put(D, r), i, s) => Stands(Put(D \o time, r), i, s)
      BY <1>2, <1>6, <2>1, <2>7, PutBehind
    <3> QED BY <1>0, <2>7, <3>2, <3>3
  <2>9. Typed(report_head \o report_write_order, r)
    BY <1>7, <1>8, <2>3, <2>8, PutTwo
  <2> QED BY <2>3, <2>8, <2>9
<1> QED BY <1>7, <1>8, <1>9, <1>10

\* A sealed status report.
IsReport(w) ==
  /\ w \in Seq(Byte) /\ Len(w) = 49
  /\ Slice(w, 0, 2) = REPORT_HDR /\ Slice(w, 47, 49) = REPORT_TAIL
  /\ compute_checksum(Slice(w, 2, 46)) = At(w, 46)

\* The bytes of a report.
LEMMA ReportBytes ==
  ASSUME NEW r, ReportValues(r), NEW s, s = Put(report_head \o report_write_order, r),
         NEW w, w = serialize_report(r)
  PROVE  IsReport(w) /\ Stands(w, 2, s) /\ Slice(w, 2, 46) = s /\ Len(s) = 44
<1>1. s \in Seq(Byte) /\ Len(s) = 44
  <2>1. LayoutOf(report_head \o report_write_order, HeadNames \cup DataNames, 44)
        /\ Typed(report_head \o report_write_order, r)
    BY ReportOrder
  <2> QED BY <2>1, PutOf
<1>2. PICK h, c, t, cs : h = <<31, 241>> /\ t = <<241, 31>> /\ c = <<cs>> /\ cs = compute_checksum(s)
  OBVIOUS
<1>3. /\ h \in Seq(Byte) /\ Len(h) = 2 /\ c \in Seq(Byte) /\ Len(c) = 1 /\ c[1] = cs
      /\ t \in Seq(Byte) /\ Len(t) = 2
  <2>1. 31 \in Byte /\ 241 \in Byte
    BY DEF Byte
  <2>2. cs \in Byte
    BY <1>1, <1>2, SumsAreBytes
  <2> QED BY <1>2, <2>1, <2>2
<1>4. PICK A, B : A = h \o s /\ B = A \o c
  OBVIOUS
<1>5. w = B \o t
  BY <1>2, <1>4 DEF serialize_report, REPORT_HDR, REPORT_TAIL
<1>6. A \in Seq(Byte) /\ Len(A) = 46 /\ Stands(A, 0, h) /\ Stands(A, 2, s)
  <2>1. PICK m, n : m = 2 /\ n = 44
    OBVIOUS
  <2>2. h \in Seq(Byte) /\ s \in Seq(Byte) /\ m = Len(h) /\ n = Len(s)
    BY <1>1, <1>3, <2>1
  <2>3. h \o s \in Seq(Byte) /\ Len(h \o s) = m + n
    BY <2>2, Concatenated
  <2>4. Stands(h \o s, 0, h) /\ Stands(h \o s, m, s)
    BY <2>2, StandsParts
  <2> QED BY <1>4, <2>1, <2>3, <2>4
<1>7. B \in Seq(Byte) /\ Len(B) = 47 /\ Stands(B, 0, A) /\ Stands(B, 46, c)
  <2>1. PICK m, n : m = 46 /\ n = 1
    OBVIOUS
  <2>2. A \in Seq(Byte) /\ c \in Seq(Byte) /\ m = Len(A) /\ n = Len(c)
    BY <1>3, <1>6, <2>1
  <2>3. A \o c \in Seq(Byte) /\ Len(A \o c) = m + n
    BY <2>2, Concatenated
  <2>4. Stands(A \o c, 0, A) /\ Stands(A \o c, m, c)
    BY <2>2, StandsParts
  <2> QED BY <1>4, <2>1, <2>3, <2>4
<1>8. w \in Seq(Byte) /\ Len(w) = 49 /\ Stands(w, 0, B) /\ Stands(w, 47, t)
  <2>1. PICK m, n : m = 47 /\ n = 2
    OBVIOUS
  <2>2. B \in Seq(Byte) /\ t \in Seq(Byte) /\ m = Len(B) /\ n = Len(t)
    BY <1>3, <1>7, <2>1
  <2>3. B \o t \in Seq(Byte) /\ Len(B \o t) = m + n
    BY <2>2, Concatenated
  <2>4. Stands(B \o t, 0, B) /\ Stands(B \o t, m, t)
    BY <2>2, StandsParts
  <2> QED BY <1>5, <2>1, <2>3, <2>4
<1>9. Stands(w, 0, h) /\ Stands(w, 2, s) /\ Stands(w, 46, c)
  <2>1. 0 = 0 + 0 /\ 2 = 0 + 2 /\ 46 = 0 + 46
    OBVIOUS
  <2>2. Stands(w, 0, A)
    BY <1>7, <1>8, <2>1, StandsIn
  <2>3. Stands(w, 46, c)
    BY <1>7, <1>8, <2>1, StandsIn
  <2>4. Stands(w, 0, h)
    BY <1>6, <2>1, <2>2, StandsIn
  <2>5. Stands(w, 2, s)
    BY <1>6, <2>1, <2>2, StandsIn
  <2> QED BY <2>3, <2>4, <2>5
<1>10. Slice(w, 0, 2) = h /\ Slice(w, 2, 46) = s /\ Slice(w, 47, 49) = t
  <2>1. 2 = 0 + Len(h) /\ 46 = 2 + Len(s) /\ 49 = 47 + Len(t)
    BY <1>1, <1>3
  <2>2. Slice(w, 0, 2) = h
    <3>1. PICK i, j : i = 0 /\ j = 2
      OBVIOUS
    <3>2. Stands(w, i, h) /\ j = i + Len(h)
      BY <1>9, <2>1, <3>1
    <3>3. Slice(w, i, j) = h
      BY <3>2, StandsSlice
    <3> QED BY <3>1, <3>3
  <2>3. Slice(w, 2, 46) = s
    BY <1>9, <2>1, StandsSlice
  <2>4. Slice(w, 47, 49) = t
    BY <1>8, <2>1, StandsSlice
  <2> QED BY <2>2, <2>3, <2>4
<1>11. At(w, 46) = cs
  <2>1. 1 \in 1..Len(c)
    BY <1>3
  <2>2. w[46 + 1] = c[1]
    BY <1>9, <2>1 DEF Stands
  <2> QED BY <1>3, <2>2 DEF At
<1> QED BY <1>1, <1>2, <1>8, <1>9, <1>10, <1>11 DEF IsReport, REPORT_HDR, REPORT_TAIL

\* A word where it stands.
LEMMA WordStands ==
  ASSUME NEW buf, NEW i, NEW v \in Word, Stands(buf, i, Encode("u32", v))
  PROVE  WordAt(buf, i) = v
<1>1. PICK e : e = Encode("u32", v)
  OBVIOUS
<1>2. Len(e) = 4 /\ read_le_uint32(e) = v
  <2>1. e = write_le_uint32(v)
    BY <1>1, Codec
  <2> QED BY <2>1, Uint32
<1>3. PICK j : j = i + 4
  OBVIOUS
<1>4. Slice(buf, i, j) = e
  <2>1. Stands(buf, i, e) /\ j = i + Len(e)
    BY <1>1, <1>2, <1>3
  <2> QED BY <2>1, StandsSlice
<1> QED BY <1>2, <1>3, <1>4 DEF WordAt

\* The readers of a 49-byte report find in it what serialize put there: the
\* library's (protocol.cpp), the receiver's, the one that also takes standard
\* frames, and the one that takes four words without looking at the rest.  The
\* readers that expect 51 bytes find nothing.
THEOREM ReportRoundTrip ==
  ASSUME NEW r \in LoadStatusReport
  PROVE  LET w == serialize_report(r) IN
         /\ IsReport(w)
         /\ deserialize_report(w) = r /\ parseReceivedPacket(w) = r /\ parse_payload_status(w) = r
         /\ get_ptz(w) = [az |-> r.servo_azimuth, el |-> r.servo_elevation,
                          ir |-> r.ir_focal_length, vis |-> r.vis_focal_length]
         /\ LoggedStatus(w) = nullopt /\ parse_status_report(w) = nullopt
<1>1. ReportValues(r) /\ r = [x \in HeadNames \cup DataNames |-> r[x]]
  BY ReportIs
<1>2. PICK w, s, l : w = serialize_report(r) /\ s = Put(l, r) /\ l = report_head \o report_write_order
  <2>1. PICK w, l : w = serialize_report(r) /\ l = report_head \o report_write_order
    OBVIOUS
  <2> QED BY <2>1
<1>3. IsReport(w) /\ Stands(w, 2, s) /\ Slice(w, 2, 46) = s
  BY <1>1, <1>2, ReportBytes
<1>4. /\ w \in Seq(Byte) /\ Len(w) = 49 /\ Slice(w, 0, 2) = REPORT_HDR /\ Slice(w, 47, 49) = REPORT_TAIL
      /\ compute_checksum(Slice(w, 2, 46)) = At(w, 46)
  BY <1>3 DEF IsReport
<1>5. Get(l, w, 2) = r
  <2>1. LayoutOf(l, HeadNames \cup DataNames, 44) /\ Typed(l, r)
    BY <1>1, <1>2, ReportOrder
  <2>2. 2 \in Nat /\ 46 = 2 + 44 /\ 46 <= Len(w) /\ Slice(w, 2, 46) = Put(l, r) /\ w \in Seq(Byte)
    BY <1>2, <1>3, <1>4
  <2>3. Get(l, w, 2) = [x \in HeadNames \cup DataNames |-> r[x]]
    BY <2>1, <2>2, GetOfPut
  <2> QED BY <1>1, <2>3
<1>6. report_read_order = report_write_order
  BY DEF report_read_order, report_write_order
<1>7. deserialize_report(w) = r
  <2>1. Len(w) >= REPORT_LOAD_STATUS_FRAME_LEN
    BY <1>4 DEF REPORT_LOAD_STATUS_FRAME_LEN
  <2> QED BY <1>2, <1>4, <1>5, <1>6, <2>1 DEF deserialize_report
<1>8. parseReceivedPacket(w) = r /\ parse_payload_status(w) = r
  <2>1. Len(w) >= REPORT_LOAD_STATUS_FRAME_LEN /\ Slice(w, Len(w) - 2, Len(w)) = REPORT_TAIL
    <3>1. PICK n : n = Len(w)
      OBVIOUS
    <3>2. n = 49 /\ n - 2 = 47
      BY <1>4, <3>1
    <3> QED BY <1>4, <3>1, <3>2 DEF REPORT_LOAD_STATUS_FRAME_LEN
  <2> QED BY <1>4, <1>7, <2>1 DEF parseReceivedPacket, parse_payload_status
<1>9. /\ WordAt(w, 6) = r["ir_focal_length"] /\ WordAt(w, 10) = r["vis_focal_length"]
      /\ WordAt(w, 26) = r["servo_azimuth"] /\ WordAt(w, 30) = r["servo_elevation"]
  <2>1. PICK d : d = Put(report_write_order, r)
    OBVIOUS
  <2>2. Stands(d, 1, Put(report_words, r)) /\ Stands(d, 21, Put(report_axes, r))
    BY <1>1, <2>1, ReportOrder
  <2>3. Stands(s, 3, d)
    <3>1. LayoutOf(report_head, HeadNames, 3) /\ LayoutOf(report_write_order, DataNames, 41)
          /\ Typed(report_head, r) /\ Typed(report_write_order, r)
      BY <1>1, ReportOrder
    <3>2. Stands(Put(report_head \o report_write_order, r), 3, Put(report_write_order, r))
      BY <3>1, PutParts
    <3> QED BY <1>2, <2>1, <3>2
  <2>4. 5 = 2 + 3 /\ 6 = 5 + 1 /\ 26 = 5 + 21 /\ 6 = 6 + 0 /\ 10 = 6 + 4 /\ 26 = 26 + 0 /\ 30 = 26 + 4
    OBVIOUS
  <2>5. Stands(w, 5, d)
    BY <1>3, <2>3, <2>4, StandsIn
  <2>6. Stands(w, 6, Put(report_words, r))
    BY <2>2, <2>4, <2>5, StandsIn
  <2>7. Stands(w, 26, Put(report_axes, r))
    BY <2>2, <2>4, <2>5, StandsIn
  <2>8. /\ Stands(Put(report_words, r), 0, Encode("u32", r["ir_focal_length"]))
        /\ Stands(Put(report_words, r), 4, Encode("u32", r["vis_focal_length"]))
        /\ Stands(Put(report_axes, r), 0, Encode("u32", r["servo_azimuth"]))
        /\ Stands(Put(report_axes, r), 4, Encode("u32", r["servo_elevation"]))
    BY <1>1, ReportWords
  <2>9. /\ r["ir_focal_length"] \in Word /\ r["vis_focal_length"] \in Word
        /\ r["servo_azimuth"] \in Word /\ r["servo_elevation"] \in Word
    BY DEF LoadStatusReport
  <2>10. WordAt(w, 6) = r["ir_focal_length"]
    <3>1. Stands(w, 6, Encode("u32", r["ir_focal_length"]))
      BY <2>4, <2>6, <2>8, StandsIn
    <3> QED BY <2>9, <3>1, WordStands
  <2>11. WordAt(w, 10) = r["vis_focal_length"]
    <3>1. Stands(w, 10, Encode("u32", r["vis_focal_length"]))
      BY <2>4, <2>6, <2>8, StandsIn
    <3> QED BY <2>9, <3>1, WordStands
  <2>12. WordAt(w, 26) = r["servo_azimuth"]
    <3>1. Stands(w, 26, Encode("u32", r["servo_azimuth"]))
      BY <2>4, <2>7, <2>8, StandsIn
    <3> QED BY <2>9, <3>1, WordStands
  <2>13. WordAt(w, 30) = r["servo_elevation"]
    <3>1. Stands(w, 30, Encode("u32", r["servo_elevation"]))
      BY <2>4, <2>7, <2>8, StandsIn
    <3> QED BY <2>9, <3>1, WordStands
  <2> QED BY <2>10, <2>11, <2>12, <2>13
<1>10. get_ptz(w) = [az |-> r.servo_azimuth, el |-> r.servo_elevation,
                     ir |-> r.ir_focal_length, vis |-> r.vis_focal_length]
  BY <1>4, <1>9 DEF get_ptz
<1>11. LoggedStatus(w) = nullopt /\ parse_status_report(w) = nullopt
  BY <1>4 DEF LoggedStatus, parse_status_report, Sealed51
<1> QED BY <1>2, <1>3, <1>7, <1>8, <1>10, <1>11

\* A short datagram that begins as a report, whole or damaged, is neither a
\* servo frame nor a standard frame: the simulator does not answer it.
LEMMA ReportsAreNotAnswered ==
  ASSUME NEW w \in Seq(Byte), Len(w) >= 2, Len(w) < 72, w[1] = 31, w[2] = 241,
         NEW g, g = w \/ (\E i : ChangedAt(w, g, i)) \/ CutShort(w, g)
  PROVE  /\ g \in Seq(Byte) /\ parseServo(g) = nullopt /\ parsePacket(g) = nullopt
         /\ Len(g) >= 2 => Slice(g, 0, 2) # FRAME_HDR
<1>1. g \in Seq(Byte) /\ Len(g) < 72 /\ (Len(g) >= 2 => g[1] # 15 \/ g[2] # 240)
  <2>1. CASE g = w
    BY <2>1
  <2>2. CASE CutShort(w, g)
    <3>1. /\ g \in Seq(Byte) /\ Len(g) >= 1 /\ Len(g) < Len(w)
          /\ \A k \in 1..Len(g) : g[k] = w[k]
      BY <2>2, CutIs
    <3> QED BY <3>1
  <2>3. CASE \E i : ChangedAt(w, g, i)
    <3>1. PICK i : ChangedAt(w, g, i)
      BY <2>3
    <3>2. /\ g \in Seq(Byte) /\ Len(g) = Len(w) /\ i \in 1..Len(w)
          /\ \A j \in 1..Len(w) : j # i => g[j] = w[j]
      BY <3>1 DEF ChangedAt
    <3>3. 1 \in 1..Len(w) /\ 2 \in 1..Len(w)
      OBVIOUS
    <3>4. g[1] = 31 \/ g[2] = 241
      BY <3>2, <3>3
    <3> QED BY <3>2, <3>4
  <2> QED BY <2>1, <2>2, <2>3
<1>2. parsePacket(g) = nullopt
  BY <1>1, NoPacket
<1>3. parseServo(g) = nullopt
  <2>1. ~(Len(g) >= servo_frame_len)
    BY <1>1 DEF servo_frame_len
  <2> QED BY <2>1 DEF parseServo
<1>4. Len(g) >= 2 => Slice(g, 0, 2) # FRAME_HDR
  <2> SUFFICES ASSUME Len(g) >= 2, Slice(g, 0, 2) = <<15, 240>> PROVE FALSE
    BY DEF FRAME_HDR
  <2>1. g[1] = 15 /\ g[2] = 240
    BY <1>1, HeadIs
  <2> QED BY <1>1, <2>1
<1> QED BY <1>1, <1>2, <1>3, <1>4

\* No reader takes a report with a changed byte, or without its end.
THEOREM ReportDamageIsSeen ==
  ASSUME NEW w, IsReport(w), NEW g, (\E i : ChangedAt(w, g, i)) \/ CutShort(w, g)
  PROVE  /\ deserialize_report(g) = nullopt /\ parseReceivedPacket(g) = nullopt
         /\ parse_payload_status(g) = nullopt
<1>1. /\ w \in Seq(Byte) /\ Len(w) = 49 /\ Slice(w, 0, 2) = REPORT_HDR /\ Slice(w, 47, 49) = REPORT_TAIL
      /\ compute_checksum(Slice(w, 2, 46)) = At(w, 46)
  BY DEF IsReport
<1>2. w[1] = 31 /\ w[2] = 241
  <2>1. Slice(w, 0, 2) = <<31, 241>> /\ Len(w) >= 2 /\ w \in Seq(Byte)
    BY <1>1 DEF REPORT_HDR
  <2> QED BY <2>1, HeadIs
<1>3. Len(g) >= 2 => Slice(g, 0, 2) # FRAME_HDR
  <2>1. w \in Seq(Byte) /\ Len(w) >= 2 /\ Len(w) < 72
    BY <1>1
  <2> QED BY <1>2, <2>1, ReportsAreNotAnswered
<1>4. deserialize_report(g) = nullopt
  <2>1. CASE CutShort(w, g)
    <3>1. Len(g) < Len(w) /\ Len(g) >= 1
      BY <1>1, <2>1, CutIs
    <3>2. ~(Len(g) >= REPORT_LOAD_STATUS_FRAME_LEN)
      BY <1>1, <3>1 DEF REPORT_LOAD_STATUS_FRAME_LEN
    <3> QED BY <3>2 DEF deserialize_report
  <2>2. CASE \E i : ChangedAt(w, g, i)
    <3>1. PICK i : ChangedAt(w, g, i)
      BY <2>2
    <3>2. i \in 1..49
      BY <1>1, <3>1 DEF ChangedAt
    <3>3. CASE i \in 1..2
      <4>1. 0 \in Nat /\ 2 \in 0..Len(w) /\ i \in (0 + 1)..2
        BY <1>1, <3>3
      <4>2. Slice(g, 0, 2) # Slice(w, 0, 2)
        BY <3>1, <4>1, ChangedSlice
      <4> QED BY <1>1, <4>2 DEF deserialize_report
    <3>4. CASE i \in 48..49
      <4>1. 47 \in Nat /\ 49 \in 47..Len(w) /\ i \in (47 + 1)..49
        BY <1>1, <3>4
      <4>2. Slice(g, 47, 49) # Slice(w, 47, 49)
        BY <3>1, <4>1, ChangedSlice
      <4> QED BY <1>1, <4>2 DEF deserialize_report
    <3>5. CASE i \in 3..47
      <4>1. 2 \in Nat /\ 46 \in 2..Len(w) /\ 46 < Len(w) /\ i \in (2 + 1)..(46 + 1)
        BY <1>1, <3>5
      <4>2. compute_checksum(Slice(w, 2, 46)) = At(w, 46) => compute_checksum(Slice(g, 2, 46)) # At(g, 46)
        BY <3>1, <4>1, SealIsBroken
      <4> QED BY <1>1, <4>2 DEF deserialize_report
    <3> QED BY <3>2, <3>3, <3>4, <3>5
  <2> QED BY <2>1, <2>2
<1>5. parseReceivedPacket(g) = nullopt
  BY <1>4 DEF parseReceivedPacket
<1>6. parse_payload_status(g) = nullopt
  BY <1>3, <1>4 DEF parse_payload_status
<1> QED BY <1>4, <1>5, <1>6

\* The data of a report in a standard packet.
PacketOf(r) == [addr |-> r.addr, func |-> 0, ctrl |-> 0, data |-> Put(report_write_order, r)]

LEMMA PacketOfReport ==
  ASSUME NEW r \in LoadStatusReport
  PROVE  /\ PacketOf(r) \in Packet /\ Len(PacketOf(r).data) = 41
         /\ [PacketOf(r) EXCEPT !.data = Pad(@)] = PacketOf(r)
         /\ Get(report_read_order, PacketOf(r).data, 0) = [x \in DataNames |-> r[x]]
<1>1. PICK d : d = Put(report_write_order, r)
  OBVIOUS
<1>2. LayoutOf(report_write_order, DataNames, 41) /\ Typed(report_write_order, r)
  BY ReportIs, ReportOrder
<1>3. d \in Seq(Byte) /\ Len(d) = 41
  BY <1>1, <1>2, PutOf
<1>4. PacketOf(r) = [addr |-> r.addr, func |-> 0, ctrl |-> 0, data |-> d]
  BY <1>1 DEF PacketOf
<1>5. PacketOf(r) \in Packet
  <2>1. r.addr \in Byte /\ 0 \in Byte
    BY ZeroIsAByte DEF LoadStatusReport
  <2> QED BY <1>3, <1>4, <2>1 DEF Packet
<1>6. Pad(d) = d
  <2>1. d \in Seq(Byte) /\ Len(d) >= 15
    BY <1>3
  <2> QED BY <2>1, PadLong
<1>7. [PacketOf(r) EXCEPT !.data = Pad(@)] = PacketOf(r)
  BY <1>4, <1>6
<1>8. Get(report_read_order, d, 0) = [x \in DataNames |-> r[x]]
  <2>1. Slice(d, 0, 41) = d
    <3>1. Slice(d, 0, Len(d)) = d
      BY <1>3, WholeSlice
    <3> QED BY <1>3, <3>1
  <2>2. 0 \in Nat /\ 41 = 0 + 41 /\ 41 <= Len(d) /\ d \in Seq(Byte) /\ Slice(d, 0, 41) = Put(report_write_order, r)
    BY <1>1, <1>3, <2>1
  <2>3. Get(report_write_order, d, 0) = [x \in DataNames |-> r[x]]
    BY <1>2, <2>2, GetOfPut
  <2>4. report_read_order = report_write_order
    BY DEF report_read_order, report_write_order
  <2> QED BY <2>3, <2>4
<1>9. PacketOf(r).data = d
  BY <1>4
<1> QED BY <1>3, <1>5, <1>7, <1>8, <1>9

\* The reader that takes both kinds of frames finds the same report in the data
\* of a standard one, with no number, unless a tail with a sum is among the
\* data; the readers that expect 51 bytes find nothing.
THEOREM ReportInPacketIsRead ==
  ASSUME NEW r \in LoadStatusReport
  PROVE  LET w == serialize(PacketOf(r)) IN
         /\ Early(w) \/ parse_payload_status(w) = [r EXCEPT !.frame_seq = 0]
         /\ LoggedStatus(w) = nullopt /\ parse_status_report(w) = nullopt
<1>1. PICK p, w : p = PacketOf(r) /\ w = serialize(p)
  <2>1. PICK p : p = PacketOf(r)
    OBVIOUS
  <2> QED BY <2>1
<1>2. p \in Packet /\ Len(p.data) = 41 /\ [p EXCEPT !.data = Pad(@)] = p
      /\ Get(report_read_order, p.data, 0) = [x \in DataNames |-> r[x]]
  BY <1>1, PacketOfReport
<1>3. parsePacket(w) = p /\ w \in Seq(Byte) /\ Len(w) = 49
  <2>1. /\ parsePacket(serialize(p)) = [p EXCEPT !.data = Pad(@)]
        /\ serialize(p) \in Seq(Byte) /\ Len(serialize(p)) = Len(Pad(p.data)) + 8
    BY <1>2, WhatIsWrittenIsRead
  <2>2. PICK e : e = p.data
    OBVIOUS
  <2>3. e \in Seq(Byte) /\ Len(e) = 41
    BY <1>2, <2>2 DEF Packet
  <2>4. e \in Seq(Byte) /\ Len(e) >= 15
    BY <2>3
  <2>5. Pad(e) = e
    BY <2>4, PadLong
  <2>6. Len(Pad(p.data)) + 8 = 49
    <3>1. Pad(p.data) = e
      BY <2>2, <2>5
    <3>2. Len(e) + 8 = 49
      BY <2>3
    <3> QED BY <3>1, <3>2
  <2>7. [p EXCEPT !.data = Pad(@)] = p
    BY <1>2
  <2> QED BY <1>1, <2>1, <2>6, <2>7
<1>4. p # nullopt
  BY <1>2, NulloptAssumption
<1>5. Slice(w, 0, 2) = FRAME_HDR /\ Slice(w, 0, 2) # REPORT_HDR
  <2>1. Slice(w, 0, 2) = FRAME_HDR
    BY <1>3, <1>4, Accepted
  <2>2. <<15, 240>> # <<31, 241>>
    <3> SUFFICES ASSUME <<15, 240>> = <<31, 241>> PROVE FALSE
      OBVIOUS
    <3>1. <<15, 240>>[1] = <<31, 241>>[1]
      OBVIOUS
    <3> QED BY <3>1
  <2> QED BY <2>1, <2>2 DEF FRAME_HDR, REPORT_HDR
<1>6. LoggedStatus(w) = nullopt /\ parse_status_report(w) = nullopt
  BY <1>3 DEF LoggedStatus, parse_status_report, Sealed51
<1>7. ASSUME ~Early(w) PROVE parse_payload_status(w) = [r EXCEPT !.frame_seq = 0]
  <2>1. deserialize(w) = p
    <3>1. Len(w) > 23 /\ parsePacket(w) # nullopt /\ w \in Seq(Byte)
      BY <1>3, <1>4
    <3>2. Early(w) \/ deserialize(w) = parsePacket(w)
      BY <3>1, FramesAreFoundWhole
    <3> QED BY <1>3, <1>7, <3>2
  <2>2. PICK status : status = Get(report_read_order, p.data, 0)
    OBVIOUS
  <2>3. Len(w) >= 2 /\ ~(Len(p.data) < REPORT_LOAD_STATUS_DATA_LEN)
    BY <1>2, <1>3 DEF REPORT_LOAD_STATUS_DATA_LEN
  <2>4. parse_payload_status(w)
        = [name \in {"addr", "frame_seq"} \cup DOMAIN status |->
             CASE name = "addr" -> p.addr [] name = "frame_seq" -> 0 [] OTHER -> status[name]]
    <3>1. parse_payload_status(w)
          = IF deserialize(w) = nullopt THEN nullopt
            ELSE IF Len(deserialize(w).data) < REPORT_LOAD_STATUS_DATA_LEN THEN nullopt
            ELSE LET status_ == Get(report_read_order, deserialize(w).data, 0)
                 IN  [name \in {"addr", "frame_seq"} \cup DOMAIN status_ |->
                       CASE name = "addr" -> deserialize(w).addr [] name = "frame_seq" -> 0 [] OTHER -> status_[name]]
      BY <1>5, <2>3, Zenon DEF parse_payload_status
    <3> QED BY <1>4, <2>1, <2>2, <2>3, <3>1, Zenon
  <2>5. status = [x \in DataNames |-> r[x]] /\ DOMAIN status = DataNames
    BY <1>2, <2>2
  <2>6. "addr" \notin DataNames /\ "frame_seq" \notin DataNames /\ {"addr", "frame_seq"} = HeadNames
    BY DEF DataNames, HeadNames, FocalLengthNames, EnvNames, AxisNames, CheckNames
  <2> DEFINE d(name) == CASE name = "addr" -> p.addr [] name = "frame_seq" -> 0 [] OTHER -> status[name]
  <2>7. d("addr") = r["addr"] /\ d("frame_seq") = 0
    <3>1. p.addr = r.addr
      BY <1>1 DEF PacketOf
    <3>2. "addr" # "frame_seq"
      OBVIOUS
    <3>3. d("addr") = p.addr
      BY <3>2, Zenon
    <3>4. d("frame_seq") = 0
      BY <3>2, Zenon
    <3> QED BY <3>1, <3>3, <3>4
  <2>8. ASSUME NEW x \in DataNames PROVE d(x) = r[x]
    <3>1. x # "addr" /\ x # "frame_seq"
      BY <2>6
    <3>2. d(x) = status[x]
      BY <3>1, Zenon
    <3> QED BY <2>5, <3>2
  <2>9. parse_payload_status(w) = [name \in HeadNames \cup DataNames |-> d(name)]
    BY <2>4, <2>5, <2>6, Zenon
  <2> HIDE DEF d
  <2>10. /\ DOMAIN r = HeadNames \cup DataNames /\ r = [x \in HeadNames \cup DataNames |-> r[x]]
    BY ReportIs
  <2>11. \A x \in HeadNames \cup DataNames : d(x) = IF x = "frame_seq" THEN 0 ELSE r[x]
    BY <2>6, <2>7, <2>8 DEF HeadNames
  <2>12. [r EXCEPT !.frame_seq = 0] = [x \in HeadNames \cup DataNames |-> IF x = "frame_seq" THEN 0 ELSE r[x]]
    BY <2>10
  <2> QED BY <2>9, <2>11, <2>12
<1> QED BY <1>1, <1>6, <1>7

\* The status frame of the Java tests, and the sealed one of 51 bytes: two
\* bytes, and four words in 49 others.

\* g is f with four bytes written behind its first at bytes.
FourAt(f, at, v, g) ==
  /\ g \in Seq(Byte) /\ Len(g) = 51
  /\ \A k \in 1..51 : k \notin (at + 1)..(at + 4) => g[k] = f[k]
  /\ \A k \in 1..4 : g[at + k] = v[k]

BytesPatched(f, at, v) ==
  /\ Patch(f, at, v) \in Seq(Byte) /\ Len(Patch(f, at, v)) = Len(f)
  /\ \A k \in 1..Len(f) :
       Patch(f, at, v)[k] = IF k \in (at + 1)..(at + Len(v)) THEN v[k - at] ELSE f[k]

LEMMA PatchedBytes ==
  ASSUME NEW f \in Seq(Byte), NEW at \in Nat, NEW v \in Seq(Byte), at + Len(v) <= Len(f)
  PROVE  BytesPatched(f, at, v)
BY PatchIs DEF BytesPatched

LEMMA FourPatched ==
  ASSUME NEW f \in Seq(Byte), NEW at \in Nat, NEW v \in Seq(Byte),
         Len(f) = 51 /\ at + 4 <= 51 /\ Len(v) = 4
  PROVE  FourAt(f, at, v, Patch(f, at, v))
<1>1. at + Len(v) <= Len(f)
  OBVIOUS
<1>2. /\ Patch(f, at, v) \in Seq(Byte) /\ Len(Patch(f, at, v)) = Len(f)
      /\ \A k \in 1..Len(f) :
           Patch(f, at, v)[k] = IF k \in (at + 1)..(at + Len(v)) THEN v[k - at] ELSE f[k]
  <2>1. BytesPatched(f, at, v)
    BY <1>1, PatchedBytes
  <2> QED BY <2>1 DEF BytesPatched
<1>3. PICK g : g = Patch(f, at, v)
  OBVIOUS
<1>4. /\ g \in Seq(Byte) /\ Len(g) = 51
      /\ \A k \in 1..51 : g[k] = IF k \in (at + 1)..(at + 4) THEN v[k - at] ELSE f[k]
  BY <1>2, <1>3
<1>5. ASSUME NEW k \in 1..4 PROVE g[at + k] = v[k]
  <2>1. at + k \in 1..51 /\ at + k \in (at + 1)..(at + 4) /\ (at + k) - at = k
    OBVIOUS
  <2> QED BY <1>4, <2>1
<1> QED BY <1>3, <1>4, <1>5 DEF FourAt

\* The four bytes stand where they were written, and others where they stood.
LEMMA FourStands ==
  ASSUME NEW f, NEW g, NEW v \in Seq(Byte), Len(v) = 4, NEW at \in Nat, at + 4 <= 51,
         FourAt(f, at, v, g)
  PROVE  Stands(g, at, v)
<1>1. g \in Seq(Byte) /\ Len(g) = 51 /\ \A k \in 1..4 : g[at + k] = v[k]
  BY DEF FourAt
<1> QED BY <1>1 DEF Stands

LEMMA FourKeeps ==
  ASSUME NEW f, NEW g, NEW v, NEW at \in Nat, FourAt(f, at, v, g),
         NEW i \in Nat, NEW u, Len(u) = 4, Stands(f, i, u), i + 4 <= 51, i + 4 <= at \/ at + 4 <= i
  PROVE  Stands(g, i, u)
<1>1. g \in Seq(Byte) /\ Len(g) = 51 /\ \A k \in 1..51 : k \notin (at + 1)..(at + 4) => g[k] = f[k]
  BY DEF FourAt
<1>2. u \in Seq(Byte) /\ \A k \in 1..4 : f[i + k] = u[k]
  BY DEF Stands
<1>3. ASSUME NEW k \in 1..4 PROVE g[i + k] = u[k]
  <2>1. i + k \in 1..51 /\ i + k \notin (at + 1)..(at + 4)
    OBVIOUS
  <2> QED BY <1>1, <1>2, <2>1
<1> QED BY <1>1, <1>2, <1>3 DEF Stands

LEMMA WordPatched ==
  ASSUME NEW f \in Seq(Byte), NEW at \in Nat, NEW v \in Word,
         Len(f) = 51 /\ at + 4 <= 51
  PROVE  LET e == write_le_uint32(v)
             g == Patch(f, at, e)
         IN  FourAt(f, at, e, g) /\ Stands(g, at, e) /\ Len(e) = 4
<1>1. PICK w, g : w = write_le_uint32(v) /\ g = Patch(f, at, w)
  <2>1. PICK w : w = write_le_uint32(v)
    OBVIOUS
  <2> QED BY <2>1
<1>2. w \in Seq(Byte) /\ Len(w) = 4
  BY <1>1, Uint32
<1>3. Len(f) = 51 /\ at + 4 <= 51 /\ Len(w) = 4
  BY <1>2
<1>4. FourAt(f, at, w, g)
  BY <1>1, <1>2, <1>3, FourPatched
<1>5. Stands(g, at, w)
  BY <1>2, <1>3, <1>4, FourStands
<1> QED BY <1>1, <1>2, <1>4, <1>5

\* The two bytes and the four words, with a zero in front of the seal.
Carries(w, r) ==
  /\ w \in Seq(Byte) /\ Len(w) = 51 /\ w[1] = 31 /\ w[2] = 241 /\ w[48] = 0
  /\ Stands(w, 6, write_le_uint32(r.ir_focal_length)) /\ Stands(w, 10, write_le_uint32(r.vis_focal_length))
  /\ Stands(w, 28, write_le_uint32(r.servo_azimuth)) /\ Stands(w, 32, write_le_uint32(r.servo_elevation))

\* The bytes behind the head are zeros.
BlankBytes(b) == b = REPORT_HDR \o [i \in 1..49 |-> 0]

LEMMA BlankStatus ==
  ASSUME NEW b, BlankBytes(b)
  PROVE  b \in Seq(Byte) /\ Len(b) = 51 /\ b[1] = 31 /\ b[2] = 241 /\ b[48] = 0 /\ b[49] = 0 /\ b[50] = 0
<1>1. PICK h, z, m, n : h = <<31, 241>> /\ z = [i \in 1..49 |-> 0] /\ m = 2 /\ n = 49
  OBVIOUS
<1>2. h \in Seq(Byte) /\ z \in Seq(Byte) /\ m = Len(h) /\ n = Len(z)
  <2>1. 31 \in Byte /\ 241 \in Byte /\ 0 \in Byte
    BY DEF Byte
  <2>2. h \in Seq(Byte) /\ m = Len(h)
    BY <1>1, <2>1
  <2>3. z \in Seq(Byte) /\ n = Len(z)
    BY <1>1, <2>1
  <2> QED BY <2>2, <2>3
<1>3. PICK f : f = h \o z
  OBVIOUS
<1>4. /\ f \in Seq(Byte) /\ Len(f) = m + n
      /\ \A k \in 1..m : f[k] = h[k]
      /\ \A k \in 1..n : f[m + k] = z[k]
  <2>1. h \in Seq(Byte) /\ z \in Seq(Byte)
    BY <1>2
  <2>2. m = Len(h) /\ n = Len(z)
    BY <1>2
  <2>3. /\ h \o z \in Seq(Byte) /\ Len(h \o z) = m + n
        /\ \A k \in 1..m : (h \o z)[k] = h[k]
        /\ \A k \in 1..n : (h \o z)[m + k] = z[k]
    BY <2>1, <2>2, Concatenated
  <2> QED BY <1>3, <2>3
<1>5. 1 \in 1..m /\ 2 \in 1..m /\ 46 \in 1..n /\ 47 \in 1..n /\ 48 \in 1..n
      /\ m + n = 51 /\ m + 46 = 48 /\ m + 47 = 49 /\ m + 48 = 50
  BY <1>1
<1>6. h[1] = 31 /\ h[2] = 241 /\ z[46] = 0 /\ z[47] = 0 /\ z[48] = 0
  BY <1>1
<1>7. f[1] = 31 /\ f[2] = 241
  BY <1>4, <1>5, <1>6
<1>8. f[48] = 0 /\ f[49] = 0 /\ f[50] = 0
  <2>1. f[m + 46] = z[46] /\ f[m + 47] = z[47] /\ f[m + 48] = z[48]
    BY <1>4, <1>5
  <2> QED BY <1>5, <1>6, <2>1
<1>9. b = f
  BY <1>1, <1>3 DEF BlankBytes, REPORT_HDR
<1> QED BY <1>4, <1>5, <1>7, <1>8, <1>9

LEMMA StatusCarries ==
  ASSUME NEW r \in LoadStatusReport
  PROVE  Carries(StatusBytes(r), r) /\ StatusBytes(r)[49] = 0 /\ StatusBytes(r)[50] = 0
<1>1. PICK ir, vis, az, el : ir = r.ir_focal_length /\ vis = r.vis_focal_length
                             /\ az = r.servo_azimuth /\ el = r.servo_elevation
  OBVIOUS
<1>2. ir \in Word /\ vis \in Word /\ az \in Word /\ el \in Word
  BY <1>1 DEF LoadStatusReport
<1>3. PICK e1, e2, e3, e4 : e1 = write_le_uint32(ir) /\ e2 = write_le_uint32(vis)
                            /\ e3 = write_le_uint32(az) /\ e4 = write_le_uint32(el)
  OBVIOUS
<1>4. PICK b : b = REPORT_HDR \o [i \in 1..49 |-> 0]
  OBVIOUS
<1>5. b \in Seq(Byte) /\ Len(b) = 51 /\ b[1] = 31 /\ b[2] = 241 /\ b[48] = 0 /\ b[49] = 0 /\ b[50] = 0
  <2>1. BlankBytes(b)
    BY <1>4 DEF BlankBytes
  <2> QED BY <2>1, BlankStatus
<1>6. PICK b1 : b1 = Patch(b, 6, e1)
  OBVIOUS
<1>7. PICK b2 : b2 = Patch(b1, 10, e2)
  OBVIOUS
<1>8. PICK b3 : b3 = Patch(b2, 28, e3)
  OBVIOUS
<1>9. PICK w : w = Patch(b3, 32, e4)
  OBVIOUS
<1>10. StatusBytes(r) = w
  BY <1>1, <1>3, <1>4, <1>6, <1>7, <1>8, <1>9 DEF StatusBytes
<1>11. FourAt(b, 6, e1, b1) /\ Stands(b1, 6, e1) /\ Len(e1) = 4
  <2>1. 6 \in Nat /\ Len(b) = 51 /\ 6 + 4 <= 51 /\ b \in Seq(Byte)
    BY <1>5
  <2> QED BY <1>2, <1>3, <1>6, <2>1, WordPatched
<1>12. FourAt(b1, 10, e2, b2) /\ Stands(b2, 10, e2) /\ Len(e2) = 4
  <2>1. 10 \in Nat /\ Len(b1) = 51 /\ 10 + 4 <= 51 /\ b1 \in Seq(Byte)
    BY <1>11 DEF FourAt
  <2> QED BY <1>2, <1>3, <1>7, <2>1, WordPatched
<1>13. FourAt(b2, 28, e3, b3) /\ Stands(b3, 28, e3) /\ Len(e3) = 4
  <2>1. 28 \in Nat /\ Len(b2) = 51 /\ 28 + 4 <= 51 /\ b2 \in Seq(Byte)
    BY <1>12 DEF FourAt
  <2> QED BY <1>2, <1>3, <1>8, <2>1, WordPatched
<1>14. FourAt(b3, 32, e4, w) /\ Stands(w, 32, e4)
  <2>1. 32 \in Nat /\ Len(b3) = 51 /\ 32 + 4 <= 51 /\ b3 \in Seq(Byte)
    BY <1>13 DEF FourAt
  <2> QED BY <1>2, <1>3, <1>9, <2>1, WordPatched
<1>15. Stands(w, 6, e1) /\ Stands(w, 10, e2) /\ Stands(w, 28, e3)
  <2>1. /\ 6 \in Nat /\ 10 \in Nat /\ 28 \in Nat /\ 32 \in Nat
        /\ 6 + 4 <= 51 /\ 10 + 4 <= 51 /\ 28 + 4 <= 51
        /\ 6 + 4 <= 10 /\ 6 + 4 <= 28 /\ 6 + 4 <= 32 /\ 10 + 4 <= 28 /\ 10 + 4 <= 32 /\ 28 + 4 <= 32
    OBVIOUS
  <2>2. Stands(b2, 6, e1)
    BY <1>11, <1>12, <2>1, FourKeeps
  <2>3. Stands(b3, 6, e1)
    BY <1>11, <1>13, <2>1, <2>2, FourKeeps
  <2>4. Stands(b3, 10, e2)
    BY <1>12, <1>13, <2>1, FourKeeps
  <2>5. Stands(w, 6, e1)
    BY <1>11, <1>14, <2>1, <2>3, FourKeeps
  <2>6. Stands(w, 10, e2)
    BY <1>12, <1>14, <2>1, <2>4, FourKeeps
  <2>7. Stands(w, 28, e3)
    BY <1>13, <1>14, <2>1, FourKeeps
  <2> QED BY <2>5, <2>6, <2>7
<1>16. ASSUME NEW k \in {1, 2, 48, 49, 50} PROVE w[k] = b[k]
  <2>1. k \in 1..51 /\ k \notin (32 + 1)..(32 + 4) /\ k \notin (28 + 1)..(28 + 4)
        /\ k \notin (10 + 1)..(10 + 4) /\ k \notin (6 + 1)..(6 + 4)
    OBVIOUS
  <2>2. w[k] = b3[k]
    BY <1>14, <2>1 DEF FourAt
  <2>3. b3[k] = b2[k]
    BY <1>13, <2>1 DEF FourAt
  <2>4. b2[k] = b1[k]
    BY <1>12, <2>1 DEF FourAt
  <2>5. b1[k] = b[k]
    BY <1>11, <2>1 DEF FourAt
  <2> QED BY <2>2, <2>3, <2>4, <2>5
<1>17. w[1] = 31 /\ w[2] = 241 /\ w[48] = 0 /\ w[49] = 0 /\ w[50] = 0
  BY <1>5, <1>16
<1>18. w \in Seq(Byte) /\ Len(w) = 51
  BY <1>14 DEF FourAt
<1> QED BY <1>1, <1>3, <1>10, <1>14, <1>15, <1>17, <1>18 DEF Carries

\* The frame with its seal.
LEMMA SealedCarries ==
  ASSUME NEW r \in LoadStatusReport, NEW g, g = SealedStatus(r)
  PROVE  Carries(g, r) /\ Xor(Slice(g, 2, 48)) = At(g, 48) /\ Slice(g, 49, 51) = REPORT_TAIL
<1>1. PICK w, f, x, t : /\ w = StatusBytes(r) /\ f = Slice(w, 0, 48)
                        /\ x = Xor(Slice(f, 2, 48)) /\ t = <<241, 31>>
  <2>1. PICK w : w = StatusBytes(r)
    OBVIOUS
  <2>2. PICK f : f = Slice(w, 0, 48)
    OBVIOUS
  <2> QED BY <2>1, <2>2
<1>2. Carries(w, r)
  BY <1>1, StatusCarries
<1>3. w \in Seq(Byte) /\ Len(w) = 51
  BY <1>2 DEF Carries
<1>4. f \in Seq(Byte) /\ Len(f) = 48 /\ \A k \in 1..48 : f[k] = w[k]
  <2>1. PICK z, n : z = 0 /\ n = 48
    OBVIOUS
  <2>2. w \in Seq(Byte) /\ z \in Nat /\ n \in z..Len(w)
    BY <1>3, <2>1
  <2>3. /\ Slice(w, z, n) \in Seq(Byte) /\ Len(Slice(w, z, n)) = n - z
        /\ \A k \in 1..(n - z) : Slice(w, z, n)[k] = w[z + k]
    BY <2>2, SliceIs
  <2>4. f = Slice(w, z, n)
    BY <1>1, <2>1
  <2>5. n - z = 48 /\ \A k \in 1..48 : z + k = k
    BY <2>1
  <2> QED BY <2>3, <2>4, <2>5
<1>5. x \in Byte
  <2>1. 2 \in Nat /\ 48 \in 2..Len(f)
    BY <1>4
  <2>2. Slice(f, 2, 48) \in Seq(Byte)
    BY <1>4, <2>1, SliceIs
  <2> QED BY <1>1, <2>2, SumsAreBytes
<1>6. PICK c, A : c = <<x>> /\ A = f \o c
  <2>1. PICK c : c = <<x>>
    OBVIOUS
  <2> QED BY <2>1
<1>7. c \in Seq(Byte) /\ Len(c) = 1 /\ c[1] = x /\ t \in Seq(Byte) /\ Len(t) = 2
  <2>1. 241 \in Byte /\ 31 \in Byte
    BY DEF Byte
  <2> QED BY <1>1, <1>5, <1>6, <2>1
<1>8. A \in Seq(Byte) /\ Len(A) = 49 /\ Stands(A, 0, f) /\ Stands(A, 48, c)
  <2>1. PICK m, n : m = 48 /\ n = 1
    OBVIOUS
  <2>2. f \in Seq(Byte) /\ c \in Seq(Byte) /\ m = Len(f) /\ n = Len(c)
    BY <1>4, <1>7, <2>1
  <2>3. f \o c \in Seq(Byte) /\ Len(f \o c) = m + n
    BY <2>2, Concatenated
  <2>4. Stands(f \o c, 0, f) /\ Stands(f \o c, m, c)
    BY <2>2, StandsParts
  <2> QED BY <1>6, <2>1, <2>3, <2>4
<1>9. g = A \o t
  BY <1>1, <1>6 DEF SealedStatus, REPORT_TAIL
<1>10. g \in Seq(Byte) /\ Len(g) = 51 /\ Stands(g, 0, A) /\ Stands(g, 49, t)
  <2>1. PICK m, n : m = 49 /\ n = 2
    OBVIOUS
  <2>2. A \in Seq(Byte) /\ t \in Seq(Byte) /\ m = Len(A) /\ n = Len(t)
    BY <1>7, <1>8, <2>1
  <2>3. A \o t \in Seq(Byte) /\ Len(A \o t) = m + n
    BY <2>2, Concatenated
  <2>4. Stands(A \o t, 0, A) /\ Stands(A \o t, m, t)
    BY <2>2, StandsParts
  <2> QED BY <1>9, <2>1, <2>3, <2>4
<1>11. Stands(g, 0, f) /\ Stands(g, 48, c)
  <2>1. 0 = 0 + 0 /\ 48 = 0 + 48
    OBVIOUS
  <2>2. Stands(g, 0, f)
    BY <1>8, <1>10, <2>1, StandsIn
  <2>3. Stands(g, 48, c)
    BY <1>8, <1>10, <2>1, StandsIn
  <2> QED BY <2>2, <2>3
<1>12. \A k \in 1..48 : g[k] = f[k] /\ g[k] = w[k]
  <2>1. \A k \in 1..48 : g[0 + k] = f[k]
    BY <1>4, <1>11 DEF Stands
  <2>2. \A k \in 1..48 : 0 + k = k
    OBVIOUS
  <2> QED BY <1>4, <2>1, <2>2
<1>13. ASSUME NEW i \in Nat, i + 4 <= 48, NEW u, Len(u) = 4, Stands(w, i, u) PROVE Stands(g, i, u)
  <2>1. u \in Seq(Byte) /\ \A k \in 1..4 : w[i + k] = u[k]
    BY <1>13 DEF Stands
  <2>2. \A k \in 1..4 : i + k \in 1..48
    BY <1>13
  <2>3. \A k \in 1..4 : g[i + k] = u[k]
    BY <1>12, <2>1, <2>2
  <2>4. i + Len(u) <= Len(g)
    BY <1>10, <1>13
  <2> QED BY <1>10, <1>13, <2>1, <2>3, <2>4 DEF Stands
<1>14. Carries(g, r)
  <2>1. /\ r.ir_focal_length \in Word /\ r.vis_focal_length \in Word
        /\ r.servo_azimuth \in Word /\ r.servo_elevation \in Word
    BY DEF LoadStatusReport
  <2>2. /\ Len(write_le_uint32(r.ir_focal_length)) = 4 /\ Len(write_le_uint32(r.vis_focal_length)) = 4
        /\ Len(write_le_uint32(r.servo_azimuth)) = 4 /\ Len(write_le_uint32(r.servo_elevation)) = 4
    BY <2>1, Uint32
  <2>3. /\ 6 \in Nat /\ 10 \in Nat /\ 28 \in Nat /\ 32 \in Nat
        /\ 6 + 4 <= 48 /\ 10 + 4 <= 48 /\ 28 + 4 <= 48 /\ 32 + 4 <= 48
    OBVIOUS
  <2>4. /\ Stands(w, 6, write_le_uint32(r.ir_focal_length)) /\ Stands(w, 10, write_le_uint32(r.vis_focal_length))
        /\ Stands(w, 28, write_le_uint32(r.servo_azimuth)) /\ Stands(w, 32, write_le_uint32(r.servo_elevation))
        /\ w[1] = 31 /\ w[2] = 241 /\ w[48] = 0
    BY <1>2 DEF Carries
  <2>5. /\ Stands(g, 6, write_le_uint32(r.ir_focal_length)) /\ Stands(g, 10, write_le_uint32(r.vis_focal_length))
        /\ Stands(g, 28, write_le_uint32(r.servo_azimuth)) /\ Stands(g, 32, write_le_uint32(r.servo_elevation))
    BY <1>13, <2>2, <2>3, <2>4
  <2>6. g[1] = 31 /\ g[2] = 241 /\ g[48] = 0
    <3>1. 1 \in 1..48 /\ 2 \in 1..48 /\ 48 \in 1..48
      OBVIOUS
    <3> QED BY <1>12, <2>4, <3>1
  <2> QED BY <1>10, <2>5, <2>6 DEF Carries
<1>15. Xor(Slice(g, 2, 48)) = At(g, 48)
  <2>1. PICK a, b : a = 2 /\ b = 48
    OBVIOUS
  <2>2. Slice(f, a, b) = Slice(g, a, b)
    <3>1. f \in Seq(Byte) /\ g \in Seq(Byte) /\ a \in Nat /\ b \in a..Len(f) /\ b <= Len(g)
      BY <1>4, <1>10, <2>1
    <3>2. \A k \in (a + 1)..b : f[k] = g[k]
      BY <1>12, <2>1
    <3> QED BY <3>1, <3>2, SlicesAgree
  <2>3. g[48 + 1] = c[1]
    BY <1>7, <1>11 DEF Stands
  <2> QED BY <1>1, <1>7, <2>1, <2>2, <2>3 DEF At
<1>16. Slice(g, 49, 51) = REPORT_TAIL
  <2>1. 51 = 49 + Len(t)
    BY <1>7
  <2>2. Slice(g, 49, 51) = t
    BY <1>10, <2>1, StandsSlice
  <2> QED BY <1>1, <2>2 DEF REPORT_TAIL
<1> QED BY <1>14, <1>15, <1>16

\* What every reader of such a frame has in common: the readers of 49 bytes
\* miss the tail in the middle.
LEMMA CarriedIsRead ==
  ASSUME NEW r \in LoadStatusReport, NEW w, Carries(w, r)
  PROVE  /\ WordAt(w, 6) = r.ir_focal_length /\ WordAt(w, 10) = r.vis_focal_length
         /\ WordAt(w, 28) = r.servo_azimuth /\ WordAt(w, 32) = r.servo_elevation
         /\ get_ptz(w).ir = r.ir_focal_length /\ get_ptz(w).vis = r.vis_focal_length
         /\ Slice(w, 0, 2) = REPORT_HDR
         /\ deserialize_report(w) = nullopt /\ parseReceivedPacket(w) = nullopt
         /\ parse_payload_status(w) = nullopt
<1>1. w \in Seq(Byte) /\ Len(w) = 51 /\ w[1] = 31 /\ w[2] = 241 /\ w[48] = 0
  BY DEF Carries
<1>2. /\ WordAt(w, 6) = r.ir_focal_length /\ WordAt(w, 10) = r.vis_focal_length
      /\ WordAt(w, 28) = r.servo_azimuth /\ WordAt(w, 32) = r.servo_elevation
  <2>1. /\ r.ir_focal_length \in Word /\ r.vis_focal_length \in Word
        /\ r.servo_azimuth \in Word /\ r.servo_elevation \in Word
    BY DEF LoadStatusReport
  <2>2. ASSUME NEW i, NEW v \in Word, Stands(w, i, write_le_uint32(v)) PROVE WordAt(w, i) = v
    <3>1. Encode("u32", v) = write_le_uint32(v)
      BY Codec
    <3> QED BY <2>2, <3>1, WordStands
  <2> QED BY <2>1, <2>2 DEF Carries
<1>3. get_ptz(w).ir = r.ir_focal_length /\ get_ptz(w).vis = r.vis_focal_length
  <2>1. ~(Len(w) < 34)
    BY <1>1
  <2> QED BY <1>2, <2>1 DEF get_ptz
<1>4. Slice(w, 0, 2) = REPORT_HDR /\ Slice(w, 0, 2) # FRAME_HDR
  <2>1. PICK h, z, n : h = <<31, 241>> /\ z = 0 /\ n = 2
    OBVIOUS
  <2>2. h \in Seq(Byte) /\ Len(h) = n - z /\ z \in Nat /\ n \in z..Len(w)
    <3>1. 31 \in Byte /\ 241 \in Byte
      BY DEF Byte
    <3> QED BY <1>1, <2>1, <3>1
  <2>3. \A k \in 1..(n - z) : h[k] = w[z + k]
    BY <1>1, <2>1
  <2>4. Slice(w, z, n) = h
    <3>1. w \in Seq(Byte)
      BY <1>1
    <3> QED BY <2>2, <2>3, <3>1, SliceEqual
  <2>5. h # <<15, 240>>
    BY <2>1
  <2> QED BY <2>1, <2>4, <2>5 DEF REPORT_HDR, FRAME_HDR
<1>5. Slice(w, 47, 49) # REPORT_TAIL
  <2>1. PICK a, z : a = 47 /\ z = 49
    OBVIOUS
  <2>2. 1 \in 1..(z - a) /\ a + 1 = 48
    BY <2>1
  <2>3. \A k \in 1..(z - a) : Slice(w, a, z)[k] = w[a + k]
    <3>1. a \in Nat /\ z \in a..Len(w) /\ w \in Seq(Byte)
      BY <1>1, <2>1
    <3> QED BY <3>1, SliceIs
  <2>4. Slice(w, a, z)[1] = 0
    BY <1>1, <2>2, <2>3
  <2>5. REPORT_TAIL[1] = 241
    BY DEF REPORT_TAIL
  <2> QED BY <2>1, <2>4, <2>5
<1>6. deserialize_report(w) = nullopt
  BY <1>5 DEF deserialize_report
<1> QED BY <1>2, <1>3, <1>4, <1>6 DEF parseReceivedPacket, parse_payload_status

\* get_ptz, which asks for no seal, reads the focal lengths of the frame of the
\* Java tests; the readers that ask for a tail do not, nor does the log, unless
\* the exclusive or happens to be right (IntegrationMain.java, DebugClient.java).
THEOREM StatusWithoutSeal ==
  ASSUME NEW r \in LoadStatusReport
  PROVE  LET w == StatusBytes(r) IN
         /\ Carries(w, r)
         /\ get_ptz(w).ir = r.ir_focal_length /\ get_ptz(w).vis = r.vis_focal_length
         /\ deserialize_report(w) = nullopt /\ parseReceivedPacket(w) = nullopt
         /\ parse_payload_status(w) = nullopt /\ parse_status_report(w) = nullopt
         /\ LoggedStatus(w) # nullopt => Xor(Slice(w, 2, 48)) = 0
<1>1. PICK w : w = StatusBytes(r)
  OBVIOUS
<1>2. Carries(w, r) /\ w[49] = 0 /\ w[50] = 0
  BY <1>1, StatusCarries
<1>3. /\ get_ptz(w).ir = r.ir_focal_length /\ get_ptz(w).vis = r.vis_focal_length
      /\ deserialize_report(w) = nullopt /\ parseReceivedPacket(w) = nullopt
      /\ parse_payload_status(w) = nullopt
  BY <1>2, CarriedIsRead
<1>4. w \in Seq(Byte) /\ Len(w) = 51
  BY <1>2 DEF Carries
<1>5. Slice(w, 49, 51) # REPORT_TAIL
  <2>1. PICK a, z : a = 49 /\ z = 51
    OBVIOUS
  <2>2. a \in Nat /\ z \in a..Len(w) /\ w \in Seq(Byte) /\ 1 \in 1..(z - a) /\ a + 1 = 50
    BY <1>4, <2>1
  <2>3. \A k \in 1..(z - a) : Slice(w, a, z)[k] = w[a + k]
    BY <2>2, SliceIs
  <2>4. Slice(w, a, z)[1] = 0
    BY <1>2, <2>2, <2>3
  <2>5. REPORT_TAIL[1] = 241
    BY DEF REPORT_TAIL
  <2> QED BY <2>1, <2>4, <2>5
<1>6. parse_status_report(w) = nullopt
  BY <1>5 DEF parse_status_report
<1>7. At(w, 48) = 0
  <2>1. 48 + 1 = 49
    OBVIOUS
  <2> QED BY <1>2, <2>1 DEF At
<1>8. LoggedStatus(w) # nullopt => Xor(Slice(w, 2, 48)) = 0
  BY <1>7 DEF LoggedStatus, Sealed51
<1> QED BY <1>1, <1>2, <1>3, <1>6, <1>8

\* A sealed frame of 51 bytes: CamAJFLib reads all of it, the controller's log
\* the focal lengths (cam_ajf_lib.cpp, cam_controller.cpp).
THEOREM StatusWithSeal ==
  ASSUME NEW r \in LoadStatusReport, NEW w, w = SealedStatus(r)
  PROVE  /\ Carries(w, r) /\ Sealed51(w)
         /\ parse_status_report(w) = [az |-> r.servo_azimuth, el |-> r.servo_elevation,
                                      ir |-> r.ir_focal_length, vis |-> r.vis_focal_length]
         /\ LoggedStatus(w) = get_ptz(w)
         /\ get_ptz(w).ir = r.ir_focal_length /\ get_ptz(w).vis = r.vis_focal_length
         /\ deserialize_report(w) = nullopt /\ parseReceivedPacket(w) = nullopt
         /\ parse_payload_status(w) = nullopt
<1>1. Carries(w, r) /\ Xor(Slice(w, 2, 48)) = At(w, 48) /\ Slice(w, 49, 51) = REPORT_TAIL
  BY SealedCarries
<1>2. /\ WordAt(w, 6) = r.ir_focal_length /\ WordAt(w, 10) = r.vis_focal_length
      /\ WordAt(w, 28) = r.servo_azimuth /\ WordAt(w, 32) = r.servo_elevation
      /\ get_ptz(w).ir = r.ir_focal_length /\ get_ptz(w).vis = r.vis_focal_length
      /\ Slice(w, 0, 2) = REPORT_HDR
      /\ deserialize_report(w) = nullopt /\ parseReceivedPacket(w) = nullopt
      /\ parse_payload_status(w) = nullopt
  BY <1>1, CarriedIsRead
<1>3. Sealed51(w)
  <2>1. Len(w) >= 51
    BY <1>1 DEF Carries
  <2> QED BY <1>1, <1>2, <2>1 DEF Sealed51
<1> QED BY <1>1, <1>2, <1>3 DEF parse_status_report, LoggedStatus

\* A damaged one is nothing to CamAJFLib, and nothing or the same to the log.
THEOREM SealedStatusDamage ==
  ASSUME NEW r \in LoadStatusReport, NEW w, w = SealedStatus(r),
         NEW g, (\E i : ChangedAt(w, g, i)) \/ CutShort(w, g)
  PROVE  parse_status_report(g) = nullopt /\ LoggedStatus(g) \in {nullopt, LoggedStatus(w)}
<1>1. /\ Carries(w, r) /\ Xor(Slice(w, 2, 48)) = At(w, 48) /\ Slice(w, 49, 51) = REPORT_TAIL
      /\ LoggedStatus(w) = get_ptz(w) /\ Slice(w, 0, 2) = REPORT_HDR
  BY SealedCarries, StatusWithSeal, CarriedIsRead
<1>2. w \in Seq(Byte) /\ Len(w) = 51
  BY <1>1 DEF Carries
<1>3. CASE CutShort(w, g)
  <2>1. g \in Seq(Byte) /\ Len(g) < Len(w)
    BY <1>2, <1>3, CutIs
  <2>2. ~(Len(g) >= 51)
    BY <1>2, <2>1
  <2> QED BY <2>2 DEF parse_status_report, LoggedStatus, Sealed51
<1>4. CASE \E i : ChangedAt(w, g, i)
  <2>1. PICK i : ChangedAt(w, g, i)
    BY <1>4
  <2>2. i \in 1..51 /\ g \in Seq(Byte) /\ Len(g) = 51
    BY <1>2, <2>1 DEF ChangedAt
  <2>3. CASE i \in 1..2
    <3>1. 0 \in Nat /\ 2 \in 0..Len(w) /\ i \in (0 + 1)..2
      BY <1>2, <2>3
    <3>2. Slice(g, 0, 2) # Slice(w, 0, 2)
      BY <2>1, <3>1, ChangedSlice
    <3> QED BY <1>1, <3>2 DEF parse_status_report, LoggedStatus, Sealed51
  <2>4. CASE i \in 3..49
    <3>1. 2 \in Nat /\ 48 \in 2..Len(w) /\ 48 < Len(w) /\ i \in (2 + 1)..(48 + 1)
      BY <1>2, <2>4
    <3>2. Xor(Slice(w, 2, 48)) = At(w, 48) => Xor(Slice(g, 2, 48)) # At(g, 48)
      BY <2>1, <3>1, SealIsBroken
    <3> QED BY <1>1, <3>2 DEF parse_status_report, LoggedStatus, Sealed51
  <2>5. CASE i \in 50..51
    <3>1. 49 \in Nat /\ 51 \in 49..Len(w) /\ i \in (49 + 1)..51
      BY <1>2, <2>5
    <3>2. Slice(g, 49, 51) # Slice(w, 49, 51)
      BY <2>1, <3>1, ChangedSlice
    <3>3. parse_status_report(g) = nullopt
      BY <1>1, <3>2 DEF parse_status_report
    <3>4. ASSUME NEW a \in {6, 10, 26, 30} PROVE WordAt(g, a) = WordAt(w, a)
      <4>1. PICK b : b = a + 4
        OBVIOUS
      <4>2. a \in Nat /\ b \in a..Len(w) /\ i \notin (a + 1)..b
        BY <1>2, <2>5, <4>1
      <4>3. Slice(g, a, b) = Slice(w, a, b)
        BY <2>1, <4>2, ChangedSlice
      <4> QED BY <4>1, <4>3 DEF WordAt
    <3>5. get_ptz(g) = get_ptz(w)
      <4>1. ~(Len(g) < 34) /\ ~(Len(w) < 34)
        BY <1>2, <2>2
      <4>2. /\ WordAt(g, 6) = WordAt(w, 6) /\ WordAt(g, 10) = WordAt(w, 10)
            /\ WordAt(g, 26) = WordAt(w, 26) /\ WordAt(g, 30) = WordAt(w, 30)
        BY <3>4
      <4> QED BY <4>1, <4>2 DEF get_ptz
    <3> QED BY <1>1, <3>3, <3>5 DEF LoggedStatus
  <2> QED BY <2>2, <2>3, <2>4, <2>5
<1> QED BY <1>3, <1>4

-------------------------------------------------------------------------------
(* The system.                                                             *)

Camera_senders == {"camera", "java_camera"}
Servo_senders == {"servo", "ptz"}
Senders == Servo_senders \cup InStandardFrame \cup {"java_camera", "report", "report51", "java_status"}

ServoBytesOf(fields) == serialize_servo(Members(fields))

\* w is what its sender makes of the request a.
Sent(a, w) ==
  /\ a.by \in Senders
  /\ a.by \in Servo_senders => ServoFields(a.fields) /\ w = ServoBytesOf(a.fields)
  /\ a.by \in InStandardFrame => a.packet \in Packet /\ w = serialize(a.packet)
  /\ a.by = "wrapped" => ServoFields(a.fields) /\ a.packet = Wrapped(ServoBytesOf(a.fields))
  /\ a.by = "java_camera" =>
       /\ a.packet \in Packet
       /\ w = buildCommand(a.packet.addr, a.packet.func, a.packet.ctrl, a.packet.data)
  /\ a.by \in {"report", "report_in_packet", "java_status", "report51"} => a.report \in LoadStatusReport
  /\ a.by = "report" => w = serialize_report(a.report)
  /\ a.by = "report_in_packet" => a.packet = PacketOf(a.report)
  /\ a.by = "java_status" => w = StatusBytes(a.report)
  /\ a.by = "report51" => w = SealedStatus(a.report)

Changed(w, g) == \E i : ChangedAt(w, g, i)

\* v is the simulator's answer to g.
Answered(g, v) ==
  \/ parseServo(g) # nullopt /\ v = serializeServo(parseServo(g))
  \/ /\ parseServo(g) = nullopt /\ parsePacket(g) # nullopt
     /\ v = buildCommand(parsePacket(g).addr, Acknowledged(parsePacket(g).func), parsePacket(g).ctrl, <<0>>)

\* Where the datagram comes from.
Origin ==
  /\ state \in {"none", "intact", "changed", "cut", "answer", "misled"}
  /\ state = "intact" => Sent(asked, wire)
  /\ state = "changed" => \E w : Sent(asked, w) /\ Changed(w, wire)
  /\ state = "cut" => \E w : Sent(asked, w) /\ CutShort(w, wire)
  /\ state = "answer" => \E w : Sent(asked, w) /\ Answered(w, wire)
  /\ state = "misled" =>
       \E w, g : Sent(asked, w) /\ (Changed(w, g) \/ CutShort(w, g)) /\ Answered(g, wire)

-------------------------------------------------------------------------------
(* What the senders send.                                                  *)

\* A servo frame, bare.
LEMMA ServoSent ==
  ASSUME NEW a, NEW w, Sent(a, w), a.by \in Servo_senders
  PROVE  IsServo(w) /\ deserialize_servo(w) = Members(a.fields)
<1>1. PICK f : f = a.fields
  OBVIOUS
<1>2. ServoFields(f) /\ w = serialize_servo(Members(f))
  BY <1>1 DEF Sent, ServoBytesOf
<1>3. IsServo(serialize_servo(Members(f))) /\ deserialize_servo(serialize_servo(Members(f))) = Members(f)
  BY <1>2, ServoRoundTrip
<1> QED BY <1>1, <1>2, <1>3

\* A standard frame.
LEMMA PacketSent ==
  ASSUME NEW p \in Packet, NEW w, w = serialize(p)
  PROVE  /\ Padded(p) \in Packet /\ Padded(p) # nullopt
         /\ Padded(p) = [addr |-> p.addr, func |-> p.func, ctrl |-> p.ctrl, data |-> Pad(p.data)]
         /\ parsePacket(w) = Padded(p)
         /\ w \in Seq(Byte) /\ Len(w) = Len(Padded(p).data) + 8 /\ w[1] = 15 /\ w[2] = 240
<1>1. /\ parsePacket(w) = Padded(p)
      /\ w \in Seq(Byte) /\ Len(w) = Len(Pad(p.data)) + 8
      /\ w[1] = 15 /\ w[2] = 240
  BY WhatIsWrittenIsRead DEF Padded
<1>2. PICK d : d = Pad(p.data)
  OBVIOUS
<1>3. d \in Seq(Byte)
  <2>1. p.data \in Seq(Byte)
    BY DEF Packet
  <2> QED BY <1>2, <2>1, PadType
<1>4. Padded(p) = [addr |-> p.addr, func |-> p.func, ctrl |-> p.ctrl, data |-> d]
  BY <1>2 DEF Padded, Packet
<1>5. Padded(p) \in Packet
  BY <1>3, <1>4 DEF Packet
<1> QED BY <1>1, <1>2, <1>4, <1>5, NulloptAssumption

\* It begins as no servo frame.
LEMMA NoServo ==
  ASSUME NEW w, w[1] = 15
  PROVE  parseServo(w) = nullopt
<1>1. At(w, 0) = 15
  <2>1. 0 + 1 = 1
    OBVIOUS
  <2> QED BY <2>1 DEF At
<1> QED BY <1>1 DEF parseServo, servo_header

\* What a Java program sends to the camera.
LEMMA JavaSent ==
  ASSUME NEW p \in Packet, NEW w, w = buildCommand(p.addr, p.func, p.ctrl, p.data)
  PROVE  /\ parsePacket(w) = IF Last(Padded(p).data) = 0 THEN Padded(p) ELSE nullopt
         /\ w \in Seq(Byte) /\ Len(w) >= 8 /\ w[1] = 15 /\ w[2] = 240
<1>1. PICK a, b, c, d : a = p.addr /\ b = p.func /\ c = p.ctrl /\ d = p.data
  OBVIOUS
<1>2. a \in Byte /\ b \in Byte /\ c \in Byte /\ d \in Seq(Byte)
  BY <1>1 DEF Packet
<1>3. /\ buildCommand(a, b, c, d) \in Seq(Byte) /\ Len(buildCommand(a, b, c, d)) = Len(Pad(d)) + 8
      /\ buildCommand(a, b, c, d)[1] = 15 /\ buildCommand(a, b, c, d)[2] = 240
      /\ parsePacket(buildCommand(a, b, c, d))
           = IF Last(Pad(d)) = 0 THEN [addr |-> a, func |-> b, ctrl |-> c, data |-> Pad(d)] ELSE nullopt
  BY <1>2, JavaCommandIsReadIfZero
<1>4. Pad(d) \in Seq(Byte)
  BY <1>2, PadType
<1>5. Len(Pad(d)) + 8 >= 8
  BY <1>4
<1>6. Padded(p) = [addr |-> a, func |-> b, ctrl |-> c, data |-> Pad(d)]
  BY <1>1 DEF Padded, Packet
<1>7. Padded(p).data = Pad(d)
  BY <1>6
<1> QED BY <1>1, <1>3, <1>5, <1>6, <1>7

\* The bytes of every sender.
LEMMA SentBytes ==
  ASSUME NEW a, NEW w, Sent(a, w)
  PROVE  w \in Seq(Byte)
<1>1. CASE a.by \in Servo_senders
  BY <1>1, ServoSent DEF IsServo
<1>2. CASE a.by \in InStandardFrame
  <2>1. a.packet \in Packet /\ w = serialize(a.packet)
    BY <1>2 DEF Sent
  <2> QED BY <2>1, PacketSent
<1>3. CASE a.by = "java_camera"
  <2>1. a.packet \in Packet /\ w = buildCommand(a.packet.addr, a.packet.func, a.packet.ctrl, a.packet.data)
    BY <1>3 DEF Sent
  <2> QED BY <2>1, JavaSent
<1>4. CASE a.by = "report"
  <2>1. PICK r : r = a.report
    OBVIOUS
  <2>2. r \in LoadStatusReport /\ w = serialize_report(r)
    BY <1>4, <2>1 DEF Sent
  <2>3. IsReport(serialize_report(r))
    BY <2>2, ReportRoundTrip
  <2> QED BY <2>2, <2>3 DEF IsReport
<1>5. CASE a.by = "java_status"
  <2>1. PICK r : r = a.report
    OBVIOUS
  <2>2. r \in LoadStatusReport /\ w = StatusBytes(r)
    BY <1>5, <2>1 DEF Sent
  <2>3. Carries(StatusBytes(r), r)
    BY <2>2, StatusCarries
  <2> QED BY <2>2, <2>3 DEF Carries
<1>6. CASE a.by = "report51"
  <2>1. PICK r : r = a.report
    OBVIOUS
  <2>2. r \in LoadStatusReport /\ w = SealedStatus(r)
    BY <1>6, <2>1 DEF Sent
  <2>3. Carries(w, r)
    BY <2>2, SealedCarries
  <2> QED BY <2>3 DEF Carries
<1> QED BY <1>1, <1>2, <1>3, <1>4, <1>5, <1>6 DEF Sent, Senders

-------------------------------------------------------------------------------
(* The network and the simulator.                                          *)

LEMMA ByteAdded ==
  ASSUME NEW b \in Byte, NEW d \in 1..255
  PROVE  (b + d) % 256 \in Byte /\ (b + d) % 256 # b
<1>1. PICK s : s = b + d
  OBVIOUS
<1>2. b \in 0..255 /\ s \in 1..510 /\ s > b /\ s - 256 < b
  BY <1>1 DEF Byte
<1>3. CASE s < 256
  <2>1. s % 256 = s
    BY <1>2, <1>3
  <2> QED BY <1>1, <1>2, <1>3, <2>1 DEF Byte
<1>4. CASE s >= 256
  <2>1. s % 256 = s - 256
    BY <1>2, <1>4
  <2>2. s - 256 \in 0..255
    BY <1>2, <1>4
  <2> QED BY <1>1, <1>2, <2>1, <2>2 DEF Byte
<1> QED BY <1>2, <1>3, <1>4

\* A byte to which the network adds something is another one.
LEMMA ChangeIs ==
  ASSUME NEW w \in Seq(Byte), NEW i \in DOMAIN w, NEW d \in 1..255,
         NEW g, g = [w EXCEPT ![i] = (@ + d) % 256]
  PROVE  ChangedAt(w, g, i)
<1>1. PICK c : c = (w[i] + d) % 256
  OBVIOUS
<1>2. c \in Byte /\ c # w[i]
  <2>1. w[i] \in Byte
    OBVIOUS
  <2> QED BY <1>1, <2>1, ByteAdded
<1>3. g = [w EXCEPT ![i] = c]
  BY <1>1
<1>4. /\ g \in Seq(Byte) /\ Len(g) = Len(w) /\ i \in 1..Len(w) /\ g[i] = c
      /\ \A j \in 1..Len(w) : j # i => g[j] = w[j]
  BY <1>2, <1>3
<1> QED BY <1>2, <1>4 DEF ChangedAt

\* What each sender emits.
LEMMA CameraSent ==
  ASSUME NEW c \in CameraCalls
  PROVE  /\ Sent([by |-> "camera", packet |-> Camera(c)], serialize(Camera(c)))
         /\ Sent([by |-> "java_camera", packet |-> Camera(c)],
                 buildCommand(ADDR_CAMERA_VIS, c.func, c.ctrl, c.payload))
<1>1. PICK p : p = Camera(c)
  OBVIOUS
<1>2. p \in Packet
  BY <1>1, WireAssumption DEF Camera
<1>3. p.addr = ADDR_CAMERA_VIS /\ p.func = c.func /\ p.ctrl = c.ctrl /\ p.data = c.payload
  BY <1>1 DEF Camera, make_camera_command
<1>4. Sent([by |-> "camera", packet |-> p], serialize(p))
  BY <1>2 DEF Sent, Senders, Servo_senders, InStandardFrame
<1>5. Sent([by |-> "java_camera", packet |-> p], buildCommand(p.addr, p.func, p.ctrl, p.data))
  BY <1>2 DEF Sent, Senders, Servo_senders, InStandardFrame
<1> QED BY <1>1, <1>3, <1>4, <1>5

\* A bare servo frame, whoever sends it.
LEMMA BareSent ==
  ASSUME NEW f, ServoFields(f), NEW by \in Servo_senders
  PROVE  Sent([by |-> by, fields |-> f], ServoBytesOf(f))
BY DEF Sent, Senders, Servo_senders, InStandardFrame

LEMMA ServoCommandSent ==
  ASSUME NEW m \in ServoCalls
  PROVE  Sent([by |-> "servo", fields |-> m], build_servo_packet(m))
<1>1. m \in ServoArguments
  BY WireAssumption
<1>2. ServoFields(m)
  BY <1>1, ArgumentsAreFields
<1>3. "servo" \in Servo_senders
  BY DEF Servo_senders
<1> QED BY <1>2, <1>3, BareSent DEF ServoBytesOf, build_servo_packet

LEMMA PtzSent ==
  ASSUME NEW m \in ServoCalls, NEW focus \in Focuses,
         NEW packet, packet = WithFocus(build_servo_packet(m), focus),
         NEW f, f = PtzFields(m, focus)
  PROVE  /\ Sent([by |-> "ptz", fields |-> f], packet)
         /\ Sent([by |-> "wrapped", fields |-> f, packet |-> Wrapped(packet)],
                 serialize(Wrapped(packet)))
<1>1. m \in ServoArguments /\ focus \in Word
  BY WireAssumption
<1>2. ServoFields(f) /\ packet = ServoBytesOf(f)
  <2>1. ServoFields(PtzFields(m, focus))
    BY <1>1, PtzFieldsAre
  <2>2. WithFocus(build_servo_packet(m), focus) = serialize_servo(Members(PtzFields(m, focus)))
    BY <1>1, FocusIsInItsPlace
  <2> QED BY <2>1, <2>2 DEF ServoBytesOf
<1>3. "ptz" \in Servo_senders
  BY DEF Servo_senders
<1>4. Wrapped(packet) \in Packet
  <2>1. packet \in Seq(Byte)
    BY <1>2, <1>3, BareSent, SentBytes
  <2>2. 5 \in Byte /\ 0 \in Byte
    BY DEF Byte
  <2> QED BY <2>1, <2>2 DEF Wrapped, Packet, ADDR_SERVO
<1>5. PICK p : p = Wrapped(packet)
  OBVIOUS
<1>6. Sent([by |-> "wrapped", fields |-> f, packet |-> p], serialize(p))
  BY <1>2, <1>4, <1>5 DEF Sent, Senders, Servo_senders, InStandardFrame
<1> QED BY <1>2, <1>3, <1>5, <1>6, BareSent

LEMMA ReportSent ==
  ASSUME NEW r \in Reports
  PROVE  /\ Sent([by |-> "report", report |-> r], serialize_report(r))
         /\ Sent([by |-> "report_in_packet", report |-> r, packet |-> InPacket(r)],
                 serialize(InPacket(r)))
         /\ Sent([by |-> "java_status", report |-> r], StatusBytes(r))
         /\ Sent([by |-> "report51", report |-> r], SealedStatus(r))
<1>1. r \in LoadStatusReport
  BY WireAssumption
<1>2. PICK p : p = InPacket(r)
  OBVIOUS
<1>3. p \in Packet /\ p = PacketOf(r)
  <2>1. p = PacketOf(r)
    BY <1>2 DEF InPacket, PacketOf
  <2> QED BY <1>1, <2>1, PacketOfReport
<1>4. Sent([by |-> "report", report |-> r], serialize_report(r))
  BY <1>1 DEF Sent, Senders, Servo_senders, InStandardFrame
<1>5. Sent([by |-> "report_in_packet", report |-> r, packet |-> p], serialize(p))
  BY <1>1, <1>3 DEF Sent, Senders, Servo_senders, InStandardFrame
<1>6. Sent([by |-> "java_status", report |-> r], StatusBytes(r))
  BY <1>1 DEF Sent, Senders, Servo_senders, InStandardFrame
<1>7. Sent([by |-> "report51", report |-> r], SealedStatus(r))
  BY <1>1 DEF Sent, Senders, Servo_senders, InStandardFrame
<1> QED BY <1>2, <1>4, <1>5, <1>6, <1>7

\* Every step keeps account of where the datagram comes from.
LEMMA EmitOrigin ==
  ASSUME NEW request, NEW bytes, Emit(request, bytes), Sent(request, bytes)
  PROVE  Origin'
BY DEF Emit, Origin

THEOREM OriginIsKnown == Spec => []Origin
<1>1. Init => Origin
  BY DEF Init, Origin
<1>2. Origin /\ [Next]_vars => Origin'
  <2> SUFFICES ASSUME Origin, [Next]_vars PROVE Origin'
    OBVIOUS
  <2>1. CASE SendCamera
    <3>1. PICK c \in CameraCalls :
            \/ Emit([by |-> "camera", packet |-> Camera(c)], serialize(Camera(c)))
            \/ Emit([by |-> "java_camera", packet |-> Camera(c)],
                    buildCommand(ADDR_CAMERA_VIS, c.func, c.ctrl, c.payload))
      BY <2>1 DEF SendCamera
    <3> QED BY <3>1, CameraSent, EmitOrigin
  <2>2. CASE SendServo
    <3>1. PICK m \in ServoCalls : Emit([by |-> "servo", fields |-> m], build_servo_packet(m))
      BY <2>2 DEF SendServo
    <3> QED BY <3>1, ServoCommandSent, EmitOrigin
  <2>3. CASE SetPtz
    <3>1. PICK m \in ServoCalls, focus \in Focuses :
            \/ Emit([by |-> "ptz", fields |-> PtzFields(m, focus)], WithFocus(build_servo_packet(m), focus))
            \/ Emit([by |-> "wrapped", fields |-> PtzFields(m, focus),
                     packet |-> Wrapped(WithFocus(build_servo_packet(m), focus))],
                    serialize(Wrapped(WithFocus(build_servo_packet(m), focus))))
      BY <2>3 DEF SetPtz, PtzFields
    <3> QED BY <3>1, PtzSent, EmitOrigin
  <2>4. CASE Report
    <3>1. PICK r \in Reports :
            \/ Emit([by |-> "report", report |-> r], serialize_report(r))
            \/ Emit([by |-> "report_in_packet", report |-> r, packet |-> InPacket(r)],
                    serialize(InPacket(r)))
      BY <2>4 DEF Report
    <3> QED BY <3>1, ReportSent, EmitOrigin
  <2>5. CASE JavaStatus
    <3>1. PICK r \in Reports : Emit([by |-> "java_status", report |-> r], StatusBytes(r))
      BY <2>5 DEF JavaStatus
    <3> QED BY <3>1, ReportSent, EmitOrigin
  <2>10. CASE Report51
    <3>1. PICK r \in Reports : Emit([by |-> "report51", report |-> r], SealedStatus(r))
      BY <2>10 DEF Report51
    <3> QED BY <3>1, ReportSent, EmitOrigin
  <2>6. CASE Answer
    <3>1. Answered(wire, wire')
      BY <2>6 DEF Answer, Answered
    <3>2. /\ state \in {"intact", "changed", "cut"} /\ asked' = asked
          /\ state' = IF state = "intact" THEN "answer" ELSE "misled"
      BY <2>6 DEF Answer
    <3> QED BY <3>1, <3>2 DEF Origin
  <2>7. CASE Change
    <3>1. PICK i \in DOMAIN wire, d \in Deltas : wire' = [wire EXCEPT ![i] = (@ + d) % 256]
      BY <2>7 DEF Change
    <3>2. state = "intact" /\ state' = "changed" /\ asked' = asked
      BY <2>7 DEF Change
    <3>3. Sent(asked, wire) /\ wire \in Seq(Byte)
      BY <3>2, SentBytes DEF Origin
    <3>4. d \in 1..255
      BY WireAssumption
    <3>5. ChangedAt(wire, wire', i)
      BY <3>1, <3>3, <3>4, ChangeIs
    <3> QED BY <3>2, <3>3, <3>5 DEF Origin, Changed
  <2>8. CASE Cut
    <3>1. CutShort(wire, wire')
      BY <2>8 DEF Cut, CutShort
    <3>2. state = "intact" /\ state' = "cut" /\ asked' = asked
      BY <2>8 DEF Cut
    <3> QED BY <3>1, <3>2 DEF Origin
  <2>9. CASE UNCHANGED vars
    BY <2>9 DEF vars, Origin
  <2> QED BY <2>1, <2>2, <2>3, <2>4, <2>5, <2>6, <2>7, <2>8, <2>9, <2>10 DEF Next
<1> QED BY <1>1, <1>2, PTL DEF Spec

-------------------------------------------------------------------------------
(* What the readers make of what was sent.                                 *)

\* The sender of a datagram that is underway, and what it sent.
LEMMA IntactIs ==
  ASSUME Origin, NEW who, Intact(who)
  PROVE  Sent(asked, wire) /\ asked.by \in who
BY DEF Origin, Intact

\* A frame found early is said the same way in both modules.
LEMMA EndsEarlyIs == EndsEarly <=> Early(wire)
BY DEF EndsEarly, Early

\* A sender divides a standard frame into the same packet for both readers,
\* but for a tail among its data.
LEMMA PacketFound ==
  ASSUME NEW p \in Packet, NEW w, w = serialize(p), Len(w) > 23
  PROVE  /\ deserialize(w) # nullopt
         /\ deserialize(w) = [Padded(p) EXCEPT !.data = SubSeq(@, 1, Len(deserialize(w).data))]
         /\ Early(w) \/ deserialize(w) = Padded(p)
<1>1. PICK q : q = Padded(p)
  OBVIOUS
<1>2. q # nullopt /\ parsePacket(w) = q /\ w \in Seq(Byte)
  BY <1>1, PacketSent
<1>3. parsePacket(w) # nullopt
  BY <1>2
<1>4. /\ deserialize(w) # nullopt
      /\ deserialize(w) = [parsePacket(w) EXCEPT !.data = SubSeq(@, 1, Len(deserialize(w).data))]
      /\ Early(w) \/ deserialize(w) = parsePacket(w)
  BY <1>2, <1>3, FramesAreFoundWhole
<1> QED BY <1>1, <1>2, <1>4

\* A servo frame fills the data of a standard one.
LEMMA WrappedIs ==
  ASSUME NEW f, ServoFields(f), NEW p, p = Wrapped(ServoBytesOf(f)), p \in Packet
  PROVE  /\ Padded(p) = p /\ Len(p.data) = 72 /\ p.addr = ADDR_SERVO
         /\ deserialize_servo(p.data) = Members(f)
<1>1. PICK d : d = ServoBytesOf(f)
  OBVIOUS
<1>2. IsServo(d) /\ deserialize_servo(d) = Members(f)
  <2>1. IsServo(serialize_servo(Members(f))) /\ deserialize_servo(serialize_servo(Members(f))) = Members(f)
    BY ServoRoundTrip
  <2> QED BY <1>1, <2>1 DEF ServoBytesOf
<1>3. d \in Seq(Byte) /\ Len(d) = 72
  BY <1>2 DEF IsServo
<1>4. Pad(d) = d
  <2>1. d \in Seq(Byte) /\ Len(d) >= 15
    BY <1>3
  <2> QED BY <2>1, PadLong
<1>5. p = [addr |-> ADDR_SERVO, func |-> 0, ctrl |-> 0, data |-> d]
  BY <1>1 DEF Wrapped
<1>6. Padded(p) = [addr |-> ADDR_SERVO, func |-> 0, ctrl |-> 0, data |-> Pad(d)]
  BY <1>5 DEF Padded
<1>7. p.data = d /\ p.addr = ADDR_SERVO
  BY <1>5
<1> QED BY <1>2, <1>3, <1>4, <1>5, <1>6, <1>7

\* A servo frame says what was asked, bare or in a standard frame, whatever
\* its 26 fields hold (ServoFieldsArrive).
THEOREM ServoFieldsAlwaysArrive == Spec => []ServoFieldsArrive
<1>1. Origin => ServoFieldsArrive
  <2> SUFFICES ASSUME Origin PROVE ServoFieldsArrive
    OBVIOUS
  <2>1. ASSUME Intact(Servo_senders) PROVE deserialize_servo(wire) = Members(asked.fields)
    <3>1. Sent(asked, wire) /\ asked.by \in Servo_senders
      BY <2>1, IntactIs
    <3> QED BY <3>1, ServoSent
  <2>2. ASSUME Intact({"wrapped"})
        PROVE  /\ parsePacket(wire).addr = ADDR_SERVO
               /\ deserialize_servo(parsePacket(wire).data) = Members(asked.fields)
               /\ EndsEarly \/ deserialize(wire) = parsePacket(wire)
    <3>1. PICK f, p, w : f = asked.fields /\ p = asked.packet /\ w = wire
      OBVIOUS
    <3>2. /\ ServoFields(f) /\ p = Wrapped(ServoBytesOf(f))
          /\ p \in Packet /\ w = serialize(p)
      <4>1. Sent(asked, wire) /\ asked.by = "wrapped"
        BY <2>2, IntactIs
      <4> QED BY <3>1, <4>1 DEF Sent, InStandardFrame
    <3>3. /\ Padded(p) = p /\ Len(p.data) = 72 /\ p.addr = ADDR_SERVO
          /\ deserialize_servo(p.data) = Members(f)
      BY <3>2, WrappedIs
    <3>4. parsePacket(w) = Padded(p) /\ Len(w) = Len(Padded(p).data) + 8
      BY <3>2, PacketSent
    <3>5. Len(w) > 23 /\ parsePacket(w) = p
      <4>1. PICK n : n = Len(Padded(p).data)
        OBVIOUS
      <4>2. n = 72
        BY <3>3, <4>1
      <4>3. Len(w) = n + 8
        BY <3>4, <4>1
      <4>4. Len(w) > 23
        BY <4>2, <4>3
      <4>5. parsePacket(w) = p
        BY <3>3, <3>4, Zenon
      <4> QED BY <4>4, <4>5
    <3>6. Early(w) \/ deserialize(w) = Padded(p)
      BY <3>2, <3>5, PacketFound
    <3> QED BY <3>1, <3>3, <3>5, <3>6, EndsEarlyIs
  <2> QED BY <2>1, <2>2 DEF ServoFieldsArrive, Servo_senders
<1> QED BY <1>1, OriginIsKnown, PTL

\* A camera command longer than the smallest frame is found from its start,
\* and whole unless its data hold a tail with a sum of its own; the simulator
\* reads every one the library sends, and those of a Java program whose data
\* end in a zero (CameraCommandsArrive).
THEOREM CameraCommandsAlwaysArrive == Spec => []CameraCommandsArrive
<1>1. Origin => CameraCommandsArrive
  <2> SUFFICES ASSUME Origin PROVE CameraCommandsArrive
    OBVIOUS
  <2>1. PICK p, w : p = asked.packet /\ w = wire
    OBVIOUS
  <2>2. ASSUME Intact({"camera"})
        PROVE  /\ parsePacket(w) = Padded(p)
               /\ Len(w) > 23 =>
                    /\ deserialize(w) = [Padded(p) EXCEPT !.data = SubSeq(@, 1, Len(deserialize(w).data))]
                    /\ EndsEarly \/ deserialize(w) = Padded(p)
    <3>1. p \in Packet /\ w = serialize(p)
      <4>1. Sent(asked, wire) /\ asked.by = "camera"
        BY <2>2, IntactIs
      <4> QED BY <2>1, <4>1 DEF Sent, InStandardFrame
    <3>2. parsePacket(w) = Padded(p)
      BY <3>1, PacketSent
    <3>3. ASSUME Len(w) > 23
          PROVE  /\ deserialize(w) = [Padded(p) EXCEPT !.data = SubSeq(@, 1, Len(deserialize(w).data))]
                 /\ Early(w) \/ deserialize(w) = Padded(p)
      BY <3>1, <3>3, PacketFound
    <3>4. EndsEarly <=> Early(w)
      BY <2>1, EndsEarlyIs
    <3> QED BY <3>2, <3>3, <3>4
  <2>3. ASSUME Intact({"java_camera"})
        PROVE  Last(Padded(p).data) = 0 => parsePacket(w) = Padded(p)
    <3>1. p \in Packet /\ w = buildCommand(p.addr, p.func, p.ctrl, p.data)
      <4>1. Sent(asked, wire) /\ asked.by = "java_camera"
        BY <2>3, IntactIs
      <4> QED BY <2>1, <4>1 DEF Sent
    <3> QED BY <3>1, JavaSent
  <2> QED BY <2>1, <2>2, <2>3 DEF CameraCommandsArrive
<1> QED BY <1>1, OriginIsKnown, PTL

\* The readers of a 49-byte report agree on it, those of a sealed frame of 51
\* bytes on its focal lengths, and each refuses the frames it does not know; of
\* the frame without a seal only get_ptz is sure to read the focal lengths
\* (StatusReadersAgree).
THEOREM StatusReadersAlwaysAgree == Spec => []StatusReadersAgree
<1>1. Origin => StatusReadersAgree
  <2> SUFFICES ASSUME Origin PROVE StatusReadersAgree
    OBVIOUS
  <2>1. PICK r, w : r = asked.report /\ w = wire
    OBVIOUS
  <2>2. ASSUME Intact({"report"})
        PROVE  /\ deserialize_report(w) = r /\ parseReceivedPacket(w) = r /\ parse_payload_status(w) = r
               /\ get_ptz(w) = [az |-> r.servo_azimuth, el |-> r.servo_elevation,
                                ir |-> r.ir_focal_length, vis |-> r.vis_focal_length]
               /\ LoggedStatus(w) = nullopt /\ parse_status_report(w) = nullopt
    <3>1. r \in LoadStatusReport /\ w = serialize_report(r)
      <4>1. Sent(asked, wire) /\ asked.by = "report"
        BY <2>2, IntactIs
      <4> QED BY <2>1, <4>1 DEF Sent
    <3> QED BY <3>1, ReportRoundTrip
  <2>3. ASSUME Intact({"report_in_packet"})
        PROVE  /\ Early(w) \/ parse_payload_status(w) = [r EXCEPT !.frame_seq = 0]
               /\ LoggedStatus(w) = nullopt /\ parse_status_report(w) = nullopt
    <3>1. r \in LoadStatusReport /\ w = serialize(PacketOf(r))
      <4>1. Sent(asked, wire) /\ asked.by = "report_in_packet"
        BY <2>3, IntactIs
      <4> QED BY <2>1, <4>1 DEF Sent, InStandardFrame
    <3> QED BY <3>1, ReportInPacketIsRead
  <2>4. ASSUME Intact({"java_status"})
        PROVE  /\ get_ptz(w).ir = r.ir_focal_length /\ get_ptz(w).vis = r.vis_focal_length
               /\ deserialize_report(w) = nullopt /\ parseReceivedPacket(w) = nullopt
               /\ parse_payload_status(w) = nullopt /\ parse_status_report(w) = nullopt
               /\ LoggedStatus(w) # nullopt => Xor(Slice(w, 2, 48)) = 0
    <3>1. r \in LoadStatusReport /\ w = StatusBytes(r)
      <4>1. Sent(asked, wire) /\ asked.by = "java_status"
        BY <2>4, IntactIs
      <4> QED BY <2>1, <4>1 DEF Sent
    <3> QED BY <3>1, StatusWithoutSeal
  <2>5. ASSUME Intact({"report51"})
        PROVE  /\ parse_status_report(w) = [az |-> r.servo_azimuth, el |-> r.servo_elevation,
                                            ir |-> r.ir_focal_length, vis |-> r.vis_focal_length]
               /\ LoggedStatus(w) = get_ptz(w)
               /\ get_ptz(w).ir = r.ir_focal_length /\ get_ptz(w).vis = r.vis_focal_length
               /\ deserialize_report(w) = nullopt /\ parseReceivedPacket(w) = nullopt
               /\ parse_payload_status(w) = nullopt
    <3>1. r \in LoadStatusReport /\ w = SealedStatus(r)
      <4>1. Sent(asked, wire) /\ asked.by = "report51"
        BY <2>5, IntactIs
      <4> QED BY <2>1, <4>1 DEF Sent
    <3> QED BY <3>1, StatusWithSeal
  <2>6. /\ Intact({"report", "report_in_packet"}) <=> Intact({"report"}) \/ Intact({"report_in_packet"})
        /\ Intact({"report51", "java_status"}) <=> Intact({"report51"}) \/ Intact({"java_status"})
    BY DEF Intact
  <2>7. EndsEarly <=> Early(w)
    BY <2>1, EndsEarlyIs
  <2>8. /\ Intact({"report"}) =>
             /\ deserialize_report(wire) = asked.report
             /\ parseReceivedPacket(wire) = asked.report
             /\ parse_payload_status(wire) = asked.report
             /\ get_ptz(wire) = [az |-> asked.report.servo_azimuth, el |-> asked.report.servo_elevation,
                                 ir |-> asked.report.ir_focal_length, vis |-> asked.report.vis_focal_length]
        /\ Intact({"report", "report_in_packet"}) =>
             {LoggedStatus(wire), parse_status_report(wire)} = {nullopt}
        /\ Intact({"report_in_packet"}) =>
             EndsEarly \/ parse_payload_status(wire) = [asked.report EXCEPT !.frame_seq = 0]
    BY <2>1, <2>2, <2>3, <2>6, <2>7
  <2>9. Intact({"report51", "java_status"}) =>
          /\ get_ptz(wire).ir = asked.report.ir_focal_length
          /\ get_ptz(wire).vis = asked.report.vis_focal_length
          /\ {deserialize_report(wire), parseReceivedPacket(wire), parse_payload_status(wire)} = {nullopt}
    BY <2>1, <2>4, <2>5, <2>6
  <2>10. /\ Intact({"report51"}) =>
              /\ parse_status_report(wire) =
                   [az |-> asked.report.servo_azimuth, el |-> asked.report.servo_elevation,
                    ir |-> asked.report.ir_focal_length, vis |-> asked.report.vis_focal_length]
              /\ LoggedStatus(wire) = get_ptz(wire)
         /\ Intact({"java_status"}) =>
              /\ parse_status_report(wire) = nullopt
              /\ LoggedStatus(wire) # nullopt => Xor(Slice(wire, 2, 48)) = 0
    BY <2>1, <2>4, <2>5
  <2> QED BY <2>8, <2>9, <2>10 DEF StatusReadersAgree
<1> QED BY <1>1, OriginIsKnown, PTL

-------------------------------------------------------------------------------
(* Damage, and the simulator.                                              *)

\* A damaged standard frame is not what was sent, and one with a changed byte
\* none at all.
LEMMA PacketDamaged ==
  ASSUME NEW p \in Packet, NEW w, w = serialize(p), NEW g, Changed(w, g) \/ CutShort(w, g)
  PROVE  /\ Changed(w, g) => parsePacket(g) = nullopt
         /\ Padded(p) \notin {parsePacket(g), deserialize(g)}
<1>1. PICK q, n : q = Padded(p) /\ n = Len(q.data) + 8
  OBVIOUS
<1>2. q \in Packet /\ q # nullopt /\ parsePacket(w) = q /\ w \in Seq(Byte) /\ Len(w) = n
  BY <1>1, PacketSent
<1>3. ASSUME Changed(w, g) PROVE parsePacket(g) = nullopt /\ g \in Seq(Byte) /\ Len(g) = n
  <2>1. PICK i : ChangedAt(w, g, i)
    BY <1>3 DEF Changed
  <2>2. parsePacket(w) # nullopt
    BY <1>2
  <2>3. parsePacket(g) = nullopt
    BY <2>1, <2>2, ChangedPacketIsRefused
  <2> QED BY <1>2, <2>1, <2>3 DEF ChangedAt
<1>4. ASSUME CutShort(w, g) PROVE g \in Seq(Byte) /\ Len(g) < n
  BY <1>2, <1>4, CutIs
<1>5. g \in Seq(Byte) /\ (Len(g) < n \/ (Len(g) = n /\ parsePacket(g) = nullopt))
  BY <1>3, <1>4
<1>6. q \notin {parsePacket(g), deserialize(g)}
  BY <1>1, <1>2, <1>5, DamagedFrame
<1> QED BY <1>1, <1>3, <1>6

\* What a damaged datagram was.
LEMMA DamagedIs ==
  ASSUME Origin, NEW who, Damaged(who)
  PROVE  /\ \E w : Sent(asked, w) /\ (Changed(w, wire) \/ CutShort(w, wire))
                   /\ (state = "changed" => Changed(w, wire))
         /\ asked.by \in who
<1>1. CASE state = "changed"
  BY <1>1 DEF Origin, Damaged
<1>2. CASE state = "cut"
  BY <1>2 DEF Origin, Damaged
<1> QED BY <1>1, <1>2 DEF Damaged

\* Of a damaged datagram no reader that asks for a seal makes what was sent
\* (DamageIsSeen; get_ptz asks for none).
THEOREM DamageIsAlwaysSeen == Spec => []DamageIsSeen
<1>1. Origin => DamageIsSeen
  <2> SUFFICES ASSUME Origin PROVE DamageIsSeen
    OBVIOUS
  <2>1. ASSUME Damaged(Servo_senders)
        PROVE  deserialize_servo(wire) = nullopt /\ parseServo(wire) = nullopt
    <3>1. PICK w : Sent(asked, w) /\ (Changed(w, wire) \/ CutShort(w, wire)) /\ asked.by \in Servo_senders
      BY <2>1, DamagedIs
    <3>2. IsServo(w)
      BY <3>1, ServoSent
    <3> QED BY <3>1, <3>2, ServoDamageIsSeen DEF Changed
  <2>2. ASSUME Damaged({"report"})
        PROVE  parseReceivedPacket(wire) = nullopt /\ parse_payload_status(wire) = nullopt
    <3>1. PICK w : Sent(asked, w) /\ (Changed(w, wire) \/ CutShort(w, wire)) /\ asked.by = "report"
      BY <2>2, DamagedIs
    <3>2. PICK r : r = asked.report
      OBVIOUS
    <3>3. r \in LoadStatusReport /\ w = serialize_report(r)
      BY <3>1, <3>2 DEF Sent
    <3>4. IsReport(w)
      BY <3>3, ReportRoundTrip
    <3> QED BY <3>1, <3>4, ReportDamageIsSeen DEF Changed
  <2>3. ASSUME Damaged(InStandardFrame)
        PROVE  /\ state = "changed" => parsePacket(wire) = nullopt
               /\ Padded(asked.packet) \notin {parsePacket(wire), deserialize(wire)}
    <3>1. PICK w : /\ Sent(asked, w) /\ (Changed(w, wire) \/ CutShort(w, wire))
                   /\ (state = "changed" => Changed(w, wire)) /\ asked.by \in InStandardFrame
      BY <2>3, DamagedIs
    <3>2. PICK p : p = asked.packet
      OBVIOUS
    <3>3. p \in Packet /\ w = serialize(p)
      BY <3>1, <3>2 DEF Sent
    <3>4. /\ Changed(w, wire) => parsePacket(wire) = nullopt
          /\ Padded(p) \notin {parsePacket(wire), deserialize(wire)}
      BY <3>1, <3>3, PacketDamaged
    <3> QED BY <3>1, <3>2, <3>4
  <2>4. ASSUME Damaged({"report51"})
        PROVE  /\ parse_status_report(wire) = nullopt
               /\ LoggedStatus(wire) \in {nullopt, LoggedStatus(SealedStatus(asked.report))}
    <3>1. PICK w : Sent(asked, w) /\ (Changed(w, wire) \/ CutShort(w, wire)) /\ asked.by = "report51"
      BY <2>4, DamagedIs
    <3>2. PICK r : r = asked.report
      OBVIOUS
    <3>3. r \in LoadStatusReport /\ w = SealedStatus(r)
      BY <3>1, <3>2 DEF Sent
    <3>4. (\E i : ChangedAt(w, wire, i)) \/ CutShort(w, wire)
      BY <3>1 DEF Changed
    <3>5. parse_status_report(wire) = nullopt /\ LoggedStatus(wire) \in {nullopt, LoggedStatus(w)}
      BY <3>3, <3>4, SealedStatusDamage
    <3> QED BY <3>2, <3>3, <3>5
  <2> QED BY <2>1, <2>2, <2>3, <2>4 DEF DamageIsSeen, Servo_senders
<1> QED BY <1>1, OriginIsKnown, PTL

\* The acknowledgement of a packet, and what its reader finds in it.
LEMMA AcknowledgementIsRead ==
  ASSUME NEW q \in Packet
  PROVE  LET v == buildCommand(q.addr, Acknowledged(q.func), q.ctrl, <<0>>) IN
         parsePacket(v) = [addr |-> q.addr, func |-> Acknowledged(q.func), ctrl |-> q.ctrl,
                           data |-> Pad(<<>>)]
<1>1. PICK a, b, c, d, z : /\ a = q.addr /\ b = Acknowledged(q.func) /\ c = q.ctrl /\ d = <<0>> /\ z = Pad(d)
  OBVIOUS
<1>2. b \in Byte
  <2>1. q.func \in 0..255
    BY DEF Packet, Byte
  <2> QED BY <1>1, <2>1 DEF Acknowledged, Byte
<1>3. a \in Byte /\ c \in Byte /\ d \in Seq(Byte) /\ z = Pad(<<>>) /\ Len(z) = 15 /\ z[15] = 0
  BY <1>1, PadBlank DEF Packet
<1>4. Last(z) = 0
  BY <1>3 DEF Last
<1>5. parsePacket(buildCommand(a, b, c, d))
      = IF Last(Pad(d)) = 0 THEN [addr |-> a, func |-> b, ctrl |-> c, data |-> Pad(d)] ELSE nullopt
  BY <1>2, <1>3, JavaCommandIsReadIfZero
<1>6. parsePacket(buildCommand(a, b, c, d)) = [addr |-> a, func |-> b, ctrl |-> c, data |-> z]
  BY <1>1, <1>4, <1>5
<1> QED BY <1>1, <1>3, <1>6

\* A packet with another function and other data.
LEMMA AnotherFunc ==
  ASSUME NEW p \in Packet, NEW b, NEW z
  PROVE  [p EXCEPT !.func = b, !.data = z] = [addr |-> p.addr, func |-> b, ctrl |-> p.ctrl, data |-> z]
<1>1. PICK q : q = [p EXCEPT !.func = b]
  OBVIOUS
<1>2. q = [addr |-> p.addr, func |-> b, ctrl |-> p.ctrl, data |-> p.data]
  BY <1>1 DEF Packet
<1>3. [q EXCEPT !.data = z] = [addr |-> p.addr, func |-> b, ctrl |-> p.ctrl, data |-> z]
  BY <1>2
<1>4. [p EXCEPT !.func = b, !.data = z] = [q EXCEPT !.data = z]
  BY <1>1
<1> QED BY <1>3, <1>4

\* The answer to a standard frame.
LEMMA PacketAnswered ==
  ASSUME NEW p \in Packet, NEW w, w[1] = 15, parsePacket(w) \in {Padded(p), nullopt},
         NEW v, Answered(w, v)
  PROVE  parsePacket(v) = [p EXCEPT !.func = Acknowledged(@), !.data = Pad(<<>>)]
<1>1. parseServo(w) = nullopt
  BY NoServo
<1>2. PICK q : q = parsePacket(w)
  OBVIOUS
<1>3. q # nullopt /\ v = buildCommand(q.addr, Acknowledged(q.func), q.ctrl, <<0>>)
  BY <1>1, <1>2 DEF Answered
<1>4. q = Padded(p)
  BY <1>2, <1>3
<1>5. q \in Packet /\ q.addr = p.addr /\ q.func = p.func /\ q.ctrl = p.ctrl
  <2>1. /\ Padded(p) \in Packet
        /\ Padded(p) = [addr |-> p.addr, func |-> p.func, ctrl |-> p.ctrl, data |-> Pad(p.data)]
    BY PacketSent
  <2> QED BY <1>4, <2>1
<1>6. parsePacket(v) = [addr |-> q.addr, func |-> Acknowledged(q.func), ctrl |-> q.ctrl, data |-> Pad(<<>>)]
  BY <1>3, <1>5, AcknowledgementIsRead
<1>7. PICK z : z = Pad(<<>>)
  OBVIOUS
<1>8. [p EXCEPT !.func = Acknowledged(@), !.data = z]
      = [addr |-> p.addr, func |-> Acknowledged(p.func), ctrl |-> p.ctrl, data |-> z]
  BY AnotherFunc
<1> QED BY <1>5, <1>6, <1>7, <1>8

\* The simulator answers no report, whole or damaged.
LEMMA ReportsUnanswered ==
  ASSUME NEW a, NEW w, Sent(a, w), a.by \in {"report", "report51", "java_status"},
         NEW g, g = w \/ Changed(w, g) \/ CutShort(w, g), NEW v, Answered(g, v)
  PROVE  FALSE
<1>1. PICK r : r = a.report
  OBVIOUS
<1>2. w \in Seq(Byte) /\ Len(w) >= 2 /\ Len(w) < 72 /\ w[1] = 31 /\ w[2] = 241
  <2>1. CASE a.by = "report"
    <3>1. r \in LoadStatusReport /\ w = serialize_report(r)
      BY <1>1, <2>1 DEF Sent
    <3>2. IsReport(w)
      BY <3>1, ReportRoundTrip
    <3>3. w \in Seq(Byte) /\ Len(w) = 49 /\ Slice(w, 0, 2) = <<31, 241>>
      BY <3>2 DEF IsReport, REPORT_HDR
    <3>4. w \in Seq(Byte) /\ Len(w) >= 2 /\ Slice(w, 0, 2) = <<31, 241>>
      BY <3>3
    <3>5. w[1] = 31 /\ w[2] = 241
      BY <3>4, HeadIs
    <3> QED BY <3>3, <3>5
  <2>2. CASE a.by = "java_status"
    <3>1. r \in LoadStatusReport /\ w = StatusBytes(r)
      BY <1>1, <2>2 DEF Sent
    <3>2. Carries(w, r)
      BY <3>1, StatusCarries
    <3> QED BY <3>2 DEF Carries
  <2>3. CASE a.by = "report51"
    <3>1. r \in LoadStatusReport /\ w = SealedStatus(r)
      BY <1>1, <2>3 DEF Sent
    <3>2. Carries(w, r)
      BY <3>1, SealedCarries
    <3> QED BY <3>2 DEF Carries
  <2> QED BY <2>1, <2>2, <2>3
<1>3. parseServo(g) = nullopt /\ parsePacket(g) = nullopt
  BY <1>2, ReportsAreNotAnswered DEF Changed
<1> QED BY <1>3 DEF Answered

\* The simulator answers with a frame its own reader accepts, and answers no
\* report and no damaged servo frame (AnswerIsAFrame).
THEOREM AnswerIsAlwaysAFrame == Spec => []AnswerIsAFrame
<1>1. Origin => AnswerIsAFrame
  <2> SUFFICES ASSUME Origin PROVE AnswerIsAFrame
    OBVIOUS
  <2>1. ASSUME state = "answer"
        PROVE  /\ asked.by \notin {"report", "report51", "java_status"}
               /\ asked.by \in Servo_senders => deserialize_servo(wire) = Members(Rewritten(asked.fields))
               /\ asked.by \in InStandardFrame \cup {"java_camera"} =>
                    parsePacket(wire) = [asked.packet EXCEPT !.func = Acknowledged(@), !.data = Pad(<<>>)]
    <3>1. PICK w : Sent(asked, w) /\ Answered(w, wire)
      BY <2>1 DEF Origin
    <3>2. asked.by \notin {"report", "report51", "java_status"}
      BY <3>1, ReportsUnanswered
    <3>3. ASSUME asked.by \in Servo_senders PROVE deserialize_servo(wire) = Members(Rewritten(asked.fields))
      <4>0. PICK f : f = asked.fields
        OBVIOUS
      <4>1. IsServo(w) /\ ServoFields(f) /\ w = serialize_servo(Members(f))
        <5>1. IsServo(w)
          BY <3>1, <3>3, ServoSent
        <5> QED BY <3>1, <3>3, <4>0, <5>1 DEF Sent, ServoBytesOf
      <4>2. parsePacket(w) = nullopt
        <5>1. w \in Seq(Byte) /\ w[1] # 15
          BY <4>1 DEF IsServo
        <5> QED BY <5>1, NoPacket
      <4>3. wire = serializeServo(parseServo(w))
        BY <3>1, <4>2 DEF Answered
      <4>4. wire = serialize_servo(Members(Rewritten(f)))
        BY <4>1, <4>3, ServoFramesAreEchoed
      <4>5. ServoFields(Rewritten(f))
        BY <4>1, RewrittenIs
      <4>6. deserialize_servo(serialize_servo(Members(Rewritten(f)))) = Members(Rewritten(f))
        BY <4>5, ServoRoundTrip
      <4> QED BY <4>0, <4>4, <4>6
    <3>4. ASSUME asked.by \in InStandardFrame \cup {"java_camera"}
          PROVE  parsePacket(wire) = [asked.packet EXCEPT !.func = Acknowledged(@), !.data = Pad(<<>>)]
      <4>1. PICK p : p = asked.packet
        OBVIOUS
      <4>2. p \in Packet /\ w[1] = 15 /\ parsePacket(w) \in {Padded(p), nullopt}
        <5>1. CASE asked.by \in InStandardFrame
          <6>1. p \in Packet /\ w = serialize(p)
            BY <3>1, <4>1, <5>1 DEF Sent
          <6> QED BY <6>1, PacketSent
        <5>2. CASE asked.by = "java_camera"
          <6>1. p \in Packet /\ w = buildCommand(p.addr, p.func, p.ctrl, p.data)
            BY <3>1, <4>1, <5>2 DEF Sent
          <6> QED BY <6>1, JavaSent
        <5> QED BY <3>4, <5>1, <5>2
      <4>3. parsePacket(wire) = [p EXCEPT !.func = Acknowledged(@), !.data = Pad(<<>>)]
        BY <3>1, <4>2, PacketAnswered
      <4> QED BY <4>1, <4>3
    <3> QED BY <3>2, <3>3, <3>4
  <2>2. ASSUME state = "misled" PROVE asked.by \in InStandardFrame \cup {"java_camera"}
    <3>1. PICK w, g : Sent(asked, w) /\ (Changed(w, g) \/ CutShort(w, g)) /\ Answered(g, wire)
      BY <2>2 DEF Origin
    <3>2. asked.by \notin {"report", "report51", "java_status"}
      BY <3>1, ReportsUnanswered
    <3>3. asked.by \notin Servo_senders
      <4> SUFFICES ASSUME asked.by \in Servo_senders PROVE FALSE
        OBVIOUS
      <4>1. IsServo(w)
        BY <3>1, ServoSent
      <4>2. parseServo(g) = nullopt /\ parsePacket(g) = nullopt
        BY <3>1, <4>1, ServoDamageIsSeen DEF Changed
      <4> QED BY <3>1, <4>2 DEF Answered
    <3> QED BY <3>1, <3>2, <3>3 DEF Sent, Senders
  <2> QED BY <2>1, <2>2 DEF AnswerIsAFrame, Servo_senders
<1> QED BY <1>1, OriginIsKnown, PTL
================================================================================
