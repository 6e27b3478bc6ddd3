--------------------------- MODULE ByteStrings_proofs ---------------------------
(***************************************************************************)
(* Lemmas about strings of bytes: sums and exclusive ors see every change  *)
(* of one byte, and what is written with a layout is read with it, for     *)
(* every layout and every record.  Induction is over sets of numbers.      *)
(***************************************************************************)
EXTENDS ByteStrings, FiniteSetTheorems, SequenceTheorems, TLAPS

\* A set of integers in an interval has a least element.
LEMMA LeastElement ==
  ASSUME NEW a \in Int, NEW b \in Int, NEW T, T \subseteq a..b, T # {}
  PROVE  Min(T) \in T /\ \A y \in T : Min(T) <= y
<1> DEFINE Below(x) == T \cap (a..x)
           F == {Below(x) : x \in T}
<1>1. FiniteSubsetsOf(a..b) = SUBSET (a..b)
  <2>1. IsFiniteSet(a..b)
    BY FS_Interval
  <2> QED BY <2>1, FS_FiniteSubsetsOfFinite
<1>2. PICK m \in T : \A y \in T : <<Below(y), Below(m)>> \notin StrictSubsetOrdering(a..b)
  <2>1. F \subseteq FiniteSubsetsOf(a..b) /\ F # {}
    <3>1. \A x \in T : Below(x) \in SUBSET (a..b)
      OBVIOUS
    <3>2. F \subseteq SUBSET (a..b)
      BY <3>1, Zenon
    <3>3. F # {}
      OBVIOUS
    <3> QED BY <1>1, <3>2, <3>3
  <2>2. \E M \in F : \A N \in F : <<N, M>> \notin StrictSubsetOrdering(a..b)
    BY <2>1, FS_StrictSubsetOrderingWellFounded, WFMin, Zenon
  <2> QED BY <2>2
<1>3. ASSUME NEW y \in T, y < m PROVE FALSE
  <2>1. Below(y) \subseteq Below(m) /\ m \in Below(m) /\ m \notin Below(y)
    BY <1>3
  <2> QED BY <1>2, <2>1 DEF StrictSubsetOrdering
<1>4. \A y \in T : m <= y
  BY <1>3
<1> QED BY <1>4 DEF Min

\* A set with 0 and with the successors of its members below n.
LEMMA UpTo ==
  ASSUME NEW n \in Nat, NEW A, 0 \in A, \A k \in 1..n : k - 1 \in A => k \in A
  PROVE  0..n \subseteq A
<1> DEFINE T == (0..n) \ A
<1> SUFFICES ASSUME T # {} PROVE FALSE
  OBVIOUS
<1>1. PICK m \in T : \A y \in T : m <= y
  <2>1. T \subseteq 0..n /\ 0 \in Int /\ n \in Int
    OBVIOUS
  <2> HIDE DEF T
  <2> QED BY <2>1, LeastElement
<1>2. m \in 1..n /\ m - 1 \notin T /\ m - 1 \in 0..n
  BY <1>1
<1> QED BY <1>1, <1>2

\* f is what step makes of base, in n steps.
Iterates(f, n, S, base, step) ==
  /\ f \in [0..n -> S]
  /\ f[0] = base
  /\ \A k \in 1..n : f[k] = step[k][f[k - 1]]

\* Such a function exists.
LEMMA Recursion ==
  ASSUME NEW n \in Nat, NEW S, NEW base \in S, NEW step,
         \A k \in 1..n : \A x \in S : step[k][x] \in S
  PROVE  \E f : Iterates(f, n, S, base, step)
<1> DEFINE Solves(f, m) == f[0] = base /\ \A k \in 1..m : f[k] = step[k][f[k - 1]]
           A == {m \in 0..n : \E f \in [0..m -> S] : Solves(f, m)}
<1>1. 0 \in A
  <2> DEFINE g == [k \in 0..0 |-> base]
  <2>1. g \in [0..0 -> S] /\ Solves(g, 0) /\ 0 \in 0..n
    OBVIOUS
  <2> HIDE DEF g, Solves
  <2> QED BY <2>1
<1>2. ASSUME NEW m \in 1..n, m - 1 \in A PROVE m \in A
  <2>1. PICK f \in [0..(m - 1) -> S] : Solves(f, m - 1)
    BY <1>2
  <2> DEFINE g == [k \in 0..m |-> IF k = m THEN step[m][f[m - 1]] ELSE f[k]]
  <2>2. g \in [0..m -> S]
    OBVIOUS
  <2>3. g[0] = base
    BY <2>1
  <2>4. ASSUME NEW k \in 1..m PROVE g[k] = step[k][g[k - 1]]
    <3>1. CASE k = m
      <4>1. g[k - 1] = f[m - 1] /\ g[k] = step[m][f[m - 1]]
        BY <3>1
      <4> QED BY <3>1, <4>1
    <3>2. CASE k # m
      <4>1. k \in 1..(m - 1) /\ g[k] = f[k] /\ g[k - 1] = f[k - 1]
        BY <3>2
      <4> QED BY <2>1, <4>1
    <3> QED BY <3>1, <3>2
  <2> HIDE DEF g
  <2> QED BY <2>2, <2>3, <2>4
<1>3. n \in A
  <2> HIDE DEF A
  <2> QED BY <1>1, <1>2, UpTo
<1> QED BY <1>3 DEF Iterates

-------------------------------------------------------------------------------

\* A step from byte to byte, and one that tells its bytes apart.
OnBytes(step) == \A x, y \in Byte : step[x][y] \in Byte
TellsApart(step) ==
  \A x, y, z \in Byte : y # z => step[x][y] # step[x][z] /\ step[y][x] # step[z][x]

LEMMA ZeroIsAByte == 0 \in Byte
BY DEF Byte

\* cs are the intermediate results of a step over n bytes.
Partial(cs, n, step, bytes) ==
  /\ cs \in [0..n -> Byte]
  /\ cs[0] = 0
  /\ \A k \in 1..n : cs[k] = step[cs[k - 1]][bytes[k]]

\* What Accumulated computes, step by step.
LEMMA AccumulatedIs ==
  ASSUME NEW step, OnBytes(step), NEW bytes \in Seq(Byte), NEW n, n = Len(bytes)
  PROVE  \E cs : Partial(cs, n, step, bytes) /\ Accumulated(step, bytes) = cs[n]
<1> DEFINE cs[k \in 0..Len(bytes)] == IF k = 0 THEN 0 ELSE step[cs[k - 1]][bytes[k]]
           R(g) == g = [k \in 0..n |-> IF k = 0 THEN 0 ELSE step[g[k - 1]][bytes[k]]]
           st == [k \in 1..n |-> [x \in Byte |-> step[x][bytes[k]]]]
<1>1. /\ n \in Nat /\ 0 \in Byte /\ \A k \in 1..n : bytes[k] \in Byte
  <2> HIDE DEF cs, R, st
  <2> QED BY ZeroIsAByte
<1> HIDE DEF cs, R
<1>2. /\ \A k \in 1..n : \A x \in Byte : st[k][x] = step[x][bytes[k]]
      /\ \A k \in 1..n : \A x \in Byte : st[k][x] \in Byte
  <2>1. \A k \in 1..n : \A x \in Byte : st[k][x] = step[x][bytes[k]]
    OBVIOUS
  <2> HIDE DEF st
  <2> QED BY <1>1, <2>1 DEF OnBytes
<1>3. PICK f : Iterates(f, n, Byte, 0, st)
  <2> HIDE DEF st
  <2> QED BY <1>1, <1>2, Recursion
<1>4. R(f)
  <2>1. ASSUME NEW k \in 0..n PROVE f[k] = IF k = 0 THEN 0 ELSE step[f[k - 1]][bytes[k]]
    <3>1. CASE k # 0
      <4>1. k \in 1..n /\ k - 1 \in 0..n
        BY <1>1, <3>1
      <4> HIDE DEF st
      <4> QED BY <1>2, <1>3, <3>1, <4>1 DEF Iterates
    <3> QED BY <1>3, <3>1 DEF Iterates
  <2>2. f \in [0..n -> Byte]
    BY <1>3 DEF Iterates
  <2> QED BY <2>1, <2>2 DEF R
<1>5. Accumulated(step, bytes) = cs[n]
  BY DEF Accumulated, cs
<1>6. cs = CHOOSE g : R(g)
  BY DEF cs, R
<1>7. R(cs)
  BY <1>4, <1>6, Zenon
<1> HIDE DEF st
<1>8. cs = [k \in 0..n |-> IF k = 0 THEN 0 ELSE step[cs[k - 1]][bytes[k]]]
  BY <1>7, Zenon DEF R
<1>9. cs[0] = 0 /\ \A k \in 1..n : cs[k] = step[cs[k - 1]][bytes[k]]
  BY <1>1, <1>8
<1>10. \A k \in 0..n : cs[k] \in Byte
  <2> DEFINE A == {k \in 0..n : cs[k] \in Byte}
  <2>1. 0 \in A
    BY <1>1, <1>9
  <2>2. ASSUME NEW k \in 1..n, cs[k - 1] \in Byte PROVE cs[k] \in Byte
    BY <1>1, <1>9, <2>2 DEF OnBytes
  <2>3. \A k \in 1..n : k - 1 \in A => k \in A
    BY <1>1, <2>2
  <2> HIDE DEF A
  <2>4. 0..n \subseteq A
    BY <1>1, <2>1, <2>3, UpTo
  <2> QED BY <2>4 DEF A
<1>11. cs \in [0..n -> Byte]
  BY <1>8, <1>10
<1> QED BY <1>5, <1>9, <1>11 DEF Partial

\* A step that tells its bytes apart sees one byte that differs.
LEMMA OneByteDiffers ==
  ASSUME NEW step, OnBytes(step),
         NEW s \in Seq(Byte), NEW t \in Seq(Byte),
         TellsApart(step),
         Len(s) = Len(t), NEW i \in 1..Len(s), s[i] # t[i],
         \A j \in 1..Len(s) : j # i => s[j] = t[j]
  PROVE  Accumulated(step, s) # Accumulated(step, t)
<1>1. PICK n \in Nat : n = Len(s) /\ n = Len(t)
  OBVIOUS
<1>2. PICK cs : Partial(cs, n, step, s) /\ Accumulated(step, s) = cs[n]
  BY <1>1, AccumulatedIs
<1>3. PICK ct : Partial(ct, n, step, t) /\ Accumulated(step, t) = ct[n]
  BY <1>1, AccumulatedIs
<1> DEFINE Apart(k) == k < i <=> cs[k] = ct[k]
           A == {k \in 0..n : Apart(k)}
<1>4. 0 \in A
  BY <1>1, <1>2, <1>3 DEF Partial
<1>5. ASSUME NEW k \in 1..n, Apart(k - 1) PROVE Apart(k)
  <2>1. /\ cs[k - 1] \in Byte /\ ct[k - 1] \in Byte /\ s[k] \in Byte /\ t[k] \in Byte
        /\ cs[k] = step[cs[k - 1]][s[k]] /\ ct[k] = step[ct[k - 1]][t[k]]
        /\ i \in 1..n /\ (k # i => s[k] = t[k])
    <3>1. k - 1 \in 0..n /\ k \in 1..Len(s) /\ k \in 1..Len(t)
      BY <1>1
    <3>2. s[k] \in Byte /\ t[k] \in Byte /\ i \in 1..n /\ (k # i => s[k] = t[k])
      BY <1>1, <3>1
    <3> QED BY <1>2, <1>3, <3>1, <3>2 DEF Partial
  <2>2. CASE k < i
    <3>1. cs[k - 1] = ct[k - 1] /\ s[k] = t[k]
      BY <1>5, <2>1, <2>2
    <3> QED BY <2>1, <2>2, <3>1
  <2>3. CASE k = i
    <3>1. cs[k - 1] = ct[k - 1] /\ s[k] # t[k]
      BY <1>5, <2>1, <2>3
    <3> QED BY <2>1, <2>3, <3>1 DEF TellsApart
  <2>4. CASE k > i
    <3>1. cs[k - 1] # ct[k - 1] /\ s[k] = t[k]
      BY <1>5, <2>1, <2>4
    <3> QED BY <2>1, <2>4, <3>1 DEF TellsApart
  <2> QED BY <2>1, <2>2, <2>3, <2>4
<1>6. \A k \in 1..n : k - 1 \in A => k \in A
  BY <1>5
<1>7. 0..n \subseteq A
  <2> HIDE DEF A
  <2> QED BY <1>4, <1>6, UpTo
<1>8. Apart(n)
  BY <1>7
<1> QED BY <1>1, <1>2, <1>3, <1>8

\* One byte more.
LEMMA AccumulatedAppend ==
  ASSUME NEW step, OnBytes(step), NEW s \in Seq(Byte), NEW b \in Byte
  PROVE  Accumulated(step, s) \in Byte /\ Accumulated(step, s \o <<b>>) = step[Accumulated(step, s)][b]
<1>1. PICK n \in Nat : n = Len(s)
  OBVIOUS
<1>2. PICK t : t = s \o <<b>>
  OBVIOUS
<1>3. t \in Seq(Byte) /\ n + 1 = Len(t) /\ t[n + 1] = b /\ \A k \in 1..n : t[k] = s[k]
  BY <1>1, <1>2
<1>4. PICK cs : Partial(cs, n, step, s) /\ Accumulated(step, s) = cs[n]
  BY <1>1, AccumulatedIs
<1>5. PICK ct : Partial(ct, n + 1, step, t) /\ Accumulated(step, t) = ct[n + 1]
  BY <1>3, AccumulatedIs
<1> DEFINE A == {k \in 0..n : cs[k] = ct[k]}
<1>6. 0 \in A
  BY <1>4, <1>5 DEF Partial
<1>7. ASSUME NEW k \in 1..n, cs[k - 1] = ct[k - 1] PROVE cs[k] = ct[k]
  BY <1>3, <1>4, <1>5, <1>7, SMTT(25) DEF Partial
<1>8. \A k \in 1..n : k - 1 \in A => k \in A
  BY <1>7
<1>9. 0..n \subseteq A
  <2> HIDE DEF A
  <2> QED BY <1>6, <1>8, UpTo
<1>10. cs[n] = ct[n] /\ cs[n] \in Byte
  BY <1>4, <1>9 DEF Partial
<1>11. ct[n + 1] = step[ct[n]][b]
  <2>1. n + 1 \in 1..(n + 1) /\ (n + 1) - 1 = n
    OBVIOUS
  <2>2. ct[n + 1] = step[ct[(n + 1) - 1]][t[n + 1]]
    BY <1>5, <2>1, Zenon DEF Partial
  <2> QED BY <1>3, <2>1, <2>2
<1> QED BY <1>2, <1>4, <1>5, <1>10, <1>11

-------------------------------------------------------------------------------

\* The sum tells its bytes apart.
LEMMA PlusTells == OnBytes(plus) /\ TellsApart(plus)
<1>1. \A x, y \in Byte : plus[x][y] = (x + y) % 256
  BY DEF plus
<1>2. \A x, y \in Byte : (x + y) % 256 \in Byte
  BY DEF Byte
<1>3. \A x, y, z \in Byte : y # z => (x + y) % 256 # (x + z) % 256 /\ (y + x) % 256 # (z + x) % 256
  BY DEF Byte
<1>4. ASSUME NEW x \in Byte, NEW y \in Byte PROVE plus[x][y] \in Byte
  <2>1. plus[x][y] = (x + y) % 256
    BY <1>1
  <2> QED BY <1>2, <2>1
<1>5. TellsApart(plus)
  <2> SUFFICES ASSUME NEW x \in Byte, NEW y \in Byte, NEW z \in Byte, y # z
               PROVE  plus[x][y] # plus[x][z] /\ plus[y][x] # plus[z][x]
    BY Zenon DEF TellsApart
  <2> QED BY <1>1, <1>3
<1> QED BY <1>4, <1>5, Zenon DEF OnBytes

\* The bits of a byte, and a byte from its bits.
bit(x, b) == (x \div b) % 2
Bits == {1, 2, 4, 8, 16, 32, 64, 128}

LEMMA ByteOfBits ==
  ASSUME NEW x \in Byte
  PROVE  x = bit(x, 1) + 2 * bit(x, 2) + 4 * bit(x, 4) + 8 * bit(x, 8)
             + 16 * bit(x, 16) + 32 * bit(x, 32) + 64 * bit(x, 64) + 128 * bit(x, 128)
BY SMTT(60) DEF Byte, bit

\* The exclusive or, bit by bit.
LEMMA XorOfBits ==
  ASSUME NEW x \in Byte, NEW y \in Byte
  PROVE  LET e(b) == (bit(x, b) + bit(y, b)) % 2 IN
         xor[x][y] = e(1) + 2 * e(2) + 4 * e(4) + 8 * e(8) + 16 * e(16) + 32 * e(32) + 64 * e(64) + 128 * e(128)
<1> DEFINE f(b) == (x \div b + y \div b) % 2
           e(b) == (bit(x, b) + bit(y, b)) % 2
<1>1. xor[x][y] = 1 * f(1) + 2 * f(2) + 4 * f(4) + 8 * f(8) + 16 * f(16) + 32 * f(32) + 64 * f(64) + 128 * f(128)
  BY DEF xor
<1>2. \A b \in Bits : x \div b \in Nat /\ y \div b \in Nat
  BY DEF Byte, Bits
<1>3. \A p, q \in Nat : (p + q) % 2 = ((p % 2) + (q % 2)) % 2
  OBVIOUS
<1>4. \A b \in Bits : f(b) = e(b) /\ f(b) \in Int
  BY <1>2, <1>3 DEF bit
<1>5. /\ f(1) = e(1) /\ f(2) = e(2) /\ f(4) = e(4) /\ f(8) = e(8)
      /\ f(16) = e(16) /\ f(32) = e(32) /\ f(64) = e(64) /\ f(128) = e(128) /\ f(1) \in Int
  BY <1>4 DEF Bits
<1> HIDE DEF f
<1>6. 1 * f(1) = f(1)
  BY <1>5
<1> QED BY <1>1, <1>5, <1>6

\* A sum of different powers of 2 is known by its terms.
LEMMA TermsOfSum ==
  ASSUME NEW a \in [Bits -> {0, 1}], NEW b \in [Bits -> {0, 1}],
         a[1] + 2 * a[2] + 4 * a[4] + 8 * a[8] + 16 * a[16] + 32 * a[32] + 64 * a[64] + 128 * a[128]
         = b[1] + 2 * b[2] + 4 * b[4] + 8 * b[8] + 16 * b[16] + 32 * b[32] + 64 * b[64] + 128 * b[128]
  PROVE  a = b
<1>1. \A i \in Bits : a[i] \in {0, 1} /\ b[i] \in {0, 1}
  OBVIOUS
<1>2. /\ a[1] = b[1] /\ a[2] = b[2] /\ a[4] = b[4] /\ a[8] = b[8]
      /\ a[16] = b[16] /\ a[32] = b[32] /\ a[64] = b[64] /\ a[128] = b[128]
  BY <1>1, SMTT(25) DEF Bits
<1>3. \A i \in Bits : a[i] = b[i]
  BY <1>2 DEF Bits
<1> QED BY <1>3

\* The exclusive or tells its bytes apart.
LEMMA XorTells == OnBytes(xor) /\ TellsApart(xor)
<1>1. \A x \in Byte, b \in Bits : bit(x, b) \in {0, 1}
  BY DEF Byte, Bits, bit
<1>2. \A p, q, r \in {0, 1} : /\ (p + q) % 2 \in {0, 1} /\ (p + q) % 2 = (q + p) % 2
                              /\ ((p + q) % 2 = (p + r) % 2 => q = r)
  OBVIOUS
<1> DEFINE e(x, y) == [b \in Bits |-> (bit(x, b) + bit(y, b)) % 2]
           sum(a) == a[1] + 2 * a[2] + 4 * a[4] + 8 * a[8] + 16 * a[16] + 32 * a[32] + 64 * a[64] + 128 * a[128]
<1>3. ASSUME NEW x \in Byte, NEW y \in Byte
      PROVE  e(x, y) \in [Bits -> {0, 1}] /\ e(x, y) = e(y, x) /\ xor[x][y] = sum(e(x, y))
  <2>1. e(x, y) \in [Bits -> {0, 1}] /\ e(x, y) = e(y, x)
    BY <1>1, <1>2
  <2>2. \A b \in Bits : e(x, y)[b] = (bit(x, b) + bit(y, b)) % 2
    OBVIOUS
  <2>3. PICK a : a = e(x, y)
    OBVIOUS
  <2>4. /\ a[1] = (bit(x, 1) + bit(y, 1)) % 2 /\ a[2] = (bit(x, 2) + bit(y, 2)) % 2
        /\ a[4] = (bit(x, 4) + bit(y, 4)) % 2 /\ a[8] = (bit(x, 8) + bit(y, 8)) % 2
        /\ a[16] = (bit(x, 16) + bit(y, 16)) % 2 /\ a[32] = (bit(x, 32) + bit(y, 32)) % 2
        /\ a[64] = (bit(x, 64) + bit(y, 64)) % 2 /\ a[128] = (bit(x, 128) + bit(y, 128)) % 2
    BY <2>2, <2>3 DEF Bits
  <2> HIDE DEF e
  <2>5. xor[x][y] = sum(a)
    BY <2>4, XorOfBits
  <2> QED BY <2>1, <2>3, <2>5
<1>4. ASSUME NEW x \in Byte, NEW y \in Byte, NEW z \in Byte, e(x, y) = e(x, z) PROVE y = z
  <2>1. \A b \in Bits : bit(y, b) = bit(z, b)
    <3> SUFFICES ASSUME NEW b \in Bits PROVE bit(y, b) = bit(z, b)
      OBVIOUS
    <3>1. e(x, y)[b] = (bit(x, b) + bit(y, b)) % 2 /\ e(x, z)[b] = (bit(x, b) + bit(z, b)) % 2
      OBVIOUS
    <3> QED BY <1>1, <1>2, <1>4, <3>1
  <2>2. /\ bit(y, 1) = bit(z, 1) /\ bit(y, 2) = bit(z, 2) /\ bit(y, 4) = bit(z, 4) /\ bit(y, 8) = bit(z, 8)
        /\ bit(y, 16) = bit(z, 16) /\ bit(y, 32) = bit(z, 32) /\ bit(y, 64) = bit(z, 64) /\ bit(y, 128) = bit(z, 128)
    BY <2>1 DEF Bits
  <2> QED BY <2>2, ByteOfBits
<1>5. ASSUME NEW a \in [Bits -> {0, 1}] PROVE sum(a) \in Byte
  <2>1. \A b \in Bits : a[b] \in {0, 1}
    OBVIOUS
  <2> QED BY <2>1 DEF Bits, Byte
<1> HIDE DEF e
<1>6. ASSUME NEW a \in [Bits -> {0, 1}], NEW b \in [Bits -> {0, 1}], sum(a) = sum(b) PROVE a = b
  BY <1>6, TermsOfSum
<1> HIDE DEF sum
<1>7. \A x, y \in Byte : xor[x][y] \in Byte
  BY <1>3, <1>5
<1>8. ASSUME NEW x \in Byte, NEW y \in Byte, NEW z \in Byte, y # z
      PROVE  xor[x][y] # xor[x][z] /\ xor[y][x] # xor[z][x]
  <2>1. e(x, y) # e(x, z)
    BY <1>4, <1>8
  <2>2. sum(e(x, y)) # sum(e(x, z))
    BY <1>3, <1>6, <2>1
  <2> QED BY <1>3, <2>2
<1> QED BY <1>7, <1>8, Zenon DEF OnBytes, TellsApart
\* Sums are bytes.
LEMMA SumsAreBytes ==
  ASSUME NEW s \in Seq(Byte)
  PROVE  compute_checksum(s) \in Byte /\ Xor(s) \in Byte
<1>1. 0 \in Byte
  BY ZeroIsAByte
<1> QED BY <1>1, PlusTells, XorTells, AccumulatedAppend DEF compute_checksum, Xor

\* Both sums see a byte that differs.
LEMMA SumsDiffer ==
  ASSUME NEW s \in Seq(Byte), NEW t \in Seq(Byte), Len(s) = Len(t),
         NEW i \in 1..Len(s), s[i] # t[i], \A j \in 1..Len(s) : j # i => s[j] = t[j]
  PROVE  compute_checksum(s) # compute_checksum(t) /\ Xor(s) # Xor(t)
BY PlusTells, XorTells, OneByteDiffers DEF compute_checksum, Xor

\* The sum does not change with another byte exactly if that byte is 0.
LEMMA SumOfOneMore ==
  ASSUME NEW s \in Seq(Byte), NEW b \in Byte
  PROVE  compute_checksum(s \o <<b>>) = compute_checksum(s) <=> b = 0
<1>1. /\ compute_checksum(s) \in Byte
      /\ compute_checksum(s \o <<b>>) = plus[compute_checksum(s)][b]
  BY PlusTells, AccumulatedAppend DEF compute_checksum
<1>2. \A x \in Byte : plus[x][b] = (x + b) % 256
  BY DEF plus
<1>3. \A x, y \in Byte : (x + y) % 256 = x <=> y = 0
  BY DEF Byte
<1> QED BY <1>1, <1>2, <1>3

-------------------------------------------------------------------------------

\* A substring.
LEMMA SliceIs ==
  ASSUME NEW S, NEW f \in Seq(S), NEW a \in Nat, NEW b \in a..Len(f)
  PROVE  /\ Slice(f, a, b) \in Seq(S) /\ Len(Slice(f, a, b)) = b - a
         /\ \A k \in 1..(b - a) : Slice(f, a, b)[k] = f[a + k]
<1>1. \A k \in (a + 1)..b : f[k] \in S
  OBVIOUS
<1>2. a + 1 \in Int /\ b \in Int /\ b - (a + 1) + 1 = b - a /\ (a + 1 <= b \/ b - a = 0)
  OBVIOUS
<1>3. \A k \in 1..(b - a) : (a + 1) + k - 1 = a + k
  OBVIOUS
<1> QED BY <1>1, <1>2, <1>3, SubSeqProperties DEF Slice

\* A substring is known by its bytes.
LEMMA SliceEqual ==
  ASSUME NEW S, NEW f \in Seq(S), NEW a \in Nat, NEW b \in a..Len(f), NEW w \in Seq(S),
         Len(w) = b - a, \A k \in 1..(b - a) : w[k] = f[a + k]
  PROVE  Slice(f, a, b) = w
<1>1. /\ Slice(f, a, b) \in Seq(S) /\ Len(Slice(f, a, b)) = b - a
      /\ \A k \in 1..(b - a) : Slice(f, a, b)[k] = f[a + k]
  BY SliceIs
<1>2. PICK g \in Seq(S) : g = Slice(f, a, b)
  BY <1>1
<1> QED BY <1>1, <1>2, SeqEqual

\* Substrings of strings that agree on them.
LEMMA SlicesAgree ==
  ASSUME NEW S, NEW f \in Seq(S), NEW g \in Seq(S), NEW a \in Nat, NEW b \in a..Len(f), b <= Len(g),
         \A k \in (a + 1)..b : f[k] = g[k]
  PROVE  Slice(f, a, b) = Slice(g, a, b)
<1>1. b \in a..Len(g) /\ \A k \in 1..(b - a) : a + k \in (a + 1)..b
  OBVIOUS
<1>2. /\ Slice(g, a, b) \in Seq(S) /\ Len(Slice(g, a, b)) = b - a
      /\ \A k \in 1..(b - a) : Slice(g, a, b)[k] = g[a + k]
  BY <1>1, SliceIs
<1>3. \A k \in 1..(b - a) : Slice(g, a, b)[k] = f[a + k]
  BY <1>1, <1>2
<1> QED BY <1>2, <1>3, SliceEqual

LEMMA WholeSlice ==
  ASSUME NEW S, NEW f \in Seq(S)
  PROVE  Slice(f, 0, Len(f)) = f
<1>1. 0 + 1 = 1
  OBVIOUS
<1> QED BY <1>1, SubSeqFull DEF Slice

\* A substring of a substring.
LEMMA SliceOfSlice ==
  ASSUME NEW S, NEW f \in Seq(S), NEW s \in Nat, NEW e \in s..Len(f),
         NEW i \in 0..(e - s), NEW j \in i..(e - s)
  PROVE  /\ Len(Slice(f, s, e)) = e - s
         /\ Slice(Slice(f, s, e), i, j) = Slice(f, s + i, s + j)
         /\ i < e - s => At(Slice(f, s, e), i) = At(f, s + i)
<1>1. /\ Slice(f, s, e) \in Seq(S) /\ Len(Slice(f, s, e)) = e - s
      /\ \A k \in 1..(e - s) : Slice(f, s, e)[k] = f[s + k]
  BY SliceIs
<1>2. s + i \in Nat /\ s + j \in (s + i)..Len(f) /\ (s + j) - (s + i) = j - i
  OBVIOUS
<1>3. /\ Slice(f, s + i, s + j) \in Seq(S) /\ Len(Slice(f, s + i, s + j)) = j - i
      /\ \A k \in 1..(j - i) : Slice(f, s + i, s + j)[k] = f[s + i + k]
  <2>1. PICK x, y : x = s + i /\ y = s + j
    OBVIOUS
  <2>2. x \in Nat /\ y \in x..Len(f) /\ y - x = j - i
    BY <1>2, <2>1
  <2>3. /\ Slice(f, x, y) \in Seq(S) /\ Len(Slice(f, x, y)) = y - x
        /\ \A k \in 1..(y - x) : Slice(f, x, y)[k] = f[x + k]
    BY <2>2, SliceIs
  <2> QED BY <2>1, <2>2, <2>3
<1>4. \A k \in 1..(j - i) : Slice(f, s + i, s + j)[k] = Slice(f, s, e)[i + k]
  <2> SUFFICES ASSUME NEW k \in 1..(j - i) PROVE Slice(f, s + i, s + j)[k] = Slice(f, s, e)[i + k]
    OBVIOUS
  <2>1. i + k \in 1..(e - s) /\ s + (i + k) = s + i + k
    OBVIOUS
  <2> QED BY <1>1, <1>3, <2>1
<1>5. Slice(Slice(f, s, e), i, j) = Slice(f, s + i, s + j)
  <2>1. i \in Nat /\ j \in i..Len(Slice(f, s, e))
    BY <1>1
  <2> QED BY <1>1, <1>3, <1>4, <2>1, SliceEqual
<1>6. i < e - s => At(Slice(f, s, e), i) = At(f, s + i)
  <2>1. ASSUME i < e - s PROVE i + 1 \in 1..(e - s) /\ s + (i + 1) = s + i + 1
    BY <2>1
  <2> QED BY <1>1, <2>1 DEF At
<1> QED BY <1>1, <1>5, <1>6

\* Substrings that follow each other.
LEMMA SlicesJoin ==
  ASSUME NEW S, NEW f \in Seq(S), NEW a \in Nat, NEW b \in Nat, NEW c \in Nat, a <= b, b <= c, c <= Len(f)
  PROVE  Slice(f, a, b) \o Slice(f, b, c) = Slice(f, a, c)
<1>1. a + 1 \in 1..(Len(f) + 1) /\ b \in (a + 1 - 1)..Len(f) /\ c \in b..Len(f)
  OBVIOUS
<1> QED BY <1>1, ConcatAdjacentSubSeq DEF Slice

\* The two parts of a concatenation.
LEMMA SlicesOfConcat ==
  ASSUME NEW S, NEW f \in Seq(S), NEW g \in Seq(S)
  PROVE  /\ f \o g \in Seq(S) /\ Len(f \o g) = Len(f) + Len(g)
         /\ Slice(f \o g, 0, Len(f)) = f
         /\ Slice(f \o g, Len(f), Len(f) + Len(g)) = g
         /\ \A b \in 0..Len(f) : \A a \in 0..b : Slice(f \o g, a, b) = Slice(f, a, b)
<1> DEFINE m == Len(f)
           n == Len(g)
<1>1. m \in Nat /\ n \in Nat
  OBVIOUS
<1>2. PICK h : h = f \o g
  OBVIOUS
<1>3. /\ h \in Seq(S) /\ Len(h) = m + n
      /\ \A k \in 1..m : h[k] = f[k]
      /\ \A k \in 1..n : h[m + k] = g[k]
  BY <1>2, ConcatProperties
<1> HIDE DEF m, n
<1>4. ASSUME NEW b \in 0..m, NEW a \in 0..b PROVE Slice(h, a, b) = Slice(f, a, b)
  <2>1. a \in Nat /\ b \in a..Len(h) /\ b <= Len(f) /\ \A k \in (a + 1)..b : k \in 1..m
    BY <1>1, <1>3 DEF m
  <2>2. \A k \in (a + 1)..b : h[k] = f[k]
    BY <1>3, <2>1
  <2> QED BY <1>3, <2>1, <2>2, SlicesAgree
<1>5. Slice(h, 0, m) = f
  <2>1. 0 \in 0..m /\ m \in 0..m
    BY <1>1
  <2> QED BY <1>4, <2>1, WholeSlice DEF m
<1>6. Slice(h, m, m + n) = g
  <2>1. m \in Nat /\ m + n \in m..Len(h) /\ Len(g) = (m + n) - m /\ (m + n) - m = n
    BY <1>1, <1>3 DEF n
  <2>2. \A k \in 1..((m + n) - m) : g[k] = h[m + k]
    BY <1>3, <2>1
  <2>3. PICK c : c = m + n
    OBVIOUS
  <2>4. c \in m..Len(h) /\ Len(g) = c - m /\ \A k \in 1..(c - m) : g[k] = h[m + k]
    BY <2>1, <2>2, <2>3
  <2>5. Slice(h, m, c) = g
    BY <1>3, <2>1, <2>4, SliceEqual
  <2> QED BY <2>3, <2>5
<1> QED BY <1>2, <1>3, <1>4, <1>5, <1>6 DEF m, n

\* A patched string.
LEMMA PatchIs ==
  ASSUME NEW S, NEW f \in Seq(S), NEW w \in Seq(S), NEW at \in Nat, at + Len(w) <= Len(f)
  PROVE  /\ Patch(f, at, w) \in Seq(S) /\ Len(Patch(f, at, w)) = Len(f)
         /\ \A k \in 1..Len(f) :
              Patch(f, at, w)[k] = IF k \in (at + 1)..(at + Len(w)) THEN w[k - at] ELSE f[k]
<1>1. PICK n \in Nat, m \in Nat, c \in Nat : n = Len(f) /\ m = Len(w) /\ c = at + m
  OBVIOUS
<1>2. PICK p, q, g : p = Slice(f, 0, at) /\ q = Slice(f, c, n) /\ g = p \o w
  OBVIOUS
<1>3. p \in Seq(S) /\ Len(p) = at /\ \A k \in 1..at : p[k] = f[k]
  <2>1. /\ Slice(f, 0, at) \in Seq(S) /\ Len(Slice(f, 0, at)) = at - 0
        /\ \A k \in 1..(at - 0) : Slice(f, 0, at)[k] = f[0 + k]
    <3>1. 0 \in Nat /\ at \in 0..Len(f)
      BY <1>1
    <3> QED BY <3>1, SliceIs
  <2>2. at - 0 = at /\ \A k \in 1..at : 0 + k = k
    OBVIOUS
  <2> QED BY <1>2, <2>1, <2>2
<1>4. q \in Seq(S) /\ Len(q) = n - c /\ \A k \in 1..(n - c) : q[k] = f[c + k]
  <2>1. n \in c..Len(f)
    BY <1>1
  <2> QED BY <1>2, <2>1, SliceIs
<1>5. /\ g \in Seq(S) /\ Len(g) = c
      /\ \A k \in 1..c : g[k] = IF k <= at THEN p[k] ELSE w[k - at]
  <2>1. p \in Seq(S) /\ w \in Seq(S) /\ Len(p) + Len(w) = c /\ Len(p) = at
    BY <1>1, <1>3
  <2>2. /\ p \o w \in Seq(S) /\ Len(p \o w) = Len(p) + Len(w)
        /\ \A k \in 1..(Len(p) + Len(w)) : (p \o w)[k] = IF k <= Len(p) THEN p[k] ELSE w[k - Len(p)]
    BY <2>1, ConcatProperties
  <2> QED BY <1>2, <2>1, <2>2
<1>6. PICK h : h = g \o q
  OBVIOUS
<1>7. /\ h \in Seq(S) /\ Len(h) = n
      /\ \A k \in 1..n : h[k] = IF k <= c THEN g[k] ELSE q[k - c]
  <2>1. Len(g) + Len(q) = n /\ g \in Seq(S) /\ q \in Seq(S)
    <3>1. Len(g) = c /\ Len(q) = n - c /\ g \in Seq(S) /\ q \in Seq(S)
      BY <1>4, <1>5, Zenon
    <3> QED BY <3>1
  <2>2. /\ g \o q \in Seq(S) /\ Len(g \o q) = Len(g) + Len(q)
        /\ \A k \in 1..(Len(g) + Len(q)) : (g \o q)[k] = IF k <= Len(g) THEN g[k] ELSE q[k - Len(g)]
    BY <2>1, ConcatProperties
  <2> QED BY <1>5, <1>6, <2>1, <2>2
<1>8. Patch(f, at, w) = h
  BY <1>1, <1>2, <1>6 DEF Patch
<1>9. ASSUME NEW k \in 1..n
      PROVE  h[k] = IF k \in (at + 1)..c THEN w[k - at] ELSE f[k]
  <2>1. CASE k <= at
    <3>1. k \in 1..at /\ k \in 1..c /\ k <= c /\ k \notin (at + 1)..c
      BY <1>1, <2>1
    <3> QED BY <1>3, <1>5, <1>7, <2>1, <3>1
  <2>2. CASE k > at /\ k <= c
    <3>1. k \in 1..c /\ k \in (at + 1)..c /\ ~(k <= at)
      BY <1>1, <2>2
    <3> QED BY <1>5, <1>7, <2>2, <3>1
  <2>3. CASE k > c
    <3>1. k - c \in 1..(n - c) /\ c + (k - c) = k /\ k \notin (at + 1)..c /\ ~(k <= c)
      BY <1>1, <2>3
    <3> QED BY <1>4, <1>7, <3>1
  <2> QED BY <1>1, <2>1, <2>2, <2>3
<1> QED BY <1>1, <1>7, <1>8, <1>9

\* A concatenation, and its two parts.
LEMMA ConcatIs ==
  ASSUME NEW S, NEW f \in Seq(S), NEW g \in Seq(S), NEW m, m = Len(f), NEW n, n = m + Len(g)
  PROVE  /\ f \o g \in Seq(S) /\ Len(f \o g) = n
         /\ Slice(f \o g, 0, m) = f /\ Slice(f \o g, m, n) = g
BY SlicesOfConcat

\* A substring of the second part of a concatenation.
LEMMA SliceMiddle ==
  ASSUME NEW S, NEW p \in Seq(S), NEW d \in Seq(S), NEW a \in Nat, NEW b \in a..Len(d),
         NEW i, NEW j, i = Len(p) + a, j = Len(p) + b
  PROVE  Slice(p \o d, i, j) = Slice(d, a, b)
<1>1. PICK m, n, f, w : m = Len(p) /\ n = Len(d) /\ f = p \o d /\ w = Slice(d, a, b)
  OBVIOUS
<1>m. m \in Nat /\ n \in Nat
  BY <1>1
<1>2. f \in Seq(S) /\ Len(f) = m + n
  BY <1>1, ConcatProperties
<1>3. \A k \in 1..n : f[m + k] = d[k]
  BY <1>1, ConcatProperties
<1>4. w \in Seq(S) /\ Len(w) = b - a /\ \A k \in 1..(b - a) : w[k] = d[a + k]
  BY <1>1, SliceIs
<1>5. i \in Nat /\ j \in i..Len(f) /\ j - i = b - a
  BY <1>1, <1>m, <1>2
<1>6. \A k \in 1..(j - i) : w[k] = f[i + k]
  <2> SUFFICES ASSUME NEW k \in 1..(j - i) PROVE w[k] = f[i + k]
    OBVIOUS
  <2>1. k \in 1..(b - a) /\ a + k \in 1..n /\ m + (a + k) = i + k
    BY <1>1, <1>m, <1>5
  <2>2. w[k] = d[a + k]
    BY <1>4, <2>1
  <2>3. f[m + (a + k)] = d[a + k]
    BY <1>3, <2>1
  <2> QED BY <2>1, <2>2, <2>3
<1>7. w \in Seq(S) /\ Len(w) = j - i
  BY <1>4, <1>5
<1>8. Slice(f, i, j) = w
  BY <1>2, <1>5, <1>6, <1>7, SliceEqual
<1> QED BY <1>1, <1>8

\* A string is its first bytes and its last one.
LEMMA LastByte ==
  ASSUME NEW S, NEW f \in Seq(S), NEW n \in Nat, Len(f) = n + 1
  PROVE  /\ Slice(f, 0, n) \in Seq(S) /\ Len(Slice(f, 0, n)) = n /\ f[n + 1] \in S
         /\ f = Slice(f, 0, n) \o <<f[n + 1]>>
<1>1. 0 \in Nat /\ n \in 0..Len(f) /\ n + 1 \in n..Len(f) /\ n - 0 = n /\ n + 1 - n = 1 /\ f[n + 1] \in S
  OBVIOUS
<1>2. PICK w, x : w = Slice(f, n, n + 1) /\ x = f[n + 1]
  OBVIOUS
<1>3. w = <<x>>
  <2>1. PICK m : m = n + 1
    OBVIOUS
  <2>2. /\ Slice(f, n, m) \in Seq(S) /\ Len(Slice(f, n, m)) = m - n
        /\ \A k \in 1..(m - n) : Slice(f, n, m)[k] = f[n + k]
    BY <1>1, <2>1, SliceIs
  <2>3. w \in Seq(S) /\ Len(w) = 1 /\ w[1] = x
    <3>1. m - n = 1 /\ 1 \in 1..(m - n) /\ w = Slice(f, n, m) /\ f[n + 1] = x
      BY <1>1, <1>2, <2>1
    <3> QED BY <2>2, <3>1
  <2> QED BY <2>3
<1>4. Slice(f, 0, n) \in Seq(S) /\ Len(Slice(f, 0, n)) = n - 0
  BY <1>1, SliceIs
<1>5. Slice(f, 0, n) \o Slice(f, n, n + 1) = f
  <2>1. PICK a, m : a = 0 /\ m = n + 1
    OBVIOUS
  <2>2. a \in Nat /\ n \in Nat /\ m \in Nat /\ a <= n /\ n <= m /\ m <= Len(f)
    BY <1>1, <2>1
  <2>3. Slice(f, a, n) \o Slice(f, n, m) = Slice(f, a, m)
    BY <2>2, SlicesJoin
  <2>4. Slice(f, 0, Len(f)) = f
    BY WholeSlice
  <2> QED BY <2>1, <2>3, <2>4
<1> QED BY <1>1, <1>2, <1>3, <1>4, <1>5

\* The bytes of a concatenation.
LEMMA Concatenated ==
  ASSUME NEW S, NEW f \in Seq(S), NEW g \in Seq(S), NEW m, m = Len(f), NEW n, n = Len(g)
  PROVE  /\ f \o g \in Seq(S) /\ Len(f \o g) = m + n /\ m \in Nat /\ n \in Nat
         /\ \A k \in 1..m : (f \o g)[k] = f[k]
         /\ \A k \in 1..n : (f \o g)[m + k] = g[k]
<1>1. m \in Nat /\ n \in Nat
  OBVIOUS
<1>2. f \o g \in Seq(S) /\ Len(f \o g) = m + n
  BY ConcatProperties
<1>3. \A k \in 1..m : (f \o g)[k] = f[k]
  BY ConcatProperties
<1>4. \A k \in 1..n : (f \o g)[m + k] = g[k]
  BY ConcatProperties
<1> QED BY <1>1, <1>2, <1>3, <1>4

-------------------------------------------------------------------------------

\* The kinds of fields, and the values of each.
Kinds == {"u8", "u16", "i16", "u32", "u8x13", "u8x33"}
Short == {v \in Int : v >= -32768 /\ v <= 32767}
Values(kind) ==
  CASE kind = "u8" -> Byte
    [] kind = "u16" -> Half
    [] kind = "i16" -> Short
    [] kind = "u32" -> Word
    [] kind \in {"u8x13", "u8x33"} -> {b \in Seq(Byte) : Len(b) = Width(kind)}

LEMMA Widths ==
  /\ Width("u8") = 1 /\ Width("u16") = 2 /\ Width("i16") = 2 /\ Width("u32") = 4
  /\ Width("u8x13") = 13 /\ Width("u8x33") = 33
BY Zenon DEF Width

LEMMA WidthIs == ASSUME NEW kind \in Kinds PROVE Width(kind) \in Nat /\ Width(kind) >= 1
BY Widths DEF Kinds

\* Two bytes.
LEMMA HalfIsTwoBytes ==
  ASSUME NEW v \in Half
  PROVE  v % 256 \in Byte /\ v \div 256 \in Byte /\ (v % 256) + 256 * (v \div 256) = v
<1>1. v \in Int /\ v >= 0 /\ v <= 65535
  BY DEF Half
<1> QED BY <1>1 DEF Byte

LEMMA TwoBytesAreHalf ==
  ASSUME NEW a \in Byte, NEW b \in Byte
  PROVE  a + 256 * b \in Half /\ (a + 256 * b) % 256 = a /\ (a + 256 * b) \div 256 = b
<1>1. a \in Int /\ a >= 0 /\ a <= 255 /\ b \in Int /\ b >= 0 /\ b <= 255
  BY DEF Byte
<1>2. a + 256 * b \in Half
  BY <1>1 DEF Half
<1>3. (a + 256 * b) % 256 = a
  BY <1>1
<1>4. (a + 256 * b) \div 256 = b
  BY <1>1
<1> QED BY <1>2, <1>3, <1>4

LEMMA Uint16 ==
  ASSUME NEW v \in Half
  PROVE  /\ write_le_uint16(v) \in Seq(Byte) /\ Len(write_le_uint16(v)) = 2
         /\ write_le_uint16(v)[1] = v % 256 /\ write_le_uint16(v)[2] = v \div 256
         /\ read_le_uint16(write_le_uint16(v)) = v
<1>1. PICK a, b : a = v % 256 /\ b = v \div 256
  OBVIOUS
<1>2. a \in Byte /\ b \in Byte /\ a + 256 * b = v
  BY <1>1, HalfIsTwoBytes
<1>3. <<a, b>> \in Seq(Byte) /\ Len(<<a, b>>) = 2 /\ <<a, b>>[1] = a /\ <<a, b>>[2] = b
  BY <1>2
<1> QED BY <1>1, <1>2, <1>3 DEF write_le_uint16, read_le_uint16

LEMMA TwoBytes ==
  ASSUME NEW b \in Seq(Byte), Len(b) = 2
  PROVE  read_le_uint16(b) \in Half /\ write_le_uint16(read_le_uint16(b)) = b
<1>1. b[1] \in Byte /\ b[2] \in Byte
  BY SMTT(25)
<1>2. read_le_uint16(b) \in Half /\ write_le_uint16(read_le_uint16(b)) = <<b[1], b[2]>>
  BY <1>1, TwoBytesAreHalf DEF write_le_uint16, read_le_uint16
<1>3. b = <<b[1], b[2]>>
  OBVIOUS
<1> QED BY <1>2, <1>3

\* Four bytes.
LEMMA Uint32 ==
  ASSUME NEW v \in Word
  PROVE  /\ write_le_uint32(v) \in Seq(Byte) /\ Len(write_le_uint32(v)) = 4
         /\ read_le_uint32(write_le_uint32(v)) = v
<1>1. PICK h \in Half, l \in Half : v = <<h, l>>
  BY DEF Word
<1>2. PICK p, q : p = write_le_uint16(l) /\ q = write_le_uint16(h)
  OBVIOUS
<1>3. /\ p \in Seq(Byte) /\ Len(p) = 2 /\ read_le_uint16(p) = l
      /\ q \in Seq(Byte) /\ Len(q) = 2 /\ read_le_uint16(q) = h
  BY <1>2, Uint16
<1>4. PICK w : w = p \o q
  OBVIOUS
<1>5. w \in Seq(Byte) /\ Len(w) = 4 /\ Slice(w, 0, 2) = p /\ Slice(w, 2, 4) = q
  <2>1. p \in Seq(Byte) /\ q \in Seq(Byte) /\ 2 = Len(p) /\ 4 = 2 + Len(q)
    BY <1>3
  <2>2. /\ p \o q \in Seq(Byte) /\ Len(p \o q) = 4
        /\ Slice(p \o q, 0, 2) = p /\ Slice(p \o q, 2, 4) = q
    BY <2>1, ConcatIs
  <2> QED BY <1>4, <2>2
<1>6. write_le_uint32(v) = w
  BY <1>1, <1>2, <1>4 DEF write_le_uint32
<1>7. SubSeq(w, 1, 2) = p /\ SubSeq(w, 3, 4) = q
  <2>1. Slice(w, 0, 2) = SubSeq(w, 1, 2) /\ Slice(w, 2, 4) = SubSeq(w, 3, 4)
    BY DEF Slice
  <2> QED BY <1>5, <2>1
<1> QED BY <1>1, <1>3, <1>5, <1>6, <1>7 DEF read_le_uint32

LEMMA FourBytes ==
  ASSUME NEW b \in Seq(Byte), Len(b) = 4
  PROVE  read_le_uint32(b) \in Word /\ write_le_uint32(read_le_uint32(b)) = b
<1>1. PICK p, q : p = SubSeq(b, 1, 2) /\ q = SubSeq(b, 3, 4)
  OBVIOUS
<1>2. p = Slice(b, 0, 2) /\ q = Slice(b, 2, 4)
  BY <1>1 DEF Slice
<1>3. p \in Seq(Byte) /\ Len(p) = 2 /\ q \in Seq(Byte) /\ Len(q) = 2
  <2>1. \A x \in Nat : \A y \in x..4 : Slice(b, x, y) \in Seq(Byte) /\ Len(Slice(b, x, y)) = y - x
    BY SliceIs, ZenonT(40)
  <2>2. 0 \in Nat /\ 2 \in 0..4 /\ 2 \in Nat /\ 4 \in 2..4 /\ 2 - 0 = 2 /\ 4 - 2 = 2
    OBVIOUS
  <2> QED BY <1>2, <2>1, <2>2
<1>4. p \o q = b
  <2>1. Slice(b, 0, 2) \o Slice(b, 2, 4) = Slice(b, 0, 4)
    <3>1. 0 \in Nat /\ 2 \in Nat /\ 4 \in Nat /\ 0 <= 2 /\ 2 <= 4 /\ 4 <= Len(b)
      OBVIOUS
    <3> QED BY <3>1, SlicesJoin
  <2>2. Slice(b, 0, 4) = b
    BY WholeSlice
  <2> QED BY <1>2, <2>1, <2>2
<1>5. PICK h, l : h = read_le_uint16(q) /\ l = read_le_uint16(p)
  OBVIOUS
<1>6. h \in Half /\ l \in Half /\ write_le_uint16(h) = q /\ write_le_uint16(l) = p
  BY <1>3, <1>5, TwoBytes
<1>7. read_le_uint32(b) = <<h, l>>
  BY <1>1, <1>5 DEF read_le_uint32
<1> QED BY <1>4, <1>6, <1>7 DEF write_le_uint32, Word

\* Signed values.
LEMMA Modulo ==
  ASSUME NEW v \in Int
  PROVE  /\ v >= 0 /\ v < 65536 => v % 65536 = v
         /\ v >= -65536 /\ v < 0 => v % 65536 = v + 65536
OBVIOUS

LEMMA AsUint16 ==
  ASSUME NEW v \in Short
  PROVE  as_uint16(v) \in Half /\ as_int16(as_uint16(v)) = v
<1>1. v \in Int /\ v >= -32768 /\ v <= 32767
  BY DEF Short
<1>2. CASE v >= 0
  <2>1. v % 65536 = v /\ v \in Half /\ v < 32768
    BY <1>1, <1>2, Modulo DEF Half
  <2> QED BY <2>1 DEF as_uint16, as_int16
<1>3. CASE v < 0
  <2>1. v % 65536 = v + 65536
    BY <1>1, <1>3, Modulo
  <2>2. v + 65536 \in Half /\ ~(v + 65536 < 32768) /\ (v + 65536) - 65536 = v
    BY <1>1, <1>3 DEF Half
  <2> QED BY <2>1, <2>2 DEF as_uint16, as_int16
<1> QED BY <1>1, <1>2, <1>3

LEMMA AsInt16 ==
  ASSUME NEW v \in Half
  PROVE  as_int16(v) \in Short /\ as_uint16(as_int16(v)) = v
<1>1. v \in Int /\ v >= 0 /\ v < 65536
  BY DEF Half
<1>2. CASE v < 32768
  <2>1. v % 65536 = v /\ v \in Short
    BY <1>1, <1>2, Modulo DEF Short
  <2> QED BY <1>2, <2>1 DEF as_uint16, as_int16
<1>3. CASE ~(v < 32768)
  <2>1. PICK u \in Int : u = v - 65536
    BY <1>1
  <2>2. u % 65536 = v
    <3>1. u >= -65536 /\ u < 0 /\ u + 65536 = v
      BY <1>1, <2>1
    <3> QED BY <3>1, Modulo
  <2>3. u \in Short
    BY <1>1, <1>3, <2>1 DEF Short
  <2> QED BY <1>3, <2>1, <2>2, <2>3 DEF as_uint16, as_int16
<1> QED BY <1>2, <1>3

\* The cases of the conversions.
LEMMA Codec ==
  /\ Values("u8") = Byte /\ Values("u16") = Half /\ Values("i16") = Short /\ Values("u32") = Word
  /\ \A kind \in {"u8x13", "u8x33"} : Values(kind) = {b \in Seq(Byte) : Len(b) = Width(kind)}
  /\ \A v : /\ Encode("u8", v) = <<v>> /\ Encode("u16", v) = write_le_uint16(v)
            /\ Encode("i16", v) = write_le_uint16(as_uint16(v)) /\ Encode("u32", v) = write_le_uint32(v)
            /\ Encode("u8x13", v) = v /\ Encode("u8x33", v) = v
  /\ \A b : /\ Decode("u8", b) = b[1] /\ Decode("u16", b) = read_le_uint16(b)
            /\ Decode("i16", b) = as_int16(read_le_uint16(b)) /\ Decode("u32", b) = read_le_uint32(b)
            /\ Decode("u8x13", b) = b /\ Decode("u8x33", b) = b
<1>1. /\ Values("u8") = Byte /\ Values("u16") = Half /\ Values("i16") = Short /\ Values("u32") = Word
      /\ Values("u8x13") = {b \in Seq(Byte) : Len(b) = Width("u8x13")}
      /\ Values("u8x33") = {b \in Seq(Byte) : Len(b) = Width("u8x33")}
  BY Zenon DEF Values
<1>2. \A v : /\ Encode("u8", v) = <<v>> /\ Encode("u16", v) = write_le_uint16(v)
             /\ Encode("i16", v) = write_le_uint16(as_uint16(v)) /\ Encode("u32", v) = write_le_uint32(v)
             /\ Encode("u8x13", v) = v /\ Encode("u8x33", v) = v
  BY Zenon DEF Encode
<1>3. \A b : /\ Decode("u8", b) = b[1] /\ Decode("u16", b) = read_le_uint16(b)
             /\ Decode("i16", b) = as_int16(read_le_uint16(b)) /\ Decode("u32", b) = read_le_uint32(b)
             /\ Decode("u8x13", b) = b /\ Decode("u8x33", b) = b
  BY Zenon DEF Decode
<1>4. \A kind \in {"u8x13", "u8x33"} : Values(kind) = {b \in Seq(Byte) : Len(b) = Width(kind)}
  BY <1>1, Zenon
<1> QED BY <1>1, <1>2, <1>3, <1>4, Zenon

\* What is encoded is decoded.
LEMMA EncodeDecodes ==
  ASSUME NEW kind \in Kinds, NEW v \in Values(kind)
  PROVE  /\ Encode(kind, v) \in Seq(Byte) /\ Len(Encode(kind, v)) = Width(kind)
         /\ Decode(kind, Encode(kind, v)) = v
<1>1. CASE kind = "u8"
  <2>1. <<v>> \in Seq(Byte) /\ Len(<<v>>) = 1 /\ <<v>>[1] = v
    BY <1>1, Codec
  <2> QED BY <1>1, <2>1, Codec, Widths
<1>2. CASE kind = "u16"
  <2>1. v \in Half
    BY <1>2, Codec
  <2>2. Encode(kind, v) = write_le_uint16(v) /\ Decode(kind, Encode(kind, v)) = read_le_uint16(Encode(kind, v)) /\ Width(kind) = 2
    BY <1>2, Codec, Widths, Zenon
  <2> QED BY <2>1, <2>2, Uint16
<1>3. CASE kind = "i16"
  <2>1. as_uint16(v) \in Half /\ as_int16(as_uint16(v)) = v
    BY <1>3, AsUint16, Codec
  <2>2. /\ Encode(kind, v) = write_le_uint16(as_uint16(v)) /\ Width(kind) = 2
        /\ Decode(kind, Encode(kind, v)) = as_int16(read_le_uint16(Encode(kind, v)))
    BY <1>3, Codec, Widths, Zenon
  <2> QED BY <2>1, <2>2, Uint16
<1>4. CASE kind = "u32"
  <2>1. v \in Word
    BY <1>4, Codec
  <2>2. /\ Encode(kind, v) = write_le_uint32(v) /\ Width(kind) = 4
        /\ Decode(kind, Encode(kind, v)) = read_le_uint32(Encode(kind, v))
    BY <1>4, Codec, Widths, Zenon
  <2> QED BY <2>1, <2>2, Uint32
<1>5. CASE kind \in {"u8x13", "u8x33"}
  <2>1. v \in Seq(Byte) /\ Len(v) = Width(kind) /\ Encode(kind, v) = v /\ Decode(kind, v) = v
    BY <1>5, Codec
  <2> QED BY <2>1
<1> QED BY <1>1, <1>2, <1>3, <1>4, <1>5 DEF Kinds

\* What is decoded is encoded the same.
LEMMA DecodeEncodes ==
  ASSUME NEW kind \in Kinds, NEW b \in Seq(Byte), Len(b) = Width(kind)
  PROVE  Decode(kind, b) \in Values(kind) /\ Encode(kind, Decode(kind, b)) = b
<1>1. CASE kind = "u8"
  <2>1. Len(b) = 1
    BY <1>1, Widths
  <2>2. b[1] \in Byte /\ b = <<b[1]>>
    BY <2>1
  <2> QED BY <1>1, <2>2, Codec
<1>2. CASE kind = "u16"
  <2>1. Len(b) = 2
    BY <1>2, Widths
  <2> QED BY <1>2, <2>1, TwoBytes, Codec
<1>3. CASE kind = "i16"
  <2>1. Len(b) = 2
    BY <1>3, Widths
  <2>2. read_le_uint16(b) \in Half /\ write_le_uint16(read_le_uint16(b)) = b
    BY <2>1, TwoBytes
  <2> QED BY <1>3, <2>2, AsInt16, Codec
<1>4. CASE kind = "u32"
  <2>1. Len(b) = 4
    BY <1>4, Widths
  <2> QED BY <1>4, <2>1, FourBytes, Codec
<1>5. CASE kind \in {"u8x13", "u8x33"}
  <2>1. b \in Values(kind) /\ Encode(kind, b) = b /\ Decode(kind, b) = b
    BY <1>5, Codec
  <2> QED BY <2>1
<1> QED BY <1>1, <1>2, <1>3, <1>4, <1>5 DEF Kinds

-------------------------------------------------------------------------------

\* Layouts, and the records that can be written with one.
Field(N) == [name : N, kind : Kinds]
Distinct(layout) == \A j, k \in 1..Len(layout) : layout[j].name = layout[k].name => j = k
Typed(layout, r) == \A k \in 1..Len(layout) : r[layout[k].name] \in Values(layout[k].kind)
Size(layout) == Offset(layout, Len(layout) + 1)
Encoded(layout, r, k) == Encode(layout[k].kind, r[layout[k].name])

\* Where the first k fields of a layout end, for every k.
Ends(at, n, layout) ==
  /\ at \in [0..n -> Nat]
  /\ at[0] = 0
  /\ \A k \in 1..n : at[k] = at[k - 1] + Width(layout[k].kind)

LEMMA FieldIs ==
  ASSUME NEW N, NEW layout \in Seq(Field(N)), NEW k \in 1..Len(layout)
  PROVE  layout[k].kind \in Kinds /\ Width(layout[k].kind) \in Nat /\ Width(layout[k].kind) >= 1
<1>1. layout[k] \in Field(N)
  OBVIOUS
<1> QED BY <1>1, WidthIs DEF Field

LEMMA EndsExist ==
  ASSUME NEW N, NEW layout \in Seq(Field(N)), NEW n, n = Len(layout)
  PROVE  \E at : Ends(at, n, layout) /\ \A k \in 1..(n + 1) : Offset(layout, k) = at[k - 1]
<1> DEFINE at[j \in 0..Len(layout)] == IF j = 0 THEN 0 ELSE at[j - 1] + Width(layout[j].kind)
           R(g) == g = [j \in 0..Len(layout) |-> IF j = 0 THEN 0 ELSE g[j - 1] + Width(layout[j].kind)]
           w == [k \in 1..n |-> Width(layout[k].kind)]
           st == [k \in 1..n |-> [x \in Nat |-> x + w[k]]]
<1>1. at = CHOOSE g : R(g)
  OBVIOUS
<1>2. \A k : Offset(layout, k) = at[k - 1]
  BY DEF Offset
<1> HIDE DEF at, R, w, st
<1>3. n \in Nat /\ \A k \in 1..n : w[k] \in Nat /\ w[k] = Width(layout[k].kind)
  BY FieldIs DEF w
<1>4. /\ \A k \in 1..n : \A x \in Nat : st[k][x] = x + w[k]
      /\ \A k \in 1..n : \A x \in Nat : st[k][x] \in Nat
  <2>1. \A k \in 1..n : \A x \in Nat : st[k][x] = x + w[k]
    BY DEF st
  <2>2. ASSUME NEW k \in 1..n, NEW x \in Nat PROVE x + w[k] \in Nat
    BY <1>3
  <2>3. \A k \in 1..n : \A x \in Nat : st[k][x] \in Nat
    BY <2>1, <2>2
  <2> QED BY <2>1, <2>3
<1>5. PICK f : Iterates(f, n, Nat, 0, st)
  BY <1>3, <1>4, Recursion
<1>6. f \in [0..n -> Nat] /\ f[0] = 0 /\ \A k \in 1..n : f[k] = f[k - 1] + w[k]
  <2>1. f \in [0..n -> Nat] /\ f[0] = 0
    BY <1>5 DEF Iterates
  <2>2. ASSUME NEW k \in 1..n PROVE f[k] = f[k - 1] + w[k]
    <3>1. k - 1 \in 0..n
      BY <1>3
    <3>2. f[k - 1] \in Nat
      BY <2>1, <3>1
    <3> QED BY <1>4, <1>5, <3>2 DEF Iterates
  <2> QED BY <2>1, <2>2
<1>7. R(f)
  <2>1. \A j \in 0..Len(layout) : f[j] = IF j = 0 THEN 0 ELSE f[j - 1] + Width(layout[j].kind)
    BY <1>3, <1>6
  <2> QED BY <1>6, <2>1 DEF R
<1>8. R(at)
  BY <1>1, <1>7, Zenon
<1>9. at = [j \in 0..n |-> IF j = 0 THEN 0 ELSE at[j - 1] + Width(layout[j].kind)]
  BY <1>8, Zenon DEF R
<1>10. at[0] = 0 /\ \A k \in 1..n : at[k] = at[k - 1] + w[k]
  BY <1>3, <1>9
<1>11. \A k \in 0..n : at[k] \in Nat
  <2> DEFINE A == {k \in 0..n : at[k] \in Nat}
  <2>1. 0 \in A
    BY <1>3, <1>10
  <2>2. ASSUME NEW k \in 1..n, at[k - 1] \in Nat PROVE at[k] \in Nat
    BY <1>3, <1>10, <2>2
  <2>3. \A k \in 1..n : k - 1 \in A => k \in A
    BY <1>3, <2>2
  <2> HIDE DEF A
  <2>4. 0..n \subseteq A
    BY <1>3, <2>1, <2>3, UpTo
  <2> QED BY <2>4 DEF A
<1>12. at \in [0..n -> Nat]
  BY <1>9, <1>11
<1>13. Ends(at, n, layout)
  BY <1>3, <1>10, <1>12 DEF Ends
<1> QED BY <1>2, <1>13, Zenon

\* Fields follow each other and none is empty.
LEMMA EndsGrow ==
  ASSUME NEW N, NEW layout \in Seq(Field(N)), NEW n, n = Len(layout), NEW at, Ends(at, n, layout)
  PROVE  \A k \in 0..n : \A j \in 0..k : at[j] + (k - j) <= at[k] /\ at[j] <= at[k]
<1>1. n \in Nat /\ \A k \in 0..n : at[k] \in Nat
  BY DEF Ends
<1> DEFINE A == {k \in 0..n : \A j \in 0..k : at[j] + (k - j) <= at[k]}
<1>2. 0 \in A
  BY <1>1
<1>3. ASSUME NEW k \in 1..n, \A j \in 0..(k - 1) : at[j] + (k - 1 - j) <= at[k - 1]
      PROVE  \A j \in 0..k : at[j] + (k - j) <= at[k]
  <2>1. at[k] = at[k - 1] + Width(layout[k].kind) /\ Width(layout[k].kind) >= 1 /\ Width(layout[k].kind) \in Nat
    BY FieldIs DEF Ends
  <2>2. at[k - 1] \in Nat /\ at[k] \in Nat
    BY <1>1
  <2> SUFFICES ASSUME NEW j \in 0..k PROVE at[j] + (k - j) <= at[k]
    OBVIOUS
  <2>3. CASE j = k
    BY <2>2, <2>3
  <2>4. CASE j \in 0..(k - 1)
    <3>1. at[j] + (k - 1 - j) <= at[k - 1] /\ at[j] \in Nat
      BY <1>1, <1>3, <2>4
    <3> QED BY <2>1, <2>2, <3>1
  <2> QED BY <2>3, <2>4
<1>4. \A k \in 1..n : k - 1 \in A => k \in A
  BY <1>1, <1>3
<1>5. 0..n \subseteq A
  <2> HIDE DEF A
  <2> QED BY <1>1, <1>2, <1>4, UpTo
<1>6. ASSUME NEW k \in 0..n, NEW j \in 0..k PROVE at[j] + (k - j) <= at[k] /\ at[j] <= at[k]
  <2>1. at[j] + (k - j) <= at[k]
    BY <1>5
  <2>2. j \in 0..n
    BY <1>1
  <2>3. at[j] \in Nat /\ at[k] \in Nat
    BY <1>1, <2>2
  <2> QED BY <2>1, <2>3
<1> QED BY <1>6

\* The string after each field, for every field.
Outs(out, n, layout, r) ==
  /\ out \in [0..n -> Seq(Byte)]
  /\ out[0] = <<>>
  /\ \A k \in 1..n : out[k] = out[k - 1] \o Encoded(layout, r, k)

LEMMA EncodedIs ==
  ASSUME NEW N, NEW layout \in Seq(Field(N)), NEW r, Typed(layout, r), NEW k \in 1..Len(layout)
  PROVE  /\ Encoded(layout, r, k) \in Seq(Byte)
         /\ Len(Encoded(layout, r, k)) = Width(layout[k].kind)
         /\ Decode(layout[k].kind, Encoded(layout, r, k)) = r[layout[k].name]
<1>1. layout[k].kind \in Kinds /\ r[layout[k].name] \in Values(layout[k].kind)
  BY FieldIs DEF Typed
<1> QED BY <1>1, EncodeDecodes DEF Encoded

LEMMA OutsExist ==
  ASSUME NEW N, NEW layout \in Seq(Field(N)), NEW r, Typed(layout, r), NEW n, n = Len(layout)
  PROVE  \E out : Outs(out, n, layout, r) /\ Put(layout, r) = out[n]
<1> DEFINE out[k \in 0..Len(layout)] ==
             IF k = 0 THEN <<>> ELSE out[k - 1] \o Encode(layout[k].kind, r[layout[k].name])
           R(g) == g = [k \in 0..Len(layout) |->
                          IF k = 0 THEN <<>> ELSE g[k - 1] \o Encode(layout[k].kind, r[layout[k].name])]
           e == [k \in 1..n |-> Encoded(layout, r, k)]
           st == [k \in 1..n |-> [x \in Seq(Byte) |-> x \o e[k]]]
<1>1. out = CHOOSE g : R(g)
  OBVIOUS
<1>2. Put(layout, r) = out[n]
  BY DEF Put
<1> HIDE DEF out, R, e, st
<1>3. /\ n \in Nat /\ <<>> \in Seq(Byte)
      /\ \A k \in 1..n : e[k] \in Seq(Byte) /\ e[k] = Encoded(layout, r, k)
  BY EncodedIs DEF e
<1>4. /\ \A k \in 1..n : \A x \in Seq(Byte) : st[k][x] = x \o e[k]
      /\ \A k \in 1..n : \A x \in Seq(Byte) : st[k][x] \in Seq(Byte)
  <2>1. \A k \in 1..n : \A x \in Seq(Byte) : st[k][x] = x \o e[k]
    BY DEF st
  <2>2. ASSUME NEW k \in 1..n, NEW x \in Seq(Byte) PROVE x \o e[k] \in Seq(Byte)
    BY <1>3
  <2>3. \A k \in 1..n : \A x \in Seq(Byte) : st[k][x] \in Seq(Byte)
    BY <2>1, <2>2
  <2> QED BY <2>1, <2>3
<1>5. PICK f : Iterates(f, n, Seq(Byte), <<>>, st)
  BY <1>3, <1>4, Recursion
<1>6. f \in [0..n -> Seq(Byte)] /\ f[0] = <<>> /\ \A k \in 1..n : f[k] = f[k - 1] \o e[k]
  <2>1. f \in [0..n -> Seq(Byte)] /\ f[0] = <<>>
    BY <1>5 DEF Iterates
  <2>2. ASSUME NEW k \in 1..n PROVE f[k] = f[k - 1] \o e[k]
    <3>1. k - 1 \in 0..n
      BY <1>3
    <3>2. f[k - 1] \in Seq(Byte)
      BY <2>1, <3>1
    <3>3. f[k] = st[k][f[k - 1]]
      BY <1>5 DEF Iterates
    <3> QED BY <1>4, <3>2, <3>3
  <2> QED BY <2>1, <2>2
<1>7. \A k \in 1..n : e[k] = Encode(layout[k].kind, r[layout[k].name])
  BY <1>3 DEF Encoded
<1>8. R(f)
  <2>1. \A k \in 0..Len(layout) :
          f[k] = IF k = 0 THEN <<>> ELSE f[k - 1] \o Encode(layout[k].kind, r[layout[k].name])
    <3>1. \A k \in 0..Len(layout) : k # 0 => k \in 1..n
      BY <1>3
    <3> QED BY <1>6, <1>7, <3>1, Zenon
  <2> QED BY <1>6, <2>1 DEF R
<1>9. R(out)
  BY <1>1, <1>8, Zenon
<1>10. out = [k \in 0..n |-> IF k = 0 THEN <<>> ELSE out[k - 1] \o Encode(layout[k].kind, r[layout[k].name])]
  BY <1>9, Zenon DEF R
<1>11. out[0] = <<>> /\ \A k \in 1..n : out[k] = out[k - 1] \o e[k]
  <2>1. 0 \in 0..n
    BY <1>3
  <2>2. out[0] = <<>>
    BY <1>10, <2>1, Zenon
  <2>3. ASSUME NEW k \in 1..n PROVE out[k] = out[k - 1] \o e[k]
    <3>1. k \in 0..n /\ k # 0
      BY <1>3
    <3>2. out[k] = out[k - 1] \o Encode(layout[k].kind, r[layout[k].name])
      BY <1>10, <3>1, Zenon
    <3> QED BY <1>7, <3>2, Zenon
  <2> QED BY <2>2, <2>3, Zenon
<1>12. \A k \in 0..n : out[k] \in Seq(Byte)
  <2> DEFINE A == {k \in 0..n : out[k] \in Seq(Byte)}
  <2>1. 0 \in A
    <3>1. out[0] \in Seq(Byte)
      BY <1>3, <1>11, Zenon
    <3>2. 0 \in 0..n
      BY <1>3
    <3> QED BY <3>1, <3>2
  <2>2. ASSUME NEW k \in 1..n, out[k - 1] \in Seq(Byte) PROVE out[k] \in Seq(Byte)
    <3>1. out[k] = out[k - 1] \o e[k] /\ e[k] \in Seq(Byte)
      BY <1>3, <1>11
    <3> QED BY <2>2, <3>1, ConcatProperties
  <2>3. \A k \in 1..n : k - 1 \in A => k \in A
    BY <1>3, <2>2
  <2> HIDE DEF A
  <2>4. 0..n \subseteq A
    BY <1>3, <2>1, <2>3, UpTo
  <2> QED BY <2>4 DEF A
<1>13. out \in [0..n -> Seq(Byte)]
  BY <1>10, <1>12
<1>14. Outs(out, n, layout, r)
  BY <1>3, <1>11, <1>13 DEF Outs
<1> QED BY <1>2, <1>14, Zenon

\* What is written has each field in its place.
LEMMA PutFields ==
  ASSUME NEW N, NEW layout \in Seq(Field(N)), NEW r, Typed(layout, r)
  PROVE  /\ Put(layout, r) \in Seq(Byte) /\ Len(Put(layout, r)) = Size(layout)
         /\ \A k \in 1..Len(layout) :
              Slice(Put(layout, r), Offset(layout, k), Offset(layout, k + 1)) = Encoded(layout, r, k)
<1>1. PICK n \in Nat : n = Len(layout)
  OBVIOUS
<1>2. PICK at : Ends(at, n, layout) /\ \A k \in 1..(n + 1) : Offset(layout, k) = at[k - 1]
  BY <1>1, EndsExist
<1>3. PICK out : Outs(out, n, layout, r) /\ Put(layout, r) = out[n]
  BY <1>1, OutsExist
<1>4. /\ \A k \in 0..n : at[k] \in Nat /\ out[k] \in Seq(Byte)
      /\ at[0] = 0 /\ out[0] = <<>>
      /\ \A k \in 1..n : at[k] = at[k - 1] + Width(layout[k].kind) /\ out[k] = out[k - 1] \o Encoded(layout, r, k)
  BY <1>2, <1>3 DEF Ends, Outs
<1>5. \A k \in 0..n : \A j \in 0..k : at[j] <= at[k]
  BY <1>1, <1>2, EndsGrow
<1> DEFINE P(m) == /\ Len(out[m]) = at[m]
                   /\ \A k \in 1..m : Slice(out[m], at[k - 1], at[k]) = Encoded(layout, r, k)
           A == {m \in 0..n : P(m)}
<1>6. 0 \in A
  BY <1>4
<1>7. ASSUME NEW m \in 1..n, P(m - 1) PROVE P(m)
  <2>1. PICK e : e = Encoded(layout, r, m)
    OBVIOUS
  <2>2. e \in Seq(Byte) /\ Len(e) = Width(layout[m].kind)
    BY <1>1, <2>1, EncodedIs
  <2>3. m - 1 \in 0..n /\ out[m - 1] \in Seq(Byte) /\ Len(out[m - 1]) = at[m - 1] /\ at[m - 1] \in Nat
    BY <1>4, <1>7
  <2>4. out[m] = out[m - 1] \o e /\ at[m] = at[m - 1] + Len(e)
    BY <1>4, <2>1, <2>2
  <2>5. /\ Len(out[m]) = at[m] /\ Slice(out[m], at[m - 1], at[m]) = e
    <3>1. PICK f, x, y : f = out[m - 1] /\ x = at[m - 1] /\ y = at[m]
      OBVIOUS
    <3>2. f \in Seq(Byte) /\ x = Len(f) /\ y = x + Len(e)
      BY <2>3, <2>4, <3>1
    <3>3. Len(f \o e) = y /\ Slice(f \o e, x, y) = e
      BY <2>2, <3>2, ConcatIs
    <3> QED BY <2>4, <3>1, <3>3
  <2>6. ASSUME NEW k \in 1..(m - 1) PROVE Slice(out[m], at[k - 1], at[k]) = Encoded(layout, r, k)
    <3>1. PICK f, x, y : f = out[m - 1] /\ x = at[k - 1] /\ y = at[k]
      OBVIOUS
    <3>2. k \in 1..n /\ k - 1 \in 0..n /\ k \in 0..n /\ k - 1 \in 0..k /\ k \in 0..(m - 1)
      BY <1>1
    <3>3. x \in Nat /\ y \in Nat /\ x <= y /\ y <= at[m - 1]
      BY <1>4, <1>5, <2>3, <3>1, <3>2
    <3>4. y \in 0..Len(f) /\ x \in 0..y
      BY <2>3, <3>1, <3>3
    <3>5. f \in Seq(Byte) /\ Slice(f, x, y) = Encoded(layout, r, k)
      BY <1>7, <2>3, <3>1
    <3>6. Slice(f \o e, x, y) = Slice(f, x, y)
      BY <2>2, <3>4, <3>5, SlicesOfConcat
    <3> QED BY <2>4, <3>1, <3>5, <3>6
  <2>7. \A k \in 1..m : k = m \/ k \in 1..(m - 1)
    BY <1>1
  <2> QED BY <2>1, <2>5, <2>6, <2>7
<1>8. \A m \in 1..n : m - 1 \in A => m \in A
  BY <1>1, <1>7
<1>9. 0..n \subseteq A
  <2> HIDE DEF A
  <2> QED BY <1>1, <1>6, <1>8, UpTo
<1>10. P(n)
  BY <1>1, <1>9
<1>11. Put(layout, r) \in Seq(Byte)
  BY <1>1, <1>3, <1>4
<1>12. Len(Put(layout, r)) = Size(layout)
  <2>1. n + 1 \in 1..(n + 1) /\ (n + 1) - 1 = n
    BY <1>1
  <2>2. Offset(layout, n + 1) = at[n]
    BY <1>2, <2>1
  <2> QED BY <1>1, <1>3, <1>10, <2>2 DEF Size
<1>13. ASSUME NEW k \in 1..n
       PROVE  Slice(Put(layout, r), Offset(layout, k), Offset(layout, k + 1)) = Encoded(layout, r, k)
  <2>1. k \in 1..(n + 1) /\ k + 1 \in 1..(n + 1) /\ (k + 1) - 1 = k
    BY <1>1
  <2>2. Offset(layout, k) = at[k - 1] /\ Offset(layout, k + 1) = at[k]
    BY <1>2, <2>1
  <2> QED BY <1>3, <1>10, <2>2
<1> QED BY <1>1, <1>11, <1>12, <1>13

\* Nothing else has each field in its place.
LEMMA PutIsOnly ==
  ASSUME NEW N, NEW layout \in Seq(Field(N)), NEW r, Typed(layout, r), NEW buf \in Seq(Byte), Len(buf) = Size(layout),
         \A k \in 1..Len(layout) :
           Slice(buf, Offset(layout, k), Offset(layout, k + 1)) = Encoded(layout, r, k)
  PROVE  buf = Put(layout, r)
<1>1. PICK n \in Nat : n = Len(layout)
  OBVIOUS
<1>2. PICK at : Ends(at, n, layout) /\ \A k \in 1..(n + 1) : Offset(layout, k) = at[k - 1]
  BY <1>1, EndsExist
<1>3. PICK out : Outs(out, n, layout, r) /\ Put(layout, r) = out[n]
  BY <1>1, OutsExist
<1>4. /\ \A k \in 0..n : at[k] \in Nat
      /\ at[0] = 0 /\ out[0] = <<>>
      /\ \A k \in 1..n : out[k] = out[k - 1] \o Encoded(layout, r, k)
  BY <1>2, <1>3 DEF Ends, Outs
<1>5. \A k \in 0..n : \A j \in 0..k : at[j] <= at[k]
  BY <1>1, <1>2, EndsGrow
<1>6. Len(buf) = at[n]
  <2>1. n + 1 \in 1..(n + 1) /\ (n + 1) - 1 = n
    BY <1>1
  <2> QED BY <1>1, <1>2, <2>1 DEF Size
<1>7. \A k \in 1..n : Slice(buf, at[k - 1], at[k]) = Encoded(layout, r, k)
  <2> SUFFICES ASSUME NEW k \in 1..n PROVE Slice(buf, at[k - 1], at[k]) = Encoded(layout, r, k)
    OBVIOUS
  <2>1. k \in 1..(n + 1) /\ k + 1 \in 1..(n + 1) /\ (k + 1) - 1 = k
    BY <1>1
  <2>2. Offset(layout, k) = at[k - 1] /\ Offset(layout, k + 1) = at[k]
    BY <1>2, <2>1
  <2> QED BY <1>1, <2>2
<1> DEFINE A == {m \in 0..n : out[m] = Slice(buf, 0, at[m])}
<1>8. 0 \in A
  <2>1. Slice(buf, 0, 0) = <<>>
    <3>1. 0 < 0 + 1 /\ 0 + 1 \in Int /\ 0 \in Int
      OBVIOUS
    <3> QED BY <3>1, SubSeqEmpty DEF Slice
  <2> QED BY <1>1, <1>4, <2>1
<1>9. ASSUME NEW m \in 1..n, out[m - 1] = Slice(buf, 0, at[m - 1]) PROVE out[m] = Slice(buf, 0, at[m])
  <2>1. PICK x, y : x = at[m - 1] /\ y = at[m]
    OBVIOUS
  <2>2. m - 1 \in 0..n /\ m \in 0..n /\ n \in 0..n /\ m - 1 \in 0..m /\ m \in 0..n
    BY <1>1
  <2>3. x \in Nat /\ y \in Nat /\ x <= y /\ y <= Len(buf)
    BY <1>4, <1>5, <1>6, <2>1, <2>2
  <2>4. Slice(buf, 0, x) \o Slice(buf, x, y) = Slice(buf, 0, y)
    <3>1. 0 \in Nat /\ 0 <= x
      BY <2>3
    <3> QED BY <2>3, <3>1, SlicesJoin
  <2> QED BY <1>4, <1>7, <1>9, <2>1, <2>4
<1>10. \A m \in 1..n : m - 1 \in A => m \in A
  BY <1>1, <1>9
<1>11. 0..n \subseteq A
  <2> HIDE DEF A
  <2> QED BY <1>1, <1>8, <1>10, UpTo
<1>12. out[n] = Slice(buf, 0, at[n])
  BY <1>1, <1>11
<1> QED BY <1>3, <1>6, <1>12, WholeSlice

-------------------------------------------------------------------------------

Names(layout) == {layout[k].name : k \in DOMAIN layout}

\* Fields end where the next one starts, all of them inside the string.
LEMMA FieldPlace ==
  ASSUME NEW N, NEW layout \in Seq(Field(N)), NEW k \in 1..Len(layout)
  PROVE  /\ Offset(layout, k) \in Nat /\ Size(layout) \in Nat
         /\ Offset(layout, k + 1) = Offset(layout, k) + Width(layout[k].kind)
         /\ Offset(layout, k) + Width(layout[k].kind) <= Size(layout)
<1>1. PICK n \in Nat : n = Len(layout)
  OBVIOUS
<1>2. PICK at : Ends(at, n, layout) /\ \A i \in 1..(n + 1) : Offset(layout, i) = at[i - 1]
  BY <1>1, EndsExist
<1>3. /\ k \in 1..(n + 1) /\ k + 1 \in 1..(n + 1) /\ (k + 1) - 1 = k /\ k \in 0..n /\ n \in 0..n /\ k \in 1..n
      /\ n + 1 \in 1..(n + 1) /\ (n + 1) - 1 = n /\ k - 1 \in 0..n
  BY <1>1
<1>4. Offset(layout, k) = at[k - 1] /\ Offset(layout, k + 1) = at[k] /\ Size(layout) = at[n]
  BY <1>1, <1>2, <1>3 DEF Size
<1>5. at[k] <= at[n]
  BY <1>1, <1>2, <1>3, EndsGrow
<1>6. at[k - 1] \in Nat /\ at[n] \in Nat /\ at[k] = at[k - 1] + Width(layout[k].kind)
  BY <1>2, <1>3 DEF Ends
<1> QED BY <1>4, <1>5, <1>6

\* What a reader makes of one field.
LEMMA GetField ==
  ASSUME NEW N, NEW layout \in Seq(Field(N)), Distinct(layout), NEW buf, NEW from, NEW k \in 1..Len(layout)
  PROVE  Get(layout, buf, from)[layout[k].name] =
           Decode(layout[k].kind, Slice(buf, from + Offset(layout, k),
                                        from + Offset(layout, k) + Width(layout[k].kind)))
<1> DEFINE name == layout[k].name
           P(j) == layout[j].name = name
<1>1. DOMAIN layout = 1..Len(layout)
  OBVIOUS
<1>2. name \in {layout[i].name : i \in DOMAIN layout}
  BY <1>1
<1>3. (CHOOSE j \in DOMAIN layout : layout[j].name = name) = k
  BY <1>1 DEF Distinct
<1> HIDE DEF name
<1>4. Get(layout, buf, from)[name] =
        Decode(layout[k].kind, Slice(buf, from + Offset(layout, k),
                                     from + Offset(layout, k) + Width(layout[k].kind)))
  BY <1>2, <1>3 DEF Get
<1> QED BY <1>4 DEF name

\* What is written is read.
LEMMA GetPut ==
  ASSUME NEW N, NEW layout \in Seq(Field(N)), Distinct(layout), NEW r, Typed(layout, r),
         NEW buf \in Seq(Byte), NEW from \in Nat, from + Size(layout) <= Len(buf),
         Slice(buf, from, from + Size(layout)) = Put(layout, r)
  PROVE  Get(layout, buf, from) = [name \in Names(layout) |-> r[name]]
<1>1. ASSUME NEW k \in 1..Len(layout)
      PROVE  Get(layout, buf, from)[layout[k].name] = r[layout[k].name]
  <2>1. PICK x, y, z : x = Offset(layout, k) /\ y = x + Width(layout[k].kind) /\ z = Size(layout)
    OBVIOUS
  <2>2. x \in Nat /\ y = Offset(layout, k + 1) /\ y \in Nat /\ x <= y /\ y <= z /\ z \in Nat
    BY <2>1, FieldPlace, FieldIs
  <2>3. Slice(Put(layout, r), x, y) = Encoded(layout, r, k)
    BY <2>1, <2>2, PutFields
  <2>4. Slice(Slice(buf, from, from + z), x, y) = Slice(buf, from + x, from + y)
    <3>1. PICK e : e = from + z
      OBVIOUS
    <3>2. e \in from..Len(buf) /\ x \in 0..(e - from) /\ y \in x..(e - from)
      BY <2>1, <2>2, <3>1
    <3> QED BY <3>1, <3>2, SliceOfSlice
  <2>5. from + x + Width(layout[k].kind) = from + y
    <3>1. Width(layout[k].kind) \in Nat
      BY FieldIs
    <3> QED BY <2>1, <2>2, <3>1
  <2>6. Get(layout, buf, from)[layout[k].name] = Decode(layout[k].kind, Slice(buf, from + x, from + y))
    BY <2>1, <2>5, GetField
  <2> QED BY <2>1, <2>3, <2>4, <2>6, EncodedIs
<1>2. \A name \in Names(layout) : Get(layout, buf, from)[name] = r[name]
  <2>1. DOMAIN layout = 1..Len(layout)
    OBVIOUS
  <2> QED BY <1>1, <2>1 DEF Names
<1>3. PICK g : g = Get(layout, buf, from)
  OBVIOUS
<1>4. g = [name \in Names(layout) |-> g[name]]
  BY <1>3 DEF Get, Names
<1> QED BY <1>2, <1>3, <1>4

\* What is read is written the same.
LEMMA PutGet ==
  ASSUME NEW N, NEW layout \in Seq(Field(N)), Distinct(layout), NEW buf \in Seq(Byte), Size(layout) <= Len(buf)
  PROVE  /\ Typed(layout, Get(layout, buf, 0))
         /\ Put(layout, Get(layout, buf, 0)) = Slice(buf, 0, Size(layout))
<1>1. PICK r : r = Get(layout, buf, 0)
  OBVIOUS
<1>2. PICK z : z = Size(layout)
  OBVIOUS
<1>3. ASSUME NEW k \in 1..Len(layout)
      PROVE  /\ r[layout[k].name] \in Values(layout[k].kind)
             /\ Encoded(layout, r, k) = Slice(buf, Offset(layout, k), Offset(layout, k + 1))
             /\ Offset(layout, k) \in Nat /\ Offset(layout, k + 1) \in Nat /\ z \in Nat
             /\ Offset(layout, k) <= Offset(layout, k + 1) /\ Offset(layout, k + 1) <= z
  <2>1. PICK x, y, w : x = Offset(layout, k) /\ y = Offset(layout, k + 1) /\ w = Width(layout[k].kind)
    OBVIOUS
  <2>2. x \in Nat /\ w \in Nat /\ y = x + w /\ y <= z /\ z \in Nat /\ layout[k].kind \in Kinds
    BY <1>2, <2>1, FieldPlace, FieldIs
  <2>3. y \in x..Len(buf) /\ y - x = w /\ 0 + x = x /\ y \in Nat /\ x <= y
    BY <1>2, <2>2
  <2>4. Slice(buf, x, y) \in Seq(Byte) /\ Len(Slice(buf, x, y)) = w
    BY <2>2, <2>3, SliceIs
  <2>5. r[layout[k].name] = Decode(layout[k].kind, Slice(buf, x, y))
    <3>1. r[layout[k].name] = Decode(layout[k].kind, Slice(buf, 0 + x, 0 + x + w))
      BY <1>1, <2>1, GetField
    <3> QED BY <2>2, <2>3, <3>1
  <2>6. r[layout[k].name] \in Values(layout[k].kind) /\ Encoded(layout, r, k) = Slice(buf, x, y)
    BY <2>1, <2>2, <2>4, <2>5, DecodeEncodes DEF Encoded
  <2> QED BY <2>1, <2>2, <2>3, <2>6
<1>4. Typed(layout, r)
  BY <1>3 DEF Typed
<1>5. z \in Nat
  <2>1. PICK at, n : n = Len(layout) /\ Ends(at, n, layout) /\ \A i \in 1..(n + 1) : Offset(layout, i) = at[i - 1]
    BY EndsExist
  <2>2. n \in Nat /\ n + 1 \in 1..(n + 1) /\ (n + 1) - 1 = n /\ n \in 0..n
    BY <2>1
  <2>3. at[n] \in Nat
    BY <2>1, <2>2 DEF Ends
  <2> QED BY <1>2, <2>1, <2>2, <2>3 DEF Size
<1>6. PICK s : s = Slice(buf, 0, z)
  OBVIOUS
<1>7. s \in Seq(Byte) /\ Len(s) = z
  <2>1. 0 \in Nat /\ z \in 0..Len(buf) /\ z - 0 = z
    BY <1>2, <1>5
  <2> QED BY <1>6, <2>1, SliceIs
<1>8. ASSUME NEW k \in 1..Len(layout)
      PROVE  Slice(s, Offset(layout, k), Offset(layout, k + 1)) = Encoded(layout, r, k)
  <2>1. PICK x, y : x = Offset(layout, k) /\ y = Offset(layout, k + 1)
    OBVIOUS
  <2>2. x \in Nat /\ y \in Nat /\ x <= y /\ y <= z /\ Encoded(layout, r, k) = Slice(buf, x, y)
    BY <1>3, <2>1
  <2>3. z \in 0..Len(buf) /\ 0 \in Nat /\ x \in 0..(z - 0) /\ y \in x..(z - 0) /\ 0 + x = x /\ 0 + y = y
    BY <1>2, <1>5, <2>2
  <2>4. Slice(s, x, y) = Slice(buf, 0 + x, 0 + y)
    BY <1>6, <2>3, SliceOfSlice
  <2> QED BY <2>1, <2>2, <2>3, <2>4
<1>9. s = Put(layout, r)
  BY <1>2, <1>4, <1>7, <1>8, PutIsOnly
<1> QED BY <1>1, <1>2, <1>4, <1>6, <1>9

-------------------------------------------------------------------------------

\* A layout after another one.
LEMMA ConcatLayout ==
  ASSUME NEW N, NEW l \in Seq(Field(N)), NEW m \in Seq(Field(N))
  PROVE  /\ l \o m \in Seq(Field(N)) /\ Len(l \o m) = Len(l) + Len(m)
         /\ \A k \in 1..Len(l) : (l \o m)[k] = l[k]
         /\ \A k \in 1..Len(m) : (l \o m)[Len(l) + k] = m[k]
BY ConcatProperties

\* The fields of the second layout start where the first one ends.
LEMMA SizeConcat ==
  ASSUME NEW N, NEW l \in Seq(Field(N)), NEW m \in Seq(Field(N))
  PROVE  Size(l \o m) = Size(l) + Size(m) /\ Size(l) \in Nat /\ Size(m) \in Nat
<1>1. PICK h : h = l \o m
  OBVIOUS
<1>2. PICK p \in Nat, q \in Nat, n \in Nat : p = Len(l) /\ q = Len(m) /\ n = p + q
  OBVIOUS
<1>3. /\ h \in Seq(Field(N)) /\ n = Len(h)
      /\ \A k \in 1..p : h[k] = l[k]
      /\ \A j \in 1..q : h[p + j] = m[j]
  BY <1>1, <1>2, ConcatLayout
<1>4. PICK a : Ends(a, p, l) /\ \A k \in 1..(p + 1) : Offset(l, k) = a[k - 1]
  BY <1>2, EndsExist
<1>5. PICK b : Ends(b, q, m) /\ \A k \in 1..(q + 1) : Offset(m, k) = b[k - 1]
  BY <1>2, EndsExist
<1>6. PICK c : Ends(c, n, h) /\ \A k \in 1..(n + 1) : Offset(h, k) = c[k - 1]
  BY <1>3, EndsExist
<1>7. /\ Size(l) = a[p] /\ Size(m) = b[q] /\ Size(h) = c[n]
  <2>1. /\ p + 1 \in 1..(p + 1) /\ (p + 1) - 1 = p /\ q + 1 \in 1..(q + 1) /\ (q + 1) - 1 = q
        /\ n + 1 \in 1..(n + 1) /\ (n + 1) - 1 = n
    OBVIOUS
  <2> QED BY <1>2, <1>3, <1>4, <1>5, <1>6, <2>1 DEF Size
<1> DEFINE A == {k \in 0..p : c[k] = a[k]}
           After(k) == c[p + k] = a[p] + b[k]
           B == {k \in 0..q : After(k)}
<1>8. /\ \A k \in 0..p : a[k] \in Nat
      /\ \A j \in 0..q : b[j] \in Nat
      /\ a[0] = 0 /\ b[0] = 0 /\ c[0] = 0
  BY <1>4, <1>5, <1>6 DEF Ends
<1>9. p \in A
  <2>1. ASSUME NEW k \in 1..p, c[k - 1] = a[k - 1] PROVE c[k] = a[k]
    <3>1. k \in 1..n /\ h[k] = l[k]
      BY <1>2, <1>3, SMTT(25)
    <3> QED BY <1>4, <1>6, <2>1, <3>1 DEF Ends
  <2>2. 0 \in A /\ \A k \in 1..p : k - 1 \in A => k \in A
    BY <1>8, <2>1
  <2>3. 0..p \subseteq A
    <3> HIDE DEF A
    <3> QED BY <2>2, UpTo
  <2> QED BY <2>3
<1>10. q \in B
  <2>1. ASSUME NEW k \in 1..q, After(k - 1) PROVE After(k)
    <3>1. PICK j : j = p + k
      OBVIOUS
    <3>2. j \in 1..n /\ j - 1 = p + (k - 1) /\ h[j] = m[k]
      <4>1. j \in 1..n /\ j - 1 = p + (k - 1)
        BY <1>2, <3>1
      <4> QED BY <1>3, <3>1, <4>1
    <3>3. c[j] = c[j - 1] + Width(m[k].kind) /\ b[k] = b[k - 1] + Width(m[k].kind)
      BY <1>5, <1>6, <3>2 DEF Ends
    <3>4. a[p] \in Nat /\ b[k - 1] \in Nat /\ Width(m[k].kind) \in Nat
      <4>1. k \in 1..Len(m) /\ k - 1 \in 0..q /\ p \in 0..p
        BY <1>2
      <4>2. Width(m[k].kind) \in Nat
        BY <4>1, FieldIs
      <4> QED BY <1>8, <4>1, <4>2
    <3> QED BY <2>1, <3>1, <3>2, <3>3, <3>4, SMTT(25)
  <2>2. 0 \in B
    <3>1. p + 0 = p /\ a[p] + 0 = a[p] /\ 0 \in 0..q
      BY <1>8
    <3>2. c[p] = a[p]
      BY <1>9
    <3>3. c[p + 0] = a[p] + b[0]
      BY <1>8, <3>1, <3>2, Zenon
    <3> QED BY <3>1, <3>3
  <2>3. \A k \in 1..q : k - 1 \in B => k \in B
    <3> HIDE DEF After
    <3> QED BY <2>1
  <2>4. 0..q \subseteq B
    <3> HIDE DEF B
    <3> QED BY <2>2, <2>3, UpTo
  <2> HIDE DEF B
  <2>5. q \in 0..q
    OBVIOUS
  <2> QED BY <2>4, <2>5
<1> QED BY <1>1, <1>2, <1>7, <1>8, <1>10

\* What is written with a layout after another one.
LEMMA PutConcat ==
  ASSUME NEW N, NEW l \in Seq(Field(N)), NEW m \in Seq(Field(N)), NEW r, Typed(l, r), Typed(m, r)
  PROVE  Typed(l \o m, r) /\ Put(l \o m, r) = Put(l, r) \o Put(m, r)
<1>1. PICK h : h = l \o m
  OBVIOUS
<1>2. PICK p \in Nat, q \in Nat, n \in Nat : p = Len(l) /\ q = Len(m) /\ n = p + q
  OBVIOUS
<1>3. /\ h \in Seq(Field(N)) /\ n = Len(h)
      /\ \A k \in 1..p : h[k] = l[k]
      /\ \A j \in 1..q : h[p + j] = m[j]
  BY <1>1, <1>2, ConcatLayout
<1>4. Typed(h, r)
  <2>1. ASSUME NEW k \in 1..n PROVE r[h[k].name] \in Values(h[k].kind)
    <3>1. CASE k \in 1..p
      BY <1>2, <1>3, <3>1 DEF Typed
    <3>2. CASE k \notin 1..p
      <4>1. PICK j \in 1..q : k = p + j
        <5>1. k - p \in 1..q /\ k = p + (k - p)
          BY <1>2, <3>2
        <5> QED BY <5>1
      <4> QED BY <1>2, <1>3, <4>1 DEF Typed
    <3> QED BY <3>1, <3>2
  <2> QED BY <1>3, <2>1 DEF Typed
<1>5. PICK a : Outs(a, p, l, r) /\ Put(l, r) = a[p]
  BY <1>2, OutsExist
<1>6. PICK b : Outs(b, q, m, r) /\ Put(m, r) = b[q]
  BY <1>2, OutsExist
<1>7. PICK c : Outs(c, n, h, r) /\ Put(h, r) = c[n]
  BY <1>3, <1>4, OutsExist
<1> DEFINE A == {k \in 0..p : c[k] = a[k]}
           After(k) == c[p + k] = a[p] \o b[k]
           B == {k \in 0..q : After(k)}
<1>8. /\ \A k \in 0..p : a[k] \in Seq(Byte)
      /\ \A j \in 0..q : b[j] \in Seq(Byte)
      /\ a[0] = <<>> /\ b[0] = <<>> /\ c[0] = <<>>
  BY <1>5, <1>6, <1>7 DEF Outs
<1>9. p \in A
  <2>1. ASSUME NEW k \in 1..p, c[k - 1] = a[k - 1] PROVE c[k] = a[k]
    <3>1. k \in 1..n /\ Encoded(h, r, k) = Encoded(l, r, k)
      BY <1>2, <1>3 DEF Encoded
    <3> QED BY <1>5, <1>7, <2>1, <3>1 DEF Outs
  <2>2. 0 \in A /\ \A k \in 1..p : k - 1 \in A => k \in A
    BY <1>8, <2>1
  <2>3. 0..p \subseteq A
    <3> HIDE DEF A
    <3> QED BY <2>2, UpTo
  <2> QED BY <2>3
<1>10. q \in B
  <2>1. ASSUME NEW k \in 1..q, After(k - 1) PROVE After(k)
    <3>1. PICK j : j = p + k
      OBVIOUS
    <3>2. j \in 1..n /\ j - 1 = p + (k - 1) /\ h[j] = m[k]
      <4>1. j \in 1..n /\ j - 1 = p + (k - 1)
        BY <1>2, <3>1
      <4> QED BY <1>3, <3>1, <4>1
    <3>3. PICK e : e = Encoded(m, r, k)
      OBVIOUS
    <3>4. Encoded(h, r, j) = e
      BY <3>2, <3>3 DEF Encoded
    <3>5. c[j] = c[j - 1] \o e /\ b[k] = b[k - 1] \o e
      BY <1>6, <1>7, <3>2, <3>3, <3>4 DEF Outs
    <3>6. e \in Seq(Byte)
      BY <1>2, <3>3, EncodedIs
    <3>7. PICK x, y : x = a[p] /\ y = b[k - 1]
      OBVIOUS
    <3>8. x \in Seq(Byte) /\ y \in Seq(Byte)
      <4>1. k - 1 \in 0..q /\ p \in 0..p
        OBVIOUS
      <4> QED BY <1>8, <3>7, <4>1
    <3>9. (x \o y) \o e = x \o (y \o e)
      BY <3>6, <3>8, ConcatAssociative, SMTT(25)
    <3>10. c[j - 1] = x \o y
      BY <2>1, <3>2, <3>7, Zenon
    <3>11. c[j] = x \o (y \o e) /\ b[k] = y \o e
      BY <3>5, <3>7, <3>9, <3>10, Zenon
    <3> QED BY <3>1, <3>7, <3>11, Zenon
  <2>2. 0 \in B
    <3>1. PICK x : x = a[p]
      OBVIOUS
    <3>2. p + 0 = p /\ p \in 0..p /\ 0 \in 0..q
      OBVIOUS
    <3>3. x \in Seq(Byte)
      BY <1>8, <3>1, <3>2
    <3>4. x \o <<>> = x
      BY <3>3, ConcatEmptySeq
    <3>5. c[p] = x
      BY <1>9, <3>1
    <3>6. c[p + 0] = a[p] \o b[0]
      BY <1>8, <3>1, <3>2, <3>4, <3>5, Zenon
    <3> QED BY <3>2, <3>6
  <2>3. \A k \in 1..q : k - 1 \in B => k \in B
    <3> HIDE DEF After
    <3> QED BY <2>1
  <2>4. 0..q \subseteq B
    <3> HIDE DEF B
    <3> QED BY <2>2, <2>3, UpTo
  <2> HIDE DEF B
  <2>5. q \in 0..q
    OBVIOUS
  <2> QED BY <2>4, <2>5
<1> QED BY <1>1, <1>2, <1>4, <1>5, <1>6, <1>7, <1>10

-------------------------------------------------------------------------------

\* A layout of different fields, their names, and how many bytes they take.
LayoutOf(l, N, w) == l \in Seq(Field(N)) /\ Distinct(l) /\ Names(l) = N /\ Size(l) = w

\* Fields of one kind.
LEMMA EachIs ==
  ASSUME NEW kind \in Kinds, NEW N, NEW names \in Seq(N)
  PROVE  /\ Each(kind, names) \in Seq(Field(N)) /\ Len(Each(kind, names)) = Len(names)
         /\ \A k \in 1..Len(names) : Each(kind, names)[k].name = names[k] /\ Each(kind, names)[k].kind = kind
<1>1. PICK n \in Nat : n = Len(names)
  OBVIOUS
<1>2. DOMAIN names = 1..n /\ \A k \in 1..n : names[k] \in N
  BY <1>1
<1> DEFINE f == [k \in 1..n |-> [name |-> names[k], kind |-> kind]]
<1>3. Each(kind, names) = f
  BY <1>2 DEF Each
<1>4. \A k \in 1..n : f[k].name = names[k] /\ f[k].kind = kind
  OBVIOUS
<1>5. \A k \in 1..n : f[k] \in Field(N)
  BY <1>2 DEF Field
<1>6. f \in Seq(Field(N)) /\ Len(f) = n
  <2>1. f \in [1..n -> Field(N)]
    BY <1>5
  <2> HIDE DEF f
  <2> QED BY <1>1, <2>1
<1> HIDE DEF f
<1> QED BY <1>1, <1>3, <1>4, <1>6

Times(z, x, y) == z = x * y

\* n different names, those in N.
NamesOf(names, n, N) ==
  /\ names \in Seq(N) /\ Len(names) = n /\ N = {names[k] : k \in 1..n}
  /\ \A j, k \in 1..n : names[j] = names[k] => j = k

LEMMA EachOffset ==
  ASSUME NEW kind \in Kinds, NEW names, NEW n, NEW N, NamesOf(names, n, N), NEW j \in 0..n
  PROVE  Times(Offset(Each(kind, names), j + 1), j, Width(kind))
<1>0. names \in Seq(N) /\ Len(names) = n
  BY DEF NamesOf
<1>1. PICK l, w : l = Each(kind, names) /\ w = Width(kind)
  OBVIOUS
<1>2. /\ n \in Nat /\ w \in Nat
      /\ l \in Seq(Field(N)) /\ Len(l) = n
      /\ \A k \in 1..n : l[k].kind = kind
  <2>1. /\ Each(kind, names) \in Seq(Field(N)) /\ Len(Each(kind, names)) = Len(names)
        /\ \A k \in 1..Len(names) : Each(kind, names)[k].name = names[k] /\ Each(kind, names)[k].kind = kind
    BY <1>0, EachIs
  <2>2. n \in Nat /\ w \in Nat
    BY <1>0, <1>1, WidthIs
  <2> QED BY <1>0, <1>1, <2>1, <2>2
<1>5. PICK at : Ends(at, n, l) /\ \A k \in 1..(n + 1) : Offset(l, k) = at[k - 1]
  BY <1>2, EndsExist
<1> DEFINE P(k) == at[k] = k * w
           A == {k \in 0..n : P(k)}
<1>6. 0 \in A
  BY <1>2, <1>5 DEF Ends
<1>7. ASSUME NEW k \in 1..n, P(k - 1) PROVE P(k)
  <2>1. at[k] = at[k - 1] + w
    <3>1. Width(l[k].kind) = w
      BY <1>1, <1>2
    <3>2. at[k] = at[k - 1] + Width(l[k].kind)
      BY <1>5 DEF Ends
    <3> QED BY <3>1, <3>2
  <2>2. (k - 1) * w + w = k * w
    BY <1>2
  <2> QED BY <1>7, <2>1, <2>2
<1>8. 0..n \subseteq A
  <2>1. \A k \in 1..n : k - 1 \in A => k \in A
    <3> HIDE DEF P
    <3> QED BY <1>2, <1>7
  <2> HIDE DEF A
  <2> QED BY <1>2, <1>6, <2>1, UpTo
<1>9. P(j)
  BY <1>2, <1>8
<1>10. j + 1 \in 1..(n + 1) /\ (j + 1) - 1 = j
  BY <1>2
<1>11. Offset(l, j + 1) = at[j]
  BY <1>5, <1>10
<1> QED BY <1>1, <1>9, <1>11 DEF Times

LEMMA EachLayout ==
  ASSUME NEW kind \in Kinds, NEW names, NEW n, NEW N, NamesOf(names, n, N),
         NEW size, Times(size, n, Width(kind))
  PROVE  LayoutOf(Each(kind, names), N, size)
<1>0. /\ names \in Seq(N) /\ Len(names) = n /\ N = {names[k] : k \in 1..n}
      /\ \A j, k \in 1..n : names[j] = names[k] => j = k
  BY DEF NamesOf
<1>1. PICK l : l = Each(kind, names)
  OBVIOUS
<1>2. /\ n \in Nat /\ l \in Seq(Field(N)) /\ Len(l) = n /\ DOMAIN l = 1..n
      /\ \A k \in 1..n : l[k].name = names[k]
  <2>1. /\ Each(kind, names) \in Seq(Field(N)) /\ Len(Each(kind, names)) = Len(names)
        /\ \A k \in 1..Len(names) : Each(kind, names)[k].name = names[k] /\ Each(kind, names)[k].kind = kind
    BY <1>0, EachIs
  <2> QED BY <1>0, <1>1, <2>1
<1>3. Distinct(l)
  BY <1>0, <1>2 DEF Distinct
<1>4. Names(l) = N
  BY <1>0, <1>2 DEF Names
<1>5. Size(l) = size
  <2>1. n \in 0..n
    BY <1>2
  <2>2. Times(Offset(Each(kind, names), n + 1), n, Width(kind))
    BY <2>1, EachOffset
  <2> QED BY <1>1, <1>2, <2>2 DEF Size, Times
<1> QED BY <1>1, <1>2, <1>3, <1>4, <1>5 DEF LayoutOf

\* A record whose members are values of the kind.
LEMMA EachTyped ==
  ASSUME NEW kind \in Kinds, NEW names, NEW n, NEW N, NamesOf(names, n, N), NEW r,
         \A x \in N : r[x] \in Values(kind)
  PROVE  Typed(Each(kind, names), r)
<1>0. names \in Seq(N) /\ \A k \in 1..Len(names) : r[names[k]] \in Values(kind)
  BY DEF NamesOf
<1>1. /\ Len(Each(kind, names)) = Len(names)
      /\ \A k \in 1..Len(names) : Each(kind, names)[k].name = names[k] /\ Each(kind, names)[k].kind = kind
  BY <1>0, EachIs
<1>2. PICK l : l = Each(kind, names)
  OBVIOUS
<1> QED BY <1>0, <1>1, <1>2 DEF Typed

\* Fields of one kind, then more of the same.
LEMMA EachConcat ==
  ASSUME NEW kind \in Kinds, NEW N, NEW s \in Seq(N), NEW t \in Seq(N)
  PROVE  Each(kind, s \o t) = Each(kind, s) \o Each(kind, t)
<1>1. PICK u : u = s \o t
  OBVIOUS
<1>2. /\ u \in Seq(N) /\ Len(u) = Len(s) + Len(t)
      /\ \A k \in 1..Len(s) : u[k] = s[k]
      /\ \A k \in 1..Len(t) : u[Len(s) + k] = t[k]
  BY <1>1, ConcatProperties
<1>3. PICK f, g, h : f = Each(kind, u) /\ g = Each(kind, s) /\ h = Each(kind, t)
  OBVIOUS
<1>4. PICK p \in Nat, q \in Nat, n \in Nat : p = Len(s) /\ q = Len(t) /\ n = p + q
  OBVIOUS
<1>5. /\ f \in Seq(Field(N)) /\ Len(f) = n /\ g \in Seq(Field(N)) /\ Len(g) = p /\ h \in Seq(Field(N)) /\ Len(h) = q
  BY <1>2, <1>3, <1>4, EachIs
<1>6. PICK c : c = g \o h
  OBVIOUS
<1>7. /\ c \in Seq(Field(N)) /\ Len(c) = n
      /\ \A k \in 1..p : c[k] = g[k]
      /\ \A k \in 1..q : c[p + k] = h[k]
  <2>1. /\ c \in Seq(Field(N)) /\ Len(c) = p + q
        /\ \A k \in 1..p : c[k] = g[k]
        /\ \A k \in 1..q : c[p + k] = h[k]
    <3>1. /\ g \o h \in Seq(Field(N)) /\ Len(g \o h) = Len(g) + Len(h)
          /\ \A k \in 1..Len(g) : (g \o h)[k] = g[k]
          /\ \A k \in 1..Len(h) : (g \o h)[Len(g) + k] = h[k]
      <4>1. g \in Seq(Field(N)) /\ h \in Seq(Field(N))
        BY <1>5
      <4> QED BY <4>1, ConcatLayout
    <3> QED BY <1>5, <1>6, <3>1
  <2> QED BY <1>4, <2>1
<1>8. /\ \A k \in 1..p : g[k] = [name |-> s[k], kind |-> kind]
      /\ \A k \in 1..q : h[k] = [name |-> t[k], kind |-> kind]
      /\ \A k \in 1..n : f[k] = [name |-> u[k], kind |-> kind]
  <2>1. DOMAIN s = 1..p /\ DOMAIN t = 1..q /\ DOMAIN u = 1..n
    BY <1>2, <1>4
  <2> QED BY <1>3, <2>1 DEF Each
<1>9. ASSUME NEW k \in 1..n PROVE f[k] = c[k]
  <2>1. CASE k \in 1..p
    BY <1>2, <1>4, <1>7, <1>8, <2>1
  <2>2. CASE k \notin 1..p
    <3>1. PICK j \in 1..q : k = p + j
      <4>1. k - p \in 1..q /\ k = p + (k - p)
        BY <1>4, <2>2
      <4> QED BY <4>1
    <3>2. u[k] = t[j] /\ c[k] = h[j]
      BY <1>2, <1>4, <1>7, <3>1
    <3> QED BY <1>8, <3>2
  <2> QED BY <2>1, <2>2
<1>10. f = c
  BY <1>5, <1>7, <1>9, SeqEqual
<1> QED BY <1>1, <1>3, <1>6, <1>10

LEMMA OneElement == ASSUME NEW S, NEW x \in S PROVE <<x>> \in Seq(S) /\ Len(<<x>>) = 1 /\ <<x>>[1] = x
OBVIOUS

\* One field.
LEMMA OneField ==
  ASSUME NEW kind \in Kinds, NEW x
  PROVE  /\ LayoutOf(Each(kind, <<x>>), {x}, Width(kind))
         /\ \A r : r[x] \in Values(kind) =>
              Typed(Each(kind, <<x>>), r) /\ Put(Each(kind, <<x>>), r) = Encode(kind, r[x])
<1>1. PICK names : names = <<x>>
  OBVIOUS
<1>2. names \in Seq({x}) /\ Len(names) = 1 /\ names[1] = x
  BY <1>1, OneElement
<1>3. LayoutOf(Each(kind, names), {x}, Width(kind))
  <2>1. NamesOf(names, 1, {x})
    BY <1>2 DEF NamesOf
  <2>2. Times(Width(kind), 1, Width(kind))
    BY WidthIs DEF Times
  <2> QED BY <2>1, <2>2, EachLayout
<1>4. ASSUME NEW r, r[x] \in Values(kind)
      PROVE  Typed(Each(kind, names), r) /\ Put(Each(kind, names), r) = Encode(kind, r[x])
  <2>1. PICK l : l = Each(kind, names)
    OBVIOUS
  <2>2. l \in Seq(Field({x})) /\ Len(l) = 1 /\ l[1].name = x /\ l[1].kind = kind
    BY <1>2, <2>1, EachIs
  <2>3. Typed(l, r)
    BY <1>4, <2>2 DEF Typed
  <2>4. PICK out : Outs(out, 1, l, r) /\ Put(l, r) = out[1]
    BY <2>2, <2>3, OutsExist
  <2>5. PICK e : e = Encoded(l, r, 1)
    OBVIOUS
  <2>6. e \in Seq(Byte) /\ e = Encode(kind, r[x])
    <3>1. 1 \in 1..Len(l)
      BY <2>2
    <3>2. e \in Seq(Byte)
      BY <2>2, <2>3, <2>5, <3>1, EncodedIs
    <3> QED BY <2>2, <2>5, <3>2 DEF Encoded
  <2>7. out[1] = out[0] \o e /\ out[0] = <<>>
    <3>1. 1 \in 1..1 /\ 1 - 1 = 0
      OBVIOUS
    <3> QED BY <2>4, <2>5, <3>1, Zenon DEF Outs
  <2>8. <<>> \o e = e
    BY <2>6, ConcatEmptySeq
  <2> QED BY <2>1, <2>3, <2>4, <2>6, <2>7, <2>8
<1> QED BY <1>1, <1>3, <1>4

\* Layouts without a name in common.
LEMMA LayoutConcat ==
  ASSUME NEW l, NEW m, NEW M, NEW N, NEW u, NEW v,
         LayoutOf(l, M, u), LayoutOf(m, N, v), M \cap N = {}, NEW w, w = u + v
  PROVE  LayoutOf(l \o m, M \cup N, w)
<1>1. PICK h : h = l \o m
  OBVIOUS
<1> DEFINE F == Field(M \cup N)
<1>2. l \in Seq(F) /\ m \in Seq(F) /\ Distinct(l) /\ Distinct(m)
  <2>1. Field(M) \subseteq F /\ Field(N) \subseteq F
    BY DEF Field
  <2>2. l \in Seq(Field(M)) /\ m \in Seq(Field(N)) /\ Distinct(l) /\ Distinct(m)
    BY DEF LayoutOf
  <2> HIDE DEF F
  <2> QED BY <2>1, <2>2, SeqMonotonic
<1>3. PICK p \in Nat, q \in Nat, n \in Nat : p = Len(l) /\ q = Len(m) /\ n = p + q
  BY <1>2
<1>4. /\ h \in Seq(F) /\ n = Len(h)
      /\ \A k \in 1..p : h[k] = l[k]
      /\ \A j \in 1..q : h[p + j] = m[j]
  BY <1>1, <1>2, <1>3, ConcatLayout
<1>5. /\ DOMAIN l = 1..p /\ DOMAIN m = 1..q /\ DOMAIN h = 1..n
  BY <1>2, <1>3, <1>4
<1>6. M = {l[k].name : k \in 1..p} /\ N = {m[k].name : k \in 1..q}
  BY <1>5 DEF LayoutOf, Names
<1>7. ASSUME NEW k \in 1..n
      PROVE  \/ k \in 1..p /\ h[k] = l[k] /\ h[k].name \in M
             \/ k \notin 1..p /\ h[k].name \in N /\ \E j \in 1..q : k = p + j /\ h[k] = m[j]
  <2>1. CASE k \in 1..p
    BY <1>4, <1>6, <2>1
  <2>2. CASE k \notin 1..p
    <3>1. PICK j \in 1..q : k = p + j
      <4>1. k - p \in 1..q /\ k = p + (k - p)
        BY <1>3, <2>2
      <4> QED BY <4>1
    <3> QED BY <1>4, <1>6, <2>2, <3>1
  <2> QED BY <2>1, <2>2
<1>8. Names(h) = M \cup N
  <2>1. \A k \in 1..n : h[k].name \in M \cup N
    BY <1>7
  <2>2. \A x \in M : \E k \in 1..n : h[k].name = x
    <3>1. \A k \in 1..p : k \in 1..n /\ h[k].name = l[k].name
      BY <1>3, <1>4
    <3> QED BY <1>6, <3>1
  <2>3. \A x \in N : \E k \in 1..n : h[k].name = x
    <3>1. \A k \in 1..q : p + k \in 1..n /\ h[p + k].name = m[k].name
      BY <1>3, <1>4
    <3> QED BY <1>6, <3>1
  <2> QED BY <1>5, <2>1, <2>2, <2>3 DEF Names
<1>9. ASSUME NEW j \in 1..n, NEW k \in 1..n, h[j].name = h[k].name PROVE j = k
  <2>1. CASE j \in 1..p /\ k \in 1..p
    BY <1>2, <1>3, <1>4, <1>9, <2>1 DEF Distinct
  <2>2. CASE j \notin 1..p /\ k \notin 1..p
    <3>1. PICK a \in 1..q : j = p + a /\ h[j] = m[a]
      BY <1>7, <2>2
    <3>2. PICK b \in 1..q : k = p + b /\ h[k] = m[b]
      BY <1>7, <2>2
    <3>3. m[a].name = m[b].name
      BY <1>9, <3>1, <3>2
    <3>4. a = b
      BY <1>2, <1>3, <3>3 DEF Distinct
    <3> QED BY <3>1, <3>2, <3>4
  <2>3. CASE (j \in 1..p) # (k \in 1..p)
    BY <1>7, <1>9, <2>3
  <2> QED BY <2>1, <2>2, <2>3
<1>10. Distinct(h)
  BY <1>4, <1>9 DEF Distinct
<1>11. Size(h) = u + v
  BY <1>1, <1>2, SizeConcat DEF LayoutOf
<1> QED BY <1>1, <1>4, <1>8, <1>10, <1>11 DEF LayoutOf

LEMMA LayoutType ==
  ASSUME NEW l, NEW N, NEW w, LayoutOf(l, N, w)
  PROVE  l \in Seq(Field(N)) /\ Distinct(l) /\ Names(l) = N /\ Size(l) = w /\ w \in Nat
<1>1. l \in Seq(Field(N)) /\ Distinct(l) /\ Names(l) = N /\ Size(l) = w
  BY DEF LayoutOf
<1>2. Size(l) \in Nat
  BY <1>1, SizeConcat
<1> QED BY <1>1, <1>2

\* The string of a record, its length and what is read from it.
LEMMA PutOf ==
  ASSUME NEW l, NEW N, NEW w, LayoutOf(l, N, w), NEW r, Typed(l, r)
  PROVE  Put(l, r) \in Seq(Byte) /\ Len(Put(l, r)) = w
<1>1. l \in Seq(Field(N)) /\ Size(l) = w
  BY LayoutType
<1> QED BY <1>1, PutFields

LEMMA GetOfPut ==
  ASSUME NEW l, NEW N, NEW w, LayoutOf(l, N, w), NEW r, Typed(l, r),
         NEW buf \in Seq(Byte), NEW from \in Nat, NEW to, to = from + w, to <= Len(buf),
         Slice(buf, from, to) = Put(l, r)
  PROVE  Get(l, buf, from) = [name \in N |-> r[name]]
<1>1. l \in Seq(Field(N)) /\ Distinct(l) /\ Names(l) = N /\ Size(l) = w
  BY LayoutType
<1>2. from + Size(l) <= Len(buf) /\ Slice(buf, from, from + Size(l)) = Put(l, r)
  BY <1>1
<1>3. Get(l, buf, from) = [name \in Names(l) |-> r[name]]
  BY <1>1, <1>2, GetPut
<1> QED BY <1>1, <1>3

LEMMA PutOfGet ==
  ASSUME NEW l, NEW N, NEW w, LayoutOf(l, N, w), NEW buf \in Seq(Byte), w <= Len(buf)
  PROVE  /\ Typed(l, Get(l, buf, 0)) /\ DOMAIN Get(l, buf, 0) = N
         /\ Put(l, Get(l, buf, 0)) = Slice(buf, 0, w)
         /\ Get(l, buf, 0) = [name \in N |-> Get(l, buf, 0)[name]]
<1>1. l \in Seq(Field(N)) /\ Distinct(l) /\ Names(l) = N /\ Size(l) = w
  BY LayoutType
<1>2. Typed(l, Get(l, buf, 0)) /\ Put(l, Get(l, buf, 0)) = Slice(buf, 0, w)
  BY <1>1, PutGet
<1>3. DOMAIN Get(l, buf, 0) = N
  BY <1>1 DEF Get, Names
<1>4. Get(l, buf, 0) = [name \in DOMAIN Get(l, buf, 0) |-> Get(l, buf, 0)[name]]
  BY DEF Get
<1> QED BY <1>2, <1>3, <1>4

\* The record matters for the names of the layout only.
LEMMA PutAgrees ==
  ASSUME NEW l, NEW N, NEW w, LayoutOf(l, N, w), NEW r, NEW s, Typed(l, r),
         \A x \in N : r[x] = s[x]
  PROVE  Typed(l, s) /\ Put(l, r) = Put(l, s)
<1>1. l \in Seq(Field(N)) /\ Names(l) = N
  BY LayoutType
<1>2. \A k \in 1..Len(l) : r[l[k].name] = s[l[k].name]
  BY <1>1 DEF Names
<1>3. Typed(l, s)
  BY <1>2 DEF Typed
<1>4. PICK p : p = Put(l, r)
  OBVIOUS
<1>5. /\ p \in Seq(Byte) /\ Len(p) = Size(l)
      /\ \A k \in 1..Len(l) : Slice(p, Offset(l, k), Offset(l, k + 1)) = Encoded(l, r, k)
  BY <1>1, <1>4, PutFields
<1>6. \A k \in 1..Len(l) : Encoded(l, r, k) = Encoded(l, s, k)
  BY <1>2 DEF Encoded
<1>7. \A k \in 1..Len(l) : Slice(p, Offset(l, k), Offset(l, k + 1)) = Encoded(l, s, k)
  BY <1>5, <1>6
<1>8. p = Put(l, s)
  BY <1>1, <1>3, <1>5, <1>7, PutIsOnly
<1> QED BY <1>3, <1>4, <1>8

-------------------------------------------------------------------------------

\* s stands in buf from position i on.
Stands(buf, i, s) ==
  /\ buf \in Seq(Byte) /\ s \in Seq(Byte) /\ i \in Nat /\ i + Len(s) <= Len(buf)
  /\ \A k \in 1..Len(s) : buf[i + k] = s[k]

LEMMA StandsIn ==
  ASSUME NEW buf, NEW i, NEW s, Stands(buf, i, s), NEW j, NEW t, Stands(s, j, t), NEW k, k = i + j
  PROVE  Stands(buf, k, t)
<1>1. /\ buf \in Seq(Byte) /\ s \in Seq(Byte) /\ i \in Nat /\ i + Len(s) <= Len(buf)
      /\ \A p \in 1..Len(s) : buf[i + p] = s[p]
  BY DEF Stands
<1>2. /\ t \in Seq(Byte) /\ j \in Nat /\ j + Len(t) <= Len(s)
      /\ \A p \in 1..Len(t) : s[j + p] = t[p]
  BY DEF Stands
<1>3. k \in Nat /\ k + Len(t) <= Len(buf)
  BY <1>1, <1>2
<1>4. ASSUME NEW p \in 1..Len(t) PROVE buf[k + p] = t[p]
  <2>1. j + p \in 1..Len(s) /\ i + (j + p) = k + p
    BY <1>1, <1>2
  <2>2. buf[i + (j + p)] = s[j + p]
    BY <1>1, <2>1
  <2> QED BY <1>2, <2>1, <2>2
<1>5. buf \in Seq(Byte) /\ t \in Seq(Byte) /\ k \in Nat /\ k + Len(t) <= Len(buf)
  BY <1>1, <1>2, <1>3
<1> QED BY <1>4, <1>5 DEF Stands

LEMMA StandsParts ==
  ASSUME NEW f \in Seq(Byte), NEW g \in Seq(Byte), NEW m, m = Len(f)
  PROVE  Stands(f \o g, 0, f) /\ Stands(f \o g, m, g)
<1>1. PICK n : n = Len(g)
  OBVIOUS
<1>2. PICK h : h = f \o g
  OBVIOUS
<1>3. /\ h \in Seq(Byte) /\ Len(h) = m + n /\ m \in Nat /\ n \in Nat
      /\ \A k \in 1..m : h[k] = f[k]
      /\ \A k \in 1..n : h[m + k] = g[k]
  BY <1>1, <1>2, Concatenated
<1>4. Stands(h, 0, f)
  <2>1. \A k \in 1..m : h[0 + k] = f[k]
    BY <1>3
  <2>2. 0 + m <= Len(h) /\ 0 \in Nat
    BY <1>3
  <2> QED BY <1>3, <2>1, <2>2 DEF Stands
<1>5. Stands(h, m, g)
  <2>1. m + n <= Len(h)
    BY <1>3
  <2> QED BY <1>1, <1>3, <2>1 DEF Stands
<1> QED BY <1>2, <1>4, <1>5

LEMMA StandsSlice ==
  ASSUME NEW buf, NEW i, NEW s, Stands(buf, i, s), NEW j, j = i + Len(s)
  PROVE  Slice(buf, i, j) = s /\ j <= Len(buf)
<1>1. /\ buf \in Seq(Byte) /\ s \in Seq(Byte) /\ i \in Nat /\ i + Len(s) <= Len(buf)
      /\ \A k \in 1..Len(s) : buf[i + k] = s[k]
  BY DEF Stands
<1>2. j \in i..Len(buf) /\ j - i = Len(s) /\ Len(s) = j - i
  BY <1>1
<1>3. \A k \in 1..(j - i) : s[k] = buf[i + k]
  BY <1>1, <1>2
<1> QED BY <1>1, <1>2, <1>3, SliceEqual

\* Where the fields of a layout stand.
LEMMA PutParts ==
  ASSUME NEW l, NEW m, NEW M, NEW N, NEW u, NEW v, LayoutOf(l, M, u), LayoutOf(m, N, v),
         NEW r, Typed(l, r), Typed(m, r)
  PROVE  /\ Typed(l \o m, r) /\ Put(l \o m, r) = Put(l, r) \o Put(m, r)
         /\ Stands(Put(l \o m, r), 0, Put(l, r)) /\ Stands(Put(l \o m, r), u, Put(m, r))
<1> DEFINE F == Field(M \cup N)
<1>1. Field(M) \subseteq F /\ Field(N) \subseteq F
  BY DEF Field
<1>2. l \in Seq(Field(M)) /\ m \in Seq(Field(N))
  BY DEF LayoutOf
<1> HIDE DEF F
<1>3. l \in Seq(F) /\ m \in Seq(F)
  BY <1>1, <1>2, SeqMonotonic
<1>4. Typed(l \o m, r) /\ Put(l \o m, r) = Put(l, r) \o Put(m, r)
  BY <1>3, PutConcat DEF F
<1>5. Put(l, r) \in Seq(Byte) /\ Len(Put(l, r)) = u /\ Put(m, r) \in Seq(Byte)
  BY PutOf
<1>6. Stands(Put(l, r) \o Put(m, r), 0, Put(l, r)) /\ Stands(Put(l, r) \o Put(m, r), u, Put(m, r))
  BY <1>5, StandsParts
<1> QED BY <1>4, <1>6

LEMMA FieldStands ==
  ASSUME NEW kind \in Kinds, NEW names, NEW n, NEW N, NamesOf(names, n, N),
         NEW r, \A x \in N : r[x] \in Values(kind), NEW j \in 0..(n - 1), NEW i, Times(i, j, Width(kind))
  PROVE  Stands(Put(Each(kind, names), r), i, Encode(kind, r[names[j + 1]]))
<1>1. PICK l, k : l = Each(kind, names) /\ k = j + 1
  OBVIOUS
<1>2. names \in Seq(N) /\ Len(names) = n /\ n \in Nat
  BY DEF NamesOf
<1>3. l \in Seq(Field(N)) /\ Len(l) = n /\ k \in 1..n /\ l[k].name = names[k] /\ l[k].kind = kind
  <2>1. /\ Each(kind, names) \in Seq(Field(N)) /\ Len(Each(kind, names)) = Len(names)
        /\ \A p \in 1..Len(names) : Each(kind, names)[p].name = names[p] /\ Each(kind, names)[p].kind = kind
    BY <1>2, EachIs
  <2>2. k \in 1..n
    BY <1>1, <1>2
  <2> QED BY <1>1, <1>2, <2>1, <2>2
<1>4. Typed(l, r)
  BY <1>1, EachTyped
<1>5. PICK p, e, w : p = Put(l, r) /\ e = Encoded(l, r, k) /\ w = Width(kind)
  OBVIOUS
<1>6. e \in Seq(Byte) /\ Len(e) = w /\ e = Encode(kind, r[names[k]])
  <2>1. e \in Seq(Byte) /\ Len(e) = Width(l[k].kind)
    BY <1>3, <1>4, <1>5, EncodedIs
  <2> QED BY <1>3, <1>5, <2>1 DEF Encoded
<1>7. p \in Seq(Byte) /\ Len(p) = Size(l)
  BY <1>3, <1>4, <1>5, PutFields
<1>8. Slice(p, Offset(l, k), Offset(l, k + 1)) = e
  BY <1>3, <1>4, <1>5, PutFields
<1>9. Offset(l, k) = i
  <2>1. Times(Offset(Each(kind, names), j + 1), j, Width(kind))
    <3>1. j \in 0..n
      BY <1>2
    <3> QED BY <3>1, EachOffset
  <2> QED BY <1>1, <2>1 DEF Times
<1>10. i \in Nat /\ Offset(l, k + 1) = i + w /\ i + w <= Len(p) /\ w \in Nat
  <2>1. /\ Offset(l, k) \in Nat
        /\ Offset(l, k + 1) = Offset(l, k) + Width(l[k].kind)
        /\ Offset(l, k) + Width(l[k].kind) <= Size(l)
    BY <1>3, FieldPlace
  <2>2. w \in Nat
    BY <1>5, WidthIs
  <2> QED BY <1>3, <1>5, <1>7, <1>9, <2>1, <2>2
<1>11. PICK z : z = i + w
  OBVIOUS
<1>12. z \in i..Len(p) /\ z - i = w
  BY <1>7, <1>10, <1>11
<1>13. \A q \in 1..(z - i) : Slice(p, i, z)[q] = p[i + q]
  <2>1. p \in Seq(Byte) /\ i \in Nat /\ z \in i..Len(p)
    BY <1>7, <1>10, <1>12
  <2> QED BY <2>1, SliceIs
<1>14. Slice(p, i, z) = e
  BY <1>8, <1>9, <1>10, <1>11
<1>15. \A q \in 1..Len(e) : p[i + q] = e[q]
  BY <1>6, <1>12, <1>13, <1>14
<1>16. p \in Seq(Byte) /\ e \in Seq(Byte) /\ i \in Nat /\ i + Len(e) <= Len(p)
  BY <1>6, <1>7, <1>10
<1>17. Stands(p, i, e)
  BY <1>15, <1>16 DEF Stands
<1> QED BY <1>1, <1>5, <1>6, <1>17

-------------------------------------------------------------------------------

\* The first two fields of a layout are the bytes x and y.
Begins(l, x, y) ==
  /\ \E N : l \in Seq(Field(N))
  /\ Len(l) >= 2 /\ l[1].name = x /\ l[1].kind = "u8" /\ l[2].name = y /\ l[2].kind = "u8"

LEMMA BeginsConcat ==
  ASSUME NEW l, NEW x, NEW y, Begins(l, x, y), NEW m, NEW M, NEW w, LayoutOf(m, M, w)
  PROVE  Begins(l \o m, x, y)
<1>1. PICK N : l \in Seq(Field(N))
  BY DEF Begins
<1>2. PICK F : F = Field(N \cup M)
  OBVIOUS
<1>3. l \in Seq(F) /\ m \in Seq(F)
  <2>1. Field(N) \subseteq F /\ Field(M) \subseteq F
    BY <1>2 DEF Field
  <2>2. m \in Seq(Field(M))
    BY DEF LayoutOf
  <2> QED BY <1>1, <2>1, <2>2, SeqMonotonic
<1>4. PICK p, q, h : p = Len(l) /\ q = Len(m) /\ h = l \o m
  OBVIOUS
<1>5. h \in Seq(F) /\ Len(h) = p + q /\ p \in Nat /\ q \in Nat /\ \A k \in 1..p : h[k] = l[k]
  BY <1>3, <1>4, Concatenated
<1>6. p >= 2 /\ l[1].name = x /\ l[1].kind = "u8" /\ l[2].name = y /\ l[2].kind = "u8"
  BY <1>4 DEF Begins
<1>7. h[1] = l[1] /\ h[2] = l[2] /\ Len(h) >= 2
  BY <1>5, <1>6
<1>8. \E K : h \in Seq(Field(K))
  BY <1>2, <1>5
<1>9. Begins(h, x, y)
  BY <1>6, <1>7, <1>8 DEF Begins
<1> QED BY <1>4, <1>9

LEMMA FirstBytes ==
  ASSUME NEW l, NEW x, NEW y, Begins(l, x, y), NEW r, Typed(l, r)
  PROVE  Put(l, r)[1] = r[x] /\ Put(l, r)[2] = r[y] /\ Len(Put(l, r)) >= 2
<1>1. PICK N : l \in Seq(Field(N))
  BY DEF Begins
<1>2. PICK n \in Nat : n = Len(l)
  BY <1>1
<1>3. n >= 2 /\ l[1].name = x /\ l[1].kind = "u8" /\ l[2].name = y /\ l[2].kind = "u8"
  BY <1>2 DEF Begins
<1>4. PICK p : p = Put(l, r)
  OBVIOUS
<1>5. /\ p \in Seq(Byte) /\ Len(p) = Size(l)
      /\ \A k \in 1..Len(l) : Slice(p, Offset(l, k), Offset(l, k + 1)) = Encoded(l, r, k)
  BY <1>1, <1>4, PutFields
<1>6. Offset(l, 1) = 0
  <2>1. PICK at : Ends(at, n, l) /\ \A k \in 1..(n + 1) : Offset(l, k) = at[k - 1]
    BY <1>1, <1>2, EndsExist
  <2>2. at[0] = 0
    BY <2>1 DEF Ends
  <2>3. 1 \in 1..(n + 1) /\ 1 - 1 = 0
    BY <1>2
  <2> QED BY <2>1, <2>2, <2>3
<1>7. 1 \in 1..Len(l) /\ 2 \in 1..Len(l)
  BY <1>2, <1>3
<1>8. Offset(l, 2) = 1 /\ Offset(l, 3) = 2 /\ Len(p) >= 2
  <2>1. Offset(l, 1 + 1) = Offset(l, 1) + Width(l[1].kind)
    BY <1>1, <1>7, FieldPlace
  <2>2. /\ Offset(l, 2 + 1) = Offset(l, 2) + Width(l[2].kind) /\ Size(l) \in Nat
        /\ Offset(l, 2) + Width(l[2].kind) <= Size(l)
    BY <1>1, <1>7, FieldPlace
  <2>3. Width(l[1].kind) = 1 /\ Width(l[2].kind) = 1
    BY <1>3, Widths
  <2> QED BY <1>5, <1>6, <2>1, <2>2, <2>3
<1>9. Slice(p, 0, 1) = <<r[x]>> /\ Slice(p, 1, 2) = <<r[y]>>
  <2>1. Slice(p, Offset(l, 1), Offset(l, 1 + 1)) = Encoded(l, r, 1)
    BY <1>5, <1>7
  <2>2. Slice(p, Offset(l, 2), Offset(l, 2 + 1)) = Encoded(l, r, 2)
    BY <1>5, <1>7
  <2>3. Encoded(l, r, 1) = <<r[x]>> /\ Encoded(l, r, 2) = <<r[y]>>
    BY <1>3, Codec DEF Encoded
  <2>4. 1 + 1 = 2 /\ 2 + 1 = 3
    OBVIOUS
  <2> QED BY <1>6, <1>8, <2>1, <2>2, <2>3, <2>4
<1>10. ASSUME NEW a \in {0, 1}, NEW b, b = a + 1 PROVE Slice(p, a, b)[1] = p[a + 1]
  <2>1. p \in Seq(Byte) /\ a \in Nat /\ b \in a..Len(p) /\ 1 \in 1..(b - a)
    BY <1>5, <1>8, <1>10
  <2> QED BY <2>1, SliceIs
<1>11. Slice(p, 0, 1)[1] = p[1] /\ Slice(p, 1, 2)[1] = p[2]
  <2>1. 1 = 0 + 1 /\ 2 = 1 + 1 /\ 0 \in {0, 1} /\ 1 \in {0, 1}
    OBVIOUS
  <2>2. Slice(p, 0, 1)[1] = p[0 + 1]
    BY <1>10, <2>1
  <2>3. Slice(p, 1, 2)[1] = p[1 + 1]
    BY <1>10, <2>1
  <2> QED BY <2>1, <2>2, <2>3
<1> QED BY <1>4, <1>8, <1>9, <1>11
================================================================================
