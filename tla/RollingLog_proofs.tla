-------------------------- MODULE RollingLog_proofs --------------------------
(***************************************************************************)
(* Theorems about RollingLog, for any number of threads, files, sizes and  *)
(* lengths, every failure and any number of kills.  The invariant says     *)
(* where a roll is: which files have moved, which name is free, and what   *)
(* the appender knows of the size of file 0.                               *)
(***************************************************************************)
EXTENDS RollingLog, TLAPS

\* The thread with the mutex is the one inside the appender.
Mutex == \A t \in Threads : pc[t] \in Locked <=> m_sync = t

\* A file that does not exist holds no record.
Empty == \A k \in Files : ~Exists(k) => records[k] = {}

\* The appender knows the size of the file it has open.
SizeKnown ==
  /\ m_file => Exists(0) /\ m_fileSize = size[0] /\ ~m_firstWrite
  /\ ~m_file => m_fileSize = Failed \/ m_firstWrite
                \/ \E t \in Threads : pc[t] \in {"rename", "open"}

\* Below the hole h there is no file missing under one that exists.
Packed(h) == \A j, k \in Files : j < k /\ j # h /\ Exists(k) => Exists(j)

\* Where each step of the appender finds things.
Place(t) ==
  /\ pc[t] \in {"lock"} \cup Locked => record[t] \in Lengths
  /\ pc[t] = "unlink" => Exists(0) /\ Over(0)
  /\ pc[t] = "rename" => fileNumber \in Files \ {0} /\ Exists(0) /\ Over(0)
  /\ pc[t] = "header" => m_file
  /\ pc[t] \in {"rename", "open"} => ~m_file
  /\ pc[t] = "rename" /\ "rename" \notin mishaps
       => ~Exists(fileNumber) \/ fileNumber = Oldest
  /\ pc[t] = "rename" /\ mishaps = {}
       => /\ Packed(fileNumber)
          /\ Exists(fileNumber) => \A k \in Files : Exists(k)

Places == \A t \in Threads : Place(t)

NoGap == mishaps = {} /\ (\A t \in Threads : pc[t] # "rename") => Packed(0)

Inductive ==
  /\ TypeOK /\ Mutex /\ Empty /\ SizeKnown /\ Places /\ NoGap
  /\ InOrder /\ WithoutHoles /\ RolledFilesAreFull

LEMMA Sizes ==
  /\ m_maxFileSize \in Nat /\ Files \subseteq Nat /\ 0 \in Files /\ Oldest \in Files
  /\ \A k \in Files : k <= Oldest
  /\ \A k \in Files \ {0} : k - 1 \in Files
BY LogAssumption DEF m_maxFileSize, Files, Oldest

LEMMA LoggedIs == \A i : i \in Logged <=> \E k \in Files : i \in records[k]
BY DEF Logged

LEMMA InitInductive == Init => Inductive
<1> SUFFICES ASSUME Init PROVE Inductive
  OBVIOUS
<1> USE LogAssumption, Sizes DEF Init
<1>1. TypeOK
  <2>1. size \in [Files -> Nat \cup {Missing}] /\ records \in [Files -> SUBSET (1..written)]
    OBVIOUS
  <2>2. pc \in [Threads -> Pcs] /\ record \in [Threads -> Lengths \cup {0}]
    BY DEF Pcs
  <2>3. m_fileSize \in Nat \cup {Failed} /\ fileNumber \in 0..maxFiles /\ written \in Nat
    OBVIOUS
  <2> QED BY <2>1, <2>2, <2>3 DEF TypeOK
<1>2. Mutex /\ Places /\ NoGap /\ SizeKnown
  BY DEF Mutex, Places, Place, NoGap, SizeKnown, Locked, Rolling, Packed, Exists
<1>3. Empty /\ InOrder /\ RolledFilesAreFull
  BY DEF Empty, InOrder, RolledFilesAreFull, Exists
<1>4. WithoutHoles
  BY LoggedIs DEF WithoutHoles
<1> QED BY <1>1, <1>2, <1>3, <1>4 DEF Inductive

\* What the steps outside the mutex leave alone.
LEMMA DiskKept ==
  ASSUME Inductive, UNCHANGED <<disk, written, mishaps>>
  PROVE  Empty' /\ InOrder' /\ WithoutHoles' /\ RolledFilesAreFull'
BY DEF Inductive, disk, Empty, InOrder, WithoutHoles, Logged, RolledFilesAreFull, Exists, Over

LEMMA OutsideInductive ==
  ASSUME Inductive, NEW t \in Threads, init(t) \/ addAppender(t) \/ PLOG(t)
  PROVE  Inductive'
<1> USE LogAssumption, Sizes DEF Inductive, init, Singleton, addAppender, PLOG, Goto, disk, appender, history, logger
<1>1. Empty' /\ InOrder' /\ WithoutHoles' /\ RolledFilesAreFull'
  BY DiskKept
<1>2. TypeOK'
  <2>1. pc' \in [Threads -> Pcs]
    BY DEF TypeOK, Pcs
  <2>2. record' \in [Threads -> Lengths \cup {0}]
    BY DEF TypeOK, format
  <2>3. m_instance' \in BOOLEAN /\ m_appenders' \in BOOLEAN
    BY DEF TypeOK
  <2> QED BY <2>1, <2>2, <2>3 DEF TypeOK
<1>3. pc \in [Threads -> Pcs] /\ pc[t] \in {"idle", "init"} /\ pc'[t] \in {"init", "idle", "lock"}
      /\ \A u \in Threads \ {t} : pc'[u] = pc[u] /\ record'[u] = record[u]
      /\ UNCHANGED <<size, records, m_file, m_fileSize, m_firstWrite, m_sync, fileNumber, mishaps>>
  BY DEF TypeOK
<1>4. Mutex'
  BY <1>3 DEF Mutex, Locked, Rolling
<1>5. SizeKnown' /\ NoGap'
  BY <1>3 DEF SizeKnown, NoGap, Packed, Exists
<1>6. pc'[t] = "lock" => record'[t] \in Lengths
  BY <1>3 DEF TypeOK, format
<1>7. Places'
  BY <1>3, <1>6 DEF Places, Place, Packed, Exists, Over, Locked, Rolling
<1> QED BY <1>1, <1>2, <1>4, <1>5, <1>7

\* The threads outside the appender are where they were.
LEMMA PlacesKept ==
  ASSUME Places, NEW t \in Threads, Place(t)',
         \A u \in Threads \ {t} :
           pc'[u] = pc[u] /\ pc[u] \notin Locked /\ record'[u] = record[u]
  PROVE  Places'
BY DEF Places, Place, Locked, Rolling

LEMMA writeInductive ==
  ASSUME Inductive, NEW t \in Threads, write(t) PROVE Inductive'
<1> USE LogAssumption, Sizes DEF Inductive, write, MutexLock, Goto, disk, appender, history, logger
<1>1. Empty' /\ InOrder' /\ WithoutHoles' /\ RolledFilesAreFull'
  BY DiskKept
<1>2. TypeOK'
  BY DEF TypeOK, Pcs, Locked, Rolling
<1>3. pc \in [Threads -> Pcs] /\ pc[t] = "lock" /\ m_sync' = t
      /\ pc'[t] \in {"open", "unlink", "write"}
      /\ \A u \in Threads \ {t} : pc'[u] = pc[u]
      /\ \A v \in Threads : pc[v] \notin Locked
      /\ UNCHANGED <<size, records, m_file, m_fileSize, m_firstWrite, record, fileNumber, mishaps>>
  BY DEF TypeOK, Mutex
<1>4. Mutex'
  BY <1>3 DEF Mutex, Locked, Rolling
<1>5. SizeKnown' /\ NoGap'
  BY <1>3 DEF SizeKnown, NoGap, Packed, Exists, Locked, Rolling
<1>6. /\ pc'[t] = "unlink" => Exists(0) /\ Over(0)
      /\ pc'[t] = "open" => ~m_file
  BY <1>3 DEF SizeKnown, Over, Exists, Locked, Rolling, TypeOK
<1>7. record[t] \in Lengths
  BY <1>3 DEF Places, Place
<1>8. Place(t)'
  BY <1>3, <1>6, <1>7 DEF Place, Exists, Over, Locked, Rolling
<1>9. Places'
  BY <1>3, <1>8, PlacesKept
<1> QED BY <1>1, <1>2, <1>4, <1>5, <1>9

\* Nobody else is inside the appender, and the fields of the others stay.
LEMMA Alone ==
  ASSUME TypeOK, Mutex, NEW t \in Threads, pc[t] \in Locked
  PROVE  m_sync = t /\ t # None /\ \A u \in Threads \ {t} : pc[u] \notin Locked
BY LogAssumption DEF TypeOK, Mutex

\* A step of t inside the appender to a place p that keeps the mutex.
LEMMA MutexKept ==
  ASSUME TypeOK, Mutex, NEW t \in Threads, pc[t] \in Locked,
         NEW p \in Locked, Goto(t, p), UNCHANGED m_sync
  PROVE  /\ Mutex' /\ pc' \in [Threads -> Pcs] /\ pc'[t] = p
         /\ \A u \in Threads \ {t} : pc'[u] = pc[u] /\ pc[u] \notin Locked
BY Alone DEF Mutex, Goto, TypeOK, Pcs

LEMMA rollLogFilesInductive ==
  ASSUME Inductive, NEW t \in Threads, rollLogFiles(t) PROVE Inductive'
<1> USE LogAssumption, Sizes
<1>1. /\ TypeOK /\ Mutex /\ Empty /\ SizeKnown /\ Places /\ NoGap
      /\ InOrder /\ WithoutHoles /\ RolledFilesAreFull
  BY DEF Inductive
<1>2. PICK p \in {"rename", "open"} :
        /\ pc[t] = "unlink" /\ Goto(t, p) /\ (p = "rename" <=> maxFiles > 1)
        /\ m_file' = FALSE /\ fileNumber' = Oldest
        /\ UNCHANGED <<m_instance, m_appenders, m_fileSize, m_firstWrite, m_sync,
                       record, written, mishaps>>
  BY DEF rollLogFiles, logger, history, FileClose
<1>3. \/ /\ size' = [size EXCEPT ![Oldest] = Missing]
         /\ records' = [records EXCEPT ![Oldest] = {}]
      \/ UNCHANGED <<size, records>>
  BY DEF rollLogFiles, FileUnlink, disk
<1>4. /\ Mutex' /\ pc' \in [Threads -> Pcs] /\ pc'[t] = p
      /\ \A u \in Threads \ {t} : pc'[u] = pc[u] /\ pc[u] \notin Locked
  BY <1>1, <1>2, MutexKept DEF Locked, Rolling
<1>5. /\ size \in [Files -> Nat \cup {Missing}] /\ records \in [Files -> SUBSET (1..written)]
      /\ size' \in [Files -> Nat \cup {Missing}] /\ records' \in [Files -> SUBSET (1..written)]
      /\ written \in Nat
  BY <1>1, <1>3 DEF TypeOK
<1>6. TypeOK'
  <2>1. fileNumber' \in 0..maxFiles
    BY <1>2 DEF Oldest
  <2>2. record' \in [Threads -> Lengths \cup {0}] /\ m_file' \in BOOLEAN
    BY <1>1, <1>2 DEF TypeOK
  <2> QED BY <1>1, <1>2, <1>4, <1>5, <2>1, <2>2 DEF TypeOK
<1>7. /\ \A k \in Files \ {Oldest} : size'[k] = size[k] /\ records'[k] = records[k]
      /\ \/ size'[Oldest] = size[Oldest] /\ records'[Oldest] = records[Oldest]
         \/ size'[Oldest] = Missing /\ records'[Oldest] = {}
  BY <1>3, <1>5
<1>8. Empty' /\ InOrder' /\ RolledFilesAreFull'
  BY <1>1, <1>5, <1>7 DEF Empty, InOrder, RolledFilesAreFull, Exists, Over
<1>9. WithoutHoles'
  <2> SUFFICES ASSUME "rename" \notin mishaps', NEW i \in Logged', NEW j \in 1..written', i <= j
               PROVE  j \in Logged'
    BY DEF WithoutHoles
  <2>1. PICK k \in Files : i \in records'[k]
    BY DEF Logged
  <2>2. i \in records[k] /\ i \in 1..written
    BY <1>5, <1>7, <2>1
  <2>3. j \in Logged
    BY <1>1, <1>2, <2>2, LoggedIs DEF WithoutHoles
  <2>4. PICK l \in Files : j \in records[l]
    BY <2>3, LoggedIs
  <2>5. j \in records'[l]
    BY <1>1, <1>5, <1>7, <2>1, <2>2, <2>4 DEF InOrder
  <2> QED BY <2>5 DEF Logged
<1>10. Over(0) /\ Exists(0) /\ (mishaps = {} => Packed(0)) /\ record[t] \in Lengths
  <2>1. \A u \in Threads : pc[u] # "rename"
    BY <1>2, <1>4 DEF Locked, Rolling
  <2> QED BY <1>1, <1>2, <2>1 DEF Places, Place, NoGap, Locked, Rolling
<1>11. SizeKnown'
  BY <1>2, <1>4 DEF SizeKnown
<1>12. NoGap'
  <2>1. CASE p = "rename"
    BY <1>4, <2>1 DEF NoGap
  <2>2. CASE p = "open"
    BY <1>2, <2>2 DEF NoGap, Packed, Files
  <2> QED BY <2>1, <2>2
<1>13. ASSUME p = "rename"
       PROVE  /\ fileNumber' \in Files \ {0} /\ Exists(0)' /\ Over(0)'
              /\ mishaps = {} => /\ Packed(Oldest)'
                                 /\ Exists(Oldest)' => \A k \in Files : Exists(k)'
  <2>1. Oldest # 0 /\ fileNumber' = Oldest
    BY <1>2, <1>13 DEF Oldest
  <2>2. size'[0] = size[0]
    BY <1>7, <2>1
  <2>3. ASSUME mishaps = {}, NEW j \in Files, NEW k \in Files, j < k, size'[k] # Missing
        PROVE  size'[j] # Missing
    <3>1. size[k] # Missing /\ size'[j] = size[j]
      BY <1>7, <2>3
    <3> QED BY <1>10, <2>3, <3>1 DEF Packed, Exists
  <2>4. Exists(0)' /\ Over(0)'
    BY <1>10, <2>2 DEF Exists, Over
  <2>5. mishaps = {} => Packed(Oldest)'
    BY <2>3 DEF Packed, Exists
  <2>6. mishaps = {} => (Exists(Oldest)' => \A k \in Files : Exists(k)')
    BY <2>3 DEF Exists
  <2> QED BY <2>1, <2>4, <2>5, <2>6
<1>14. Places'
  <2>1. Place(t)'
    BY <1>2, <1>4, <1>10, <1>13 DEF Place, Packed, Exists
  <2> QED BY <1>1, <1>2, <1>4, <2>1, PlacesKept
<1> QED BY <1>4, <1>6, <1>8, <1>9, <1>11, <1>12, <1>14 DEF Inductive

LEMMA RenameNextInductive ==
  ASSUME Inductive, NEW t \in Threads, RenameNext(t) PROVE Inductive'
<1> USE LogAssumption, Sizes
<1>1. /\ TypeOK /\ Mutex /\ Empty /\ SizeKnown /\ Places /\ NoGap
      /\ InOrder /\ WithoutHoles /\ RolledFilesAreFull
  BY DEF Inductive
<1>2. PICK p \in {"rename", "open"} :
        /\ pc[t] = "rename" /\ Goto(t, p) /\ (p = "rename" <=> fileNumber > 1)
        /\ fileNumber' = fileNumber - 1
        /\ UNCHANGED <<m_instance, m_appenders, m_file, m_fileSize, m_firstWrite, m_sync,
                       record, written>>
  BY DEF RenameNext, logger, appender
<1>3. PICK f \in Files \ {0}, g \in Files :
        /\ f = fileNumber /\ g = f - 1 /\ g = fileNumber'
        /\ Exists(0) /\ Over(0) /\ record[t] \in Lengths /\ ~m_file
        /\ "rename" \notin mishaps => ~Exists(f) \/ f = Oldest
        /\ mishaps = {} => Packed(f) /\ (Exists(f) => \A k \in Files : Exists(k))
  BY <1>1, <1>2 DEF Places, Place, Locked, Rolling
<1>4. /\ Mutex' /\ pc' \in [Threads -> Pcs] /\ pc'[t] = p
      /\ \A u \in Threads \ {t} : pc'[u] = pc[u] /\ pc[u] \notin Locked
  BY <1>1, <1>2, MutexKept DEF Locked, Rolling
<1>5. /\ size \in [Files -> Nat \cup {Missing}] /\ records \in [Files -> SUBSET (1..written)]
      /\ written \in Nat /\ f \in Nat /\ g \in Nat /\ f # g
  BY <1>1, <1>3 DEF TypeOK
<1>9. SizeKnown'
  BY <1>1, <1>2, <1>3, <1>4 DEF SizeKnown
<1>10. fileNumber' \in 0..maxFiles /\ m_sync' \in Threads \cup {None}
  BY <1>1, <1>2, <1>3, <1>5 DEF TypeOK, Oldest
<1>6. CASE /\ Exists(g)
           /\ size' = [size EXCEPT ![f] = size[g], ![g] = Missing]
           /\ records' = [records EXCEPT ![f] = records[g], ![g] = {}]
           /\ UNCHANGED mishaps
  <2>1. /\ size'[f] = size[g] /\ records'[f] = records[g]
        /\ size'[g] = Missing /\ records'[g] = {}
        /\ \A k \in Files \ {f, g} : size'[k] = size[k] /\ records'[k] = records[k]
    BY <1>5, <1>6
  <2>2. /\ size' \in [Files -> Nat \cup {Missing}]
        /\ records' \in [Files -> SUBSET (1..written)]
    BY <1>5, <1>6
  <2>3. TypeOK'
    BY <1>1, <1>2, <1>4, <1>6, <1>10, <2>2 DEF TypeOK
  <2>4. Empty'
    BY <1>1, <1>6, <2>1 DEF Empty, Exists
  <2> DEFINE From(k) == IF k = f THEN g ELSE k
  <2>13. \A k \in Files : From(k) \in Files /\ (k # g => records'[k] = records[From(k)])
    BY <2>1
  <2>14. \A j, k \in Files : j < k /\ j # g /\ k # g => From(j) < From(k)
    BY <1>3, <1>5
  <2>15. \A k \in Files : k # g => From(k) <= k /\ (f = Oldest => From(k) < f)
    BY <1>3, <1>5
  <2> HIDE DEF From
  <2>5. InOrder'
    <3> SUFFICES ASSUME NEW j \in Files, NEW k \in Files, j < k,
                        NEW a \in records'[j], NEW b \in records'[k]
                 PROVE  b < a
      BY DEF InOrder
    <3>1. j # g /\ k # g
      BY <2>1
    <3>2. From(j) < From(k) /\ a \in records[From(j)] /\ b \in records[From(k)]
      BY <2>13, <2>14, <3>1
    <3> QED BY <1>1, <2>13, <3>2 DEF InOrder
  <2>6. Over(g)
    BY <1>1, <1>3, <1>6 DEF RolledFilesAreFull
  <2>7. RolledFilesAreFull'
    BY <1>1, <2>1, <2>6 DEF RolledFilesAreFull, Exists, Over
  <2>8. WithoutHoles'
    <3> SUFFICES ASSUME "rename" \notin mishaps', NEW i \in Logged', NEW j \in 1..written', i <= j
                 PROVE  j \in Logged'
      BY DEF WithoutHoles
    <3>1. PICK k \in Files : i \in records'[k]
      BY DEF Logged
    <3>2. PICK h \in Files : i \in records[h] /\ (f = Oldest => h < f)
      <4>1. k # g
        BY <2>1, <3>1
      <4> QED BY <2>13, <2>15, <3>1, <4>1
    <3>3. j \in Logged
      BY <1>1, <1>2, <1>5, <1>6, <3>2, LoggedIs DEF WithoutHoles
    <3>4. PICK l \in Files : j \in records[l]
      BY <3>3, LoggedIs
    <3>5. l # f
      <4>1. CASE ~Exists(f)
        BY <1>1, <3>4, <4>1 DEF Empty
      <4>2. CASE f = Oldest
        BY <1>1, <1>5, <3>2, <3>4, <4>2 DEF InOrder
      <4> QED BY <1>3, <1>6, <4>1, <4>2
    <3>6. \E m \in Files : j \in records'[m]
      BY <2>1, <3>4, <3>5
    <3> QED BY <3>6 DEF Logged
  <2>9. ASSUME mishaps = {}
        PROVE  Packed(g)' /\ ~Exists(g)'
    <3>1. Packed(f)
      BY <1>3, <2>9
    <3>2. ASSUME NEW j \in Files, NEW k \in Files, j < k, j # g, size'[k] # Missing
          PROVE  size'[j] # Missing
      <4>1. CASE j = f
        BY <1>6, <2>1, <4>1 DEF Exists
      <4>2. CASE j # f /\ k = f
        BY <1>3, <1>5, <1>6, <2>1, <3>1, <3>2, <4>2 DEF Packed, Exists
      <4>3. CASE j # f /\ k # f
        BY <1>3, <1>5, <1>6, <2>1, <3>1, <3>2, <4>3 DEF Packed, Exists
      <4> QED BY <4>1, <4>2, <4>3
    <3> QED BY <2>1, <3>2 DEF Packed, Exists
  <2>10. NoGap'
    BY <1>2, <1>3, <1>4, <1>5, <1>6, <2>9 DEF NoGap
  <2>11. ASSUME p = "rename"
         PROVE  g # 0 /\ size'[0] = size[0]
    BY <1>2, <1>3, <1>5, <2>1, <2>11
  <2>12. Place(t)'
    BY <1>2, <1>3, <1>4, <1>6, <2>1, <2>9, <2>11 DEF Place, Locked, Rolling, Exists, Over, Packed
  <2> QED BY <1>1, <1>2, <1>4, <1>9, <2>3, <2>4, <2>5, <2>7, <2>8, <2>10, <2>12, PlacesKept DEF Inductive
<1>7. CASE ~Exists(g) /\ UNCHANGED <<size, records, mishaps>>
  <2>1. TypeOK'
    BY <1>1, <1>2, <1>4, <1>7, <1>10 DEF TypeOK
  <2>2. Empty' /\ InOrder' /\ WithoutHoles' /\ RolledFilesAreFull'
    BY <1>1, <1>2, <1>7, DiskKept DEF disk, Inductive
  <2>3. ASSUME mishaps = {}
        PROVE  Packed(g)
    <3>1. ASSUME NEW j \in Files, NEW k \in Files, j < k, j # g, Exists(k)
          PROVE  Exists(j)
      <4>1. CASE j # f
        BY <1>3, <2>3, <3>1, <4>1 DEF Packed
      <4>2. CASE j = f
        <5>1. g < k
          BY <1>3, <1>5, <3>1, <4>2 DEF Files
        <5>2. Exists(g)
          BY <1>3, <1>5, <2>3, <3>1, <5>1 DEF Packed
        <5> QED BY <1>7, <5>2
      <4> QED BY <4>1, <4>2
    <3> QED BY <3>1 DEF Packed
  <2>4. NoGap'
    BY <1>2, <1>3, <1>4, <1>5, <1>7, <2>3 DEF NoGap, Packed, Exists
  <2>5. Place(t)'
    BY <1>2, <1>3, <1>4, <1>5, <1>7, <2>3 DEF Place, Locked, Rolling, Exists, Over, Packed
  <2> QED BY <1>1, <1>2, <1>4, <1>9, <2>1, <2>2, <2>4, <2>5, PlacesKept DEF Inductive
<1>8. CASE mishaps' = mishaps \cup {"rename"} /\ UNCHANGED <<size, records>>
  <2>1. TypeOK'
    BY <1>1, <1>2, <1>4, <1>8, <1>10 DEF TypeOK
  <2>2. Empty' /\ InOrder' /\ WithoutHoles' /\ RolledFilesAreFull'
    BY <1>1, <1>8 DEF Empty, InOrder, WithoutHoles, RolledFilesAreFull, Exists, Over
  <2>3. NoGap'
    BY <1>8 DEF NoGap
  <2>4. Place(t)'
    BY <1>2, <1>3, <1>4, <1>5, <1>8 DEF Place, Locked, Rolling, Exists, Over
  <2> QED BY <1>1, <1>2, <1>4, <1>9, <2>1, <2>2, <2>3, <2>4, PlacesKept DEF Inductive
<1> QED BY <1>3, <1>6, <1>7, <1>8 DEF RenameNext, FileRename, disk

\* What is left to show of a step inside the appender, when nothing has
\* happened to the files with a number.
LEMMA RolledKept ==
  ASSUME TypeOK, InOrder, WithoutHoles, RolledFilesAreFull, NoGap,
         \A u \in Threads : pc[u] # "rename",
         size' \in [Files -> Nat \cup {Missing}],
         \A k \in Files \ {0} : size'[k] = size[k],
         UNCHANGED mishaps
  PROVE  RolledFilesAreFull' /\ NoGap'
<1>1. RolledFilesAreFull'
  BY DEF RolledFilesAreFull, Exists, Over
<1>2. NoGap'
  <2>1. ASSUME Packed(0), NEW j \in Files, NEW k \in Files, j < k, j # 0, size'[k] # Missing
        PROVE  size'[j] # Missing
    BY <2>1, Sizes DEF Packed, Exists
  <2> QED BY <2>1 DEF NoGap, Packed, Exists
<1> QED BY <1>1, <1>2

LEMMA openLogFileInductive ==
  ASSUME Inductive, NEW t \in Threads, openLogFile(t) PROVE Inductive'
<1> USE LogAssumption, Sizes
<1>1. /\ TypeOK /\ Mutex /\ Empty /\ SizeKnown /\ Places /\ NoGap
      /\ InOrder /\ WithoutHoles /\ RolledFilesAreFull
  BY DEF Inductive
<1>2. PICK p \in {"header", "write"} :
        /\ pc[t] = "open" /\ Goto(t, p) /\ (p = "header" <=> m_fileSize' = 0)
        /\ m_firstWrite' = FALSE
        /\ UNCHANGED <<m_instance, m_appenders, m_sync, record, fileNumber, written,
                       mishaps, records>>
  BY DEF openLogFile, logger, history, FileOpen, disk
<1>3. /\ Mutex' /\ pc' \in [Threads -> Pcs] /\ pc'[t] = p
      /\ \A u \in Threads \ {t} : pc'[u] = pc[u] /\ pc[u] \notin Locked
  BY <1>1, <1>2, MutexKept DEF Locked, Rolling
<1>4. /\ size' \in [Files -> Nat \cup {Missing}]
      /\ \A k \in Files \ {0} : size'[k] = size[k]
      /\ \/ m_file' = TRUE /\ size'[0] \in Nat /\ m_fileSize' = size'[0]
         \/ m_file' = FALSE /\ size' = size /\ m_fileSize' = Failed
  BY <1>1 DEF openLogFile, FileOpen, disk, TypeOK, Missing
<1>5. record[t] \in Lengths
  BY <1>1, <1>2 DEF Places, Place, Locked
<1>6. TypeOK'
  BY <1>1, <1>2, <1>3, <1>4 DEF TypeOK
<1>7. Empty'
  <2>1. records'[0] = {} \/ Exists(0)'
    BY <1>1, <1>2, <1>4 DEF Empty, Exists, Missing
  <2> QED BY <1>1, <1>2, <1>4, <2>1 DEF Empty, Exists
<1>8. InOrder' /\ WithoutHoles'
  BY <1>1, <1>2 DEF InOrder, WithoutHoles, Logged
<1>9. SizeKnown'
  BY <1>2, <1>4 DEF SizeKnown, Exists, Missing
<1>10. RolledFilesAreFull' /\ NoGap'
  BY <1>1, <1>2, <1>3, <1>4, RolledKept DEF Locked, Rolling
<1>11. Places'
  <2>1. Place(t)'
    BY <1>2, <1>3, <1>4, <1>5 DEF Place, Failed
  <2> QED BY <1>1, <1>2, <1>3, <2>1, PlacesKept
<1> QED BY <1>3, <1>6, <1>7, <1>8, <1>9, <1>10, <1>11 DEF Inductive

LEMMA WriteHeaderInductive ==
  ASSUME Inductive, NEW t \in Threads, WriteHeader(t) PROVE Inductive'
<1> USE LogAssumption, Sizes
<1>1. /\ TypeOK /\ Mutex /\ Empty /\ SizeKnown /\ Places /\ NoGap
      /\ InOrder /\ WithoutHoles /\ RolledFilesAreFull
  BY DEF Inductive
<1>2. /\ pc[t] = "header" /\ Goto(t, "write")
      /\ UNCHANGED <<m_instance, m_appenders, m_file, m_firstWrite, m_sync, record,
                     fileNumber, written, mishaps, records>>
  BY DEF WriteHeader, logger, history
<1>3. /\ Mutex' /\ pc' \in [Threads -> Pcs] /\ pc'[t] = "write"
      /\ \A u \in Threads \ {t} : pc'[u] = pc[u] /\ pc[u] \notin Locked
  BY <1>1, <1>2, MutexKept DEF Locked, Rolling
<1>4. m_file /\ Exists(0) /\ m_fileSize = size[0] /\ size[0] \in Nat /\ ~m_firstWrite
  BY <1>1, <1>2 DEF Places, Place, SizeKnown, TypeOK, Exists
<1>5. /\ size' \in [Files -> Nat \cup {Missing}]
      /\ \A k \in Files \ {0} : size'[k] = size[k]
      /\ size'[0] \in Nat /\ m_fileSize' = size'[0]
  BY <1>1, <1>4 DEF WriteHeader, FileWrite, FileNotWritten, TypeOK, header
<1>6. TypeOK'
  BY <1>1, <1>2, <1>3, <1>5 DEF TypeOK
<1>7. Empty' /\ InOrder' /\ WithoutHoles'
  <2>1. Empty'
    BY <1>1, <1>2, <1>5 DEF Empty, Exists, Missing
  <2> QED BY <1>1, <1>2, <2>1 DEF InOrder, WithoutHoles, Logged
<1>8. SizeKnown'
  BY <1>2, <1>4, <1>5 DEF SizeKnown, Exists, Missing
<1>9. RolledFilesAreFull' /\ NoGap'
  BY <1>1, <1>2, <1>3, <1>5, RolledKept DEF Locked, Rolling
<1>10. Places'
  <2>1. record[t] \in Lengths
    BY <1>1, <1>2 DEF Places, Place, Locked
  <2>2. Place(t)'
    BY <1>2, <1>3, <2>1 DEF Place
  <2> QED BY <1>1, <1>2, <1>3, <2>2, PlacesKept
<1> QED BY <1>3, <1>6, <1>7, <1>8, <1>9, <1>10 DEF Inductive

LEMMA WriteRecordInductive ==
  ASSUME Inductive, NEW t \in Threads, WriteRecord(t) PROVE Inductive'
<1> USE LogAssumption, Sizes
<1>1. /\ TypeOK /\ Mutex /\ Empty /\ SizeKnown /\ Places /\ NoGap
      /\ InOrder /\ WithoutHoles /\ RolledFilesAreFull
  BY DEF Inductive
<1>2. /\ pc[t] = "write" /\ Goto(t, "idle") /\ m_sync' = None
      /\ record' = [record EXCEPT ![t] = 0]
      /\ UNCHANGED <<m_instance, m_appenders, m_file, m_firstWrite, fileNumber, mishaps>>
  BY DEF WriteRecord, MutexUnlock, logger
<1>3. /\ pc' \in [Threads -> Pcs] /\ pc'[t] = "idle"
      /\ \A u \in Threads \ {t} :
           pc'[u] = pc[u] /\ pc[u] \notin Locked /\ record'[u] = record[u]
      /\ record' \in [Threads -> Lengths \cup {0}]
      /\ \A u \in Threads : pc'[u] \notin Locked
  BY <1>1, <1>2, Alone DEF Goto, TypeOK, Pcs, Locked, Rolling
<1>4. Mutex'
  BY <1>2, <1>3 DEF Mutex
<1>5. record[t] \in Nat /\ written \in Nat
      /\ size \in [Files -> Nat \cup {Missing}] /\ records \in [Files -> SUBSET (1..written)]
  BY <1>1 DEF TypeOK
<1>6. \A u \in Threads : pc[u] # "rename"
  BY <1>2, <1>3 DEF Locked, Rolling
<1>7. Places'
  <2>1. Place(t)'
    BY <1>3 DEF Place, Locked, Rolling
  <2> QED BY <1>1, <1>3, <2>1, PlacesKept
<1>8. CASE FileNotWritten /\ UNCHANGED <<written, records>>
  <2>1. UNCHANGED <<size, m_fileSize>>
    BY <1>8 DEF FileNotWritten
  <2>2. TypeOK'
    BY <1>1, <1>2, <1>3, <1>8, <2>1 DEF TypeOK
  <2>3. Empty' /\ InOrder' /\ WithoutHoles' /\ RolledFilesAreFull'
    BY <1>1, <1>2, <1>8, <2>1, DiskKept DEF disk, Inductive
  <2>4. SizeKnown'
    BY <1>1, <1>2, <1>3, <2>1 DEF SizeKnown, Exists, Locked, Rolling
  <2>5. NoGap'
    BY <1>1, <1>2, <1>6, <2>1 DEF NoGap, Packed, Exists
  <2> QED BY <1>4, <1>7, <2>2, <2>3, <2>4, <2>5 DEF Inductive
<1>9. CASE /\ FileWrite(record[t])
           /\ written' = written + 1
           /\ records' = [records EXCEPT ![0] = @ \cup {written + 1}]
  <2>1. m_file /\ Exists(0) /\ m_fileSize = size[0] /\ size[0] \in Nat /\ ~m_firstWrite
    BY <1>1, <1>5, <1>9 DEF FileWrite, SizeKnown, Exists
  <2>2. /\ size' \in [Files -> Nat \cup {Missing}]
        /\ \A k \in Files \ {0} : size'[k] = size[k]
        /\ size'[0] \in Nat /\ m_fileSize' = size'[0] /\ m_fileSize' \in Nat
    BY <1>5, <1>9, <2>1 DEF FileWrite
  <2>3. /\ written' = written + 1 /\ written' \in Nat
        /\ records'[0] = records[0] \cup {written + 1}
        /\ \A k \in Files \ {0} : records'[k] = records[k]
        /\ \A k \in Files : records[k] \subseteq 1..written
        /\ records' \in [Files -> SUBSET (1..written')]
    BY <1>5, <1>9
  <2>4. TypeOK'
    BY <1>1, <1>2, <1>3, <2>2, <2>3 DEF TypeOK
  <2>5. Empty'
    BY <1>1, <2>2, <2>3 DEF Empty, Exists, Missing
  <2>6. InOrder'
    <3> SUFFICES ASSUME NEW j \in Files, NEW k \in Files, j < k,
                        NEW a \in records'[j], NEW b \in records'[k]
                 PROVE  b < a
      BY DEF InOrder
    <3>1. b \in records[k] /\ b \in 1..written
      BY <2>3
    <3>2. a \in records[j] \/ a = written + 1
      BY <2>3
    <3>3. CASE a \in records[j]
      BY <1>1, <3>1, <3>3 DEF InOrder
    <3>4. CASE a = written + 1
      BY <1>5, <3>1, <3>4
    <3> QED BY <3>2, <3>3, <3>4
  <2>7. \A i : i \in Logged' <=> i \in Logged \/ i = written + 1
    BY <2>3 DEF Logged
  <2>8. WithoutHoles'
    <3> SUFFICES ASSUME "rename" \notin mishaps, NEW i \in Logged', NEW j \in 1..written',
                        i <= j, j # written + 1
                 PROVE  j \in Logged
      BY <1>2, <2>7 DEF WithoutHoles
    <3>1. j \in 1..written /\ i # written + 1
      BY <1>5, <2>3
    <3> QED BY <1>1, <2>7, <3>1 DEF WithoutHoles
  <2>9. SizeKnown'
    BY <1>2, <2>1, <2>2 DEF SizeKnown, Exists, Missing
  <2>10. RolledFilesAreFull' /\ NoGap'
    BY <1>1, <1>2, <1>6, <2>2, RolledKept
  <2> QED BY <1>4, <1>7, <2>4, <2>5, <2>6, <2>8, <2>9, <2>10 DEF Inductive
<1> QED BY <1>8, <1>9 DEF WriteRecord

LEMMA KillInductive == Inductive /\ Kill => Inductive'
<1> SUFFICES ASSUME Inductive, Kill PROVE Inductive'
  OBVIOUS
<1> USE LogAssumption, Sizes
<1>1. /\ TypeOK /\ Mutex /\ Empty /\ SizeKnown /\ Places /\ NoGap
      /\ InOrder /\ WithoutHoles /\ RolledFilesAreFull
  BY DEF Inductive
<1>2. /\ m_instance' = FALSE /\ m_appenders' = FALSE
      /\ m_file' = FALSE /\ m_fileSize' = 0 /\ m_firstWrite' = TRUE
      /\ m_sync' = None /\ fileNumber' = 0
      /\ pc' = [t \in Threads |-> "idle"] /\ record' = [t \in Threads |-> 0]
      /\ UNCHANGED <<size, records, written>>
  BY DEF Kill, Singleton, disk
<1>3. \/ mishaps' = mishaps \cup {"kill"}
      \/ mishaps' = mishaps /\ \A t \in Threads : pc[t] # "rename"
  BY DEF Kill
<1>4. TypeOK'
  <2>1. mishaps' \subseteq {"rename", "kill"}
    BY <1>1, <1>3 DEF TypeOK
  <2>2. pc' \in [Threads -> Pcs] /\ record' \in [Threads -> Lengths \cup {0}]
    BY <1>2 DEF Pcs
  <2>3. /\ size' \in [Files -> Nat \cup {Missing}] /\ records' \in [Files -> SUBSET (1..written')]
        /\ written' \in Nat
    BY <1>1, <1>2 DEF TypeOK
  <2>4. fileNumber' \in 0..maxFiles /\ m_fileSize' \in Nat \cup {Failed}
    BY <1>2
  <2> QED BY <1>2, <2>1, <2>2, <2>3, <2>4 DEF TypeOK
<1>5. Mutex' /\ Places' /\ SizeKnown'
  BY <1>2 DEF Mutex, Places, Place, SizeKnown, Locked, Rolling
<1>6. Empty' /\ InOrder' /\ RolledFilesAreFull'
  BY <1>1, <1>2 DEF Empty, InOrder, RolledFilesAreFull, Exists, Over
<1>7. WithoutHoles'
  BY <1>1, <1>2, <1>3 DEF WithoutHoles, Logged
<1>8. NoGap'
  BY <1>1, <1>2, <1>3 DEF NoGap, Packed, Exists
<1> QED BY <1>4, <1>5, <1>6, <1>7, <1>8 DEF Inductive

LEMMA StepInductive == Inductive /\ [Next]_vars => Inductive'
<1>1. ASSUME Inductive, NEW t \in Threads, Step(t) PROVE Inductive'
  BY <1>1, OutsideInductive, writeInductive, rollLogFilesInductive, RenameNextInductive,
     openLogFileInductive, WriteHeaderInductive, WriteRecordInductive DEF Step
<1>2. ASSUME Inductive, UNCHANGED vars PROVE Inductive'
  BY <1>2 DEF vars, disk, logger, appender, calls, history, Inductive, TypeOK, Mutex, Empty,
     SizeKnown, Places, Place, NoGap, InOrder, WithoutHoles, RolledFilesAreFull, Logged,
     Packed, Exists, Over
<1> QED BY <1>1, <1>2, KillInductive DEF Next

LEMMA Invariance == Spec => []Inductive
BY InitInductive, StepInductive, PTL DEF Spec

-----------------------------------------------------------------------------

\* Whatever is killed or fails, the files hold the latest records, older ones
\* in files of higher numbers, and only a failed rename makes holes
\* (RollingFileAppender::write and rollLogFiles, RollingFileAppender.h:36-102).
THEOREM LogIsASuffixHolds == Spec => []LogIsASuffix
<1>1. Inductive => LogIsASuffix
  BY DEF Inductive, LogIsASuffix
<1> QED BY Invariance, <1>1, PTL

\* A file with a number is full, because the size the appender believes in is
\* the size of the file it has open (RollingFileAppender.h:45, 85-109).
THEOREM RolledFilesAreFullHolds == Spec => []RolledFilesAreFull
<1>1. Inductive => RolledFilesAreFull
  BY DEF Inductive
<1> QED BY Invariance, <1>1, PTL

\* Where there was no mishap, a record is lost only from the oldest file when
\* every file is there and full (rollLogFiles, RollingFileAppender.h:85-102).
THEOREM EnoughIsKeptHolds == Spec => EnoughIsKept
<1> DEFINE Kept == \A i \in Logged :
                     i \in Logged' \/ (i \in records[Oldest] /\ \A k \in Files : Over(k))
<1>1. ASSUME Inductive, UNCHANGED records PROVE Kept
  BY <1>1 DEF Logged
<1>2. ASSUME Inductive, NEW t \in Threads, rollLogFiles(t), mishaps' = {} PROVE Kept
  <2>1. /\ TypeOK /\ Mutex /\ Empty /\ Places /\ NoGap /\ RolledFilesAreFull /\ mishaps = {}
        /\ pc[t] = "unlink"
    BY <1>2 DEF Inductive, rollLogFiles, history
  <2>2. \A u \in Threads : pc[u] # "rename"
    BY <2>1, Alone DEF Locked, Rolling
  <2>3. Packed(0) /\ Exists(0) /\ Over(0)
    BY <2>1, <2>2 DEF NoGap, Places, Place
  <2>4. \A k \in Files \ {Oldest} : records'[k] = records[k]
    BY <1>2, <2>1 DEF rollLogFiles, FileUnlink, TypeOK, disk
  <2>5. ASSUME NEW i \in records[Oldest] PROVE \A k \in Files : Over(k)
    <3>1. Exists(Oldest)
      BY <2>1, <2>5, Sizes DEF Empty
    <3>2. \A k \in Files \ {0} : Exists(k)
      BY <2>3, <3>1, Sizes DEF Packed
    <3> QED BY <2>1, <2>3, <3>2 DEF RolledFilesAreFull
  <2> QED BY <2>4, <2>5, LoggedIs DEF Logged
<1>3. ASSUME Inductive, NEW t \in Threads, RenameNext(t), mishaps' = {} PROVE Kept
  <2>1. /\ TypeOK /\ Empty /\ Places /\ RolledFilesAreFull /\ pc[t] = "rename"
        /\ records \in [Files -> SUBSET (1..written)]
    BY <1>3 DEF Inductive, RenameNext, TypeOK
  <2>2. PICK f \in Files \ {0}, g \in Files :
          /\ f = fileNumber /\ g = f - 1 /\ f # g /\ Exists(0) /\ Over(0)
          /\ "rename" \notin mishaps => ~Exists(f) \/ f = Oldest
          /\ mishaps = {} /\ Exists(f) => \A k \in Files : Exists(k)
    <3>1. Place(t)
      BY <2>1 DEF Places
    <3>2. fileNumber \in Files \ {0} /\ Exists(0) /\ Over(0)
      BY <2>1, <3>1 DEF Place
    <3>3. fileNumber - 1 \in Files /\ fileNumber # fileNumber - 1
      BY <3>2, Sizes
    <3>4. /\ "rename" \notin mishaps => ~Exists(fileNumber) \/ fileNumber = Oldest
          /\ mishaps = {} /\ Exists(fileNumber) => \A k \in Files : Exists(k)
      BY <2>1, <3>1 DEF Place
    <3> QED BY <3>2, <3>3, <3>4
  <2>3. \/ UNCHANGED records
        \/ records' = [records EXCEPT ![f] = records[g], ![g] = {}] /\ mishaps = {}
    BY <1>3, <2>2 DEF RenameNext, FileRename, disk
  <2>4. CASE UNCHANGED records
    BY <1>1, <1>3, <2>4
  <2>5. CASE records' = [records EXCEPT ![f] = records[g], ![g] = {}] /\ mishaps = {}
    <3>1. /\ records'[f] = records[g]
          /\ \A k \in Files \ {f, g} : records'[k] = records[k]
      BY <2>1, <2>2, <2>5
    <3>2. \A i \in Logged : i \in Logged' \/ i \in records[f]
      BY <3>1, LoggedIs DEF Logged
    <3>3. ASSUME NEW i \in records[f] PROVE f = Oldest /\ \A k \in Files : Over(k)
      <4>1. Exists(f)
        BY <2>1, <3>3 DEF Empty
      <4> QED BY <2>1, <2>2, <2>5, <4>1 DEF RolledFilesAreFull
    <3> QED BY <3>2, <3>3
  <2> QED BY <2>3, <2>4, <2>5
<1>4. ASSUME Inductive, [Next]_vars, mishaps' = {} PROVE Kept
  <2>1. ASSUME NEW t \in Threads, init(t) \/ addAppender(t) \/ PLOG(t) \/ write(t)
                                  \/ openLogFile(t) \/ WriteHeader(t)
        PROVE  Kept
    <3>1. UNCHANGED records
      BY <2>1 DEF init, addAppender, PLOG, write, openLogFile, FileOpen, WriteHeader, disk
    <3> QED BY <1>1, <1>4, <3>1
  <2>2. ASSUME NEW t \in Threads, WriteRecord(t) PROVE Kept
    <3>1. records \in [Files -> SUBSET (1..written)]
      BY <1>4 DEF Inductive, TypeOK
    <3>2. \A k \in Files : records[k] \subseteq records'[k]
      BY <2>2, <3>1, Sizes DEF WriteRecord
    <3> QED BY <3>2, LoggedIs DEF Logged
  <2>3. ASSUME Kill \/ UNCHANGED vars PROVE Kept
    <3>1. UNCHANGED records
      BY <2>3 DEF Kill, disk, vars
    <3> QED BY <1>1, <1>4, <3>1
  <2> QED BY <1>2, <1>3, <1>4, <2>1, <2>2, <2>3 DEF Next, Step
<1>5. Inductive /\ [Next]_vars => [mishaps' = {} => Kept]_vars
  BY <1>4
<1> HIDE DEF Kept
<1>6. Spec => [][mishaps' = {} => Kept]_vars
  BY Invariance, <1>5, PTL DEF Spec
<1> QED BY <1>6 DEF EnoughIsKept, Kept
=============================================================================
