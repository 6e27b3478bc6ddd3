----------------------------- MODULE RollingLog -----------------------------
(***************************************************************************)
(* The log of the process: the logger and the rolling file appender that   *)
(* initPlog sets up, written by any number of threads.  The process can be *)
(* killed between any two system calls and started again; what is on the   *)
(* disk stays.  File 0 is cammon.log, file k is cammon.k.log.  A record    *)
(* is a number: the place it has among the records that were written.      *)
(* POSIX file functions; a file the disk takes in part is not modelled.    *)
(***************************************************************************)
EXTENDS Integers

CONSTANTS
  Threads,
  None,
  maxFiles,      \* the arguments of the appender: how many files to keep
  maxFileSize,   \* and how many bytes to have in one
  LowerLimit,    \* the least size, 1000 bytes in the code
  Lengths,       \* of formatted records, in bytes
  Failures,      \* of "open", "write", "unlink", "rename": system calls that may fail
  MaxRecords     \* bound: no call starts when so many records are written

ASSUME LogAssumption ==
  /\ None \notin Threads
  /\ maxFiles \in Nat \ {0}
  /\ maxFileSize \in Nat /\ LowerLimit \in Nat
  /\ Lengths \subseteq Nat \ {0}
  /\ Failures \subseteq {"open", "write", "unlink", "rename"}
  /\ MaxRecords \in Nat

\* From none to verbose; the log is set up for info.
Severity == 0..6
info == 4

\* A record is written as one line, its date, severity, thread and function
\* before the message: of any length there is.
format == Lengths

\* A file begins with the byte order mark of UTF8Converter, in three bytes;
\* the header of TxtFormatter is empty.
header == 3

Files == 0..(maxFiles - 1)
Oldest == maxFiles - 1

\* The size the appender uses.
m_maxFileSize == IF maxFileSize < LowerLimit THEN LowerLimit ELSE maxFileSize

\* static_cast<size_t>(-1): what a system call that fails returns.
Failed == -1
Missing == -1

VARIABLES
  \* the disk
  size,         \* size[k]: the bytes in file k, or Missing
  records,      \* records[k]: the records in file k
  \* the process
  m_instance,   \* there is a logger
  m_appenders,  \* it has the appender
  m_file,       \* the appender has file 0 open
  m_fileSize,   \* what it takes the size of file 0 for
  m_firstWrite,
  m_sync,       \* the thread that holds the mutex of the appender
  pc,           \* pc[t]: the next step of thread t, "idle" outside the log
  record,       \* record[t]: the length of the record it writes, or 0
  fileNumber,   \* the loop variable of rollLogFiles
  \* history
  written,      \* the number of records written
  mishaps       \* "rename": one failed; "kill": the process was killed in a roll

disk == <<size, records>>
logger == <<m_instance, m_appenders>>
appender == <<m_file, m_fileSize, m_firstWrite>>
calls == <<m_sync, pc, record, fileNumber>>
history == <<written, mishaps>>
vars == <<disk, logger, appender, calls, history>>

Rolling == {"unlink", "rename"}
Locked == Rolling \cup {"open", "header", "write"}
Pcs == {"idle", "init", "lock"} \cup Locked

Exists(k) == size[k] # Missing
Over(k) == size[k] > m_maxFileSize

Init ==
  /\ size = [k \in Files |-> Missing]
  /\ records = [k \in Files |-> {}]
  /\ m_instance = FALSE /\ m_appenders = FALSE
  /\ m_file = FALSE /\ m_fileSize = 0 /\ m_firstWrite = TRUE
  /\ m_sync = None
  /\ pc = [t \in Threads |-> "idle"] /\ record = [t \in Threads |-> 0]
  /\ fileNumber = 0
  /\ written = 0 /\ mishaps = {}

TypeOK ==
  /\ size \in [Files -> Nat \cup {Missing}]
  /\ records \in [Files -> SUBSET (1..written)]
  /\ m_instance \in BOOLEAN /\ m_appenders \in BOOLEAN
  /\ m_file \in BOOLEAN /\ m_firstWrite \in BOOLEAN
  /\ m_fileSize \in Nat \cup {Failed}
  /\ m_sync \in Threads \cup {None}
  /\ pc \in [Threads -> Pcs]
  /\ record \in [Threads -> Lengths \cup {0}]
  /\ fileNumber \in 0..maxFiles
  /\ written \in Nat
  /\ mishaps \subseteq {"rename", "kill"}

-----------------------------------------------------------------------------
(* Setting the logger up, and the macros that log.                         *)

Goto(t, place) == pc' = [pc EXCEPT ![t] = place]

\* Singleton: its constructor and its destructor say which logger PLOG finds.
Singleton(lives) == m_instance' = lives

\* initPlog, which a process calls once: plog::init constructs the static
\* logger, which makes it the instance that PLOG asks for ...
init(t) ==
  /\ pc[t] = "idle" /\ ~m_instance
  /\ Singleton(TRUE)
  /\ Goto(t, "init")
  /\ UNCHANGED <<disk, m_appenders, appender, m_sync, record, fileNumber, history>>

\* ... and adds the appender.
addAppender(t) ==
  /\ pc[t] = "init"
  /\ m_appenders' = TRUE
  /\ Goto(t, "idle")
  /\ UNCHANGED <<disk, m_instance, appender, m_sync, record, fileNumber, history>>

checkSeverity(s) == s <= info
IF_PLOG(s) == m_instance /\ checkSeverity(s)

\* PLOG makes a record and hands it to the appenders of the logger.  Without
\* a logger or with one that has no appender yet, and below its severity,
\* nothing happens.
PLOG(t) ==
  /\ pc[t] = "idle"
  /\ \E s \in Severity : IF_PLOG(s)
  /\ m_appenders
  /\ written < MaxRecords
  /\ \E n \in format : record' = [record EXCEPT ![t] = n]
  /\ Goto(t, "lock")
  /\ UNCHANGED <<disk, logger, appender, m_sync, fileNumber, history>>

-----------------------------------------------------------------------------
(* RollingFileAppender::write, with the mutex held.                        *)

MutexLock(t) == m_sync = None /\ m_sync' = t
MutexUnlock == m_sync' = None

\* Fault: the file is opened anew instead of appended to.
FileOpen_truncates ==
  /\ size' = [size EXCEPT ![0] = 0] /\ records' = [records EXCEPT ![0] = {}]
  /\ m_file' = TRUE /\ m_fileSize' = 0

\* Fault: the size of the file that was rolled is not forgotten.
FileOpen_adds ==
  /\ size' = [size EXCEPT ![0] = IF @ = Missing THEN 0 ELSE @]
  /\ m_file' = TRUE /\ m_fileSize' = m_fileSize + size'[0]
  /\ UNCHANGED records

\* File 0 is opened to append to it, and created if it is missing; the size
\* is where its end is.
FileOpen ==
  \/ /\ size' = [size EXCEPT ![0] = IF @ = Missing THEN 0 ELSE @]
     /\ m_file' = TRUE /\ m_fileSize' = size'[0]
     /\ UNCHANGED records
  \/ /\ "open" \in Failures
     /\ m_file' = FALSE /\ m_fileSize' = Failed
     /\ UNCHANGED disk

\* n bytes are appended to file 0, or nothing is.
FileWrite(n) ==
  /\ m_file
  /\ size' = [size EXCEPT ![0] = @ + n]
  /\ m_fileSize' = m_fileSize + n

FileNotWritten ==
  /\ ~m_file \/ "write" \in Failures
  /\ UNCHANGED <<size, m_fileSize>>

FileClose == m_file' = FALSE

FileUnlink(k) ==
  \/ /\ size' = [size EXCEPT ![k] = Missing]
     /\ records' = [records EXCEPT ![k] = {}]
  \/ "unlink" \in Failures /\ UNCHANGED disk

\* rename replaces what has the new name.  It fails if there is no such file.
FileRename(k, l) ==
  \/ /\ Exists(k)
     /\ size' = [size EXCEPT ![l] = size[k], ![k] = Missing]
     /\ records' = [records EXCEPT ![l] = records[k], ![k] = {}]
     /\ UNCHANGED mishaps
  \/ ~Exists(k) /\ UNCHANGED <<disk, mishaps>>
  \/ Exists(k) /\ "rename" \in Failures /\ mishaps' = mishaps \cup {"rename"} /\ UNCHANGED disk

\* The first write of a process opens the file, whatever its size.
write(t) ==
  /\ pc[t] = "lock"
  /\ MutexLock(t)
  /\ Goto(t, IF m_firstWrite THEN "open"
             ELSE IF m_fileSize > m_maxFileSize /\ m_fileSize # Failed THEN "unlink"
             ELSE "write")
  /\ UNCHANGED <<disk, logger, appender, record, fileNumber, history>>

\* Fault: the loop starts one file too low.
rollLogFiles_low(t) ==
  /\ pc[t] = "unlink"
  /\ FileClose
  /\ FileUnlink(Oldest)
  /\ fileNumber' = Oldest - 1
  /\ Goto(t, IF maxFiles > 2 THEN "rename" ELSE "open")
  /\ UNCHANGED <<logger, m_fileSize, m_firstWrite, m_sync, record, history>>

\* rollLogFiles closes file 0, removes the oldest file ...
rollLogFiles(t) ==
  /\ pc[t] = "unlink"
  /\ FileClose
  /\ FileUnlink(Oldest)
  /\ fileNumber' = Oldest
  /\ Goto(t, IF maxFiles > 1 THEN "rename" ELSE "open")
  /\ UNCHANGED <<logger, m_fileSize, m_firstWrite, m_sync, record, history>>

\* ... and moves the others up by one, the older ones first.
RenameNext(t) ==
  /\ pc[t] = "rename"
  /\ FileRename(fileNumber - 1, fileNumber)
  /\ fileNumber' = fileNumber - 1
  /\ Goto(t, IF fileNumber > 1 THEN "rename" ELSE "open")
  /\ UNCHANGED <<logger, appender, m_sync, record, written>>

\* A file that cannot be opened is not tried again: every record of this
\* process from here on is lost without a trace.
openLogFile(t) ==
  /\ pc[t] = "open"
  /\ FileOpen
  /\ m_firstWrite' = FALSE
  /\ Goto(t, IF m_fileSize' = 0 THEN "header" ELSE "write")
  /\ UNCHANGED <<logger, m_sync, record, fileNumber, history>>

WriteHeader(t) ==
  /\ pc[t] = "header"
  /\ FileWrite(header) \/ FileNotWritten
  /\ Goto(t, "write")
  /\ UNCHANGED <<records, logger, m_file, m_firstWrite, m_sync, record, fileNumber, history>>

WriteRecord(t) ==
  /\ pc[t] = "write"
  /\ \/ /\ FileWrite(record[t])
        /\ written' = written + 1
        /\ records' = [records EXCEPT ![0] = @ \cup {written + 1}]
     \/ FileNotWritten /\ UNCHANGED <<written, records>>
  /\ MutexUnlock
  /\ record' = [record EXCEPT ![t] = 0]
  /\ Goto(t, "idle")
  /\ UNCHANGED <<logger, m_file, m_firstWrite, fileNumber, mishaps>>

\* The process is killed, or ends, and is started again.
Kill ==
  /\ Singleton(FALSE) /\ m_appenders' = FALSE
  /\ m_file' = FALSE /\ m_fileSize' = 0 /\ m_firstWrite' = TRUE
  /\ m_sync' = None
  /\ pc' = [t \in Threads |-> "idle"] /\ record' = [t \in Threads |-> 0]
  /\ fileNumber' = 0
  /\ mishaps' = IF \E t \in Threads : pc[t] = "rename" THEN mishaps \cup {"kill"} ELSE mishaps
  /\ UNCHANGED <<disk, written>>

Step(t) ==
  \/ init(t) \/ addAppender(t) \/ PLOG(t)
  \/ write(t) \/ rollLogFiles(t) \/ RenameNext(t) \/ openLogFile(t)
  \/ WriteHeader(t) \/ WriteRecord(t)

Next == Kill \/ \E t \in Threads : Step(t)

Spec == Init /\ [][Next]_vars

-----------------------------------------------------------------------------

Logged == UNION {records[k] : k \in Files}

\* The files hold the latest records: what is in a file is older than what is
\* in a file of a lower number, and no record between two that are kept is
\* lost, whatever was killed or could not be opened, written or removed, and
\* whoever wrote.  Only a failed rename makes holes: the file that stays is
\* overwritten by the next (RollingFileAppender.h:85-102).
InOrder ==
  \A j, k \in Files : j < k => \A a \in records[j], b \in records[k] : b < a

WithoutHoles ==
  "rename" \notin mishaps => \A i \in Logged, j \in 1..written : i <= j => j \in Logged

LogIsASuffix == InOrder /\ WithoutHoles

\* A file with a number is full, as plog/README.md:912 has it, across kills in
\* the middle of a roll and files that could not be moved
\* (RollingFileAppender.h:45, 85-102).
RolledFilesAreFull == \A k \in Files \ {0} : Exists(k) => Over(k)

\* A record disappears only from the oldest file, and only while every file
\* is there and full: the log keeps maxFiles files, unless a rename failed or
\* a roll was cut off (plog/README.md:905, RollingFileAppender.h:85-98).
EnoughIsKept ==
  [][mishaps' = {} =>
       \A i \in Logged : i \in Logged' \/ (i \in records[Oldest] /\ \A k \in Files : Over(k))]_vars

=============================================================================
