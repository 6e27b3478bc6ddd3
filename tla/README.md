# A TLA+ model of cam_wind

cam_wind talks over UDP to a camera on a servo mount: it sends PTZ (pan, tilt, zoom)
commands and listens for status reports. This directory models the library in
`src/cam_mon_cpp/src` and the Java programs over it, checks the models with TLC
and proves theorems about them with TLAPS.

## 1. Inventory

| Component | Sources | State | Operations | Interacts with | Model |
|---|---|---|---|---|---|
| CamController | `cam_controller.cpp/.h` | per controller: `running`, `sock`, `is_multicast`, `mtx`, `last_packet`, `packets_by_ip`, a listener thread | create, start_ex, start_with_config, stop, destroy, get_last, get_ptz, set_ptz | the descriptor table of the process, the network, cammon_api, load_settings | `CamController` (section 3), `CamMonNative` (7) |
| cammon_api | `cammon_api.cpp/.h` | none between calls; one socket per call | send_udp_and_recv, send_camera_command, send_packet, send_servo_command | descriptor table, network, codec | `UdpExchange` (6), `CamController` (3), `Wire` (8) |
| CamAJFLib | `cam_ajf_lib.cpp/.h` | two sockets, `running_`, `current_ptz_`, two callbacks, three mutexes, a listener thread | init, shutdown, start, stop, get_ptz, set_ptz (two overloads), set_zoom, set_focus, on_ptz_update, on_packet_sent | network, codec, user callbacks | `CamAJFLib` (4), `Wire` (8) |
| MulticastReceiver | `multicast_receiver.cpp/.h` | a socket, `initialized_`, `running_`, two handlers, a receiver thread | init, start, stop, handlers | descriptor table, network, codec, user handlers | `MulticastReceiver` (5) |
| protocol codec | `protocol.cpp/.h` | none | serialize and deserialize of `Packet`, `ServoPacket`, `LoadStatusReport` | all of the above | `StandardFrame`, `ServoFrame`, `StatusFrame` (8) |
| load_settings, logging | `load_settings.cpp`, `plog_init.cpp` | the file name; the logger of the process | set_conf_file, loadSetting, initPlog | CamController | `CamMonNative` (7) |
| the log | plog, as `initPlog` sets it up: `RollingFileAppender.h`, `Util.h`, `Logger.h` | five files; one appender with a mutex, an open file and a size | write, rollLogFiles, openLogFile | every thread that logs, the file system | `RollingLog` (7) |
| Java bridge | `CamMonNative.java`, `TestListener.java` | one static handle | startStatusListener, stopStatusListener, getLastStatus, getPTZ, setPTZ | CamController through JNA, a shutdown hook | `CamMonNative` (7) |
| Java protocol | `Protocol.java` | none | buildCommand, parsePacket, serializeServo, parseServo | the C++ codec, over the wire | `StandardFrame`, `ServoFrame` (8) |
| Java simulator | `ServerSimulator.java` | none | answers a datagram | cammon_api, over the wire | `UdpExchange` (6), `Wire` (8) |

`PROJECT.json` lists every part, and section 10 says what is left out.

What is hard in this code:

* **Descriptors are numbers.** `cam_controller_stop` closes the listener's
  descriptor before it joins the listener, and the listener closes its own copy
  again. CamAJFLib closes before it joins too, and its listener reads the number once more
  for each call. Any socket opened in between may be given the number.
* **The listener starts after `start_ex` has answered.** `socket` and `bind` may
  fail when the caller already holds a 0.
* **One flag, two threads.** `running` is the only thing a listener is told; it
  looks at it once per `recvfrom`, which therefore must not wait for ever.
* **Two containers under one mutex**, read by any thread.
* **Callbacks under locks** (CamAJFLib), **init, start and stop in any order, and
  failures half way** (MulticastReceiver).
* **Answers that carry no request** (cammon_api): nothing in a datagram says which
  call it answers.
* **An unsynchronised static handle and a shutdown hook** (Java): two threads can stop one
  controller, and `stop` tests and clears its flag in two steps. And statics that outlive every controller
  (logger, settings).
* **Files that are renamed one by one** (the log), in a process that can be killed in
  between, with results nobody looks at.
* **Four frame formats, most of them read by several functions** with seals,
  offsets and bounds written out by hand (codec).

What makes each component correct: CamController - threads are joined before
they are replaced or deleted, sockets are closed and only one's own are used,
a read returns one datagram as a whole, nothing is stored after `stop` returned,
every call returns. cammon_api - the socket is closed on every path, no call is given the answer to
another that is under way. CamAJFLib - no callback after `stop`, no call blocks on the
library's own locks, what is recorded is what the device was told. MulticastReceiver - no socket is lost, no
handler runs after `stop`, each datagram is offered once and in order. Codec - what
is sent is read, by every reader it is meant for, and what was damaged is not by those that check. Java
bridge - no controller is lost, the process ends, no deleted controller is used. The log -
the files hold the latest records, in order, and as many as they are meant to.

## 2. Modules and runs

An arrow reads "extends" or "implements".

| Modules | Theorems in | Run (instance of) | Expected |
|---|---|---|---|
| `StatusPackets`, `StatusCache` (abstract) <- `CamController` | `CamController_proofs` | `one_controller` | pass |
| | | `stop_hangs` | violation |
| `PtzData`, `PtzFeed` (abstract) <- `CamAJFLib` | `CamAJFLib_proofs` | `lib` | pass |
| | | `pan_tilt` | violation |
| `ReportFeed` (abstract) <- `MulticastReceiver` | `MulticastReceiver_proofs` | `receiver` | pass |
| `RequestReply` (abstract) <- `UdpExchange` | `UdpExchange_proofs` | `exchange` | pass |
| `CamMonNative` | `CamMonNative_proofs` | `bridge` | pass |
| `RollingLog` | `RollingLog_proofs` | `log` | pass |
| `ByteStrings` <- `StandardFrame` <- `ServoFrame`, `StatusFrame` <- `Wire` | `ByteStrings_proofs` <- `Wire_proofs` | `frames` | pass |
| | | `minimal_frame`, `java_checksum`, `java_positions` | violation |

Each `MC` module instantiates the module it is named for. A run that expects a
violation checks one statement of a header or a comment that the code does
not keep; `PROJECT.json` quotes it under `findings`. Every property of a passing
run has a mutant in `PROJECT.json`: a fault, marked `Fault:` in the module,
that makes the run fail.

The order of work was: the controller, CamAJFLib, the codec, the receiver, the
exchange, the bridge, the log. Nothing of the plan is left; section 10 says what was
decided against.

## 3. The controller

### Modules

| Module | Role |
|---|---|
| `StatusPackets` | datagrams by class, source and destination; results of calls |
| `StatusCache` | abstract specification: an atomic register per controller |
| `CamController` | the code: owners, readers, senders, listeners, the descriptor table |
| `MCCamController` | instances for TLC |
| `CamController_proofs` | theorems |

### State and steps

`exists`, `running`, `sock`, `is_multicast`, `mtx`, `last_packet` and `packets_by_ip` are
the members of `struct CamController`. `lpc`, `lfd` and `buf` are the listener
thread: where it is, its local copy of the descriptor, the datagram it has not yet stored.
`pc`, `target`, `tfd` and `ret` are the application threads. `fds`, `skt` and
`held` are the kernel: which socket a number names, the options of each socket,
and the `recvfrom` a thread is blocked in, which keeps its socket and the timeout of that
moment whatever happens to the number.

A step ends where another thread can interfere: each system call on a descriptor
is a step, each access to an unlocked shared member that is followed by another
access is a step, the two stores under the mutex are two steps, the body of a reader under
the mutex is one. `stop` is four steps: clear the flag (in the call), look at
`sock` and drop the membership, close what `sock` now holds and set it to -1, join.
`destroy` is the same four steps and deletes at the join. `socket()` gives the
lowest free number, as POSIX says. A closed socket stays usable by the `recvfrom`
that is blocked on it.

Abstractions, each of which leaves behaviours in rather than out unless noted:

* A datagram is its class (empty, short, long enough to read a PTZ, status report),
  its source and the socket it was sent to.
* Sockets are named by the thread that created them. A thread has one at a time.
  A listener still blocked on a closed socket of another controller is not told
  apart from one blocked on that controller's next socket.
* `IP_DROP_MEMBERSHIP` is done with the test of `sock`, and may have no effect.
  The error codes -3 and -10 stand for the ranges the code derives from errno.
* A controller is started, stopped and destroyed by one thread (`OwnerOf`), as all
  C++ callers do. `CamMonNative` has two threads on one controller.
* The Linux build: `SO_RCVTIMEO` works on the blocking socket, errors are negative.

There are no counters, so no bound cuts a behaviour off: every run explores all
behaviours of its instance.

### Properties

| Property | Says |
|---|---|
| `NoSocketLeak` | the socket of a listener that ended or a call that returned is closed |
| `ThreadJoined` | no joinable thread is replaced or deleted |
| `CachesAgree` | outside the critical section the last packet is the last packet of its source |
| `FrozenAfterStop` | nothing is stored between the return of stop and the next start |
| `ImplementsCache` | every read is a read of an atomic register, received while listening |
| `OwnSocketOnly` | a system call reaches the caller's own socket or none (one controller, one thread that opens sockets) |
| `McastMeansJoined` | multicast mode of a running, waiting controller means it joined |
| `CallsReturn`, `StartListens` | calls return; a started controller comes to listen |

### Runs

| Run | Instance | Result |
|---|---|---|
| `one_controller` | 1 controller, its owner making every call, with and without a timeout, a second thread that reads at any time, 2 hosts, all failures, 2 descriptors, fairness | all safety properties, the refinement and the two liveness properties hold |
| `stop_hangs` | 2 controllers, 1 thread, fairness | **violated**: stop never returns |

Two descriptors are enough for every way a number can be reused by the sockets of
the instance and few enough for none to be left. Two hosts are enough to tell the
two caches apart. Every datagram is a status report here; that a read of an empty or a short one is a read of
the register too is proved (`ReadsAreAtomic`). What the instance with one controller cannot show,
several controllers and their descriptors, is proved for any number of them:
`NoSocketLeak`, `ThreadJoined` and `FrozenAfterStop` hold there too, and only
the hang of `stop_hangs` is lost.

`stop_hangs` in words: A listens and is about to call `recvfrom` again; B has
been started and its listener has not reached `socket()`. The owner stops A:
the flag, the look, `close(1)`. B's listener's `socket()` gets 1. A's listener calls
`recvfrom(1)` and waits on B's socket, which has no timeout yet. No datagram
comes, A's listener stays blocked and the join of `stop` with it. If B binds and one
does come, A stores a datagram that was sent to B's port. Both need two
controllers in one process. With one controller `OwnSocketOnly` excludes this, and
`CallsReturn` holds (run `one_controller`). The process
really stops there, the owner in `join` and nobody else to send, so `stop_hangs`
does not report that as a deadlock: it is judged by `CallsReturn` alone.

Three more disagreements with the headers are in the model and have no run. When
`socket` or `bind` fails the listener ends and `running` stays set: `start_ex` has
answered 0, later calls answer -2 and nobody listens (line 36 says it starts the
listening thread). `get_ptz` reads any cached datagram of 34 bytes or more (line 91
speaks of a status packet). And a timeout of 0 is no timeout at all: `cammon_api.h:42` speaks of a default one,
and `set_ptz` waits for its answer for ever.

### Fairness

Weak fairness of a listener's own steps and of the steps of a thread that is inside a call:
threads are scheduled, a `recvfrom` with a timeout returns, a mutex whose holder
runs is released. The arrival of a datagram is never assumed, and neither is
another call of the application. `set_ptz` without a timeout may wait for ever: `CallsReturn` says that
a call returns or comes to wait in that one place (`Unanswered`), and nowhere else. `StartListens` is in two
halves: a listener that is not stopped gets a socket, and with a socket it comes to wait for datagrams or ends because
`bind` failed.

## 4. CamAJFLib

### Modules

| Module | Role |
|---|---|
| `PtzData` | positions, zooms and focuses; the status and its writes |
| `PtzFeed` | abstract specification: a status that reports and commands change in one step, and a callback that is given every report once |
| `CamAJFLib` | the code: the owner, threads that send, read and register, the listener, three mutexes |
| `MCCamAJFLib` | instances for TLC |
| `CamAJFLib_proofs` | theorems |

### State and steps

`running_`, `current_ptz_`, `ptz_callback_` and `packet_callback_` are members of the class.
`cmd_sock_` and `status_sock_` are TRUE while they are not -1. `holder` gives the owner of `ptz_mutex_`, `callback_mutex_` and
`packet_callback_mutex_`. `lpc`, `lsock`, `buf` and `calling` are the listener: where it is, whether its
`recvfrom` was given a number or -1, the report it stores, the callback it is in and the arguments it gave. `pc`, `call`, `arg`, `ret` and
`got` are the application threads. `number` is what the kernel has under the number of the status socket, as long as the library may
use it: the library's own socket, nothing, or a socket of the rest of the process, on which the listener has set
its timeout or not. `servo` (whether the last servo command of a thread has left, and been reported)
and `zoomSent` (the byte the device was told last) are not in the code: the properties need them.

The library's own sockets do not block. But `stop` closes the status socket (`cam_ajf_lib.cpp:224`) before it
sets `status_sock_` to -1 and joins (229), and the listener reads `status_sock_` twice in each round, for
`setsockopt` (460) and for `recvfrom` (462). Between any two of these the process may open another socket and get the
number (`OtherOpens`, `OtherCloses`). The listener sets its timeout on whatever
the number names (`LsnOption`), and then receives on whatever it names (`LsnRead`): a report that
comes to another socket is stored as the device's (`LsnReport`), and on a socket that came between the two calls and blocks the listener
waits until a datagram comes to that socket (`LsnBlocks`, `LsnStranger`).

A step ends at a lock, at a system call, and in the critical section that writes
several fields. A critical section of one access only needs the mutex to be free. `stop`
is four steps (flag, close, -1, join) and `shutdown` and `init` go on from there: `CloseAll`,
`OpenCmd`. `start` is one step, since no other thread looks at what it writes
before the listener exists. `set_ptz` reads the focus, sends the servo
command, runs the packet callback, sends and stores the focus. A packet callback
may call `get_ptz`; a PTZ callback returns without calling the library.

Abstractions and restrictions:

* `init`, `start`, `stop` and `shutdown` are called by one thread, `Owner`: the test of
  `running_` and the assignment to `listener_thread_` are not made for more. The destructor is `shutdown`.
* Reports are members of a small set, the position is one value. A rejected datagram is a datagram that did not arrive.
* Zooms and focuses are numbers in tenths. `set_zoom` clamps its argument to 0 and 255, sends the byte without the
  fraction, and records the argument as it came (`ZoomByte`, `SendZoom`, `StoreZoom`): after `set_zoom(-1)` the device was sent 0
  and `get_ptz` says -1. A zoom that was never set is 0.
* The configuration is left out: `init` copies it and nothing else writes it.

There are no counters and no bounds but the sets of the instance.

### Properties

| Property | Says |
|---|---|
| `NoOtherCycle` | no circle of threads waits through mutexes and the join, but a two-argument `set_ptz` for itself (`LocksTwice`) |
| `NoWaitCycle` | no such circle at all; `pan_tilt` refutes it |
| `SilentAfterStop` | after stop no report is stored and no callback runs or begins |
| `NothingLeftBehind` | between the owner's calls socket and thread are those of the flag |
| `ZoomIsLastSent` | the byte of the recorded zoom is what the device was sent last |
| `ServoReported` | a servo command that left is reported before `set_ptz` returns, which answers true whatever becomes of the focus |
| `ImplementsFeed` | the library is a `PtzFeed` |
| `StopReturns` | stop returns, unless the listener is caught on another socket to which nothing ever comes, or waits for a mutex that a two-argument `set_ptz` keeps |
| `ReportsAreDealtWith` | the listener finishes every report, but for such a `set_ptz` |

### Runs

| Run | Instance | Result |
|---|---|---|
| `lib` | owner, 1 sender and reader whose packet callback may call get_ptz, both forms of `set_ptz`, 1 report, 1 callback, zooms and focuses of -1.0 and 3.7, every failure, other sockets of the process, fairness | every property above but `NoWaitCycle` holds. Threads may stop altogether, so deadlock is not reported |
| `pan_tilt` | the two-argument `set_ptz` | **violated**: the caller waits for itself |

In `lib` the owner does not send: with two senders `ZoomIsLastSent` is false, since
one may send first and store last. A second sender could only wait for
`packet_callback_mutex_`; the theorems `NoDeadlock` and `ServoIsReported` are for
any number of senders, and `LibraryImplementsFeed` for any number of reports and callbacks. One zoom is below the range of the
byte and the other has a fraction, so that the record and the byte differ. Only `set_ptz(azimuth, elevation)` selects the overload that locks
twice; calls with three or four arguments are ambiguous and do not compile.

`StopReturns` excepts `[](lpc = "blocked")`, and must: without the exception TLC finds the listener at its `setsockopt`, `stop`
closing the socket, another thread of the process opening one, the listener's `recvfrom` on it, and the join. The comment at `cam_ajf_lib.cpp:222`
has the close wake a `recvfrom` that blocks; on Linux it wakes none, and here it makes one possible. In a process that opens no other
socket while it stops, `number` never is "untimed" and `stop` returns.

Three more disagreements with `cam_ajf_lib.h` are in the model and have no run: zoom and
focus commands leave without a call of the packet callback (`SendZoom`, `SendFocus`; line 233
says every command is reported); when
`std::thread` throws, `start` leaves `running_` set and refuses until `stop` is called (`StartThrows`; line 146
says false means a port in use or an existing thread), and `get_ptz` returns the focus that
`set_focus` asked for (`StoreFocus`; line 161 says it comes from the device).

### Fairness

Weak fairness of the listener and of each thread inside a call: threads are scheduled
and callbacks return. A mutex is not handed over fairly and no report need
arrive, so only what the owner's join and the listener wait for is claimed
to happen: nothing about `get_ptz` or about a sender.

## 5. MulticastReceiver

`MulticastReceiver` is the object, the thread that owns it and its receiver thread, in a
process where other code opens and closes descriptors. `sock_`, `initialized_`, `running_`
are the members, `handlers` says which of the two are set. `owner`, `bound`
and `queue` are the kernel: who holds a number, which numbers receive, what is queued.
`app` is where the owner is inside `init` or `stop`, and `thread`, `arg`, `held` are the
receiver thread: where it is, the descriptor it passed to `recvfrom`, the datagram it has.
`init` is three steps (socket, bind, membership), each with its failure, `stop` is three
(flag, join, close). The thread reads `sock_` with the flag and uses it in a later step.

`Orders` names calls the class permits and that lose a socket: "reinit", an `init` over a socket
or under a thread, and "abandon", the end of a receiver that was initialised and never
started. With either in `Orders`, `NoSocketLost` is false, and so it is with the code:
`init` looks at neither member and `stop` returns early. No program of the repository
does either. "restart", a `start` after `stop`, which succeeds and receives nothing,
is harmless and is in the run.

| Property | Says |
|---|---|
| `NoSocketLost` | the sockets of the receiver are the one in `sock_`, whatever failed |
| `ThreadUsesOwnSocket` | a thread that may be in `recvfrom` uses the receiver's socket: `stop` joins before it closes |
| `ImplementsFeed` | the receiver is the mailbox `ReportFeed`: datagrams in order, each offered once, the raw handler before the report handler, none after `stop` |
| `StopReturns` | `stop` returns under any number of datagrams |

Run `receiver`: two descriptors (the receiver's and one for other code, so that a closed
number comes back), two reports and another datagram, a queue of two, every failure,
"restart". Two datagrams in the queue are enough for an order. Fairness: the thread
is scheduled, `recvfrom` times out, handlers return, and a call that has begun goes on.
Handlers are set while there is no thread, as the test programs do.

## 6. The UDP exchange

`UdpExchange` is `cammon_send_udp_and_recv` called by several threads, the simulator (or
a device) and a network that loses, delays, reorders and duplicates. `pc`, `request`,
`timed`, `port` and `result` belong to a call, `open` is the threads whose socket is open, `queue` what the kernel has for a port,
`network` the datagrams under way, `sim` the one the simulator works on. A datagram is
removed when it is delivered or is left to be delivered again. The simulator answers
as its command line says (`Mode`). `over` is history: the requests of calls that have sent them and returned.

A socket exists from `socket()` on, a port from `sendto`: the paths of a bad host and of a failed send (`cammon_api.cpp:119, 121`) have
the one and not the other. The kernel gives any port that no open socket has, at once if it likes, so
that a datagram of an earlier call may still be under way to it (`Free`). `Fresh` is what a kernel would have to promise to rule that out; none does,
and the run does not assume it.

| Property | Says |
|---|---|
| `ImplementsRequestReply` | a call ends with an error code, with an answer to its own request, or with a late answer to a call that is over; never with that of another call under way (`RequestReply`) |
| `SocketsAreReturned` | every path of a call closes its socket, no two calls share a port, nothing stays queued for a closed one |
| `TimedCallsReturn` | a call with a positive timeout returns, whatever is lost |

Nothing in an answer is compared with the request: the function takes the first datagram that comes to its
port. What keeps calls that are under way apart is that each has a socket, and a port, of its own (the mutant `Free_shared`
gives them up). Nothing keeps a call from a late or duplicated answer to an earlier one whose port it was given: it
returns that as its own, and `ImplementsRequestReply` says so. Only with `Fresh` the answer is always its own, which is proved for
both values of `Fresh`. A third party that sends to the port is not in the model.

Run `exchange`: two threads, two ports, a servo and a camera frame, a queue of one, two datagrams
under way at most (`Flight`, the one bound; what is sent beyond it is lost), ports reused at once, with and
without timeouts, every failure. Two threads and two requests are enough for an answer
to meet the wrong call, and two datagrams for an old answer to overtake a new one. Fairness: a
thread inside a call is scheduled and a timeout ends. Nothing is promised of the network, so a call
without a timeout may wait for ever, and the run does not report deadlock.

## 7. The process and the Java bridge

`CamMonNative` is a program over the C interface: the static handle `g_controller`, the
thread that runs `main`, the shutdown hook of `TestListener`, and what the library keeps for
the process (the settings file, the initialised logger). A native call is two
steps: the Java expression reads the handle, then the library works on what was read.
`start` is two: create, start. `stopStatusListener` is read, the test of the flag (`cam_controller.cpp:292`), its
clearing with the close (293-315), the call of `join` (316), its return, read, destroy, null, so that the hook can run between any
two of them. After a signal the hook runs beside `main`; after `main` returns it runs alone.

`created` and `alive` are controllers made and not yet deleted; `running` those whose flag
is set, `joinable` those whose thread has not been joined; `wild` records that a call used a deleted one. That is undefined behaviour: the
process crashes or the call goes on, to any place it may be at. `std::thread::join` on a thread that another joins is undefined too: it
throws and the process ends, it returns, or it never does ("stuck"). Deleting a controller whose
thread is still to be joined ends the process. `overlapped` is history: a call that uses the controller has begun
while the other thread was in one. `setPTZ` is in the model and is never wild: the library passes its
handle on to nobody. The controller is reduced to its flag and its thread here, and `CamController`
says what is behind them.

| Property | Says |
|---|---|
| `LogOnce` | the logger gets its appender once, however often controllers are created |
| `PortIsConfigured` | a listener is on the port of its own start, not on that of an earlier file |
| `ControllerIsHeld` | every controller that exists is the one the handle names |
| `ExitLeavesNothing` | a process that gets to its end through its hook has deleted every controller |
| `OnlySignalsReachDeleted` | a use of a deleted controller, a crash and a join that hangs need a signal, and calls of the two threads that overlap |
| `ShutdownEnds` | a shutdown that has begun ends, unless calls of the two threads overlap |

Run `bridge`: three handles, so two full lives and a start that fails, and three files (a
port, a zero, none). Three lives are enough for a file, a failure and a success to
follow each other. Fairness: the threads are scheduled inside a call, and the
hook runs. The process exits, so deadlock is not reported.

The code promises no more than these two, and after a signal it does go wrong. Nothing is synchronised between
`main` and the hook of `TestListener.java:25`:

* `getLastStatus` tests the static handle and reads it again for the native call (`CamMonNative.java:217`). The hook stops and
  deletes the controller in between, or while the call waits for its mutex, and the call goes on with what is gone.
* `main` is in `stop`, past the store of the flag (`cam_controller.cpp:293`) and before the end of the join. The hook's
  `stop` finds the flag cleared, returns at once, and the hook deletes the controller: `~thread` of a joinable thread ends the process, or
  the join of `main` goes on with a deleted controller.
* Both find the flag set (292) before either clears it, and both close and join: the second join is undefined.

All three are reachable in the run, and so is a shutdown that never ends.
What the properties say is that there is no other way: without a signal, or with one that comes while `main` is outside
the library and stays there, the process ends and everything is deleted.

`start_with_config` is called by the C++ example and not through Java. It is an action
here because the statics it uses outlive controllers. As checked in,
`CamMonNative.java` holds several methods twice, the remains of a merge, and does not compile;
the two versions do the same with the handle.

### The log

`RollingLog` is the logger of the process, the appender that `plog_init.cpp` gives it, the threads that log and the
files. `m_instance` and `m_appenders` are the logger; `m_file`, `m_fileSize`,
`m_firstWrite` and `m_sync`, the holder of its mutex, the appender; `size` and `records` the disk: how long each
file is and which records are in it. A record is the number it has among those that were written, and a length.
`pc`, `record` and `fileNumber` are the threads and the loop of `rollLogFiles`.
`mishaps` is history: whether a rename has failed or the process was killed while it moved files.

A step is one system call on a file: open with the seek to the end, write, unlink, each rename. `Kill` comes between any two and
leaves the disk alone; the next `init` is the next start. The mutex is taken in `write` and given back after the
record. `initPlog` is called once in a process (`LogOnce`), in two steps, logger and appender; a
record in between is dropped.

| Property | Says |
|---|---|
| `LogIsASuffix` | what is in a file is older than what is in a file of a lower number, and no record between two that are kept is missing unless a rename has failed |
| `RolledFilesAreFull` | a file with a number is longer than the limit |
| `EnoughIsKept` | without mishaps a record is lost only from the oldest file, when every file is there and full |

Run `log`: two threads, three files, a limit of four bytes, records of one and of four bytes, every
failure, seven records in all (`MaxRecords`, the one bound). Three files have an oldest, a middle and a
current one; a middle one is what a cut-off roll leaves free. A full set is rolled at the fourth record of four
bytes; seven leave room for a mishap before and a second roll after. The threads are symmetric. Nothing is promised to happen, so no fairness is stated.

Where the code departs from `plog/README.md`: a file is rolled once it is longer than the limit, so the
current file may be too, and stays so until the next record (line 911 says size < maxFileSize); a limit of 0 is a limit of 1000
bytes and not none (line 907). And what it does not say: the first record of a process never rolls the
file, so that a process that logs once and is started again each time has a file that grows for ever
(`RollingFileAppender.h:40-44`); a file that could not be opened is not tried again, and every later record
of the process is lost without a trace (`:107`); a rename of file 0 that fails makes each following record roll again, since the
file stays too long, and each of these rolls removes the oldest file.

## 8. The frames

`ByteStrings` has strings of bytes, little-endian words (a float is the word `memcpy` makes
of it, held as two halves since TLC's integers have 32 bits) and layouts: the sequence of fields
that a serializer pushes or a reader takes. `StandardFrame`, `ServoFrame` and
`StatusFrame` are the formats with every writer and reader the repository has for them, in C++ and in Java. The order of a writer and of its
reader are stated apart, since they are written apart in the code. A float stays its word but for one conversion:
Java writes angles with `Float.floatToIntBits` (`Protocol.java:178-181`), which has one word for everything that is not a number.

`Wire` is one datagram: a sender is asked for something and emits bytes, the network may
change a byte or cut the end off, the simulator may answer. Its properties
hand the bytes to the readers. Status reports come in three frames: the 49 bytes of `LoadStatusReport`, bare or in a
standard frame; the 51 bytes with seal and tail that CamAJFLib and the log of the controller ask for
(`Report51`; no program of the repository sends them, a device must); and the 51 bytes without either that the Java tests send (`JavaStatus`).

| Property | Says |
|---|---|
| `ServoFieldsArrive` | a servo frame, bare, patched by `set_ptz` or wrapped in a standard frame, says what was asked |
| `CameraCommandsArrive` | a camera command of more than 15 bytes of data is found by `deserialize` from its start, and whole unless its data hold a tail behind a sum of its own (`EndsEarly`); Java reads any the library sends, and of its own those whose last data byte is 0 |
| `StatusReadersAgree` | the readers of a 49-byte report agree and the 51-byte readers reject it; of a sealed 51-byte frame CamAJFLib reads all four words, the log and `get_ptz` agree with it on the focal lengths, and the 49-byte readers reject it; the frame of the Java tests is refused by every reader that wants a tail |
| `DamageIsSeen` | with a byte changed or its end cut off a servo or report frame is no frame to a reader that asks for a seal, and a standard frame is not read as what was sent; the log asks for the seal of 51 bytes and not for the tail, and reads nothing or the same. `get_ptz` asks for no seal, reads any 34 bytes and is left out |
| `AnswerIsAFrame` | the simulator answers a servo frame with one that says the same, but for angles that are not a number, and commands with a valid acknowledgement; reports and damaged servo frames not at all |

All five are proved for any arguments, any bytes in them, any focus and any change of a byte
(section 9). The run is the small instance on which they, and the mutants, were tried first.

Run `frames`: records whose bytes are all different, so that no two fields can be exchanged
unseen, calls with a header or a tail among their data, and angles that are no numbers or infinite; every position of every
frame changed by 1, 128 and 255, and every length. Three runs of the same instance violate what the code says of itself:

* `minimal_frame` violates `MinimalFrameAccepted`: 23 bytes are the smallest frame, and `deserialize` finds none in 23
  bytes, so a command with 15 bytes of data or fewer.
* `java_checksum` violates `JavaCommandsArrive`: `buildCommand` sums up to an index that leaves the last data byte out
  (`Protocol.java:110`; line 108 says addr..data), and `parsePacket` of the same file refuses every command whose data do not end in 0.
* `java_positions` violates `PositionsArrive`: `IntegrationMain` and `DebugClient` put azimuth and elevation at
  bytes 28 and 32, where CamAJFLib looks for them (`cam_ajf_lib.cpp:490`); `get_ptz`, which they call, and the controller's log read
  them at 26 and 30 (`cam_controller.cpp:352`).

One more thing met on the way: `set_ptz` writes the same focus over two words of a sealed frame
whose words were both zero, so that the old seal would still be right: the second
exclusive or of `set_ptz` changes nothing.

## 9. What is proved

All theorems hold for every value of the constants under the `ASSUME`s of the modules, and
for no bound.

`CamController_proofs` (any controllers, threads, hosts, descriptors):

* `TypeCorrect`: `TypeOK` is inductive.
* `LifecycleInvariant`: `LifecycleInv /\ StopInv`. `ThreadJoined` alone is
  not inductive: it speaks of owners outside the library only. The strengthening
  says where an owner must be when a controller has a thread and does not run, and what
  a thread inside stop may assume of its target. `JoinedBeforeReuse` and
  `NothingStoredAfterStop` follow.
* `DescriptorInvariant`: a number names a socket only while its creator holds that
  number and is between open and close. The converse is false, which is what
  `stop_hangs` shows. `SocketsAreClosed` follows.
* `CacheInvariant`: the mutex is held exactly between the two stores, what is
  about to be stored came from a host, and the caches agree otherwise. `OneLastPacket` follows.
* `ReadsAreAtomic`: from these invariants, every step of the controllers is a step
  of `StatusCache` or a stutter, under the mapping in `CamController`.

And in the same module, if there is one controller and its owner is the only
sender (`OneCaller`):

* `OwnInvariant`: until the owner is in the join, the number of the listener names its
  socket; that of a command names the caller's. The listener's second close is harmless because no
  other thread of the process can open a socket while the owner is in `stop`.
  `CallsReachOwnSocket` and `MulticastIsJoined` follow.

`CamAJFLib_proofs` (any threads, reports, commands, callbacks):

* `TypeCorrect`: `TypeOK` is inductive.
* `LifecycleInvariant`: `LifeInv`. `NothingLeftBehind` speaks of an owner outside the
  library; `LifeInv` adds where in `stop` an owner is while a socket or a thread
  outlives the flag. `NothingIsLeftBehind` follows, and `NoReportAfterStop`: with the owner outside and
  the flag clear there is no listener that could store or call.
* `LockInvariant`: at which program counters each mutex is held. It needs `LifeInv`: a new
  listener starts with no lock because there was none before it.
  `NoDeadlock` (`NoOtherCycle`) follows: two-argument calls of `set_ptz` aside, the listener
  waits only for mutexes that no waiting thread holds, a thread that waits for the packet
  mutex waits for one in its callback, and that one waits for the listener at most.
* `ReportInvariant`, and with it `LibraryImplementsFeed`: the step that takes
  `ptz_mutex_` maps to the whole report, the second store to a stutter.

* `ServoIsReported`, for any senders, from where a thread is while its servo command is not yet reported, and that it answers true
  once it is (`ReportingInv`); `ZoomIsRecorded`, if one thread sends (`OneSender`),
  from "the byte that left is that of the recorded zoom, or of the zoom about to be recorded" (`RecordingInv`).

`MulticastReceiver_proofs`: `TypeCorrect` in any order of calls. `SocketsAreKept`,
`ReceivesOnOwnSocket` and `ReceiverImplementsFeed` for `Orders` without "reinit" and
"abandon" (`Careful`). The invariant relates three things: while a thread exists
the flag is set or the owner joins it, `sock_` is the only descriptor that is the receiver's
and the only one bound, and what a thread inside `recvfrom` has passed is still `sock_`.

`UdpExchange_proofs`: `SocketsReturned` and `ExchangeImplementsRequestReply`, for any ports, queues, modes and
both values of `Fresh`. The invariant is `Origin`: whatever is under way from or to a port, queued at
it or in the simulator's hands belongs to the request of the call that waits there or to one of a call that is over. `Send` may take a
port with old datagrams under way, and keeps `Origin` since those belong to calls that are over; a call that returns joins these, and with `Close` the
queue goes. `Own` is the stronger half, for `Fresh` alone: they belong to the waiting call.

`CamMonNative_proofs`: `Inductive` adds to the properties how far the two threads of a stop
can be apart. `Held` says that a stop about to destroy destroys what is left; `Alone` what
holds until the hook is registered; `Hooked` that no controller is made after that; `Calm` that
until two calls overlap, which takes a signal, one thread at most is inside the library, with a controller that exists and whose thread is
joined before it is deleted. The theorems are parts of it.

`RollingLog_proofs` (any threads, files, limit, lengths, failures and kills): `Inductive` says where each step
of the appender finds the files. `Places`: while files are moved `fileNumber` is free or the oldest, and
below it nothing is missing (`Packed`), so that no rename overwrites a record that is not the oldest. `SizeKnown`: `m_fileSize` is the size
of the file that is open, so that a file is rolled only when it is full. `NoGap`: between rolls no file is
missing under one that exists, which is what makes the oldest file the last of a full
set. A mishap breaks `NoGap` and the second half of `Places`, a failed rename alone the first; the order of the records and the fullness of the
files do not depend on either. `LogIsASuffixHolds`, `RolledFilesAreFullHolds` and `EnoughIsKeptHolds` follow, the
last as a property of steps.

The frames, for strings of bytes of any length, in two modules:

* `ByteStrings_proofs`. `SumsDiffer` and its companion for the exclusive or: the seals of two strings that
  differ in one byte differ. `GetOfPut` and `PutOfGet`: for every layout whose fields have different
  names, what `Put` writes `Get` reads back, and the other way round. The words of two and four bytes
  and their parts are settled by arithmetic. The sums, `Put` and `Get` are recursive functions;
  the inductions are over the length, taken as a least counterexample in a finite set of
  numbers, since an induction theorem with an operator parameter cannot be used.
* `Wire_proofs`, first part. Standard frames: `ShortFramesAreLost` (nothing is found in 23 bytes),
  `FoundFramesAreSealed` (what `deserialize` answers is a frame with its sum), `LongFramesAreFound` (in a
  valid frame of 24 bytes or more it finds one, from its header), `WhatIsWrittenIsRead`
  (`parsePacket` inverts `serialize`), `FramesAreFoundWhole`, `JavaCommandIsReadIfZero` and
  `ChangedPacketIsRefused`. Servo frames: `ServoRoundTrip`, `FocusIsInItsPlace`, `ServoFramesAreEchoed` (what the
  simulator makes of a sealed frame is the frame the library would have made of the same fields with the angles as Java rewrites
  them: the same bytes unless an angle is not a number),
  `ServoDamageIsSeen`. Report frames: `ReportRoundTrip`, `ReportInPacketIsRead`, `ReportDamageIsSeen`; those of 51 bytes: `StatusWithSeal`,
  `SealedStatusDamage`, `StatusWithoutSeal`. Writers and readers have orders of their own in the model, as they have in the code:
  a round trip holds because both orders have the same fields in the same places, and that is part of the proof.
* `Wire_proofs`, second part. The properties speak of `wire` and of what was `asked`, and neither says
  how the bytes came about once the network has changed them. The invariant
  `Origin` does: an intact datagram is what its sender makes of the request, a changed one differs from
  such a datagram in one byte, one that was cut is a proper beginning of one, and an answer is what the simulator makes
  of one of these. Each of the five properties is then a fact about frames: `ServoFieldsAlwaysArrive`,
  `CameraCommandsAlwaysArrive`, `StatusReadersAlwaysAgree`, `DamageIsAlwaysSeen`, `AnswerIsAlwaysAFrame`.
  The assumption is `WireAssumption`: arguments have the types of the C++ parameters, and a change of a byte changes it.

`TypeOK` of `MulticastReceiver`, `CamMonNative` and `RollingLog` is proved, for the last as a part of `Inductive`, and not in a run.

Only model-checked: the liveness properties (`CallsReturn`, `StartListens`, `StopReturns`,
`ReportsAreDealtWith`, `TimedCallsReturn`, `ShutdownEnds`), since fairness is out of the
prover's reach. Every other property of a passing run is a theorem.

## 10. What is not modelled

* Windows branches. The Linux build is modelled. One difference is worth knowing:
  `cammon_api.cpp:103` and `cam_ajf_lib.cpp:136` give `SO_RCVTIMEO` a `timeval`, where Winsock wants milliseconds.
* Two threads that create their first controller, or call `start_with_config`, at once: the
  statics behind them are unguarded. No program does it.
* Reads of `get_last` and `get_ptz` that wait for the mutex while the controller is deleted are one step of
  `CamMonNative`, not composed with the listener of `CamController`.
* `packets_by_ip` grows with every source address and is never emptied; a datagram of 0 bytes
  makes `get_last` answer 0 as if there had been none. Both are in the model and nothing is claimed about them.
* PTZ callbacks of CamAJFLib that call the library back (they run under two of its mutexes and
  would wait for themselves), and handlers of MulticastReceiver replaced while its thread runs.
* `packet_count_` of MulticastReceiver, which is only printed.
* `NativeLoader` (copies files; it remembers the directory before the copies are done, so that a call after
  one that failed answers an incomplete directory; its one caller does not call again), the JNA declarations, the
  clients and test programs, which are read as callers.
* `client.cpp`, `server_simulator.cpp` and `status_listener.cpp`: not built, and the first two no
  longer compile.
* plog but for the log as `initPlog` sets it up: the text of records, other appenders, formatters and
  converters. plog is vendored; its rolling file is modelled since every component writes to it. Writes that
  a full disk takes in part, other processes that write the same file, and the setters of the appender, which nobody calls, are left out.
* What is logged, and scripts.
