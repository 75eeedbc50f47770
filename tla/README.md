# LIDAR transfer between drone and client: TLA+ models and proofs

The repository is a small distributed system. On the drone a logger process
writes LIDAR point clouds, and a server answers a client over TCP. The client
starts and stops the logger, copies the files while they are being produced,
and has each one removed from the drone once it is written. This directory
models that system in TLA+, checks it with TLC on small instances and proves
its central safety properties with TLAPS.

Line numbers refer to `src/`; `PROJECT.json` maps every definition to its lines.

## 1. Inventory

| Part | State | Operations | Talks to |
|---|---|---|---|
| `voxl-logger` (`data_generation/voxl-logger.c`, `_lib.c`) | session name, frame counter, `running` | create directories, copy `data_<n>.pcd` one after the other, on SIGTERM copy four more files and end | data directory; launched and signalled by the server |
| Data directory of the drone (`generated_data/`) | one directory per session, its `tof` directory, its files | created by the logger; scanned, read and emptied by the server | logger, every server child |
| Server child (`app/server/server.c`, `server_lib.c`) | socket, line buffer; nothing survives a command | `STATUS`, `START`, `STOP`, `SEND_NEXT`, `SEND_FILE`, `REMOVE_FILE`, `REMOVE_DIR`, `CLOSE` | one process per connection, forked by the accept loop |
| Transmission thread (`app/client/client_lib.c`) | socket, `transmission_dir`, `folder`, the reply at hand; writes `t->status`, `t->tr` | request the next file, write it, have it removed; on `EMPTY` fetch the remaining files, have the session removed, rename the local directory | its own connection and child; the local disk; the main thread |
| Main thread (`app/client/client.c`) | `end_client`, `thread_id`, the control socket; writes `t.running` | connect, poll `STATUS`, resume a lost thread, keys 1 to 5, exit with join | control connection; transmission thread |
| Accept loop (`app/common/tcpsocketlib.c`, `server_handler`) | listening socket, queue of connections | accept, fork a child | children and loggers inherit its socket |
| Libraries (`app/common/`) | line buffer | send, receive, read a line, compress and write a file | all |

What is hard here:

* **Concurrency on the data directory.** `SEND_NEXT` reads the directories, then
  the files, then asks `pgrep` whether the logger runs, then reads one file.
  The logger, and the child of an older connection, act between these steps.
* **Lost connections.** A lost connection tells the client nothing about whether
  its last request was carried out. The old child may still remove something
  while a resumed thread talks to a new child.
* **Two threads and two shared integers.** `t.status` is written by the thread,
  `t.running` by its creator, and the main thread decides from their values.
* **Crashes and partial failure.** The logger can die before its last files are
  written; the client between the removal on the drone and the local rename;
  opening a file with `"wb"` empties an older copy.
* **Timestamps as names and as order.** The session to send is the one with the
  least name, and the names come from the clock of the client, in seconds: it
  may be set back, and two `START`s may fall into one second. The server turns them into
  times with `mktime` while it reads a directory that others are changing.
* **Check-then-act.** `START` and `STOP` count processes with `pgrep` and act on
  the count; a launched logger is a shell by name until its `exec`, and several
  children may do this at once.
* **A stream of bytes.** Lines and binary files share one connection and one
  buffer; TCP cuts the stream anywhere, and it may end anywhere.
* **Inherited sockets.** Nothing is marked close-on-exec: a logger keeps the
  connection of the child that launched it and the listening socket open.

What makes it correct: no finished file disappears from the drone before the
client has it; a local directory without the suffix `-active` is complete;
frames arrive in order; the transmission can be stopped, ends, and is resumed
after a loss; there is one transmission thread, and the exit waits for it;
there is one logger, and `STOP` tells the truth about it; what is read from a
connection is what was written to it, or the loss is noticed.
`PROJECT.json` lists the hazards with their lines and the properties aimed at
each.

## 2. Modules

```
DroneStore ---- VoxlLogger ---+
      |                       +-- ServerChild ------+
      +-------- Wire ---------+                     +-- LidarTransfer -- LidarTransferInv -- MCLidarTransfer
                 |                                  |        (composition)       |
                 +------------ TransmissionThread --+                 LidarTransferProofs
                                           Handover                              |
                                (implemented by LidarTransfer)             RemovalProofs -- HandoverProofs -- DeliveryProofs
ThreadControl -- ThreadControlProofs
ControlPlane  -- ControlPlaneProofs
DirScan       -- DirScanProofs
Framing       -- MCFraming, FramingProofs
```

* **DroneStore**: `dirs`, `tofs`, `files`. A session is a number ordered like its
  timestamp. A file is `<<session, kind, number>>`. `FindFirstDir` and
  `FindNextFile` return what a pass of `readdir` leaves behind: how many entries
  and which is least.
* **VoxlLogger**: the process as a sequence of visible steps. A copy is an open
  (the name appears, the content is not whole) and a close (the item enters the
  variable `made`). An open with `"w+"` empties what an earlier logger of the same
  session has left: the item leaves `made` again. SIGTERM kills a process that has no handlers yet.
* **Wire**: one connection slot per thread started, `free`, `up` or `cut`, with
  one request or one reply in flight. A reply says whether the bytes after it
  are a whole file (`ok`).
* **ServerChild**: one action per step of a command. `SEND_NEXT` is `ScanDirs`,
  `FindTof` (the test that `tof` exists), `ScanFiles` (its `opendir` and
  `readdir`; when `tof` has vanished in between, `count` keeps whatever was on the
  stack, `Leftover`), `CheckLogger` (or `NoCount`, when `pgrep` cannot be run), `SendNextFile`; `REMOVE_DIR` is `UnlinkTree` (what
  lies below) and `RemoveDir` (the session's directory, last, as `nftw` with
  `FTW_DEPTH` does). `ChildEnds` may end a child of a cut connection at any step.
* **TransmissionThread**: one action per send, per kind of reply, and two for a
  write (`OpenLocal` is the `"wb"`; then `CloseLocal`, or `FlushFails` when
  `fclose` cannot write the last bytes, which nobody notices, or `WriteFails`). Every exit goes
  through `Leave` with the status of `ExitTransmissionThread`. `tdir` and `tr`
  keep what the uninitialised `transmission_dir` and `t.tr` hold.
* **LidarTransfer**: composes these with the keys of the user and the faults.
  `Timestamps` says what the clock gives to `START`: a later second each time
  (`"later"`, called `MonotoneClock`), one of its own in any order (`"own"`), or
  any, one used before included (`"any"`). The code guarantees only the last.
* **ThreadControl**: the loop of `main`, `CreateTransmissionThread` and
  `ExitMainThread` with the threads as `new` (created, first statement not yet
  executed), `live` or `done`.
* **Handover**: what the transmission promises, whatever its protocol: a file is
  produced once, stays on the drone until the client has it, and does not come
  back. LidarTransfer implements it with `produced <- made`, `drone <- made \cap
  files`, `client <- delivered`. `delivered` is a history: a file that has been
  whole on the client. That a copy is there now is `NothingLost`.
* **ControlPlane**: the accept loop with its queue, one child per connection,
  `STATUS`, `START` and `STOP` as a `pgrep` (`ProcNumber`) and a later
  consequence, the logger as a shell (`script`), a process with its name (`run`)
  and one that has had SIGTERM (`term`), and the main threads. `heirs` says which
  loggers hold a connection's socket; `Listening` and `Closed` follow from who
  holds what. What a child has answered before it ends (`Gone`) still arrives. A
  client notices that the drone closed the connection once nobody there holds the
  socket. A link that the network loses is in `cut` (`LoseLink`): nothing passes
  any more, nobody is told, and whether either end ever finds out is open.
* **DirScan**: one pass of `readdir` in `FindFirstDir` or `FindNextFile`, entry by
  entry, in any order, while entries come and go. LidarTransfer takes the pass as
  one step, which these properties justify: first is the least, a count of 0 or 1
  is not too low, and of two or more entries the first is not the newest.
* **Framing**: the stream of bytes of one connection: the three writes of
  `CompressAndSend`, `read` of any piece, `buffer_tcp` with `dim`, `i` and its
  stale contents, `tcp_getchar_bs`, `tcp_readline`, `tcp_binary_getchar_bs` and
  what the callers make of their results. The main thread keeps its buffer when
  it connects again; a transmission thread begins with a new one. A transmission
  reply is a line or a line with a file; texts are two letters long.

Three details of the code that the models rely on. `FindNextTr` has no `return`
on success (server_lib.c:212); the value its caller sees is the 0 that
`FindNextFile` has just returned in the same register, and the model takes it
as success. On a closed connection `tcp_readline` returns an empty line; the
child then writes "Not valid command" and dies of SIGPIPE or in
`error_handler`, which is `ChildEnds`. `rename` never finds its target present,
because a session is removed from the drone once. A fourth: a read that fails
ends a child, because `error_handler` of the server exits (server.c:100), while
the client's does nothing and its callers test the result.

Abstractions: where a file lies (`log0000` or `log0001`) is left out, the two
halves of a session are told apart by no property; compression is left out (a
file arrives whole or the connection is lost, as Framing establishes); what
`nftw` removes below the session is one step; in LidarTransfer a control command
is one step, which succeeds (ControlPlane has its steps and their failures). In
ControlPlane a logger records until it is stopped, and the transmission
connections, whose children neither launch nor kill, are left out.

## 3. Runs

These runs are listed in `PROJECT.json`:

| Run | Bounds | Checks |
|---|---|---|
| `MCBreaks` | 2 sessions, 2 frames, 1 other file, 2 connections, 2 losses | `NothingLost`, `FinalDirComplete`, `DeliveredInOrder` |
| `MCAllFaults` | the same with 2 other files, 1 fault: a lost or refused connection, a failed write, a crash of the client, the death of the logger, a failing `pgrep` | `TypeOK`, `RemovedOnlyAfterWritten`, `NoCopyRewritten`, `HandsOver` (refinement) |
| `MCLive` | 2 sessions, 1 frame, 1 connection, one of: a lost or refused connection, a failing `fclose`, the death of the logger; timestamps in any order | `StopHonoured`, `TransmissionEnds` |
| `MCThreads` | 2 thread slots, 2 control losses, failing `pthread_create` | `TypeOK`, `AtMostOneThread`, `ExitJoinsThread`, `QuitEnds`, `LostThreadResumed` |
| `MCControl` | 1 client, 2 connections, 2 loggers, 2 of: a child dies, `fork` fails, `pgrep` fails | `TypeOK`, `AtMostOneLogger`, `StopAnswerTrue`, `StopTakesEffect` |
| `MCWait` | 2 clients, 2 connections, 2 loggers, 1 of: a lost link, a child that dies, a failing `fork` or `pgrep` | `TypeOK`, `WaitEnds` |
| `MCScan` | 5 names, 1 new entry per pass | `TypeOK`, `OldestFound`, `SeveralMeansFinished`, `NothingOverlooked` |
| `MCFraming` | reads of up to 3 bytes, files of 1 to 4 bytes, any loss | `TypeOK`, `LineIntact`, `BodyIntact`, `LossReported`, `CallReturns` |
| `MCClockBack` | timestamps of their own, in any order, no fault | `RemovedOnlyAfterWritten` violated |
| `MCFatal` | no fault | `NoFatalError` violated |
| `MCEmptyFirst` | no fault | `EmptySessionIsCurrent` violated |
| `MCFlush` | 1 session, 1 connection, 1 failing `fclose` | `RemovedOnlyAfterWritten` violated |

Further instances of the same modules, kept as `.cfg` files. Two are other
bounds for properties above; the others drop an assumption of a run above and
show that the property needs it:

| Instance | Module | Bounds | Result |
|---|---|---|---|
| `MCNoFaults` | MCLidarTransfer | 4 other files as in the code, no fault | `FinalDirComplete`, `NoCopyRewritten` hold |
| `MCTwoFaults` | MCLidarTransfer | 2 lost connections or crashes | `RemovedOnlyAfterWritten`, `DeliveredInOrder` hold |
| `MCSameSecond` | MCLidarTransfer | 1 session, 2 frames, timestamps may be used again, no fault | `RemovedOnlyAfterWritten` violated |
| `MCActiveDirs` | MCLidarTransfer | 1 lost connection | `OneActiveDir` violated |
| `MCOrphan` | ThreadControl | slow thread start | `ExitJoinsThread` violated |
| `MCStopFinal` | ThreadControl | prompt thread start | `StopIsFinal` violated |
| `MCTwoClients` | ControlPlane | 2 clients, no fault | `AtMostOneLogger` violated |
| `MCLateExec` | ControlPlane | `exec` may be late | `StopAnswerTrue` violated |
| `MCHangs` | ControlPlane | 1 child dies | `NeverHangs` violated |
| `MCStray` | DirScan | a name that is no timestamp | `OldestFound` violated |
| `MCDst` | DirScan | times that may be 2 early | `OldestFound` violated |
| `MCCutEnd` | MCFraming | the write of `END` may be cut | `LossReported` violated |

Why these bounds are enough to be interesting. Two sessions give an older one to
drain beside an active one; two frames make the rule "hold the newest frame
back" bite (it compares with 2); one other file is enough to interleave
`EMPTY`, `SEND_FILE` and `REMOVE_DIR`, two let a fault fall between them, and
`MCNoFaults` has the four of the code. Two connections give a child at work on a lost connection beside the
child of the resumed thread; two faults give a fault during the recovery from
another. Connections are interchangeable (symmetry), except in the liveness run.
In ControlPlane a second logger slot is what a second launch needs, and a second
connection lets a client come back while its old child is still at work. In
DirScan one new entry per pass is what happens: a pass takes far less than the
time between two frames or two `START`s; five names let a pass begin with
several entries and lose some of them. In Framing nothing is bounded but the size
of the buffer and of the files: three bytes are less than a header, so that
header, body and `END` meet in every way in one buffer, and the files hold the
bytes that matter (NUL, newline, letters of `END`). There the child is killed
between any two bytes of a body, which may fill the queue of the socket, and
between any two writes; only `MCCutEnd` cuts within `END`, which is written
behind the body and may have to wait as well.

**Fairness.** `MCLive` assumes weak fairness of the logger, of each child, of the
thread and of the automatic resume: processes and threads the kernel schedules
while they are not blocked, sockets that deliver or report a loss. No key press
and no fault is ever owed. `MCThreads` assumes weak fairness of the main thread
and of a new thread's first statement, and that a thread whose `running` is 0
ends, which is what `StopHonoured` establishes in `MCLive`.
`LostThreadResumed` is under a bound on control losses: while the control
connection is lost again and again, nothing is resumed. ControlPlane assumes
that the accept loop, a child with a command, and a client with something to
read or a closed connection go on, and that a logger execs and ends. Neither a
child nor a client need ever find out that the network has lost its link: there is
no keep-alive and no timeout. So `WaitEnds` excepts a cut link, and a connection
that is `Orphaned`, and says that there is no third kind of endless wait. The child is
strongly fair because `PromptExec` makes a `pgrep` wait for an `exec`, which
another client's `START` can undo again and again; the real `pgrep` does not wait.
Framing assumes that a child writes its reply and that a read with something to
return returns. The runs of ThreadControl switch the deadlock check off because
an exited client does nothing more, and those of ControlPlane because a client
that nobody will answer (`MCHangs`) waits for ever; the other runs leave it on
(the user can always restart the client).

**PromptStart.** `AtMostOneThread` holds when a created thread executes
`t->status = 1` before the main thread's next `STATUS` exchange ends. Between
the two lie `sleepms(MS_DELAY)` (for key 3) and a round trip to the drone, so it
is what normally happens, and nothing in the code enforces it. `MCOrphan` shows
what follows without it.

**What the violations say.** Each is a statement of a comment, the menu or the
thesis that the code does not keep. `findings` in `PROJECT.json` quotes the
statement for 1, 3, 4 and 7; for the others it is quoted here.
1. A clock that goes back makes the session being recorded the oldest of two; its
   newest frame is sent unfinished and removed (`MCClockBack`). Two `START`s within
   one second, with a `STOP` between them, do the same to a session of two frames:
   the logger opens the first again while the second makes it look finished
   (`MCSameSecond`).
2. A connection lost between `REMOVE_DIR` and its answer leaves a complete local
   directory `-active` for ever (`MCActiveDirs`). The thesis (p. 54): "Dovrebbe
   comunque esserci solo una cartella attiva alla volta".
3. `SEND_NEXT` between the logger's first and last `mkdir` is answered with
   `ERROR`, which ends the client (`MCFatal`).
4. A thread whose first reply is `EMPTY` requests the files of whatever `t.tr`
   and `transmission_dir` happen to hold (`MCEmptyFirst`).
5. A slow thread start leads to two threads, of which the exit joins one
   (`MCOrphan`). client_lib.c:413: "safely close the transmissione thread".
6. A connection lost after key 4 restarts the transmission (`MCStopFinal`).
   The menu, io_lib.c:30: "(4) : Stop the transmission".
7. An `fclose` that fails is not noticed: the file is incomplete on the client
   and removed from the drone (`MCFlush`).
8. Two clients that press 1 together start two loggers (`MCTwoClients`).
   server_lib.c:159: "there is only one file that is being currently written".
9. A `STOP` right after a `START` finds no logger by name, says so, and recording
   goes on (`MCLateExec`). server_lib.c:91: "The logging system is NOT running".
10. When the child that launched the logger dies, the client waits for its answer
    until the logger ends, which holds the socket (`MCHangs`); after a failed `fork`
    it waits in a queue that children and loggers keep open. client_lib.c:378:
    "It is used in order to know if the connection is still active".
11. `foobar.txt`, which the repository keeps in the data directory, is the oldest
    session for ever (`MCStray`), and an uninitialised `tm_isdst` can make a
    newer session the oldest (`MCDst`). server_lib.c:258: "find the oldest dir
    (minor name which is the timestamp)".
12. A child killed within the write of `END` leaves a part of it, which ends the
    thread with the fatal status instead of the one that is resumed (`MCCutEnd`).
    The thesis (p. 63) says that `tcp_readline` returns 0 on a closed connection.

## 4. Proofs

All theorems hold for every value of the constants that their statement does not
restrict: any number of sessions, frames, files, connections, threads and faults.

* **`TypeCorrect`** (LidarTransferProofs): `Spec => []TypeOK`. `TypeOK` is not
  inductive: that the session a thread publishes is a session depends on which
  reply it reads. `TypeInv` (in LidarTransferInv) adds the discipline of the
  protocol: `Talk` and `Dialogue` say that a connection carries one request or
  reply, the one that the thread's state calls for, and that an abandoned
  connection carries only `CLOSE`; `ThreadForm`, `ChildForm` and `LoggerForm`
  bound what each part holds. Lemmas on the scans (the least element is a member
  and a lower bound; the count is zero for the empty set only, and at least two
  when there are two elements) come first in this module.
* **`RemovalIsSafe`** (RemovalProofs): with every `START` of a later second than
  those before (`MonotoneClock`), `Spec => []RemovedOnlyAfterWritten`, under every number of faults of every kind
  but a failing `fclose` (`MCFlush`).
  The strengthening `SafeInv` carries this argument:
  * the active session is the newest of all, because timestamps grow;
  * a session that is older than the newest, or whose logger has ended, is over:
    nothing is added to it, and this stays so;
  * the newest frame of the active session is never sent: with one directory it
    takes two frames, and with several the oldest is over. So a reply with
    unfinished bytes is only ever of a file the logger did not finish, and a
    file is removed only after whole bytes were written;
  * when `EMPTY` is on its way, the session has no frame left on the drone, or
    its `tof` directory is gone; a `REMOVE_DIR` is only sent once every finished
    item of the session is delivered. These facts survive the loss of the
    connection, which is what makes late requests harmless.
* **`OneThread`, `NoThreadLeftBehind`** (ThreadControlProofs): under
  `PromptStart`, at most one transmission thread, and none when the exit
  destroys the mutex. `ThreadInv` relates the status to the threads that exist:
  a running thread is the one `thread_id` names; a thread that has begun
  has status 1; one that has not has `running` set. **`ThreadTypes`** needs no
  `PromptStart`.
* **`ImplementsHandover`** (HandoverProofs): under the assumptions of
  `RemovalIsSafe`, `Spec => HandsOver`: every step of the protocol is a step of
  Handover or leaves `made`, the finished files on the drone and `delivered`
  alone. Beside `SafeInv` this needs `MadeOnce`: the names the logger has still to
  open are of files it has not made, so that nothing comes back after `Discard` and
  nothing that is made is emptied, and what travels as a whole file has been made.
* **`FramesInOrder`** (DeliveryProofs): under the assumptions of `RemovalIsSafe`,
  `Spec => []DeliveredInOrder`. `OrderInv` says of the frame a child has chosen, of
  the one in a reply and of the one being written that everything older is
  delivered and nothing older will be made (`OlderDone`). What the child saw may
  be stale when it answers; either it still holds, or the session has been
  removed meanwhile and the file cannot be opened.
* **`NothingIsLost`**: with `MonotoneClock` and without `"write"`,
  `"flush"` and `"crash"`, `Spec => []NothingLost`. `Kept` adds to
  `RemovedOnlyAfterWritten` that what has been delivered is still there. The `"wb"`
  of a second transfer empties the copy while the `REMOVE_FILE` of a lost
  connection may be taking the original; the buffer then holds the only one, and
  it is whole. A failed write, an `fclose` that fails or a crash at that moment
  loses the file, which is why they are excluded.
* **`RenamedIsComplete`**: with `MonotoneClock` and no fault but lost
  and refused connections, `Spec => []FinalDirComplete`. `FinalInv` says that a
  logger nobody kills ends only with the last of its files, so a session that is
  over is complete; that `REMOVE_DIR` is sent when all of it is handed over; that
  `transmission_dir` is the session of the last `SENDING` or nothing; and that
  what travels is of no renamed session. The death of the logger is excluded
  because its session lacks files; the faults of `NothingIsLost` because a
  directory can be renamed after the copy was lost.
* **`NothingTwice`**: with `MonotoneClock`, `Spec => NoCopyRewritten`,
  an action property, for every `FaultKinds`: it speaks of the time before the
  first fault. `OnceInv` says that a file in both places is on its way to be
  removed (`BeingRemoved`): it is the frame whose `REMOVE_FILE` is due, or one of
  the remaining files of the session whose `REMOVE_DIR` is. An `ERROR`, which ends
  the thread before that, comes only when nothing is in both places; for the
  remaining files this rests on `ExtrasLeft`: a session that has one of them has
  all, as long as the logger is not killed.
* **`FramingTypes`, `LineWhole`, `BodyWhole`, `LossIsReported`** (FramingProofs): for
  every `BUFSIZ`, every file and every way to cut and to lose the stream; the
  last when `END` is not cut. The reply is one sequence of bytes (`ByteOf`);
  `FrameInv` says that while the client reads, it is `InSync` (what it has taken is
  a beginning of the reply, the unread part of the buffer, the network and the
  writes still to come are the rest, and a killed child has stopped at a
  `Boundary`), or the rest is `Gone` with the connection and nothing will be taken
  as a line or a file. Between two replies nothing is unread, or the connection
  is lost. The stale bytes behind `dim` are never part of this.
* **`ControlTypes`** (ControlPlaneProofs): `Spec => []TypeOK` for any number of
  clients, connections and loggers and every kind of fault, without any
  assumption. Beside the types, `TypeOK` says that an answer under way belongs to a
  client that waits for it and that its command is used up. `ControlInv` adds that
  two clients never share a connection, that a client which is ready has no
  command under way, and that a child acts upon a command.
* **`OneLogger`, `StopIsTrue`**: for one client whose links hold and loggers that
  exec before the next `pgrep` (`OneClient`), whatever children, forks and `pgrep`s
  fail. `OneClientInv` says that a command or an answer under way belongs to the
  client that waits for it, so there is one child at work, and that the count in
  its hands is still true. With one lost link this fails: the old child may act
  beside the new one.
* **`ScanFindsOldest`, `ScanSparesNewest`** (DirScanProofs): for a directory of any
  size without stray names, times that follow the names and at most one new
  entry per pass. `ScanInv` says that what is in the directory and not yet
  returned by `readdir` is still due, that everything returned lies between first
  and last, and that a new entry is newer than all.
* **`ScanTypes`, `ScanCountsAll`**: without any of these assumptions. `CountInv`
  bounds the number of entries that are as old as the pass and that `readdir`
  does not owe any more by `count`.

The inductive invariants were first checked with TLC: those of the transfer on
the instances of `MCAllFaults` (`TypeInv`, `SafeInv`, `MadeOnce`) and `MCBreaks`
(`OrderInv`, `Kept`, `FinalInv`), `OnceInv` without faults on 2 sessions, 2 frames
and 2 other files, those of the control plane on the instances of `MCControl`
(`OneClientInv`) and `MCWait` (`ControlInv`), those of the scan and the framing on
the instances of `MCScan`, `MCFraming` and `MCCutEnd` (the last two with `InSync`
written without its quantifier over `Nat`).

Every safety property of the passing runs is stated by a theorem. Only
model-checked: the liveness properties `StopHonoured`, `TransmissionEnds`,
`QuitEnds`, `LostThreadResumed`, `StopTakesEffect`, `WaitEnds` and `CallReturns`,
which need fairness and ENABLED and are beyond this prover. What the theorems
assume is needed: `MCClockBack` and `MCSameSecond` show it for the timestamps, `MCFlush` for `fclose`,
`MCOrphan` for `PromptStart`, `MCTwoClients` and `MCLateExec` for the control
plane, `MCStray` and `MCDst` for the scan, `MCCutEnd` for `END`. With `"write"` or
`"crash"` added to the `FaultKinds` of `MCBreaks`, TLC finds `NothingLost` and
`FinalDirComplete` violated, and with `"logger"` added `FinalDirComplete`.

## 5. Not modelled

zlib (a library), the curses screen and the log, the walk over a path in
`MakePath` and `CreateTransmissionDir` (the directories it makes are), the number
of descriptors a client leaves open. A control link that is lost without a word is
in ControlPlane (`cut`); a transmission thread on such a link is not modelled: its
read waits as long as the kernel does, and in LidarTransfer a lost connection is
noticed. `tcp_putchar`, `tcp_getchar` and the switch to
non-blocking mode are never called, and the copies of `tcpsocketlib.c` in
`app/client` and `app/server` are not built. The models take `char` as signed,
as on the machine of the client; where it is unsigned `ch != EOF` in
`tcp_readline` is always true, which on the drone changes nothing because a
failed read ends the child first. The thesis and the data files carry no
behaviour.

## 6. Plan

Done: the transfer and its refinement of the hand-over, the thread control, the
control plane with the accept loop, the directory scan and the framing, and a
theorem for every safety property. Next:

1. Step invariants that the liveness arguments rest on, as theorems: a thread that
   waits has a request or a reply under way, or a lost connection; a client that
   waits for an answer has a child, or its connection is cut, orphaned or closed.
2. The refinement of the atomic scans of ServerChild by DirScan, as a theorem
   about one pass.
