--------------------------- MODULE LidarTransfer ----------------------------
(***************************************************************************)
(* The transfer of the LIDAR data from the drone to the client: the logger *)
(* that writes it, the children of the server that send and remove it, the *)
(* transmission thread that receives it, the commands the user gives       *)
(* through the main thread, and the faults.                                *)
(*                                                                         *)
(* The main thread (app/client/client.c) appears by what its keys do, with *)
(* the control connection's round trip taken as one step.  Its own loop,   *)
(* and the window between the creation of the thread and the thread's      *)
(* first statement, are the subject of ThreadControl.                      *)
(***************************************************************************)
EXTENDS ServerChild, TransmissionThread

CONSTANTS
  Timestamps,      \* what localtime, in seconds, gives the START commands
  FaultKinds,      \* the faults that may happen
  MaxFaults        \* how many of them, altogether

ASSUME FaultAssumption ==
  /\ Timestamps \in {"later", "own", "any"}
  /\ FaultKinds \subseteq 
       {"break", "connect", "write", "flush", "crash", "logger", "popen"}
  /\ MaxFaults \in Nat

VARIABLES
  used,      \* timestamps already given to a session
  faults     \* faults that have happened

\* Every START is of a later second than those before: the clock is not set back
\* and no two fall into one second.  "own" timestamps are distinct, in any order;
\* "any" may be those of an earlier session.
MonotoneClock == Timestamps = "later"

vars == <<storeVars, loggerVars, wireVars, childVars, threadVars, diskVars, used, faults>>

TypeOK ==
  /\ StoreTypeOK
  /\ LoggerTypeOK
  /\ WireTypeOK
  /\ ChildTypeOK
  /\ ThreadTypeOK
  /\ DiskTypeOK
  /\ used \subseteq Sessions
  /\ faults \in 0..MaxFaults

Init ==
  /\ StoreInit
  /\ LoggerInit
  /\ WireInit
  /\ ChildInit
  /\ ThreadInit
  /\ DiskInit
  /\ used = {}
  /\ faults = 0

-----------------------------------------------------------------------------
(* The user, through the main thread.                                      *)

\* Key 1: START with the time of the client; Start launches the logger unless
\* it is active.  A timestamp used before takes up that session again.
KeyStart(s) ==
  /\ Timestamps = "own" => s \notin used
  /\ MonotoneClock => \A u \in used : u < s
  /\ Launch(s)
  /\ used' = used \cup {s}
  /\ UNCHANGED <<wireVars, childVars, threadVars, diskVars, faults>>

\* Key 2: STOP; Stop runs stop.sh when the logger is active.
KeyStop ==
  /\ Terminate
  /\ UNCHANGED <<wireVars, childVars, threadVars, diskVars, used, faults>>

\* Key 3: a transmission thread, when the status is 0.
KeyTransmit ==
  /\ stat = 0
  /\ CreateTransmissionThread
  /\ UNCHANGED <<storeVars, loggerVars, childVars, used, faults>>

\* Key 4: the thread is told to stop at the end of its round.
KeyStopTransmission ==
  /\ stat = 1
  /\ run' = FALSE
  /\ UNCHANGED <<storeVars, loggerVars, wireVars, childVars, tpc, stat, tconn, tr, tdir,
                 folder, xi, cur, diskVars, used, faults>>

\* The main loop resumes a thread that lost its connection.
ResumeTransmission ==
  /\ stat = -2
  /\ CreateTransmissionThread
  /\ UNCHANGED <<storeVars, loggerVars, childVars, used, faults>>

\* The client ends, by key 5 once the thread is joined or because of the
\* status -1, and is started again: thread_data is new, and t.tr holds nothing
\* until the first SENDING.
RestartClient ==
  /\ tpc = "off"
  /\ run' = FALSE
  /\ stat' = 0
  /\ tr' = NoSession
  /\ tdir' = NoSession
  /\ UNCHANGED <<storeVars, loggerVars, wireVars, childVars, tpc, tconn, folder, xi, cur,
                 diskVars, used, faults>>

-----------------------------------------------------------------------------
(* Faults, at most MaxFaults of the kinds in FaultKinds.                   *)

Fault(kind) ==
  /\ kind \in FaultKinds
  /\ faults < MaxFaults
  /\ faults' = faults + 1

\* A transmission connection is lost.  A request that the child has begun to
\* carry out is not lost with it.
BreakLink(c) ==
  /\ Fault("break")
  /\ link[c] = "up"
  /\ \E keep \in BOOLEAN :
       /\ cpc[c] # "idle" => keep
       /\ Cut(c, keep)
  /\ UNCHANGED <<storeVars, loggerVars, childVars, threadVars, diskVars, used>>

\* The client is killed and started again; its connection is lost.
CrashClient ==
  /\ Fault("crash")
  /\ tpc # "off"
  /\ tpc' = "off"
  /\ run' = FALSE
  /\ stat' = 0
  /\ tr' = NoSession
  /\ tdir' = NoSession
  /\ folder' = NoSession
  /\ xi' = 1
  /\ cur' = NoRep
  /\ tconn' = NoConn
  /\ \/ LinkUp /\ Cut(tconn, TRUE)
     \/ ~LinkUp /\ UNCHANGED wireVars
  /\ UNCHANGED <<storeVars, loggerVars, childVars, diskVars, used>>

RefuseConnection ==
  /\ Fault("connect")
  /\ ConnectFails
  /\ UNCHANGED <<storeVars, loggerVars, childVars, used>>

FailWrite ==
  /\ Fault("write")
  /\ WriteFails
  /\ UNCHANGED <<storeVars, loggerVars, childVars, used>>

FailFlush ==
  /\ Fault("flush")
  /\ FlushFails
  /\ UNCHANGED <<storeVars, loggerVars, childVars, used>>

KillLogger ==
  /\ Fault("logger")
  /\ LoggerDies
  /\ UNCHANGED <<wireVars, childVars, threadVars, diskVars, used>>

\* ProcNumber fails in SEND_NEXT.
FailCount(c) ==
  /\ Fault("popen")
  /\ NoCount(c)
  /\ UNCHANGED <<loggerVars, threadVars, diskVars, used>>

-----------------------------------------------------------------------------
Logger ==
  /\ LoggerStep
  /\ UNCHANGED <<wireVars, childVars, threadVars, diskVars, used, faults>>

Child(c) ==
  /\ ChildStep(c)
  /\ UNCHANGED <<loggerVars, threadVars, diskVars, used, faults>>

Thread ==
  /\ ThreadStep
  /\ UNCHANGED <<storeVars, loggerVars, childVars, used, faults>>

User ==
  \/ \E s \in Sessions : KeyStart(s)
  \/ KeyStop
  \/ KeyTransmit
  \/ KeyStopTransmission
  \/ ResumeTransmission
  \/ RestartClient

Faulty ==
  \/ \E c \in Conns : BreakLink(c) \/ FailCount(c)
  \/ CrashClient
  \/ RefuseConnection
  \/ FailWrite
  \/ FailFlush
  \/ KillLogger

Next ==
  \/ Logger
  \/ \E c \in Conns : Child(c)
  \/ Thread
  \/ User
  \/ Faulty

Spec == Init /\ [][Next]_vars

\* The processes of the drone, and the two threads of the client, are scheduled
\* as long as they are not blocked; nobody owes a key press or a fault.
Fairness ==
  /\ WF_vars(Logger)
  /\ \A c \in Conns : WF_vars(Child(c))
  /\ WF_vars(Thread)
  /\ WF_vars(ResumeTransmission)

FairSpec == Spec /\ Fairness

-----------------------------------------------------------------------------
(* Properties.                                                             *)

\* The server deletes a file only after the client has written it: whatever the
\* logger has finished is on the drone, or has been whole on the client's disk.
RemovedOnlyAfterWritten == made \subseteq files \cup delivered

\* Nothing the logger has finished is lost: it is on the drone, on the disk of
\* the client, or in the buffer that the client is writing out.
NothingLost ==
  \A item \in made :
    \/ item \in files
    \/ item \in copies
    \/ tpc = "write" /\ cur.ok /\ ItemOf(cur) = item

\* Without a fault no file is transferred twice: a whole copy is never emptied
\* by the "wb" of copy_buffer_in_file, because each file is removed from the
\* drone, or its session is, before the thread asks again.
NoCopyRewritten == [][faults = 0 => copies \subseteq copies']_vars

\* A local directory that has lost its "-active" suffix is the session it is
\* named after and holds all that the logger wrote for it.
FinalDirComplete ==
  \A p \in fdirs :
    /\ p[1] = p[2]
    /\ {item \in made : SessionOf(item) = p[2]} \subseteq copies
    /\ \A i \in Extras : Ext(p[2], i) \in copies

OlderFrame(a, b) ==
  /\ a[2] = "pcd" /\ b[2] = "pcd"
  /\ SessionOf(a) < SessionOf(b) \/ (SessionOf(a) = SessionOf(b) /\ a[3] < b[3])

\* Frames arrive oldest first: when one is on the client, so is every older one
\* that the logger has finished.
DeliveredInOrder ==
  \A missing \in made \ delivered : \A item \in delivered : ~OlderFrame(missing, item)

\* The protocol of SENDING, REMOVE_FILE and REMOVE_DIR implements a hand-over:
\* a finished file reaches the client before the drone gives it up, and a
\* removed file is never finished a second time.
H == INSTANCE Handover WITH
       Item <- Items, produced <- made, drone <- made \cap files, client <- delivered
HandsOver == H!Spec

\* Key 4 is obeyed: a thread that was told to stop ends.
StopHonoured == (tpc # "off" /\ ~run) ~> (tpc = "off")

\* A thread never waits for ever: unless the logger is at work, it ends.
TransmissionEnds == (tpc # "off") ~> (tpc = "off" \/ LoggerActive)

-----------------------------------------------------------------------------
(* What comments and the thesis say, and the code does not keep.           *)

\* Only one local directory is active at a time.
OneActiveDir == Cardinality(adirs) <= 1

\* Without a fault the thread never ends with the fatal status.
NoFatalError == stat # -1

\* When a session is EMPTY, the files requested next are those of that session,
\* and they go to its active directory.
EmptySessionIsCurrent == tpc = "extra" => folder = tr /\ folder = tdir
=============================================================================
