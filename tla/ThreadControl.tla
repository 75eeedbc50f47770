--------------------------- MODULE ThreadControl ----------------------------
(***************************************************************************)
(* The main thread of the client (app/client/client.c) and the life of the *)
(* transmission threads it creates, stops, resumes and joins.  They share  *)
(* t.status and t.running, two atomic integers.  What a transmission       *)
(* thread does between its first statement and its end is the subject of   *)
(* TransmissionThread; here it may end at any time with any status, and    *)
(* has to end once running is 0.                                           *)
(***************************************************************************)
EXTENDS Integers, FiniteSets

CONSTANTS
  Threads,       \* slots for threads that exist at the same time
  NoThread,      \* thread_id before the first pthread_create
  PromptStart,   \* TRUE: a new thread sets its status before the next STATUS
  CreateMayFail, \* TRUE: pthread_create may fail
  MaxLosses      \* how often the control connection is lost

ASSUME ThreadAssumption ==
  /\ NoThread \notin Threads
  /\ PromptStart \in BOOLEAN
  /\ CreateMayFail \in BOOLEAN
  /\ MaxLosses \in Nat

VARIABLES
  mpc,       \* where the main thread is
  endc,      \* end_client
  stat,      \* t.status
  run,       \* t.running
  thr,       \* Threads -> "none", "new", "live" or "done"
  tid,       \* thread_id, the thread created last
  losses,    \* control connections lost so far
  stopped    \* history: key 4 was obeyed, and key 3 has not been since

vars == <<mpc, endc, stat, run, thr, tid, losses, stopped>>

MainPCs == {"connect", "status", "resume", "keys", "check", "sleep",
            "exit", "join", "closing", "exited"}

TypeOK ==
  /\ mpc \in MainPCs
  /\ endc \in BOOLEAN
  /\ stat \in {-2, -1, 0, 1}
  /\ run \in BOOLEAN
  /\ thr \in [Threads -> {"none", "new", "live", "done"}]
  /\ tid \in Threads \cup {NoThread}
  /\ losses \in 0..MaxLosses
  /\ stopped \in BOOLEAN

Init ==
  /\ mpc = "connect"
  /\ endc = FALSE
  /\ stat = 0
  /\ run = FALSE
  /\ thr = [t \in Threads |-> "none"]
  /\ tid = NoThread
  /\ losses = 0
  /\ stopped = FALSE

Running(t) == thr[t] \in {"new", "live"}

-----------------------------------------------------------------------------
(* The main thread.                                                        *)

\* Connect retries until it succeeds; the first command follows.
Connect ==
  /\ mpc = "connect"
  /\ mpc' = "status"
  /\ UNCHANGED <<endc, stat, run, thr, tid, losses, stopped>>

\* Connect: the user gives up with key 5.
ConnectQuit ==
  /\ mpc = "connect"
  /\ endc' = TRUE
  /\ mpc' = "exit"
  /\ UNCHANGED <<stat, run, thr, tid, losses, stopped>>

\* The STATUS command succeeds, after the sleep of the round before and a round
\* trip to the drone.
Status ==
  /\ mpc = "status"
  /\ PromptStart => \A t \in Threads : thr[t] # "new"
  /\ mpc' = "resume"
  /\ UNCHANGED <<endc, stat, run, thr, tid, losses, stopped>>

\* A control command (STATUS, START or STOP) fails: back to Connect.
ControlLost ==
  /\ mpc \in {"status", "keys"}
  /\ losses < MaxLosses
  /\ losses' = losses + 1
  /\ mpc' = "connect"
  /\ UNCHANGED <<endc, stat, run, thr, tid, stopped>>

\* The server answers ERROR to a control command: TcpSendReceiveMT exits.
ControlError ==
  /\ mpc \in {"status", "keys"}
  /\ mpc' = "exit"
  /\ UNCHANGED <<endc, stat, run, thr, tid, losses, stopped>>

\* CreateTransmissionThread: running is set first, and stays set when
\* pthread_create fails, which ends the client.
CreateTransmissionThread(next) ==
  /\ run' = TRUE
  /\ \/ \E t \in Threads :
          /\ ~Running(t)
          /\ thr' = [thr EXCEPT ![t] = "new"]
          /\ tid' = t
          /\ mpc' = next
     \/ /\ CreateMayFail
        /\ mpc' = "exit"
        /\ UNCHANGED <<thr, tid>>

\* A thread that lost its connection is created anew.
ResumeNever ==         \* mutant: status -2 is not looked at
  /\ mpc = "resume"
  /\ mpc' = "keys"
  /\ UNCHANGED <<endc, stat, run, thr, tid, losses, stopped>>

Resume ==
  /\ mpc = "resume"
  /\ \/ /\ stat = -2
        /\ CreateTransmissionThread("keys")
     \/ /\ stat # -2
        /\ mpc' = "keys"
        /\ UNCHANGED <<run, thr, tid>>
  /\ UNCHANGED <<endc, stat, losses, stopped>>

\* No key, or key 1 or 2 with a control command that succeeds.
OtherKey ==
  /\ mpc = "keys"
  /\ mpc' = "check"
  /\ UNCHANGED <<endc, stat, run, thr, tid, losses, stopped>>

KeyTransmitAlways ==   \* mutant: status is not tested
  /\ mpc = "keys"
  /\ CreateTransmissionThread("check")
  /\ stopped' = FALSE
  /\ UNCHANGED <<endc, stat, losses>>

KeyTransmit ==
  /\ mpc = "keys"
  /\ stat = 0
  /\ CreateTransmissionThread("check")
  /\ stopped' = FALSE
  /\ UNCHANGED <<endc, stat, losses>>

KeyStopTransmission ==
  /\ mpc = "keys"
  /\ stat = 1
  /\ run' = FALSE
  /\ stopped' = TRUE
  /\ mpc' = "check"
  /\ UNCHANGED <<endc, stat, thr, tid, losses>>

KeyQuit ==
  /\ mpc = "keys"
  /\ endc' = TRUE
  /\ mpc' = "check"
  /\ UNCHANGED <<stat, run, thr, tid, losses, stopped>>

\* A fatal error of the transmission thread ends the client.
CheckFatal ==
  /\ mpc = "check"
  /\ mpc' = IF stat = -1 THEN "exit" ELSE "sleep"
  /\ UNCHANGED <<endc, stat, run, thr, tid, losses, stopped>>

\* sleepms(MS_DELAY) and the loop tests.
Sleep ==
  /\ mpc = "sleep"
  /\ mpc' = IF endc THEN "exit" ELSE "status"
  /\ UNCHANGED <<endc, stat, run, thr, tid, losses, stopped>>

\* ExitMainThread: join the thread if there may be one.
ExitByStatus ==        \* mutant: running is not tested
  /\ mpc = "exit"
  /\ \/ /\ stat = 1
        /\ run' = FALSE
        /\ mpc' = "join"
     \/ /\ stat # 1
        /\ mpc' = "closing"
        /\ UNCHANGED run
  /\ UNCHANGED <<endc, stat, thr, tid, losses, stopped>>

ExitStillRunning ==    \* mutant: running is not cleared before the join
  /\ mpc = "exit"
  /\ mpc' = IF stat = 1 \/ run THEN "join" ELSE "closing"
  /\ UNCHANGED <<endc, stat, run, thr, tid, losses, stopped>>

ExitMainThread ==
  /\ mpc = "exit"
  /\ \/ /\ stat = 1 \/ run
        /\ run' = FALSE
        /\ mpc' = "join"
     \/ /\ stat # 1 /\ ~run
        /\ mpc' = "closing"
        /\ UNCHANGED run
  /\ UNCHANGED <<endc, stat, thr, tid, losses, stopped>>

\* pthread_join(thread_id): of the thread created last, or of no thread at all,
\* which fails.
Join ==
  /\ mpc = "join"
  /\ \/ /\ tid \in Threads
        /\ thr[tid] = "done"
        /\ mpc' = "closing"
     \/ /\ tid = NoThread
        /\ mpc' = "exited"
  /\ UNCHANGED <<endc, stat, run, thr, tid, losses, stopped>>

\* The mutex is destroyed, the log is closed, exit ends every thread.
CloseClient ==
  /\ mpc = "closing"
  /\ mpc' = "exited"
  /\ thr' = [t \in Threads |-> "none"]
  /\ UNCHANGED <<endc, stat, run, tid, losses, stopped>>

Main ==
  \/ Connect
  \/ Status
  \/ Resume
  \/ OtherKey
  \/ CheckFatal
  \/ Sleep
  \/ ExitMainThread
  \/ Join
  \/ CloseClient

-----------------------------------------------------------------------------
(* A transmission thread.                                                  *)

\* Its first statement.
Begin(t) ==
  /\ thr[t] = "new"
  /\ thr' = [thr EXCEPT ![t] = "live"]
  /\ stat' = 1
  /\ UNCHANGED <<mpc, endc, run, tid, losses, stopped>>

\* ExitTransmissionThread: NO_TR or running = 0, a fatal error, or a lost
\* connection.
ExitWithSign(t, code) ==   \* mutant: the sign of the status is lost
  /\ thr[t] = "live"
  /\ thr' = [thr EXCEPT ![t] = "done"]
  /\ stat' = -code
  /\ UNCHANGED <<mpc, endc, run, tid, losses, stopped>>

ExitTransmissionThread(t, code) ==
  /\ thr[t] = "live"
  /\ thr' = [thr EXCEPT ![t] = "done"]
  /\ stat' = code
  /\ UNCHANGED <<mpc, endc, run, tid, losses, stopped>>

Transmission(t) ==
  \/ Begin(t)
  \/ \E code \in {0, -1, -2} : ExitTransmissionThread(t, code)

Next ==
  \/ Main
  \/ ConnectQuit
  \/ ControlLost
  \/ ControlError
  \/ KeyTransmit
  \/ KeyStopTransmission
  \/ KeyQuit
  \/ \E t \in Threads : Transmission(t)

Spec == Init /\ [][Next]_vars

\* Both threads are scheduled.  A thread whose running flag is 0 ends: that is
\* StopHonoured of LidarTransfer.
Fairness ==
  /\ WF_vars(Main)
  /\ \A t \in Threads : WF_vars(Begin(t)) /\ WF_vars(~run /\ Transmission(t))

FairSpec == Spec /\ Fairness

-----------------------------------------------------------------------------
(* Properties.                                                             *)

\* There is never more than one transmission thread: they would write the same
\* files and share t.tr.
AtMostOneThread == \A t, u \in Threads : Running(t) /\ Running(u) => t = u

\* ExitMainThread destroys the mutex and closes the log only when no
\* transmission thread can use them any more.
ExitJoinsThread == mpc = "closing" => \A t \in Threads : ~Running(t)

\* The user can always leave: once end_client is set the client ends.
QuitEnds == endc ~> (mpc = "exited")

\* A transmission thread that lost its connection is resumed, unless the client
\* ends.
LostThreadResumed == (stat = -2) ~> (stat # -2 \/ mpc = "exited")

\* After key 4 no transmission runs until the user asks for one with key 3.
StopIsFinal == stopped => ~run
=============================================================================
