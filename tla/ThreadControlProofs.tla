------------------------ MODULE ThreadControlProofs -------------------------
(***************************************************************************)
(* For any number of thread slots: when a new thread gets to its first     *)
(* statement before the next STATUS has been answered, the client never    *)
(* has two transmission threads and never leaves one behind.               *)
(***************************************************************************)
EXTENDS ThreadControl, TLAPS

\* The only thread that can be running is the one created last; status 1 means
\* that it has begun; one that has not begun was created after the status was
\* last tested, and ExitMainThread will join it.
ThreadInv ==
  /\ TypeOK
  /\ \A t \in Threads : Running(t) => t = tid
  /\ \A t \in Threads : thr[t] = "live" => stat = 1
  /\ stat = 1 => \E t \in Threads : thr[t] = "live"
  /\ \A t \in Threads : thr[t] = "new" =>
       /\ mpc # "resume"
       /\ mpc = "keys" => stat = -2
       /\ run \/ mpc \in {"join", "exited"}
  /\ mpc = "closing" => \A t \in Threads : ~Running(t)

\* There is no thread at the start.
LEMMA ThreadInvInit == Init => ThreadInv
<1> SUFFICES ASSUME Init PROVE ThreadInv
  OBVIOUS
<1>1. endc \in BOOLEAN /\ run \in BOOLEAN /\ stopped \in BOOLEAN
  BY Zenon DEF Init
<1> QED
  BY <1>1, ThreadAssumption DEF Init, ThreadInv, TypeOK, MainPCs, Running

\* CreateTransmissionThread is only reached when no thread is running.
LEMMA CreateKeeps ==
  ASSUME ThreadInv, NEW next \in {"keys", "check"}, CreateTransmissionThread(next),
         \A t \in Threads : ~Running(t),
         next = "keys" => stat = -2,
         mpc # "closing", stat # 1,
         UNCHANGED <<endc, stat, losses>>, stopped' \in BOOLEAN
  PROVE  ThreadInv'
<1>1. run' = TRUE /\ run' \in BOOLEAN
  BY Zenon DEF CreateTransmissionThread
<1>2. TypeOK /\ endc' \in BOOLEAN
  BY DEF ThreadInv, TypeOK
<1>3. CASE mpc' = "exit" /\ UNCHANGED <<thr, tid>>
  BY <1>1, <1>2, <1>3 DEF ThreadInv, TypeOK, MainPCs, Running
<1>4. ASSUME NEW t \in Threads, thr' = [thr EXCEPT ![t] = "new"], tid' = t, mpc' = next
      PROVE  ThreadInv'
  <2>1. TypeOK'
    BY <1>1, <1>2, <1>4 DEF TypeOK, MainPCs
  <2>2. thr'[t] = "new" /\ \A u \in Threads : u # t => thr'[u] = thr[u]
    BY <1>2, <1>4 DEF TypeOK
  <2> QED
    BY <1>1, <1>4, <2>1, <2>2 DEF ThreadInv, Running
<1> QED
  BY <1>3, <1>4 DEF CreateTransmissionThread

\* The invariant is kept by every step.
LEMMA ThreadInvNext == ASSUME PromptStart, ThreadInv, [Next]_vars PROVE ThreadInv'
<1>1. TypeOK
  BY DEF ThreadInv
<1>2. CASE Connect \/ Status \/ OtherKey \/ CheckFatal \/ Sleep
  <2>1. UNCHANGED <<endc, stat, run, thr, tid, losses, stopped>> /\ TypeOK'
    BY <1>1, <1>2 DEF Connect, Status, OtherKey, CheckFatal, Sleep, TypeOK, MainPCs
  <2> QED
    BY <1>2, <2>1 DEF Connect, Status, OtherKey, CheckFatal, Sleep, ThreadInv, Running
<1>3. CASE Resume
  <2>1. CASE stat = -2 /\ CreateTransmissionThread("keys")
    <3>1. \A t \in Threads : ~Running(t)
      BY <1>3, <2>1 DEF Resume, ThreadInv, Running
    <3>2. mpc = "resume" /\ UNCHANGED <<endc, stat, losses>> /\ stopped' \in BOOLEAN
      BY <1>1, <1>3 DEF Resume, TypeOK
    <3> QED
      BY <2>1, <3>1, <3>2, CreateKeeps
  <2>2. CASE stat # -2 /\ mpc' = "keys" /\ UNCHANGED <<run, thr, tid>>
    BY <1>1, <1>3, <2>2 DEF Resume, ThreadInv, TypeOK, MainPCs, Running
  <2> QED
    BY <1>3, <2>1, <2>2 DEF Resume
<1>4. CASE KeyTransmit
  <2>1. \A t \in Threads : ~Running(t)
    BY <1>4 DEF KeyTransmit, ThreadInv, Running
  <2>2. stopped' \in BOOLEAN
    BY <1>4, Zenon DEF KeyTransmit
  <2> QED
    BY <1>4, <2>1, <2>2, CreateKeeps DEF KeyTransmit
<1>5. CASE KeyStopTransmission
  <2>1. run' \in BOOLEAN /\ stopped' \in BOOLEAN
    BY <1>5, Zenon DEF KeyStopTransmission
  <2>2. \A t \in Threads : thr[t] # "new"
    BY <1>5 DEF KeyStopTransmission, ThreadInv, Running
  <2> QED
    BY <1>1, <1>5, <2>1, <2>2 DEF KeyStopTransmission, ThreadInv, TypeOK, MainPCs, Running
<1>6. CASE ConnectQuit \/ KeyQuit
  <2>1. endc' \in BOOLEAN
    BY <1>6, Zenon DEF ConnectQuit, KeyQuit
  <2> QED
    BY <1>1, <1>6, <2>1 DEF ConnectQuit, KeyQuit, ThreadInv, TypeOK, MainPCs, Running
<1>7. CASE ControlLost \/ ControlError
  BY <1>1, <1>7, ThreadAssumption DEF ControlLost, ControlError, ThreadInv, TypeOK, MainPCs, Running
<1>8. CASE ExitMainThread
  <2>1. run' \in BOOLEAN
    BY <1>1, <1>8 DEF ExitMainThread, TypeOK
  <2> QED
    BY <1>1, <1>8, <2>1 DEF ExitMainThread, ThreadInv, TypeOK, MainPCs, Running
<1>9. CASE Join
  BY <1>1, <1>9, ThreadAssumption DEF Join, ThreadInv, TypeOK, MainPCs, Running
<1>10. CASE CloseClient
  BY <1>1, <1>10 DEF CloseClient, ThreadInv, TypeOK, MainPCs, Running
<1>11. ASSUME NEW t \in Threads, Begin(t) PROVE ThreadInv'
  <2>1. thr'[t] = "live" /\ \A u \in Threads : u # t => thr'[u] = thr[u]
    BY <1>1, <1>11 DEF Begin, TypeOK
  <2>2. TypeOK'
    BY <1>1, <1>11 DEF Begin, TypeOK
  <2> QED
    BY <1>11, <2>1, <2>2 DEF Begin, ThreadInv, Running
<1>12. ASSUME NEW t \in Threads, NEW code \in {0, -1, -2}, ExitTransmissionThread(t, code)
       PROVE  ThreadInv'
  <2>1. thr'[t] = "done" /\ \A u \in Threads : u # t => thr'[u] = thr[u]
    BY <1>1, <1>12 DEF ExitTransmissionThread, TypeOK
  <2>2. TypeOK'
    BY <1>1, <1>12 DEF ExitTransmissionThread, TypeOK
  <2>3. \A u \in Threads : ~Running(u)'
    BY <1>12, <2>1 DEF ExitTransmissionThread, ThreadInv, Running
  <2> QED
    BY <1>12, <2>2, <2>3 DEF ExitTransmissionThread, ThreadInv, Running
<1>13. CASE UNCHANGED vars
  BY <1>1, <1>13 DEF vars, ThreadInv, TypeOK, Running
<1> QED
  BY <1>2, <1>3, <1>4, <1>5, <1>6, <1>7, <1>8, <1>9, <1>10, <1>11, <1>12, <1>13
     DEF Next, Main, Transmission

\* The invariant holds in every reachable state.
LEMMA ThreadInvariant == PromptStart => (Spec => []ThreadInv)
<1> SUFFICES ASSUME PromptStart PROVE Spec => []ThreadInv
  OBVIOUS
<1>1. ThreadInv /\ [Next]_vars => ThreadInv'
  BY ThreadInvNext
<1> QED
  BY <1>1, ThreadInvInit, PTL DEF Spec

\* The client (client.c, CreateTransmissionThread) never has two transmission
\* threads, when a thread sets t->status before the next STATUS is answered.
THEOREM OneThread == PromptStart => (Spec => []AtMostOneThread)
<1>1. ThreadInv => AtMostOneThread
  BY DEF ThreadInv, AtMostOneThread
<1> QED
  BY <1>1, ThreadInvariant, PTL

\* ExitMainThread (client_lib.c) never destroys the mutex under a transmission
\* thread, on the same condition.
THEOREM NoThreadLeftBehind == PromptStart => (Spec => []ExitJoinsThread)
<1>1. ThreadInv => ExitJoinsThread
  BY DEF ThreadInv, ExitJoinsThread
<1> QED
  BY <1>1, ThreadInvariant, PTL

-----------------------------------------------------------------------------
(* Types, however late a thread begins.                                    *)

LEMMA TypeNext == ASSUME TypeOK, [Next]_vars PROVE TypeOK'
<1> USE ThreadAssumption DEF TypeOK, MainPCs
<1>1. CASE Connect \/ Status \/ OtherKey \/ CheckFatal \/ Sleep \/ ControlError \/ Join
  BY <1>1 DEF Connect, Status, OtherKey, CheckFatal, Sleep, ControlError, Join
<1>2. CASE ControlLost
  BY <1>2 DEF ControlLost
<1>3. ASSUME NEW next \in {"keys", "check"}, CreateTransmissionThread(next), UNCHANGED <<endc, stat, losses>>,
             stopped' \in BOOLEAN
      PROVE  TypeOK'
  <2>1. run' \in BOOLEAN
    BY <1>3, Zenon DEF CreateTransmissionThread
  <2> QED
    BY <1>3, <2>1 DEF CreateTransmissionThread
<1>4. CASE Resume
  <2>1. CASE CreateTransmissionThread("keys")
    BY <1>3, <1>4, <2>1 DEF Resume
  <2>2. CASE mpc' = "keys" /\ UNCHANGED <<run, thr, tid>>
    BY <1>4, <2>2 DEF Resume
  <2> QED
    BY <1>4, <2>1, <2>2 DEF Resume
<1>5. CASE KeyTransmit
  <2>1. stopped' \in BOOLEAN
    BY <1>5, Zenon DEF KeyTransmit
  <2> QED
    BY <1>3, <1>5, <2>1 DEF KeyTransmit
<1>6. CASE KeyStopTransmission
  <2>1. run' \in BOOLEAN /\ stopped' \in BOOLEAN
    BY <1>6, Zenon DEF KeyStopTransmission
  <2> QED
    BY <1>6, <2>1 DEF KeyStopTransmission
<1>7. CASE ConnectQuit \/ KeyQuit
  <2>1. endc' \in BOOLEAN
    BY <1>7, Zenon DEF ConnectQuit, KeyQuit
  <2> QED
    BY <1>7, <2>1 DEF ConnectQuit, KeyQuit
<1>8. CASE ExitMainThread
  <2>1. run' \in BOOLEAN
    BY <1>8 DEF ExitMainThread
  <2> QED
    BY <1>8, <2>1 DEF ExitMainThread
<1>9. CASE CloseClient
  BY <1>9 DEF CloseClient
<1>10. ASSUME NEW t \in Threads, Transmission(t) PROVE TypeOK'
  BY <1>10 DEF Transmission, Begin, ExitTransmissionThread
<1>11. CASE UNCHANGED vars
  BY <1>11 DEF vars
<1> QED
  BY <1>1, <1>2, <1>4, <1>5, <1>6, <1>7, <1>8, <1>9, <1>10, <1>11 DEF Next, Main

\* The main thread and the status it shares keep their types for any number of
\* threads, even when the main thread does not wait for a new one to begin.
THEOREM ThreadTypes == Spec => []TypeOK
<1>1. Init => TypeOK
  BY ThreadInvInit DEF ThreadInv
<1>2. TypeOK /\ [Next]_vars => TypeOK'
  BY TypeNext
<1> QED
  BY <1>1, <1>2, PTL DEF Spec
=============================================================================
