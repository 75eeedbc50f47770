---------------------------- MODULE ControlPlane ----------------------------
(***************************************************************************)
(* The control connections: the accept loop of the server, which forks a   *)
(* child per connection (app/common/tcpsocketlib.c, app/server/server.c),  *)
(* the STATUS, START and STOP commands a child carries out (server_lib.c)  *)
(* and the main threads that give them.  Between the pgrep of a command    *)
(* and its effect, and between the fork of a logger and its exec, others   *)
(* run.  A child inherits the listening socket, and a logger inherits both *)
(* that and the socket of the child that launched it: none is marked       *)
(* close-on-exec.                                                          *)
(***************************************************************************)
EXTENDS Integers, FiniteSets

CONSTANTS
  Clients,      \* main threads that use the server
  Conns,        \* slots for control connections
  NoConn,       \* control_sk before the connection is open
  Loggers,      \* slots for logger processes
  PromptExec,   \* TRUE: a launched logger bears its name before the next pgrep
  FaultKinds,   \* the faults that may happen
  MaxFaults     \* how many of them, altogether

ASSUME ControlAssumption ==
  /\ NoConn \notin Conns
  /\ IsFiniteSet(Loggers)
  /\ PromptExec \in BOOLEAN
  /\ FaultKinds \subseteq {"link", "child", "fork", "popen"}
  /\ MaxFaults \in Nat

VARIABLES
  parent,   \* the process in create_tcp_server's loop
  cl,       \* Clients -> what the main thread is doing
  csk,      \* Clients -> its control connection
  cut,      \* connections the network has lost while the client still uses them
  ch,       \* Conns -> "none", in the accept queue, or where the child is
  rq,       \* Conns -> the command on its way to the child
  cnt,      \* Conns -> what ProcNumber returned to the child
  rp,       \* Conns -> the answer on its way to the client
  lg,       \* Loggers -> "none", "script" (forked, not exec'd), "run", "term"
  heirs,    \* Conns -> the loggers that hold a copy of the connection's socket
  faults    \* faults that have happened

connVars == <<ch, rq, cnt, rp>>
clientVars == <<cl, csk, cut>>
vars == <<parent, clientVars, connVars, lg, heirs, faults>>

Commands == {"STATUS", "START", "STOP"}
Answers == {"ON", "OFF", "STARTED", "ALREADY", "STOPPED", "NOT RUNNING", "ERROR"}

\* A client waits for an answer on connection c.
Awaited(c) == \E k \in Clients : csk[k] = c /\ cl[k] = "wait"

\* The types, and the dialogue of TcpSendReceiveMT: an answer under way is one
\* that a client waits for, with no command besides it, so that none is left to be
\* taken for the answer to a later command.
TypeOK ==
  /\ parent \in {"loop", "gone"}
  /\ cl \in [Clients -> {"connect", "ready", "wait"}]
  /\ csk \in [Clients -> Conns \cup {NoConn}]
  /\ cut \subseteq Conns
  /\ ch \in [Conns -> {"none", "queued", "idle", "act"}]
  /\ rq \in [Conns -> Commands \cup {"none", "CLOSE"}]
  /\ cnt \in [Conns -> Int]
  /\ rp \in [Conns -> Answers \cup {"none"}]
  /\ lg \in [Loggers -> {"none", "script", "run", "term"}]
  /\ heirs \in [Conns -> SUBSET Loggers]
  /\ faults \in 0..MaxFaults
  /\ \A k \in Clients : csk[k] = NoConn <=> cl[k] = "connect"
  /\ \A c \in Conns : rp[c] # "none" => Awaited(c) /\ rq[c] = "none"

Init ==
  /\ parent = "loop"
  /\ cl = [k \in Clients |-> "connect"]
  /\ csk = [k \in Clients |-> NoConn]
  /\ cut = {}
  /\ ch = [c \in Conns |-> "none"]
  /\ rq = [c \in Conns |-> "none"]
  /\ cnt = [c \in Conns |-> 0]
  /\ rp = [c \in Conns |-> "none"]
  /\ lg = [l \in Loggers |-> "none"]
  /\ heirs = [c \in Conns |-> {}]
  /\ faults = 0

Attached(c) == \E k \in Clients : csk[k] = c

\* What the drone writes on connection c reaches a client.
Reaches(c) == Attached(c) /\ c \notin cut

\* The processes that answer to the name voxl-logger.
Named == {l \in Loggers : lg[l] \in {"run", "term"}}

\* Somebody holds the listening socket: the kernel completes connections, even
\* when nobody is left to accept them.
Listening ==
  \/ parent = "loop"
  \/ \E c \in Conns : ch[c] \in {"idle", "act"}
  \/ \E l \in Loggers : lg[l] # "none"

\* The socket of connection c is closed on the drone: nobody holds it.
Closed(c) ==
  /\ ch[c] = "none" \/ (ch[c] = "queued" /\ ~Listening)
  /\ heirs[c] = {}

-----------------------------------------------------------------------------
(* The accept loop.                                                        *)

\* accept takes a connection from the queue, server_handler forks its child and
\* the parent closes its copy of the socket.
Accept(c) ==
  /\ parent = "loop"
  /\ ch[c] = "queued"
  /\ ch' = [ch EXCEPT ![c] = "idle"]
  /\ UNCHANGED <<parent, clientVars, rq, cnt, rp, lg, heirs, faults>>

\* The port can be bound again once nobody holds the listening socket; what was
\* in its queue is lost.
RestartServer ==
  /\ ~Listening
  /\ parent' = "loop"
  /\ ch' = [c \in Conns |-> "none"]
  /\ rq' = [c \in Conns |-> "none"]
  /\ UNCHANGED <<clientVars, cnt, rp, lg, heirs, faults>>

-----------------------------------------------------------------------------
(* The child of a connection.                                              *)

\* The child is gone, and with it the command it had not read; an answer it has
\* sent is still read by the client, before the end of the stream.
Gone(c) ==
  /\ ch' = [ch EXCEPT ![c] = "none"]
  /\ rq' = [rq EXCEPT ![c] = "none"]
  /\ cnt' = [cnt EXCEPT ![c] = 0]
  /\ UNCHANGED rp

\* ProcNumber: pgrep counts the loggers.
ProcNumber(c) ==
  /\ ch[c] = "idle"
  /\ rq[c] \in Commands
  /\ PromptExec => \A l \in Loggers : lg[l] # "script"
  /\ cnt' = [cnt EXCEPT ![c] = Cardinality(Named)]
  /\ ch' = [ch EXCEPT ![c] = "act"]
  /\ UNCHANGED <<parent, clientVars, rq, rp, lg, heirs, faults>>

\* The child has the count in its hands and carries out cmd.
Acting(c, cmd) == ch[c] = "act" /\ rq[c] = cmd

\* tcp_send of the answer, which nobody reads on a connection that is lost.
AnswerAgain(c, a) ==   \* mutant: the line stays in the buffer and is served again
  /\ rp' = [rp EXCEPT ![c] = IF Reaches(c) THEN a ELSE "none"]
  /\ cnt' = [cnt EXCEPT ![c] = 0]
  /\ ch' = [ch EXCEPT ![c] = "idle"]
  /\ UNCHANGED <<parent, clientVars, rq, faults>>

Answer(c, a) ==
  /\ rp' = [rp EXCEPT ![c] = IF Reaches(c) THEN a ELSE "none"]
  /\ rq' = [rq EXCEPT ![c] = "none"]
  /\ cnt' = [cnt EXCEPT ![c] = 0]
  /\ ch' = [ch EXCEPT ![c] = "idle"]
  /\ UNCHANGED <<parent, clientVars, faults>>

\* popen failed: whatever the command, the answer is the error.
NoCount(c) ==
  /\ cnt[c] < 0
  /\ Answer(c, "ERROR")
  /\ UNCHANGED <<lg, heirs>>

Status(c) ==
  /\ Acting(c, "STATUS")
  /\ \/ /\ cnt[c] >= 0
        /\ Answer(c, IF cnt[c] = 0 THEN "OFF" ELSE "ON")
        /\ UNCHANGED <<lg, heirs>>
     \/ NoCount(c)

\* Start: system() runs start.sh, which puts the logger in the background.
StartAnyway(c) ==      \* mutant: the count is not tested
  /\ Acting(c, "START")
  /\ \E l \in Loggers :
       /\ lg[l] = "none"
       /\ lg' = [lg EXCEPT ![l] = "script"]
       /\ heirs' = [heirs EXCEPT ![c] = @ \cup {l}]
  /\ Answer(c, "STARTED")

Start(c) ==
  /\ Acting(c, "START")
  /\ \/ /\ cnt[c] = 0
        /\ \E l \in Loggers :
             /\ lg[l] = "none"
             /\ lg' = [lg EXCEPT ![l] = "script"]
             /\ heirs' = [heirs EXCEPT ![c] = @ \cup {l}]
        /\ Answer(c, "STARTED")
     \/ /\ cnt[c] > 0
        /\ Answer(c, "ALREADY")
        /\ UNCHANGED <<lg, heirs>>
     \/ NoCount(c)

\* killall: SIGTERM to every process of that name.
Killall ==
  /\ lg' = [l \in Loggers |-> IF l \in Named THEN "term" ELSE lg[l]]
  /\ UNCHANGED heirs

StopBeyondOne(c) ==    \* mutant: the count is compared with 1
  /\ Acting(c, "STOP")
  /\ \/ /\ cnt[c] > 1
        /\ Killall
        /\ Answer(c, "STOPPED")
     \/ /\ cnt[c] <= 1
        /\ Answer(c, "NOT RUNNING")
        /\ UNCHANGED <<lg, heirs>>

Stop(c) ==
  /\ Acting(c, "STOP")
  /\ \/ /\ cnt[c] > 0
        /\ Killall
        /\ Answer(c, "STOPPED")
     \/ /\ cnt[c] = 0
        /\ Answer(c, "NOT RUNNING")
        /\ UNCHANGED <<lg, heirs>>
     \/ NoCount(c)

\* CLOSE ends the loop; so does a connection that the client has left or the
\* network has lost: the empty line read from it is answered, and the write fails.
ChildEnds(c) ==
  /\ ch[c] = "idle"
  /\ rq[c] = "CLOSE" \/ (rq[c] = "none" /\ ~Reaches(c))
  /\ Gone(c)
  /\ UNCHANGED <<parent, clientVars, lg, heirs, faults>>

Child(c) ==
  \/ ProcNumber(c)
  \/ Status(c)
  \/ Start(c)
  \/ Stop(c)
  \/ ChildEnds(c)

-----------------------------------------------------------------------------
(* A logger.                                                               *)

Exec(l) ==
  /\ lg[l] = "script"
  /\ lg' = [lg EXCEPT ![l] = "run"]
  /\ UNCHANGED <<parent, clientVars, connVars, heirs, faults>>

\* After SIGTERM it copies the remaining files and exits.
LoggerEnds(l) ==
  /\ lg[l] = "term"
  /\ lg' = [lg EXCEPT ![l] = "none"]
  /\ heirs' = [c \in Conns |-> heirs[c] \ {l}]
  /\ UNCHANGED <<parent, clientVars, connVars, faults>>

Logger(l) == Exec(l) \/ LoggerEnds(l)

-----------------------------------------------------------------------------
(* The main thread of a client.                                            *)

\* create_tcp_client_connection succeeds as soon as the connection is queued.
Connect(k) ==
  /\ cl[k] = "connect"
  /\ Listening
  /\ \E c \in Conns :
       /\ ch[c] = "none"
       /\ ~Attached(c)
       /\ csk' = [csk EXCEPT ![k] = c]
       /\ ch' = [ch EXCEPT ![c] = "queued"]
       /\ heirs' = [heirs EXCEPT ![c] = {}]
  /\ cl' = [cl EXCEPT ![k] = "ready"]
  /\ UNCHANGED <<parent, cut, rq, cnt, rp, lg, faults>>

\* A line written on connection c reaches the drone when the link holds and there
\* is a child, or a place in the queue, to read it.
Written(c, line) ==
  rq' = IF ch[c] = "none" \/ c \in cut THEN rq ELSE [rq EXCEPT ![c] = line]

\* TcpSendReceiveMT, the sending half: the write succeeds as long as somebody
\* on the drone holds the socket, and on a lost link too.
Send(k, cmd) ==
  /\ cl[k] = "ready"
  /\ ~Closed(csk[k]) \/ csk[k] \in cut
  /\ Written(csk[k], cmd)
  /\ cl' = [cl EXCEPT ![k] = "wait"]
  /\ UNCHANGED <<parent, csk, cut, ch, cnt, rp, lg, heirs, faults>>

\* The client gives up its connection.
Leave(k) ==
  /\ cl' = [cl EXCEPT ![k] = "connect"]
  /\ csk' = [csk EXCEPT ![k] = NoConn]
  /\ cut' = cut \ {csk[k]}

\* ExitMainThread sends CLOSE and ends; the client is started again.
ExitMainThread(k) == Written(csk[k], "CLOSE") /\ Leave(k)

\* The receiving half: an answer that is an error ends the client.
ReceiveNoError(k) ==   \* mutant: an answer that is an error is left unread
  /\ cl[k] = "wait"
  /\ rp[csk[k]] \notin {"none", "ERROR"}
  /\ rp' = [rp EXCEPT ![csk[k]] = "none"]
  /\ cl' = [cl EXCEPT ![k] = "ready"]
  /\ UNCHANGED <<parent, csk, cut, ch, rq, cnt, lg, heirs, faults>>

Receive(k) ==
  /\ cl[k] = "wait"
  /\ rp[csk[k]] # "none"
  /\ rp' = [rp EXCEPT ![csk[k]] = "none"]
  /\ IF rp[csk[k]] = "ERROR"
       THEN ExitMainThread(k)
       ELSE cl' = [cl EXCEPT ![k] = "ready"] /\ UNCHANGED <<csk, cut, rq>>
  /\ UNCHANGED <<parent, ch, cnt, lg, heirs, faults>>

\* write or read fails, once what had arrived is read: back to Connect.
NoticeLoss(k) ==
  /\ cl[k] \in {"ready", "wait"}
  /\ Closed(csk[k]) \/ csk[k] \in cut
  /\ rp[csk[k]] = "none"
  /\ Leave(k)
  /\ UNCHANGED <<parent, connVars, lg, heirs, faults>>

\* The user's 5.
Quit(k) ==
  /\ cl[k] = "ready"
  /\ ExitMainThread(k)
  /\ UNCHANGED <<parent, ch, cnt, rp, lg, heirs, faults>>

-----------------------------------------------------------------------------
(* Faults.                                                                 *)

Fault(kind) ==
  /\ kind \in FaultKinds
  /\ faults < MaxFaults
  /\ faults' = faults + 1

\* The network loses the connection, with what is on its way: the command that the
\* child has not read, the answer that has not arrived.  Neither end is told; the
\* child carries out what had reached it.
LoseLink(k) ==
  /\ Fault("link")
  /\ csk[k] \in Conns \ cut
  /\ cut' = cut \cup {csk[k]}
  /\ rp' \in {rp, [rp EXCEPT ![csk[k]] = "none"]}
  /\ \/ UNCHANGED rq
     \/ ch[csk[k]] # "act" /\ rq' = [rq EXCEPT ![csk[k]] = "none"]
  /\ UNCHANGED <<parent, cl, csk, ch, cnt, lg, heirs>>

ChildDies(c) ==
  /\ Fault("child")
  /\ ch[c] \in {"idle", "act"}
  /\ Gone(c)
  /\ UNCHANGED <<parent, clientVars, lg, heirs>>

\* fork fails: the parent exits and its copy of the new socket is closed.
ForkFails(c) ==
  /\ Fault("fork")
  /\ parent = "loop"
  /\ ch[c] = "queued"
  /\ parent' = "gone"
  /\ Gone(c)
  /\ UNCHANGED <<clientVars, lg, heirs>>

\* popen fails and ProcNumber returns -1.
PopenFails(c) ==
  /\ Fault("popen")
  /\ ch[c] = "idle"
  /\ rq[c] \in Commands
  /\ cnt' = [cnt EXCEPT ![c] = -1]
  /\ ch' = [ch EXCEPT ![c] = "act"]
  /\ UNCHANGED <<parent, clientVars, rq, rp, lg, heirs>>

Next ==
  \/ \E c \in Conns : Accept(c) \/ Child(c) \/ ChildDies(c) \/ ForkFails(c) \/ PopenFails(c)
  \/ RestartServer
  \/ \E l \in Loggers : Logger(l)
  \/ \E k \in Clients :
       \/ Connect(k)
       \/ \E cmd \in Commands : Send(k, cmd)
       \/ Receive(k)
       \/ NoticeLoss(k)
       \/ Quit(k)
       \/ LoseLink(k)

Spec == Init /\ [][Next]_vars

\* A command that has reached a child, or the accept queue.
Serve(c) == rq[c] # "none" /\ Child(c)

\* Processes are scheduled, and a client in tcp_readline returns when there is
\* something to read or the drone has closed its end.  Nobody owes a command, and
\* without keep-alive neither end need find out that the network has lost the
\* link.  Serve is strongly fair because PromptExec lets a pgrep wait for the exec
\* of a logger, which the real one does not do.
Fairness ==
  /\ \A c \in Conns : WF_vars(Accept(c)) /\ SF_vars(Serve(c))
  /\ \A l \in Loggers : WF_vars(Logger(l))
  /\ \A k \in Clients :
       WF_vars(Receive(k)) /\ WF_vars(csk[k] \notin cut /\ NoticeLoss(k))

FairSpec == Spec /\ Fairness

-----------------------------------------------------------------------------
(* Properties.                                                             *)

\* START launches a logger only when there is none, so two never run at once:
\* SEND_NEXT takes every session but the newest for finished.
AtMostOneLogger == \A l, m \in Loggers : lg[l] # "none" /\ lg[m] # "none" => l = m

\* Once STOP is answered, in either way, no logger is recording, nor about to.
StopAnswerTrue ==
  \A c \in Conns : rp[c] \in {"STOPPED", "NOT RUNNING"} =>
    \A l \in Loggers : lg[l] \notin {"script", "run"}

\* A STOP that has reached a child ends the recording, unless the child dies or
\* reports that it could not count the loggers.
StopTakesEffect ==
  \A c \in Conns :
    rq[c] = "STOP" /\ ch[c] \in {"idle", "act"} ~>
      \/ ch[c] = "none" \/ rp[c] = "ERROR"
      \/ \A l \in Loggers : lg[l] \notin {"script", "run"}

\* Nobody reads connection c any more, and yet it is not closed: the child is gone
\* and a logger it launched holds a copy of the socket, or the connection is in the
\* queue of a listening socket that only children and loggers hold.
Orphaned(c) ==
  \/ ch[c] = "none" /\ heirs[c] # {}
  \/ ch[c] = "queued" /\ parent = "gone"

\* The main thread is left waiting in TcpSendReceiveMT only when the network lost
\* the link without a word or the connection is orphaned: whatever else fails it
\* gets an answer or finds out that the connection is closed.
WaitEnds ==
  \A k \in Clients :
    cl[k] = "wait" ~> cl[k] # "wait" \/ csk[k] \in cut \/ Orphaned(csk[k])

\* What a user would expect, and the two exceptions of WaitEnds break: the main
\* thread is never left waiting.
NeverHangs == \A k \in Clients : cl[k] = "wait" ~> cl[k] # "wait"

-----------------------------------------------------------------------------
(* The inductive invariant of the dialogue, for any number of clients and  *)
(* any faults: two clients never share a connection, a client that is      *)
(* ready has no command under way, a child acts upon a command and an      *)
(* empty slot holds none.                                                  *)
ControlInv ==
  /\ TypeOK
  /\ \A j, k \in Clients : csk[j] = csk[k] /\ csk[j] # NoConn => j = k
  /\ \A k \in Clients : cl[k] = "ready" => rq[csk[k]] = "none"
  /\ \A c \in Conns : ch[c] = "act" => rq[c] \in Commands
  /\ \A c \in Conns : ch[c] = "none" => rq[c] = "none"

(* What holds besides when one client uses the server, loggers exec        *)
(* promptly and no link is lost.                                           *)

\* A command belongs to a client that waits for its answer, or is stuck in a
\* queue that nobody will read.
CommandAwaited(c) ==
  rq[c] \in Commands => Awaited(c) \/ (ch[c] = "queued" /\ ~Listening)

\* The count in the hands of a child is still true.
CountFresh(c) ==
  ch[c] = "act" =>
    /\ cnt[c] = 0 => \A l \in Loggers : lg[l] = "none"
    /\ cnt[c] >= 0 => \A l \in Loggers : lg[l] # "script"

OneClientInv ==
  /\ ControlInv
  /\ cut = {}
  /\ \A c \in Conns : CommandAwaited(c) /\ CountFresh(c)
  /\ AtMostOneLogger
  /\ StopAnswerTrue
=============================================================================
