------------------------ MODULE ControlPlaneProofs --------------------------
(***************************************************************************)
(* For any number of clients, connections and faults: an answer under way  *)
(* is one that a client waits for.  And for any number of connections:     *)
(* when one client uses the server, a launched logger bears its name       *)
(* before the next pgrep and no link is lost, whatever else fails, two     *)
(* loggers never run at once and the answer to STOP is true.               *)
(***************************************************************************)
EXTENDS ControlPlane, FiniteSetTheorems, TLAPS

-----------------------------------------------------------------------------
(* The dialogue of a connection, for any clients and any faults.           *)

\* An answer on the client's connection is there only while the client waits.
LEMMA ReadyNoAnswer ==
  ASSUME ControlInv, NEW k \in Clients, cl[k] # "wait", NEW c \in Conns, csk[k] = c
  PROVE  rp[c] = "none"
<1>1. \A j \in Clients : csk[j] = c => j = k
  BY ControlAssumption DEF ControlInv
<1>2. ~Awaited(c)
  BY <1>1 DEF Awaited
<1> QED
  BY <1>2 DEF ControlInv, TypeOK

\* The client of a connection with a child at work waits for the answer.
LEMMA ActingAwaited ==
  ASSUME ControlInv, NEW c \in Conns, ch[c] = "act", Attached(c)
  PROVE  Awaited(c)
<1>1. PICK k \in Clients : csk[k] = c
  BY DEF Attached
<1>2. cl[k] # "connect"
  BY <1>1, ControlAssumption DEF ControlInv, TypeOK
<1>3. rq[c] # "none"
  BY DEF ControlInv, Commands
<1>4. cl[k] # "ready"
  BY <1>1, <1>3 DEF ControlInv
<1>5. cl[k] = "wait"
  BY <1>2, <1>4 DEF ControlInv, TypeOK
<1> QED
  BY <1>1, <1>5 DEF Awaited

\* A step that leaves the clients alone: what is left to show of each slot.
LEMMA ServerControl ==
  ASSUME ControlInv, UNCHANGED clientVars,
         parent' \in {"loop", "gone"},
         ch' \in [Conns -> {"none", "queued", "idle", "act"}],
         rq' \in [Conns -> Commands \cup {"none", "CLOSE"}],
         cnt' \in [Conns -> Int],
         rp' \in [Conns -> Answers \cup {"none"}],
         lg' \in [Loggers -> {"none", "script", "run", "term"}],
         heirs' \in [Conns -> SUBSET Loggers],
         faults' \in 0..MaxFaults,
         \A d \in Conns : rq'[d] \in {rq[d], "none"},
         \A d \in Conns : rp'[d] # "none" => Awaited(d) /\ rq'[d] = "none",
         \A d \in Conns : ch'[d] = "act" => rq'[d] \in Commands,
         \A d \in Conns : ch'[d] = "none" => rq'[d] = "none"
  PROVE  ControlInv'
<1>1. UNCHANGED <<cl, csk, cut>>
  BY DEF clientVars
<1>2. \A d \in Conns : Awaited(d)' <=> Awaited(d)
  BY <1>1 DEF Awaited
<1>3. TypeOK'
  BY <1>1, <1>2 DEF ControlInv, TypeOK
<1>4. ASSUME NEW k \in Clients, cl'[k] = "ready" PROVE rq'[csk'[k]] = "none"
  <2>1. csk[k] \in Conns
    BY <1>1, <1>4 DEF ControlInv, TypeOK
  <2>2. rq[csk[k]] = "none"
    BY <1>1, <1>4 DEF ControlInv
  <2> QED
    BY <1>1, <2>1, <2>2
<1>5. \A j, k \in Clients : csk'[j] = csk'[k] /\ csk'[j] # NoConn => j = k
  BY <1>1 DEF ControlInv
<1> QED
  BY <1>3, <1>4, <1>5 DEF ControlInv

LEMMA AcceptControl ==
  ASSUME ControlInv, NEW c \in Conns, Accept(c)
  PROVE  ControlInv'
<1>1. ch' \in [Conns -> {"none", "queued", "idle", "act"}]
  BY DEF Accept, ControlInv, TypeOK
<1>2. \A d \in Conns : ch'[d] # ch[d] => ch'[d] = "idle"
  BY DEF Accept, ControlInv, TypeOK
<1> QED
  BY <1>1, <1>2, ServerControl DEF Accept, ControlInv, TypeOK

LEMMA CountControl ==
  ASSUME ControlInv, NEW c \in Conns, ProcNumber(c) \/ PopenFails(c)
  PROVE  ControlInv'
<1>1. rq[c] \in Commands /\ ch' = [ch EXCEPT ![c] = "act"]
  BY DEF ProcNumber, PopenFails
<1>2. UNCHANGED <<parent, clientVars, rq, rp, lg, heirs>> /\ faults' \in 0..MaxFaults
  BY ControlAssumption DEF ProcNumber, PopenFails, Fault, ControlInv, TypeOK
<1>3. cnt' \in [Conns -> Int]
  <2>1. IsFiniteSet(Named)
    BY ControlAssumption, FS_Subset DEF Named
  <2>2. Cardinality(Named) \in Int
    BY <2>1, FS_CardinalityType
  <2> QED
    BY <2>2 DEF ProcNumber, PopenFails, ControlInv, TypeOK
<1>4. ch' \in [Conns -> {"none", "queued", "idle", "act"}]
  BY <1>1 DEF ControlInv, TypeOK
<1>5. \A d \in Conns : ch'[d] # ch[d] => d = c /\ ch'[d] = "act"
  BY <1>1 DEF ControlInv, TypeOK
<1> QED
  BY <1>1, <1>2, <1>3, <1>4, <1>5, ServerControl DEF ControlInv, TypeOK

LEMMA AnswerControl ==
  ASSUME ControlInv, NEW c \in Conns, ch[c] = "act", NEW a \in Answers, Answer(c, a),
         lg' \in [Loggers -> {"none", "script", "run", "term"}],
         heirs' \in [Conns -> SUBSET Loggers]
  PROVE  ControlInv'
<1>1. PICK b \in {a, "none"} : rp' = [rp EXCEPT ![c] = b] /\ (b # "none" => Attached(c))
  BY DEF Answer, Reaches
<1>2. rp' \in [Conns -> Answers \cup {"none"}]
  BY <1>1 DEF ControlInv, TypeOK
<1>3. /\ ch' \in [Conns -> {"none", "queued", "idle", "act"}]
      /\ rq' \in [Conns -> Commands \cup {"none", "CLOSE"}]
      /\ cnt' \in [Conns -> Int]
  BY DEF Answer, ControlInv, TypeOK
<1>4. ch'[c] = "idle" /\ rq'[c] = "none" /\ rp'[c] = b
  BY <1>1 DEF Answer, ControlInv, TypeOK
<1>5. \A d \in Conns : d # c => ch'[d] = ch[d] /\ rq'[d] = rq[d] /\ rp'[d] = rp[d]
  BY <1>1 DEF Answer, ControlInv, TypeOK
<1>6. b # "none" => Awaited(c)
  BY <1>1, ActingAwaited
<1>7. /\ \A d \in Conns : rq'[d] \in {rq[d], "none"}
      /\ \A d \in Conns : rp'[d] # "none" => Awaited(d) /\ rq'[d] = "none"
      /\ \A d \in Conns : ch'[d] = "act" => rq'[d] \in Commands
      /\ \A d \in Conns : ch'[d] = "none" => rq'[d] = "none"
  BY <1>4, <1>5, <1>6 DEF ControlInv, TypeOK
<1> QED
  BY <1>2, <1>3, <1>7, ServerControl DEF Answer, ControlInv, TypeOK

LEMMA CommandControl ==
  ASSUME ControlInv, NEW c \in Conns, Status(c) \/ Start(c) \/ Stop(c)
  PROVE  ControlInv'
<1>1. ch[c] = "act"
  BY DEF Status, Start, Stop, Acting
<1>2. PICK a \in Answers : Answer(c, a)
  BY DEF Status, Start, Stop, NoCount, Answers
<1>3. \/ UNCHANGED <<lg, heirs>>
      \/ Killall
      \/ \E l \in Loggers : /\ lg' = [lg EXCEPT ![l] = "script"]
                           /\ heirs' = [heirs EXCEPT ![c] = @ \cup {l}]
  BY DEF Status, Start, Stop, NoCount
<1>4. /\ lg' \in [Loggers -> {"none", "script", "run", "term"}]
      /\ heirs' \in [Conns -> SUBSET Loggers]
  <2>1. CASE Killall
    <3>1. \A l \in Loggers : lg[l] \in {"none", "script", "run", "term"}
      BY DEF ControlInv, TypeOK
    <3> QED
      BY <2>1, <3>1 DEF Killall, ControlInv, TypeOK
  <2>2. ASSUME NEW l \in Loggers, lg' = [lg EXCEPT ![l] = "script"],
               heirs' = [heirs EXCEPT ![c] = @ \cup {l}]
        PROVE  /\ lg' \in [Loggers -> {"none", "script", "run", "term"}]
               /\ heirs' \in [Conns -> SUBSET Loggers]
    BY <2>2 DEF ControlInv, TypeOK
  <2> QED
    BY <1>3, <2>1, <2>2 DEF ControlInv, TypeOK
<1> QED
  BY <1>1, <1>2, <1>3, <1>4, AnswerControl

\* However a child ends, an answer it has sent is still awaited.
LEMMA GoneControl ==
  ASSUME ControlInv, NEW c \in Conns, Gone(c), UNCHANGED <<clientVars, lg, heirs>>,
         parent' \in {"loop", "gone"}, faults' \in 0..MaxFaults
  PROVE  ControlInv'
<1>1. /\ ch' \in [Conns -> {"none", "queued", "idle", "act"}]
      /\ rq' \in [Conns -> Commands \cup {"none", "CLOSE"}]
      /\ cnt' \in [Conns -> Int]
  BY DEF Gone, ControlInv, TypeOK
<1>2. ch'[c] = "none" /\ rq'[c] = "none" /\ rp' = rp
  BY DEF Gone, ControlInv, TypeOK
<1>3. \A d \in Conns : d # c => ch'[d] = ch[d] /\ rq'[d] = rq[d]
  BY DEF Gone, ControlInv, TypeOK
<1>4. /\ \A d \in Conns : rq'[d] \in {rq[d], "none"}
      /\ \A d \in Conns : rp'[d] # "none" => Awaited(d) /\ rq'[d] = "none"
      /\ \A d \in Conns : ch'[d] = "act" => rq'[d] \in Commands
      /\ \A d \in Conns : ch'[d] = "none" => rq'[d] = "none"
  BY <1>2, <1>3 DEF ControlInv, TypeOK
<1> QED
  BY <1>1, <1>2, <1>4, ServerControl DEF ControlInv, TypeOK

LEMMA EndControl ==
  ASSUME ControlInv, NEW c \in Conns, ChildEnds(c) \/ ChildDies(c) \/ ForkFails(c)
  PROVE  ControlInv'
<1>1. Gone(c) /\ UNCHANGED <<clientVars, lg, heirs>>
  BY DEF ChildEnds, ChildDies, ForkFails
<1>2. parent' \in {"loop", "gone"} /\ faults' \in 0..MaxFaults
  BY ControlAssumption DEF ChildEnds, ChildDies, ForkFails, Fault, ControlInv, TypeOK
<1> QED
  BY <1>1, <1>2, GoneControl

LEMMA RestartControl ==
  ASSUME ControlInv, RestartServer
  PROVE  ControlInv'
<1>1. /\ ch' \in [Conns -> {"none", "queued", "idle", "act"}]
      /\ rq' \in [Conns -> Commands \cup {"none", "CLOSE"}]
  BY DEF RestartServer
<1>2. \A d \in Conns : ch'[d] = "none" /\ rq'[d] = "none"
  BY DEF RestartServer
<1> QED
  BY <1>1, <1>2, ServerControl DEF RestartServer, ControlInv, TypeOK

LEMMA LoggerControl ==
  ASSUME ControlInv, NEW l \in Loggers, Logger(l)
  PROVE  ControlInv'
<1>1. UNCHANGED <<parent, clientVars, ch, rq, cnt, rp, faults>>
  BY DEF Logger, Exec, LoggerEnds, connVars
<1>2. /\ lg' \in [Loggers -> {"none", "script", "run", "term"}]
      /\ heirs' \in [Conns -> SUBSET Loggers]
  BY DEF Logger, Exec, LoggerEnds, ControlInv, TypeOK
<1> QED
  BY <1>1, <1>2, ServerControl DEF ControlInv, TypeOK

\* A fresh connection, on which nothing is under way.
LEMMA ConnectControl ==
  ASSUME ControlInv, NEW k \in Clients, Connect(k)
  PROVE  ControlInv'
<1>1. PICK c \in Conns : /\ ch[c] = "none" /\ ~Attached(c)
                        /\ csk' = [csk EXCEPT ![k] = c]
                        /\ ch' = [ch EXCEPT ![c] = "queued"]
                        /\ heirs' = [heirs EXCEPT ![c] = {}]
  BY DEF Connect
<1>2. cl' = [cl EXCEPT ![k] = "ready"] /\ UNCHANGED <<parent, cut, rq, cnt, rp, lg, faults>>
  BY DEF Connect
<1>3. TypeOK /\ cl[k] = "connect" /\ csk[k] = NoConn /\ c # NoConn
  BY ControlAssumption DEF Connect, ControlInv, TypeOK
<1>4. csk'[k] = c /\ \A j \in Clients : j # k => csk'[j] = csk[j] /\ cl'[j] = cl[j]
  BY <1>1, <1>2, <1>3 DEF TypeOK
<1>5. ASSUME NEW d \in Conns, Awaited(d) PROVE Awaited(d)'
  <2>1. PICK j \in Clients : csk[j] = d /\ cl[j] = "wait"
    BY <1>5 DEF Awaited
  <2>2. j # k
    BY <1>3, <2>1
  <2> QED
    BY <1>4, <2>1, <2>2 DEF Awaited
<1>6. \A d \in Conns : rp'[d] # "none" => Awaited(d)' /\ rq'[d] = "none"
  BY <1>2, <1>3, <1>5 DEF TypeOK
<1>7. \A j \in Clients : csk'[j] = NoConn <=> cl'[j] = "connect"
  BY <1>2, <1>3, <1>4 DEF TypeOK
<1>8. TypeOK'
  BY <1>1, <1>2, <1>3, <1>6, <1>7 DEF TypeOK
<1>9. \A i, j \in Clients : csk'[i] = csk'[j] /\ csk'[i] # NoConn => i = j
  BY <1>1, <1>4 DEF ControlInv, Attached
<1>10. rq[c] = "none"
  BY <1>1 DEF ControlInv
<1>11. \A j \in Clients : cl'[j] = "ready" => rq'[csk'[j]] = "none"
  BY <1>2, <1>4, <1>10 DEF ControlInv
<1>12. \A d \in Conns : (ch'[d] = "act" => rq'[d] \in Commands) /\ (ch'[d] = "none" => rq'[d] = "none")
  BY <1>1, <1>2, <1>3 DEF ControlInv, TypeOK
<1> QED
  BY <1>8, <1>9, <1>11, <1>12 DEF ControlInv

LEMMA SendControl ==
  ASSUME ControlInv, NEW k \in Clients, NEW cmd \in Commands, Send(k, cmd)
  PROVE  ControlInv'
<1>1. TypeOK /\ cl[k] = "ready" /\ csk[k] \in Conns /\ cmd # "none"
  BY DEF Send, ControlInv, TypeOK, Commands
<1>2. cl' = [cl EXCEPT ![k] = "wait"] /\ UNCHANGED <<parent, csk, cut, ch, cnt, rp, lg, heirs, faults>>
  BY DEF Send
<1>3. rp[csk[k]] = "none"
  BY <1>1, ReadyNoAnswer
<1>4. rq' \in [Conns -> Commands \cup {"none", "CLOSE"}]
  BY <1>1 DEF Send, Written, TypeOK
<1>5. \A d \in Conns : rq'[d] # rq[d] => d = csk[k] /\ rq'[d] = cmd /\ ch[d] # "none"
  BY <1>1 DEF Send, Written, TypeOK
<1>6. cl'[k] = "wait" /\ \A j \in Clients : j # k => cl'[j] = cl[j]
  BY <1>1, <1>2 DEF TypeOK
<1>7. \A d \in Conns : Awaited(d) => Awaited(d)'
  BY <1>1, <1>2, <1>6 DEF Awaited
<1>8. \A d \in Conns : rp'[d] # "none" => Awaited(d)' /\ rq'[d] = "none"
  BY <1>1, <1>2, <1>3, <1>5, <1>7 DEF TypeOK
<1>9. \A j \in Clients : csk'[j] = NoConn <=> cl'[j] = "connect"
  BY <1>1, <1>2, <1>6, ControlAssumption DEF TypeOK
<1>10. TypeOK'
  BY <1>1, <1>2, <1>4, <1>8, <1>9 DEF TypeOK
<1>11. ASSUME NEW j \in Clients, cl'[j] = "ready" PROVE rq'[csk'[j]] = "none"
  <2>1. j # k /\ cl[j] = "ready" /\ csk[j] \in Conns
    BY <1>1, <1>6, <1>11 DEF TypeOK
  <2>2. csk[j] # csk[k]
    BY <1>1, <2>1, ControlAssumption DEF ControlInv
  <2> QED
    BY <1>2, <1>5, <2>1, <2>2 DEF ControlInv
<1>12. \A i, j \in Clients : csk'[i] = csk'[j] /\ csk'[i] # NoConn => i = j
  BY <1>2 DEF ControlInv
<1>13. \A d \in Conns : (ch'[d] = "act" => rq'[d] \in Commands) /\ (ch'[d] = "none" => rq'[d] = "none")
  BY <1>2, <1>5 DEF ControlInv
<1> QED
  BY <1>10, <1>11, <1>12, <1>13 DEF ControlInv

\* The client gives up its connection, and may have sent CLOSE on it.
LEMMA LeaveControl ==
  ASSUME ControlInv, NEW k \in Clients, NEW c \in Conns, csk[k] = c, Leave(k),
         UNCHANGED <<parent, ch, cnt, lg, heirs, faults>>,
         rq' \in [Conns -> Commands \cup {"none", "CLOSE"}],
         \A d \in Conns : rq'[d] # rq[d] => d = c /\ ch[d] \notin {"none", "act"},
         rp' \in {rp, [rp EXCEPT ![c] = "none"]}, rp'[c] = "none"
  PROVE  ControlInv'
<1>1. TypeOK
  BY DEF ControlInv
<1>2. /\ cl' = [cl EXCEPT ![k] = "connect"] /\ csk' = [csk EXCEPT ![k] = NoConn]
      /\ cut' \subseteq Conns
  BY <1>1 DEF Leave, TypeOK
<1>3. csk'[k] = NoConn /\ cl'[k] = "connect"
  BY <1>1, <1>2 DEF TypeOK
<1>4. \A j \in Clients : j # k => csk'[j] = csk[j] /\ cl'[j] = cl[j]
  BY <1>1, <1>2 DEF TypeOK
<1>5. \A d \in Conns : rp'[d] # "none" => d # c /\ rp[d] # "none"
  BY <1>1 DEF TypeOK
<1>6. ASSUME NEW d \in Conns, Awaited(d), d # c PROVE Awaited(d)'
  <2>1. PICK j \in Clients : csk[j] = d /\ cl[j] = "wait"
    BY <1>6 DEF Awaited
  <2>2. j # k
    BY <1>6, <2>1
  <2> QED
    BY <1>4, <2>1, <2>2 DEF Awaited
<1>7. \A d \in Conns : rp'[d] # "none" => Awaited(d)' /\ rq'[d] = "none"
  BY <1>1, <1>5, <1>6 DEF TypeOK
<1>8. rp' \in [Conns -> Answers \cup {"none"}]
  BY <1>1 DEF TypeOK
<1>9. \A j \in Clients : csk'[j] = NoConn <=> cl'[j] = "connect"
  BY <1>1, <1>3, <1>4 DEF TypeOK
<1>10. TypeOK'
  BY <1>1, <1>2, <1>7, <1>8, <1>9 DEF TypeOK
<1>11. \A i, j \in Clients : csk'[i] = csk'[j] /\ csk'[i] # NoConn => i = j
  BY <1>3, <1>4 DEF ControlInv
<1>12. ASSUME NEW j \in Clients, cl'[j] = "ready" PROVE rq'[csk'[j]] = "none"
  <2>1. j # k /\ cl[j] = "ready" /\ csk[j] \in Conns
    BY <1>1, <1>3, <1>4, <1>12 DEF TypeOK
  <2>2. csk[j] # c
    BY <2>1, ControlAssumption DEF ControlInv
  <2> QED
    BY <1>4, <2>1, <2>2 DEF ControlInv
<1>13. \A d \in Conns : (ch'[d] = "act" => rq'[d] \in Commands) /\ (ch'[d] = "none" => rq'[d] = "none")
  BY DEF ControlInv
<1> QED
  BY <1>10, <1>11, <1>12, <1>13 DEF ControlInv

LEMMA NoticeControl ==
  ASSUME ControlInv, NEW k \in Clients, NoticeLoss(k)
  PROVE  ControlInv'
<1>1. TypeOK /\ csk[k] \in Conns
  BY DEF NoticeLoss, ControlInv, TypeOK
<1> QED
  BY <1>1, LeaveControl DEF NoticeLoss, connVars, TypeOK

LEMMA ExitControl ==
  ASSUME ControlInv, NEW k \in Clients, ExitMainThread(k), csk[k] \in Conns,
         UNCHANGED <<parent, ch, cnt, lg, heirs, faults>>, ch[csk[k]] # "act",
         rp' \in {rp, [rp EXCEPT ![csk[k]] = "none"]}, rp'[csk[k]] = "none"
  PROVE  ControlInv'
<1>1. rq' \in [Conns -> Commands \cup {"none", "CLOSE"}]
  BY DEF ExitMainThread, Written, ControlInv, TypeOK
<1>2. \A d \in Conns : rq'[d] # rq[d] => d = csk[k] /\ ch[d] \notin {"none", "act"}
  BY DEF ExitMainThread, Written, ControlInv, TypeOK
<1> QED
  BY <1>1, <1>2, LeaveControl DEF ExitMainThread

LEMMA QuitControl ==
  ASSUME ControlInv, NEW k \in Clients, Quit(k)
  PROVE  ControlInv'
<1>1. cl[k] = "ready" /\ csk[k] \in Conns
  BY DEF Quit, ControlInv, TypeOK
<1>2. rp[csk[k]] = "none"
  BY <1>1, ReadyNoAnswer
<1>3. ch[csk[k]] # "act"
  BY <1>1 DEF ControlInv, Commands
<1> QED
  BY <1>1, <1>2, <1>3, ExitControl DEF Quit

\* The answer that is read is the only one, and leaves the connection empty.
LEMMA ReceiveControl ==
  ASSUME ControlInv, NEW k \in Clients, Receive(k)
  PROVE  ControlInv'
<1>1. TypeOK /\ cl[k] = "wait" /\ csk[k] \in Conns
  BY DEF Receive, ControlInv, TypeOK
<1>2. UNCHANGED <<parent, ch, cnt, lg, heirs, faults>> /\ rp' = [rp EXCEPT ![csk[k]] = "none"]
  BY DEF Receive
<1>3. rq[csk[k]] = "none" /\ ch[csk[k]] # "act"
  BY <1>1 DEF Receive, ControlInv, TypeOK, Commands
<1>4. rp'[csk[k]] = "none" /\ \A d \in Conns : d # csk[k] => rp'[d] = rp[d]
  BY <1>1, <1>2 DEF TypeOK
<1>5. CASE ExitMainThread(k)
  BY <1>1, <1>2, <1>3, <1>4, <1>5, ExitControl
<1>6. CASE cl' = [cl EXCEPT ![k] = "ready"] /\ UNCHANGED <<csk, cut, rq>>
  <2>1. cl'[k] = "ready" /\ \A j \in Clients : j # k => cl'[j] = cl[j]
    BY <1>1, <1>6 DEF TypeOK
  <2>2. ASSUME NEW d \in Conns, rp'[d] # "none" PROVE Awaited(d)' /\ rq'[d] = "none"
    <3>1. d # csk[k] /\ rp[d] # "none"
      BY <1>4, <2>2
    <3>2. PICK j \in Clients : csk[j] = d /\ cl[j] = "wait"
      BY <1>1, <3>1 DEF TypeOK, Awaited
    <3>3. j # k
      BY <3>1, <3>2
    <3> QED
      BY <1>1, <1>6, <2>1, <3>1, <3>2, <3>3 DEF TypeOK, Awaited
  <2>3. \A j \in Clients : csk'[j] = NoConn <=> cl'[j] = "connect"
    BY <1>1, <1>6, <2>1, ControlAssumption DEF TypeOK
  <2>4. TypeOK'
    BY <1>1, <1>2, <1>6, <2>2, <2>3 DEF TypeOK
  <2>5. \A j \in Clients : cl'[j] = "ready" => rq'[csk'[j]] = "none"
    BY <1>3, <1>6, <2>1 DEF ControlInv
  <2> QED
    BY <1>2, <1>6, <2>4, <2>5 DEF ControlInv
<1> QED
  BY <1>5, <1>6 DEF Receive

LEMMA LoseControl ==
  ASSUME ControlInv, NEW k \in Clients, LoseLink(k)
  PROVE  ControlInv'
<1>1. TypeOK /\ csk[k] \in Conns
  BY DEF LoseLink, ControlInv, TypeOK
<1>2. UNCHANGED <<parent, cl, csk, ch, cnt, lg, heirs>> /\ faults' \in 0..MaxFaults /\ cut' \subseteq Conns
  BY <1>1, ControlAssumption DEF LoseLink, Fault, TypeOK
<1>3. rp' \in [Conns -> Answers \cup {"none"}] /\ \A d \in Conns : rp'[d] \in {rp[d], "none"}
  BY <1>1 DEF LoseLink, TypeOK
<1>4. /\ rq' \in [Conns -> Commands \cup {"none", "CLOSE"}]
      /\ \A d \in Conns : rq'[d] # rq[d] => rq'[d] = "none" /\ ch[d] # "act"
  BY <1>1 DEF LoseLink, TypeOK
<1>5. \A d \in Conns : Awaited(d)' <=> Awaited(d)
  BY <1>2 DEF Awaited
<1>6. TypeOK'
  BY <1>1, <1>2, <1>3, <1>4, <1>5 DEF TypeOK
<1>7. ASSUME NEW j \in Clients, cl'[j] = "ready" PROVE rq'[csk'[j]] = "none"
  <2>1. csk[j] \in Conns /\ rq[csk[j]] = "none"
    BY <1>1, <1>2, <1>7 DEF TypeOK, ControlInv
  <2> QED
    BY <1>2, <1>4, <2>1
<1> QED
  BY <1>2, <1>4, <1>6, <1>7 DEF ControlInv

LEMMA ControlInit == Init => ControlInv
  BY ControlAssumption DEF Init, ControlInv, TypeOK, Awaited

LEMMA ControlNext == ASSUME ControlInv, [Next]_vars PROVE ControlInv'
<1>1. ASSUME NEW c \in Conns, Child(c) PROVE ControlInv'
  BY <1>1, CountControl, CommandControl, EndControl DEF Child
<1>2. ASSUME NEW c \in Conns, Accept(c) \/ ChildDies(c) \/ ForkFails(c) \/ PopenFails(c)
      PROVE  ControlInv'
  BY <1>2, AcceptControl, EndControl, CountControl
<1>3. CASE RestartServer
  BY <1>3, RestartControl
<1>4. ASSUME NEW l \in Loggers, Logger(l) PROVE ControlInv'
  BY <1>4, LoggerControl
<1>5. ASSUME NEW k \in Clients, NEW cmd \in Commands, Send(k, cmd) PROVE ControlInv'
  BY <1>5, SendControl
<1>6. ASSUME NEW k \in Clients,
             Connect(k) \/ Receive(k) \/ NoticeLoss(k) \/ Quit(k) \/ LoseLink(k)
      PROVE  ControlInv'
  BY <1>6, ConnectControl, ReceiveControl, NoticeControl, QuitControl, LoseControl
<1>7. CASE UNCHANGED vars
  <2>1. UNCHANGED <<parent, cl, csk, cut, ch, rq, cnt, rp, lg, heirs, faults>>
    BY <1>7 DEF vars, clientVars, connVars
  <2> QED
    BY <2>1 DEF ControlInv, TypeOK, Awaited
<1> QED
  BY <1>1, <1>2, <1>3, <1>4, <1>5, <1>6, <1>7 DEF Next

\* For any number of clients and connections, whatever is lost, dies or fails: the
\* types hold, an answer under way is one that a client waits for, and no command
\* is under way besides it (TcpSendReceiveMT, client_lib.c).
THEOREM ControlTypes == Spec => []TypeOK
<1>1. Init => ControlInv
  BY ControlInit
<1>2. ControlInv /\ [Next]_vars => ControlInv'
  BY ControlNext
<1>3. ControlInv => TypeOK
  BY DEF ControlInv
<1> QED
  BY <1>1, <1>2, <1>3, PTL DEF Spec

-----------------------------------------------------------------------------
\* The conditions under which the counting of processes can be relied on.
OneClient ==
  /\ \A j, k \in Clients : j = k
  /\ PromptExec
  /\ "link" \notin FaultKinds

-----------------------------------------------------------------------------
(* What one client means for the slots.                                    *)

\* The only connection with a command or an answer under way is the awaited one.
LEMMA Alone ==
  ASSUME OneClient, OneClientInv, NEW c \in Conns, Awaited(c), NEW d \in Conns, d # c
  PROVE  ~Awaited(d) /\ rp[d] = "none" /\ ch[d] # "act"
<1>1. ~Awaited(d)
  BY DEF OneClient, Awaited
<1>2. CommandAwaited(d)
  BY DEF OneClientInv
<1>3. rp[d] = "none"
  BY <1>1 DEF OneClientInv, ControlInv, TypeOK
<1>4. ch[d] # "act"
  BY <1>1, <1>2 DEF CommandAwaited, OneClientInv, ControlInv
<1> QED
  BY <1>1, <1>3, <1>4

\* When no client waits, no child is acting and no answer is under way.
LEMMA Quiet ==
  ASSUME OneClient, OneClientInv, NEW k \in Clients, cl[k] # "wait", NEW d \in Conns
  PROVE  ~Awaited(d) /\ rp[d] = "none" /\ ch[d] # "act"
<1>1. ~Awaited(d)
  BY DEF OneClient, Awaited
<1>2. CommandAwaited(d)
  BY DEF OneClientInv
<1>3. rp[d] = "none"
  BY <1>1 DEF OneClientInv, ControlInv, TypeOK
<1>4. ch[d] # "act"
  BY <1>1, <1>2 DEF CommandAwaited, OneClientInv, ControlInv
<1> QED
  BY <1>1, <1>3, <1>4

\* A child that has a command has it from a client that waits.
LEMMA CommandIsAwaited ==
  ASSUME OneClientInv, NEW c \in Conns, rq[c] \in Commands, ch[c] \in {"idle", "act"}
  PROVE  Awaited(c) /\ rp[c] = "none"
<1>1. CommandAwaited(c)
  BY DEF OneClientInv
<1>2. rq[c] # "none"
  BY DEF Commands
<1> QED
  BY <1>1, <1>2 DEF CommandAwaited, OneClientInv, ControlInv, TypeOK

LEMMA ActingIsAwaited ==
  ASSUME OneClientInv, NEW c \in Conns, ch[c] = "act"
  PROVE  Awaited(c) /\ rp[c] = "none"
<1>1. rq[c] \in Commands
  BY DEF OneClientInv, ControlInv
<1> QED
  BY <1>1, CommandIsAwaited

\* A connection that a step leaves alone stays in order.
LEMMA SlotKept ==
  ASSUME NEW d \in Conns, CommandAwaited(d),
         ch'[d] = ch[d], rq'[d] = rq[d],
         Awaited(d) => Awaited(d)', Listening' => Listening
  PROVE  CommandAwaited(d)'
  BY DEF CommandAwaited

LEMMA AwaitedKept ==
  ASSUME UNCHANGED clientVars, NEW d \in Conns
  PROVE  Awaited(d)' <=> Awaited(d)
  BY DEF Awaited, clientVars

-----------------------------------------------------------------------------
(* The answer of a child.                                                  *)

\* After an answer no child is acting, and it is the only one under way.
LEMMA AnswerSlots ==
  ASSUME OneClient, OneClientInv, NEW c \in Conns, ch[c] = "act",
         NEW a \in Answers, Answer(c, a)
  PROVE  /\ \A d \in Conns : CommandAwaited(d)' /\ CountFresh(d)'
         /\ \A d \in Conns : rp'[d] # "none" => rp'[d] = a
<1>1. TypeOK
  BY DEF OneClientInv, ControlInv
<1>2. Awaited(c)
  BY ActingIsAwaited
<1>3. \A d \in Conns : Awaited(d)' <=> Awaited(d)
  BY AwaitedKept DEF Answer
<1>4. rq'[c] = "none" /\ ch'[c] = "idle" /\ rp'[c] \in {a, "none"}
  BY <1>1 DEF TypeOK, Answer
<1>5. \A d \in Conns : d # c => ch'[d] = ch[d] /\ rq'[d] = rq[d] /\ rp'[d] = rp[d]
  BY <1>1 DEF TypeOK, Answer
<1>6. \A d \in Conns : d # c => rp[d] = "none" /\ ch[d] # "act"
  BY <1>2, Alone
<1>7. Listening
  BY DEF Listening
<1>8. CommandAwaited(c)'
  BY <1>4 DEF CommandAwaited, Commands
<1>9. ASSUME NEW d \in Conns, d # c PROVE CommandAwaited(d)'
  <2>1. CommandAwaited(d)
    BY DEF OneClientInv
  <2> QED
    BY <1>3, <1>5, <1>7, <1>9, <2>1, SlotKept
<1>10. \A d \in Conns : ch'[d] # "act"
  BY <1>4, <1>5, <1>6
<1> QED
  BY <1>4, <1>5, <1>6, <1>8, <1>9, <1>10 DEF CountFresh

\* The parts of the invariant that an answer which leaves the loggers alone must
\* still keep: nothing, unless it is the answer to STOP.
LEMMA QuietAnswer ==
  ASSUME OneClient, OneClientInv, NEW c \in Conns, ch[c] = "act",
         NEW a \in Answers, Answer(c, a), UNCHANGED <<lg, heirs>>, ControlInv', cut' = {},
         a \in {"STOPPED", "NOT RUNNING"} => \A l \in Loggers : lg[l] \notin {"script", "run"}
  PROVE  OneClientInv'
<1>2. /\ \A d \in Conns : CommandAwaited(d)' /\ CountFresh(d)'
      /\ \A d \in Conns : rp'[d] # "none" => rp'[d] = a
  BY AnswerSlots
<1>3. AtMostOneLogger'
  BY DEF OneClientInv, AtMostOneLogger
<1>4. StopAnswerTrue'
  BY <1>2 DEF StopAnswerTrue
<1> QED
  BY <1>2, <1>3, <1>4 DEF OneClientInv

LEMMA NoCountKeeps ==
  ASSUME OneClient, OneClientInv, ControlInv', cut' = {},
         NEW c \in Conns, ch[c] = "act", NoCount(c)
  PROVE  OneClientInv'
<1>1. "ERROR" \in Answers
  BY DEF Answers
<1> QED
  BY <1>1, QuietAnswer DEF NoCount

LEMMA StatusKeeps ==
  ASSUME OneClient, OneClientInv, ControlInv', cut' = {},
         NEW c \in Conns, Status(c)
  PROVE  OneClientInv'
<1>1. ch[c] = "act"
  BY DEF Status, Acting
<1>2. CASE NoCount(c)
  BY <1>1, <1>2, NoCountKeeps
<1>3. CASE Answer(c, IF cnt[c] = 0 THEN "OFF" ELSE "ON") /\ UNCHANGED <<lg, heirs>>
  <2>1. PICK a \in {"ON", "OFF"} : Answer(c, a)
    BY <1>3
  <2>2. a \in Answers
    BY DEF Answers
  <2> QED
    BY <1>1, <1>3, <2>1, <2>2, QuietAnswer
<1> QED
  BY <1>2, <1>3 DEF Status

\* START with a fresh count of zero launches the only logger.
LEMMA StartKeeps ==
  ASSUME OneClient, OneClientInv, ControlInv', cut' = {},
         NEW c \in Conns, Start(c)
  PROVE  OneClientInv'
<1>1. ch[c] = "act"
  BY DEF Start, Acting
<1>2. CASE NoCount(c)
  BY <1>1, <1>2, NoCountKeeps
<1>3. CASE Answer(c, "ALREADY") /\ UNCHANGED <<lg, heirs>>
  BY <1>1, <1>3, QuietAnswer DEF Answers
<1>4. ASSUME cnt[c] = 0, Answer(c, "STARTED"), NEW l \in Loggers,
             lg' = [lg EXCEPT ![l] = "script"], heirs' = [heirs EXCEPT ![c] = @ \cup {l}]
      PROVE  OneClientInv'
  <2>1. \A m \in Loggers : lg[m] = "none"
    BY <1>1, <1>4 DEF OneClientInv, CountFresh
  <2>3. "STARTED" \in Answers
    BY DEF Answers
  <2>4. /\ \A d \in Conns : CommandAwaited(d)' /\ CountFresh(d)'
        /\ \A d \in Conns : rp'[d] # "none" => rp'[d] = "STARTED"
    BY <1>1, <1>4, <2>3, AnswerSlots
  <2>5. AtMostOneLogger'
    BY <1>4, <2>1 DEF AtMostOneLogger, OneClientInv, ControlInv, TypeOK
  <2>6. StopAnswerTrue'
    BY <2>4 DEF StopAnswerTrue
  <2> QED
    BY <2>4, <2>5, <2>6 DEF OneClientInv
<1> QED
  BY <1>2, <1>3, <1>4 DEF Start

\* STOP with a fresh count reaches every logger: none is still a script.
LEMMA StopKeeps ==
  ASSUME OneClient, OneClientInv, ControlInv', cut' = {},
         NEW c \in Conns, Stop(c)
  PROVE  OneClientInv'
<1>1. ch[c] = "act" /\ CountFresh(c) /\ TypeOK
  BY DEF Stop, Acting, OneClientInv, ControlInv
<1>2. CASE NoCount(c)
  BY <1>1, <1>2, NoCountKeeps
<1>3. CASE cnt[c] = 0 /\ Answer(c, "NOT RUNNING") /\ UNCHANGED <<lg, heirs>>
  <2>1. \A l \in Loggers : lg[l] \notin {"script", "run"}
    BY <1>1, <1>3 DEF CountFresh
  <2>2. "NOT RUNNING" \in Answers
    BY DEF Answers
  <2> QED
    BY <1>1, <1>3, <2>1, <2>2, QuietAnswer
<1>4. CASE cnt[c] > 0 /\ Killall /\ Answer(c, "STOPPED")
  <2>1. \A l \in Loggers : lg[l] # "script"
    BY <1>1, <1>4 DEF CountFresh, TypeOK
  <2>2. \A l \in Loggers : lg'[l] = IF lg[l] \in {"run", "term"} THEN "term" ELSE lg[l]
    BY <1>4 DEF Killall, Named
  <2>5. "STOPPED" \in Answers
    BY DEF Answers
  <2>6. \A d \in Conns : CommandAwaited(d)' /\ CountFresh(d)'
    BY <1>1, <1>4, <2>5, AnswerSlots
  <2>7. \A l \in Loggers : lg'[l] \notin {"script", "run"}
    BY <1>1, <2>1, <2>2 DEF TypeOK
  <2>8. AtMostOneLogger'
    BY <2>2 DEF AtMostOneLogger, OneClientInv
  <2> QED
    BY <2>6, <2>7, <2>8 DEF OneClientInv, StopAnswerTrue
<1> QED
  BY <1>2, <1>3, <1>4 DEF Stop

-----------------------------------------------------------------------------
(* The other steps of the server.                                          *)

\* A step that leaves the clients, the loggers and the answers alone, and in
\* which the connections that change are in order afterwards.
LEMMA LoggersUntouched ==
  ASSUME OneClientInv, UNCHANGED lg, ControlInv', cut' = {},
         \A d \in Conns : CommandAwaited(d)' /\ CountFresh(d)',
         \A d \in Conns : rp'[d] \in {rp[d], "none"}
  PROVE  OneClientInv'
<1>1. AtMostOneLogger'
  BY DEF OneClientInv, AtMostOneLogger
<1>2. StopAnswerTrue'
  BY DEF OneClientInv, StopAnswerTrue
<1> QED
  BY <1>1, <1>2 DEF OneClientInv

\* A connection that a step leaves alone, with the loggers, keeps its count.
LEMMA CountKept ==
  ASSUME NEW d \in Conns, CountFresh(d), ch'[d] = ch[d], cnt'[d] = cnt[d], UNCHANGED lg
  PROVE  CountFresh(d)'
  BY DEF CountFresh

LEMMA AcceptKeeps ==
  ASSUME OneClient, OneClientInv, ControlInv', cut' = {},
         NEW c \in Conns, Accept(c)
  PROVE  OneClientInv'
<1>1. TypeOK /\ \A d \in Conns : CommandAwaited(d) /\ CountFresh(d)
  BY DEF OneClientInv, ControlInv
<1>3. Listening /\ \A d \in Conns : Awaited(d)' <=> Awaited(d)
  BY AwaitedKept DEF Accept, Listening
<1>4. ASSUME NEW d \in Conns PROVE CommandAwaited(d)' /\ CountFresh(d)'
  <2>1. CASE d # c
    <3>1. ch'[d] = ch[d] /\ rq'[d] = rq[d] /\ cnt'[d] = cnt[d]
      BY <1>1, <2>1 DEF Accept, TypeOK
    <3> QED
      BY <1>1, <1>3, <3>1, SlotKept, CountKept DEF Accept
  <2>2. CASE d = c
    <3>1. ch'[c] = "idle" /\ rq'[c] = rq[c] /\ CommandAwaited(c)
      BY <1>1, <2>2 DEF Accept, TypeOK
    <3> QED
      BY <1>3, <2>2, <3>1 DEF CommandAwaited, CountFresh
  <2> QED
    BY <2>1, <2>2
<1> QED
  BY <1>4, LoggersUntouched DEF Accept

\* pgrep: with every script exec'd, a count of zero means that no logger is left.
LEMMA ProcNumberKeeps ==
  ASSUME OneClient, OneClientInv, ControlInv', cut' = {},
         NEW c \in Conns, ProcNumber(c)
  PROVE  OneClientInv'
<1>1. TypeOK /\ \A d \in Conns : CommandAwaited(d) /\ CountFresh(d)
  BY DEF OneClientInv, ControlInv
<1>2. IsFiniteSet(Named)
  BY ControlAssumption, FS_Subset DEF Named
<1>3. Cardinality(Named) \in Nat /\ (Cardinality(Named) = 0 => Named = {})
  BY <1>2, FS_CardinalityType, FS_EmptySet
<1>5. Listening /\ \A d \in Conns : Awaited(d)' <=> Awaited(d)
  BY AwaitedKept DEF ProcNumber, Listening
<1>6. ch'[c] = "act" /\ rq'[c] = rq[c] /\ rp'[c] = rp[c] /\ cnt'[c] = Cardinality(Named)
  BY <1>1 DEF ProcNumber, TypeOK
<1>7. \A l \in Loggers : lg[l] # "script" /\ lg'[l] = lg[l]
  BY DEF ProcNumber, OneClient
<1>8. Awaited(c) /\ rp[c] = "none"
  BY CommandIsAwaited DEF ProcNumber
<1>9. CommandAwaited(c)'
  BY <1>5, <1>6, <1>8 DEF ProcNumber, CommandAwaited
<1>10. CountFresh(c)'
  <2>1. Named = {} => \A l \in Loggers : lg[l] = "none"
    BY <1>1, <1>7 DEF Named, TypeOK
  <2> QED
    BY <1>3, <1>6, <1>7, <2>1 DEF CountFresh
<1>11. ASSUME NEW d \in Conns, d # c PROVE CommandAwaited(d)' /\ CountFresh(d)'
  <2>1. ch'[d] = ch[d] /\ rq'[d] = rq[d] /\ rp'[d] = rp[d] /\ cnt'[d] = cnt[d]
    BY <1>1, <1>11 DEF ProcNumber, TypeOK
  <2> QED
    BY <1>1, <1>5, <2>1, SlotKept, CountKept DEF ProcNumber
<1> QED
  BY <1>9, <1>10, <1>11, LoggersUntouched DEF ProcNumber

LEMMA PopenFailsKeeps ==
  ASSUME OneClient, OneClientInv, ControlInv', cut' = {},
         NEW c \in Conns, PopenFails(c)
  PROVE  OneClientInv'
<1>1. TypeOK /\ \A d \in Conns : CommandAwaited(d) /\ CountFresh(d)
  BY DEF OneClientInv, ControlInv
<1>3. Listening /\ \A d \in Conns : Awaited(d)' <=> Awaited(d)
  BY AwaitedKept DEF PopenFails, Listening
<1>4. ch'[c] = "act" /\ rq'[c] = rq[c] /\ rp'[c] = rp[c] /\ cnt'[c] = -1
  BY <1>1 DEF PopenFails, TypeOK
<1>5. Awaited(c) /\ rp[c] = "none"
  BY CommandIsAwaited DEF PopenFails
<1>6. CommandAwaited(c)' /\ CountFresh(c)'
  BY <1>3, <1>4, <1>5 DEF PopenFails, CommandAwaited, CountFresh
<1>7. ASSUME NEW d \in Conns, d # c PROVE CommandAwaited(d)' /\ CountFresh(d)'
  <2>1. ch'[d] = ch[d] /\ rq'[d] = rq[d] /\ rp'[d] = rp[d] /\ cnt'[d] = cnt[d]
    BY <1>1, <1>7 DEF PopenFails, TypeOK
  <2> QED
    BY <1>1, <1>3, <2>1, SlotKept, CountKept DEF PopenFails
<1> QED
  BY <1>6, <1>7, LoggersUntouched DEF PopenFails

\* However a child ends, its command is gone and the other slots are as they were.
LEMMA GoneKeeps ==
  ASSUME OneClient, OneClientInv, ControlInv', cut' = {}, NEW c \in Conns, Gone(c),
         Listening, UNCHANGED <<clientVars, lg>>
  PROVE  OneClientInv'
<1>1. TypeOK /\ \A d \in Conns : CommandAwaited(d) /\ CountFresh(d)
  BY DEF OneClientInv, ControlInv
<1>2. \A d \in Conns : Awaited(d)' <=> Awaited(d)
  BY AwaitedKept
<1>3. ch'[c] = "none" /\ rq'[c] = "none" /\ rp' = rp
  BY <1>1 DEF Gone, TypeOK
<1>4. CommandAwaited(c)' /\ CountFresh(c)'
  BY <1>3 DEF CommandAwaited, CountFresh, Commands
<1>5. \A d \in Conns : d # c => ch'[d] = ch[d] /\ rq'[d] = rq[d] /\ cnt'[d] = cnt[d]
  BY <1>1 DEF Gone, TypeOK
<1>6. ASSUME NEW d \in Conns, d # c PROVE CommandAwaited(d)' /\ CountFresh(d)'
  BY <1>1, <1>2, <1>5, <1>6, SlotKept, CountKept
<1> QED
  BY <1>3, <1>4, <1>6, LoggersUntouched

LEMMA EndKeeps ==
  ASSUME OneClient, OneClientInv, ControlInv', cut' = {},
         NEW c \in Conns, ChildEnds(c) \/ ChildDies(c) \/ ForkFails(c)
  PROVE  OneClientInv'
<1>1. Listening
  BY DEF ChildEnds, ChildDies, ForkFails, Listening
<1>2. Gone(c) /\ UNCHANGED <<clientVars, lg>>
  BY DEF ChildEnds, ChildDies, ForkFails
<1> QED
  BY <1>1, <1>2, GoneKeeps

\* A server that is started again finds no process and an empty queue.
LEMMA RestartServerKeeps ==
  ASSUME OneClient, OneClientInv, ControlInv', cut' = {}, RestartServer
  PROVE  OneClientInv'
<1>1. \A d \in Conns : ch'[d] = "none" /\ rq'[d] = "none" /\ rp'[d] = rp[d]
  BY DEF RestartServer
<1>2. \A d \in Conns : CommandAwaited(d)' /\ CountFresh(d)'
  BY <1>1 DEF CommandAwaited, CountFresh, Commands
<1> QED
  BY <1>1, <1>2, LoggersUntouched DEF RestartServer

-----------------------------------------------------------------------------
(* Loggers.                                                                *)

\* A step of a logger that is there and stays so or ends.
LEMMA LoggerKeeps ==
  ASSUME OneClient, OneClientInv, ControlInv', cut' = {},
         NEW l \in Loggers, Logger(l)
  PROVE  OneClientInv'
<1>1. TypeOK /\ \A d \in Conns : CommandAwaited(d) /\ CountFresh(d)
  BY DEF OneClientInv, ControlInv
<1>2. UNCHANGED <<parent, clientVars, connVars, faults>>
  BY DEF Logger, Exec, LoggerEnds
<1>3. \/ lg[l] = "script" /\ lg' = [lg EXCEPT ![l] = "run"]
      \/ lg[l] = "term" /\ lg' = [lg EXCEPT ![l] = "none"]
  BY DEF Logger, Exec, LoggerEnds
<1>7. \A m \in Loggers : m # l => lg'[m] = lg[m]
  BY <1>1, <1>3 DEF TypeOK
<1>8. lg[l] # "none" /\ (lg[l] = "script" => lg'[l] = "run") /\ (lg[l] = "term" => lg'[l] = "none")
  BY <1>1, <1>3 DEF TypeOK
<1>9. Listening
  BY <1>8 DEF Listening
<1>10. ASSUME NEW d \in Conns PROVE CommandAwaited(d)'
  <2>1. Awaited(d)' <=> Awaited(d)
    BY <1>2, AwaitedKept
  <2>2. ch'[d] = ch[d] /\ rq'[d] = rq[d]
    BY <1>2 DEF connVars
  <2> QED
    BY <1>1, <1>9, <2>1, <2>2, SlotKept
<1>11. ASSUME NEW d \in Conns PROVE CountFresh(d)'
  <2>1. ch'[d] = ch[d] /\ cnt'[d] = cnt[d] /\ CountFresh(d)
    BY <1>1, <1>2 DEF connVars
  <2> QED
    BY <1>3, <1>7, <1>8, <2>1 DEF CountFresh
<1>12. AtMostOneLogger'
  BY <1>7, <1>8 DEF OneClientInv, AtMostOneLogger
<1>13. StopAnswerTrue'
  <2>1. \A d \in Conns : rp'[d] = rp[d]
    BY <1>2 DEF connVars
  <2>2. StopAnswerTrue
    BY DEF OneClientInv
  <2> QED
    BY <1>3, <1>7, <1>8, <2>1, <2>2 DEF StopAnswerTrue
<1> QED
  BY <1>10, <1>11, <1>12, <1>13 DEF OneClientInv

-----------------------------------------------------------------------------
(* The main thread.                                                        *)

LEMMA ConnectKeeps ==
  ASSUME OneClient, OneClientInv, ControlInv', cut' = {},
         NEW k \in Clients, Connect(k)
  PROVE  OneClientInv'
<1>1. TypeOK /\ \A d \in Conns : CommandAwaited(d) /\ CountFresh(d)
  BY DEF OneClientInv, ControlInv
<1>2. PICK c \in Conns : /\ ch[c] = "none"
                        /\ csk' = [csk EXCEPT ![k] = c]
                        /\ ch' = [ch EXCEPT ![c] = "queued"]
                        /\ heirs' = [heirs EXCEPT ![c] = {}]
  BY DEF Connect
<1>3. UNCHANGED <<parent, rq, cnt, rp, lg, faults>>
  BY DEF Connect
<1>4. \A d \in Conns : ~Awaited(d) /\ rp[d] = "none" /\ ch[d] # "act"
  BY Quiet DEF Connect
<1>6. Listening
  BY DEF Connect
<1>7. ASSUME NEW d \in Conns PROVE CommandAwaited(d)' /\ CountFresh(d)'
  <2>1. rq'[d] = rq[d]
    BY <1>3
  <2>2. rq[d] \notin Commands
    BY <1>1, <1>4, <1>6 DEF CommandAwaited
  <2>3. ch'[d] # "act"
    BY <1>1, <1>2, <1>4 DEF TypeOK
  <2> QED
    BY <2>1, <2>2, <2>3 DEF CommandAwaited, CountFresh
<1> QED
  BY <1>3, <1>7, LoggersUntouched

LEMMA SendKeeps ==
  ASSUME OneClient, OneClientInv, ControlInv', cut' = {},
         NEW k \in Clients, NEW cmd \in Commands, Send(k, cmd)
  PROVE  OneClientInv'
<1>1. TypeOK /\ \A d \in Conns : CommandAwaited(d) /\ CountFresh(d)
  BY DEF OneClientInv, ControlInv
<1>2. csk[k] \in Conns
  BY <1>1 DEF Send, TypeOK
<1>3. \A d \in Conns : ~Awaited(d) /\ rp[d] = "none" /\ ch[d] # "act"
  BY Quiet DEF Send
<1>4. cl'[k] = "wait" /\ UNCHANGED <<parent, csk, ch, cnt, rp, lg, heirs, faults>>
  BY <1>1 DEF Send, TypeOK
<1>5. \A d \in Conns : d = csk[k] => Awaited(d)'
  BY <1>4 DEF Awaited
<1>6. \A d \in Conns : d # csk[k] => rq'[d] = rq[d]
  BY <1>1, <1>2 DEF Send, Written, TypeOK
<1>12. Listening' <=> Listening
  BY <1>4 DEF Listening
<1>13. ASSUME NEW d \in Conns PROVE CommandAwaited(d)' /\ CountFresh(d)'
  <2>1. ch'[d] = ch[d] /\ ch[d] # "act"
    BY <1>3, <1>4
  <2>2. CASE d = csk[k]
    BY <1>5, <2>1, <2>2 DEF CommandAwaited, CountFresh
  <2>3. CASE d # csk[k]
    <3>1. rq'[d] \in Commands => ch'[d] = "queued" /\ ~Listening'
      BY <1>1, <1>3, <1>6, <1>12, <2>1, <2>3 DEF CommandAwaited
    <3> QED
      BY <2>1, <3>1 DEF CommandAwaited, CountFresh
  <2> QED
    BY <2>2, <2>3
<1> QED
  BY <1>4, <1>13, LoggersUntouched

\* The client gives up connection c, on which no command is left that a child
\* could still carry out; a CLOSE may be sent on it.
LEMMA LeaveKeeps ==
  ASSUME OneClient, OneClientInv, ControlInv', cut' = {},
         NEW k \in Clients, NEW c \in Conns, csk[k] = c,
         UNCHANGED <<parent, ch, cnt, lg>>,
         \A d \in Conns : d # c => rq'[d] = rq[d],
         \A d \in Conns : rp'[d] \in {rp[d], "none"},
         ch[c] # "act", rq'[c] \in Commands => ch[c] = "queued" /\ ~Listening
  PROVE  OneClientInv'
<1>1. TypeOK /\ \A d \in Conns : CommandAwaited(d) /\ CountFresh(d)
  BY DEF OneClientInv, ControlInv
<1>2. Listening' <=> Listening
  BY DEF Listening
<1>3. \A d \in Conns : d # c => ~Awaited(d)
  BY DEF OneClient, Awaited
<1>4. \A d \in Conns : d # c => ch[d] # "act"
  BY <1>1, <1>3 DEF CommandAwaited, OneClientInv, ControlInv
<1>5. ASSUME NEW d \in Conns PROVE CommandAwaited(d)' /\ CountFresh(d)'
  <2>1. ch'[d] = ch[d] /\ ch[d] # "act"
    BY <1>4
  <2>2. rq'[d] \in Commands => ch'[d] = "queued" /\ ~Listening'
    BY <1>1, <1>2, <1>3 DEF CommandAwaited
  <2> QED
    BY <2>1, <2>2 DEF CommandAwaited, CountFresh
<1> QED
  BY <1>5, LoggersUntouched

LEMMA NoticeLossKeeps ==
  ASSUME OneClient, OneClientInv, ControlInv', cut' = {}, NEW k \in Clients, NoticeLoss(k)
  PROVE  OneClientInv'
<1>1. csk[k] \in Conns
  BY DEF NoticeLoss, OneClientInv, ControlInv, TypeOK
<1>2. ch[csk[k]] = "none" \/ (ch[csk[k]] = "queued" /\ ~Listening)
  BY DEF NoticeLoss, Closed, OneClientInv
<1>3. UNCHANGED <<parent, ch, rq, cnt, rp, lg>>
  BY DEF NoticeLoss, connVars
<1>4. rq'[csk[k]] \in Commands => ch[csk[k]] = "queued" /\ ~Listening
  BY <1>1, <1>2, <1>3 DEF OneClientInv, ControlInv, Commands
<1> QED
  BY <1>1, <1>2, <1>3, <1>4, LeaveKeeps

\* CLOSE takes the place of what was under way.
LEMMA ExitKeeps ==
  ASSUME OneClient, OneClientInv, ControlInv', cut' = {}, NEW k \in Clients,
         csk[k] \in Conns, ExitMainThread(k), UNCHANGED <<parent, ch, cnt, lg>>,
         \A d \in Conns : rp'[d] \in {rp[d], "none"}, ch[csk[k]] # "act"
  PROVE  OneClientInv'
<1>1. TypeOK /\ (ch[csk[k]] = "none" => rq[csk[k]] = "none")
  BY DEF OneClientInv, ControlInv
<1>2. \A d \in Conns : d # csk[k] => rq'[d] = rq[d]
  BY <1>1 DEF ExitMainThread, Written, TypeOK
<1>3. rq'[csk[k]] \notin Commands
  BY <1>1 DEF ExitMainThread, Written, TypeOK, OneClientInv, Commands
<1> QED
  BY <1>2, <1>3, LeaveKeeps

LEMMA QuitKeeps ==
  ASSUME OneClient, OneClientInv, ControlInv', cut' = {}, NEW k \in Clients, Quit(k)
  PROVE  OneClientInv'
<1>1. csk[k] \in Conns
  BY DEF Quit, OneClientInv, ControlInv, TypeOK
<1>2. ch[csk[k]] # "act"
  BY <1>1, Quiet DEF Quit
<1> QED
  BY <1>1, <1>2, ExitKeeps DEF Quit

\* An answer that is read, and the end of the client when it is an error.
LEMMA ReceiveKeeps ==
  ASSUME OneClient, OneClientInv, ControlInv', cut' = {}, NEW k \in Clients, Receive(k)
  PROVE  OneClientInv'
<1>1. TypeOK /\ csk[k] \in Conns
  BY DEF Receive, OneClientInv, ControlInv, TypeOK
<1>2. UNCHANGED <<parent, ch, cnt, lg>>
  BY DEF Receive
<1>3. \A d \in Conns : rp'[d] \in {rp[d], "none"}
  BY <1>1 DEF Receive, TypeOK
<1>4. rq[csk[k]] = "none" /\ ch[csk[k]] # "act"
  BY <1>1 DEF Receive, OneClientInv, ControlInv, TypeOK, Commands
<1>5. CASE ExitMainThread(k)
  BY <1>1, <1>2, <1>3, <1>4, <1>5, ExitKeeps
<1>6. CASE UNCHANGED <<csk, cut, rq>>
  BY <1>1, <1>2, <1>3, <1>4, <1>6, LeaveKeeps DEF Commands
<1> QED
  BY <1>5, <1>6 DEF Receive

-----------------------------------------------------------------------------
(* The theorems.                                                           *)

LEMMA OneClientInit == Init => OneClientInv
<1> SUFFICES ASSUME Init PROVE OneClientInv
  OBVIOUS
<1>1. ControlInv /\ cut = {}
  BY ControlInit DEF Init
<1>2. \A c \in Conns : CommandAwaited(c) /\ CountFresh(c)
  BY DEF Init, CommandAwaited, CountFresh, Commands
<1>3. AtMostOneLogger /\ StopAnswerTrue
  BY DEF Init, AtMostOneLogger, StopAnswerTrue
<1> QED
  BY <1>1, <1>2, <1>3 DEF OneClientInv

\* Only the network cuts a link.
LEMMA NoneCut == ASSUME OneClient, cut = {}, [Next]_vars PROVE cut' = {}
<1>1. ASSUME NEW c \in Conns, Child(c) PROVE cut' = {}
  BY <1>1 DEF Child, ProcNumber, Status, Start, Stop, NoCount, Answer, ChildEnds, clientVars
<1>2. ASSUME NEW c \in Conns, Accept(c) \/ ChildDies(c) \/ ForkFails(c) \/ PopenFails(c)
      PROVE  cut' = {}
  BY <1>2 DEF Accept, ChildDies, ForkFails, PopenFails, clientVars
<1>3. ASSUME NEW l \in Loggers, Logger(l) PROVE cut' = {}
  BY <1>3 DEF Logger, Exec, LoggerEnds, clientVars
<1>4. ASSUME NEW k \in Clients,
             Connect(k) \/ Receive(k) \/ NoticeLoss(k) \/ Quit(k) \/ LoseLink(k)
      PROVE  cut' = {}
  BY <1>4 DEF Connect, Receive, NoticeLoss, Quit, ExitMainThread, Leave, LoseLink, Fault, OneClient
<1>5. ASSUME NEW k \in Clients, NEW cmd \in Commands, Send(k, cmd) PROVE cut' = {}
  BY <1>5 DEF Send
<1> QED
  BY <1>1, <1>2, <1>3, <1>4, <1>5 DEF Next, RestartServer, vars, clientVars

LEMMA OneClientNext == ASSUME OneClient, OneClientInv, [Next]_vars PROVE OneClientInv'
<1>1. ControlInv' /\ cut' = {}
  BY ControlNext, NoneCut DEF OneClientInv
<1>2. ASSUME NEW c \in Conns, Accept(c) PROVE OneClientInv'
  BY <1>1, <1>2, AcceptKeeps
<1>3. ASSUME NEW c \in Conns, Child(c) PROVE OneClientInv'
  BY <1>1, <1>3, ProcNumberKeeps, StatusKeeps, StartKeeps, StopKeeps, EndKeeps DEF Child
<1>4. ASSUME NEW c \in Conns, ChildDies(c) \/ ForkFails(c) \/ PopenFails(c) PROVE OneClientInv'
  BY <1>1, <1>4, EndKeeps, PopenFailsKeeps
<1>5. CASE RestartServer
  BY <1>1, <1>5, RestartServerKeeps
<1>6. ASSUME NEW l \in Loggers, Logger(l) PROVE OneClientInv'
  BY <1>1, <1>6, LoggerKeeps
<1>7. ASSUME NEW k \in Clients, Connect(k) \/ Receive(k) \/ NoticeLoss(k) \/ Quit(k)
      PROVE  OneClientInv'
  BY <1>1, <1>7, ConnectKeeps, ReceiveKeeps, NoticeLossKeeps, QuitKeeps
<1>8. ASSUME NEW k \in Clients, NEW cmd \in Commands, Send(k, cmd) PROVE OneClientInv'
  BY <1>1, <1>8, SendKeeps
<1>9. ASSUME NEW k \in Clients, LoseLink(k) PROVE OneClientInv'
  BY <1>9 DEF LoseLink, Fault, OneClient
<1>10. CASE UNCHANGED vars
  <2>1. UNCHANGED <<parent, cl, csk, ch, rq, cnt, rp, lg>>
    BY <1>10 DEF vars, clientVars, connVars
  <2>2. \A d \in Conns : CommandAwaited(d)' /\ CountFresh(d)'
    BY <2>1 DEF OneClientInv, CommandAwaited, CountFresh, Awaited, Listening
  <2> QED
    BY <1>1, <2>1, <2>2, LoggersUntouched
<1> QED
  BY <1>2, <1>3, <1>4, <1>5, <1>6, <1>7, <1>8, <1>9, <1>10 DEF Next

LEMMA OneClientInvariant == ASSUME OneClient PROVE Spec => []OneClientInv
<1>1. Init => OneClientInv
  BY OneClientInit
<1>2. OneClientInv /\ [Next]_vars => OneClientInv'
  BY OneClientNext
<1> QED
  BY <1>1, <1>2, PTL DEF Spec

\* START never launches a second logger (Start, server_lib.c): for any number of
\* connections, with one client, prompt execs and no lost link.
THEOREM OneLogger == ASSUME OneClient PROVE Spec => []AtMostOneLogger
<1>1. OneClientInv => AtMostOneLogger
  BY DEF OneClientInv
<1> QED
  BY <1>1, OneClientInvariant, PTL

\* When the answer to STOP is on its way no logger records any more (Stop,
\* server_lib.c), under the same conditions.
THEOREM StopIsTrue == ASSUME OneClient PROVE Spec => []StopAnswerTrue
<1>1. OneClientInv => StopAnswerTrue
  BY DEF OneClientInv
<1> QED
  BY <1>1, OneClientInvariant, PTL
=============================================================================
