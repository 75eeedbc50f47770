--------------------------- MODULE HandoverProofs ---------------------------
(***************************************************************************)
(* LidarTransfer implements Handover, under the assumptions of             *)
(* RemovalIsSafe.  Beside SafeInv this needs MadeOnce: a logger that opens *)
(* a file again would bring back what the drone has given up, or empty     *)
(* what it has finished.                                                   *)
(***************************************************************************)
EXTENDS RemovalProofs

\* OlderMade speaks of the logger and of the sessions that were started.
LEMMA OlderMadeKept ==
  ASSUME MadeOnce, UNCHANGED <<made, lsess, lcnt, lext, used>>, LoggerActive' => LoggerActive
  PROVE  OlderMade'
  BY DEF MadeOnce, OlderMade

\* WholeMade speaks of what travels: it is what travelled before, or a made file.
Carried ==
  /\ cur'.ok => cur' = cur \/ \E c \in Conns : cur' = rep[c]
  /\ \A c \in Conns : rep'[c].ok => rep'[c] = rep[c] \/ ItemOf(rep'[c]) \in made

LEMMA WholeMadeKept ==
  ASSUME MadeOnce, made \subseteq made', Carried
  PROVE  WholeMade'
  BY DEF MadeOnce, WholeMade, Carried, ItemOf

\* An answer that does not claim a whole file.
LEMMA AnswerCarried ==
  ASSUME TypeInv, NEW c \in Conns, NEW r, Answer(c, r), r.ok => ItemOf(r) \in made, cur' = cur
  PROVE  Carried
<1>1. rep \in [Conns -> Replies]
  BY DEF TypeInv, TypeOK, WireTypeOK
<1> QED
  BY <1>1 DEF Answer, Carried

\* A START of a later second opens a session of its own.
LEMMA StartsNew ==
  ASSUME MonotoneClock, TypeInv, NEW s \in Sessions, KeyStart(s)
  PROVE  s \notin used
  BY SizeFacts DEF KeyStart, TypeInv, TypeOK

\* The file that the logger opens has not been made: nothing is emptied.
LEMMA OpensNew ==
  ASSUME TypeInv, MadeOnce, OpenFrame \/ OpenExtra
  PROVE  made' = made
<1>1. LoggerTypeOK /\ LoggerActive
  BY DEF TypeInv, TypeOK, OpenFrame, OpenExtra, LoggerActive
<1>2. CASE OpenFrame
  <2>1. lcnt \in Frames /\ made' = made \ {Pcd(lsess, lcnt)}
    BY <1>1, <1>2, SizeFacts DEF OpenFrame, Frames, LoggerTypeOK
  <2>2. Pcd(lsess, lcnt) \notin made
    BY <1>1, <2>1, SizeFacts DEF MadeOnce, OlderMade, Frames
  <2> QED
    BY <2>1, <2>2
<1>3. CASE OpenExtra
  <2>1. lext \in Extras /\ made' = made \ {Ext(lsess, lext)}
    BY <1>1, <1>3, SizeFacts DEF OpenExtra, Extras, LoggerTypeOK
  <2>2. Ext(lsess, lext) \notin made
    BY <1>1, <2>1, SizeFacts DEF MadeOnce, OlderMade, Extras
  <2> QED
    BY <2>1, <2>2
<1> QED
  BY <1>2, <1>3

\* A step of the logger keeps MadeOnce, and is a Produce or a stutter.
LEMMA LoggerHandsOver ==
  ASSUME TypeInv, SafeInv, MadeOnce, Logger
  PROVE  MadeOnce' /\ [H!Next]_<<made, made \cap files, delivered>>
<1>1. /\ LoggerSafe /\ LoggerForm /\ LoggerTypeOK
      /\ used' = used /\ delivered' = delivered /\ used \subseteq Sessions
  BY DEF SafeInv, TypeInv, TypeOK, Logger, diskVars
<1>c. Carried
  BY DEF Logger, wireVars, threadVars, Carried
<1>2. lcnt \in Nat /\ lext \in Nat /\ (LoggerActive => lsess \in Sessions /\ lsess \in used)
  BY <1>1, SizeFacts DEF LoggerTypeOK, LoggerForm, LoggerSafe
<1>3. CASE LoggerDone \/ CopyFails \/ InstallHandlers \/ LeaveLoop \/ MakeSessionDir \/ MakeTofDir
  <2>1. UNCHANGED <<files, made, lsess, lcnt, lext>> /\ LoggerActive
    BY <1>3 DEF LoggerDone, CopyFails, InstallHandlers, LeaveLoop, MakeSessionDir, MakeTofDir, LoggerActive,
       storeVars
  <2>2. OlderMade' /\ WholeMade'
    BY <1>1, <1>c, <2>1, OlderMadeKept, WholeMadeKept
  <2> QED
    BY <1>1, <2>1, <2>2 DEF MadeOnce
<1>4. CASE OpenFrame \/ OpenExtra
  <2> DEFINE x == IF lpc = "loop" THEN Pcd(lsess, lcnt) ELSE Ext(lsess, lext)
  <2>1. UNCHANGED <<lsess, lcnt, lext>> /\ LoggerActive /\ files' = files \cup {x} /\ made' = made \ {x}
    BY <1>4 DEF OpenFrame, OpenExtra, LoggerActive
  <2> HIDE DEF x
  <2>2. made' = made
    BY <1>4, OpensNew
  <2>3. x \notin made
    BY <2>1, <2>2
  <2>4. OlderMade' /\ WholeMade'
    BY <1>1, <1>c, <2>1, <2>3, OlderMadeKept, WholeMadeKept
  <2> QED
    BY <1>1, <2>1, <2>2, <2>3, <2>4 DEF MadeOnce
<1>5. CASE CloseFrame \/ CloseExtra
  <2> DEFINE x == IF lpc = "copy" THEN Pcd(lsess, lcnt) ELSE Ext(lsess, lext)
  <2>1. /\ files' = files /\ lsess' = lsess /\ LoggerActive /\ made' = made \cup {x}
        /\ SessionOf(x) = lsess
    BY <1>5, ItemFacts DEF CloseFrame, CloseExtra, LoggerActive, storeVars
  <2>2. x \in files /\ x \in Items /\ x \notin made
    <3>1. CASE CloseFrame
      <4>1. lcnt \in Frames /\ x = Pcd(lsess, lcnt) /\ Newest = lcnt /\ lcnt >= 0
        BY <1>1, <1>2, <3>1, SizeFacts DEF CloseFrame, LoggerForm, Frames, Newest
      <4> QED
        BY <1>1, <1>2, <2>1, <4>1 DEF LoggerSafe, MadeOnce, OlderMade, Items, Pcd
    <3>2. CASE CloseExtra
      <4>1. lext \in Extras /\ x = Ext(lsess, lext) /\ lpc = "xcopy"
        BY <1>1, <1>2, <3>2, SizeFacts DEF CloseExtra, LoggerForm, LoggerTypeOK, Extras
      <4> QED
        BY <1>1, <1>2, <2>1, <4>1 DEF LoggerSafe, MadeOnce, OlderMade, Items, Ext
    <3> QED
      BY <1>5, <3>1, <3>2
  <2>3. OlderMade'
    <3>1. (\A item \in made : SessionOf(item) \in used)'
      BY <1>1, <1>2, <2>1 DEF MadeOnce, OlderMade
    <3>2. CASE CloseFrame
      <4>1. x = Pcd(lsess, lcnt) /\ lcnt' = lcnt + 1 /\ lext' = lext
        BY <3>2 DEF CloseFrame
      <4> QED
        BY <1>2, <2>1, <3>1, <4>1, ItemFacts, SizeFacts DEF MadeOnce, OlderMade
    <3>3. CASE CloseExtra
      <4>1. x = Ext(lsess, lext) /\ lext' = lext + 1 /\ lcnt' = lcnt
        BY <3>3 DEF CloseExtra
      <4> QED
        BY <1>2, <2>1, <3>1, <4>1, ItemFacts, SizeFacts DEF MadeOnce, OlderMade
    <3> QED
      BY <1>5, <3>2, <3>3
  <2> HIDE DEF x
  <2>4. H!Produce(x)
    BY <1>1, <2>1, <2>2 DEF H!Produce
  <2>5. WholeMade'
    BY <1>c, <2>1, WholeMadeKept
  <2> QED
    BY <2>2, <2>3, <2>4, <2>5 DEF H!Next, MadeOnce
<1> QED
  BY <1>3, <1>4, <1>5 DEF Logger, LoggerStep

\* What a child takes off the drone the client has: RemovedOnlyAfterWritten
\* holds after the step.
LEMMA ChildHandsOver ==
  ASSUME TypeInv, SafeInv', MadeOnce, NEW c \in Conns, Child(c)
  PROVE  MadeOnce' /\ [H!Next]_<<made, made \cap files, delivered>>
<1>1. UNCHANGED <<made, lpc, lsess, lcnt, lext, used, delivered>>
  BY DEF Child, loggerVars, diskVars
<1>2. files' \subseteq files
  BY DEF Child, ChildStep, ScanDirs, FindTof, ScanFiles, CheckLogger, SendNextFile, SendFile, CompressAndSend,
     RemoveFile, UnlinkTree, RemoveDir, ChildEnds, FilesOf, storeVars
<1>3. RemovedOnlyAfterWritten'
  BY DEF SafeInv
<1>4. H!Discard
  BY <1>1, <1>2, <1>3 DEF H!Discard, RemovedOnlyAfterWritten
<1>5. Carried
  <2>1. cur' = cur /\ rep \in [Conns -> Replies]
    BY DEF Child, threadVars, TypeInv, TypeOK, WireTypeOK
  <2>2. ASSUME NEW op, NEW s, NEW k, Answer(c, Reply(op, s, k, FALSE)) PROVE Carried
    BY <2>1, <2>2, AnswerCarried DEF Reply
  <2>3. AnswerError(c) => Carried
    BY <2>2 DEF AnswerError
  <2>4. rep' = rep => Carried
    BY <2>1 DEF Carried
  <2>5. CASE ScanDirs(c) \/ ScanFiles(c) \/ ChildEnds(c)
    BY <2>4, <2>5 DEF ScanDirs, ScanFiles, ChildEnds, wireVars
  <2>6. CASE FindTof(c) \/ CheckLogger(c)
    BY <2>2, <2>3, <2>4, <2>6 DEF FindTof, CheckLogger, wireVars
  <2>7. CASE RemoveFile(c) \/ UnlinkTree(c) \/ RemoveDir(c)
    BY <2>2, <2>3, <2>4, <2>7 DEF RemoveFile, UnlinkTree, RemoveDir, wireVars
  <2>8. CASE SendNextFile(c)
    <3> DEFINE r == Reply("SENDING", nd[c].first, nf[c].first, Pcd(nd[c].first, nf[c].first) \in made)
    <3>1. Answer(c, r) \/ AnswerError(c)
      BY <2>8 DEF SendNextFile, CompressAndSend
    <3>2. r.ok => ItemOf(r) \in made
      BY DEF Reply, ItemOf
    <3> QED
      BY <2>1, <2>3, <3>1, <3>2, AnswerCarried
  <2>9. CASE SendFile(c)
    <3> DEFINE r == Reply("REQUESTED", req[c].s, req[c].k, Ext(req[c].s, req[c].k) \in made)
    <3>1. Answer(c, r) \/ AnswerError(c)
      BY <2>9 DEF SendFile, CompressAndSend
    <3>2. r.ok => ItemOf(r) \in made
      BY DEF Reply, ItemOf
    <3> QED
      BY <2>1, <2>3, <3>1, <3>2, AnswerCarried
  <2> QED
    BY <2>5, <2>6, <2>7, <2>8, <2>9 DEF Child, ChildStep
<1>6. OlderMade' /\ WholeMade'
  BY <1>1, <1>5, OlderMadeKept, WholeMadeKept DEF LoggerActive
<1> QED
  BY <1>4, <1>6 DEF H!Next, MadeOnce

\* A step that leaves the files of both sides and the history alone.
LEMMA StutterHandsOver ==
  ASSUME MadeOnce, UNCHANGED <<files, made, delivered, lsess, lcnt, lext, used>>, LoggerActive' => LoggerActive,
         Carried
  PROVE  MadeOnce' /\ [H!Next]_<<made, made \cap files, delivered>>
<1>1. OlderMade' /\ WholeMade'
  BY OlderMadeKept, WholeMadeKept
<1> QED
  BY <1>1 DEF MadeOnce

\* A step of the thread takes what the connection carries, or drops it.
LEMMA ThreadCarries ==
  ASSUME TypeInv, Thread
  PROVE  Carried
<1> DEFINE Quiet == rep' = rep \/ Consume
           Same == cur' = cur \/ cur' = NoRep
<1>1. rep \in [Conns -> Replies] /\ NoRep.ok = FALSE
  BY DEF TypeInv, TypeOK, WireTypeOK, NoRep, Reply
<1>2. Quiet => \A c \in Conns : rep'[c] = rep[c] \/ rep'[c] = NoRep
  BY <1>1 DEF Consume
<1>3. CASE OpenConnection \/ TcpSendTT \/ CloseLocal
  BY <1>1, <1>3 DEF OpenConnection, TcpSendTT, CloseLocal, AfterWrite, wireVars, Carried
<1>4. CASE ConnectionLost \/ ReceiveError \/ ReceiveNoTr \/ ReceiveEmpty
  BY <1>1, <1>2, <1>4 DEF ConnectionLost, ReceiveError, ReceiveNoTr, ReceiveEmpty, Leave, wireVars, Carried
<1>5. CASE ReceiveWait \/ ReceiveRemoved \/ ReceiveDirRemoved
  BY <1>1, <1>2, <1>5 DEF ReceiveWait, ReceiveRemoved, ReceiveDirRemoved, Again, Leave, Carried
<1>6. CASE OpenLocal
  BY <1>1, <1>2, <1>6 DEF OpenLocal, Leave, Carried
<1>7. CASE ReceiveSending \/ ReceiveRequested
  <2>1. tconn \in Conns
    BY <1>7 DEF ReceiveSending, ReceiveRequested, Received, LinkUp, TypeInv, TypeOK, ThreadTypeOK
  <2> QED
    BY <1>1, <1>7, <2>1 DEF ReceiveSending, ReceiveRequested, wireVars, Carried
<1> QED
  BY <1>3, <1>4, <1>5, <1>6, <1>7 DEF Thread, ThreadStep

\* The thread delivers in CloseLocal only, and only what is on the drone or has
\* been delivered before.
LEMMA ThreadHandsOver ==
  ASSUME TypeInv, SafeInv, MadeOnce, Thread
  PROVE  MadeOnce' /\ [H!Next]_<<made, made \cap files, delivered>>
<1>1. UNCHANGED <<files, made, lpc, lsess, lcnt, lext, used>> /\ Carried
  BY ThreadCarries DEF Thread, storeVars, loggerVars
<1>2. CASE CloseLocal
  <2>1. CASE cur.ok
    <3>1. ItemOf(cur) \in made /\ ItemOf(cur) \in Items /\ delivered' = delivered \cup {ItemOf(cur)}
      BY <1>2, <2>1 DEF CloseLocal, TypeInv, ThreadForm, MadeOnce, WholeMade
    <3>2. ItemOf(cur) \in files \/ ItemOf(cur) \in delivered
      BY <3>1 DEF SafeInv, RemovedOnlyAfterWritten
    <3>3. CASE ItemOf(cur) \in delivered
      BY <1>1, <3>1, <3>3, StutterHandsOver DEF LoggerActive
    <3>4. CASE ItemOf(cur) \notin delivered
      <4>1. H!Deliver(ItemOf(cur))
        BY <1>1, <3>1, <3>2, <3>4 DEF H!Deliver
      <4> QED
        BY <1>1, <3>1, <4>1, OlderMadeKept, WholeMadeKept DEF H!Next, LoggerActive, MadeOnce
    <3> QED
      BY <3>3, <3>4
  <2>2. CASE ~cur.ok
    BY <1>1, <1>2, <2>2, StutterHandsOver DEF CloseLocal, LoggerActive
  <2> QED
    BY <2>1, <2>2
<1>3. CASE ~CloseLocal
  <2>1. delivered' = delivered
    BY <1>3 DEF Thread, ThreadStep, OpenConnection, TcpSendTT, ConnectionLost, ReceiveError, ReceiveWait,
       ReceiveNoTr, ReceiveSending, ReceiveEmpty, ReceiveRequested, OpenLocal, ReceiveRemoved, ReceiveDirRemoved,
       diskVars
  <2> QED
    BY <1>1, <2>1, StutterHandsOver DEF LoggerActive
<1> QED
  BY <1>2, <1>3

\* START opens a session that had none; the other keys and the faults touch no
\* file.
LEMMA RestHandsOver ==
  ASSUME MonotoneClock, ~FailFlush, TypeInv, MadeOnce, User \/ Faulty
  PROVE  MadeOnce' /\ [H!Next]_<<made, made \cap files, delivered>>
<1>c. rep \in [Conns -> Replies] /\ NoRep.ok = FALSE
  BY DEF TypeInv, TypeOK, WireTypeOK, NoRep, Reply
<1>1. ASSUME NEW s \in Sessions, KeyStart(s) PROVE MadeOnce' /\ UNCHANGED <<made, files, delivered>>
  <2>1. /\ UNCHANGED <<made, files, delivered>> /\ lsess' = s /\ Carried
        /\ used' = used \cup {s}
    BY <1>1 DEF KeyStart, Launch, storeVars, diskVars, wireVars, threadVars, Carried
  <2>2. s \notin used
    BY <1>1, StartsNew
  <2>3. OlderMade'
    BY <2>1, <2>2, ItemFacts DEF MadeOnce, OlderMade
  <2> QED
    BY <2>1, <2>3, WholeMadeKept DEF MadeOnce
<1>2. CASE User /\ ~\E s \in Sessions : KeyStart(s)
  <2>1. UNCHANGED <<files, made, delivered, lsess, lcnt, lext, used>> /\ (LoggerActive' => LoggerActive)
    BY <1>2 DEF User, KeyStop, Terminate, KeyTransmit, KeyStopTransmission, ResumeTransmission, RestartClient,
       CreateTransmissionThread, storeVars, loggerVars, diskVars, LoggerActive
  <2>2. cur' = cur /\ rep' = rep
    BY <1>2 DEF User, KeyStop, KeyTransmit, KeyStopTransmission, ResumeTransmission, RestartClient,
       CreateTransmissionThread, wireVars, threadVars
  <2> QED
    BY <2>1, <2>2, StutterHandsOver DEF Carried
<1>3. CASE Faulty
  <2>1. UNCHANGED <<files, made, delivered, lsess, lcnt, lext, used>> /\ (LoggerActive' => LoggerActive)
    BY <1>3 DEF Faulty, BreakLink, CrashClient, RefuseConnection, ConnectFails, FailWrite, WriteFails,
       KillLogger, LoggerDies, FailCount, NoCount, storeVars, loggerVars, diskVars, LoggerActive
  <2>2. ASSUME NEW c \in Conns, BreakLink(c) PROVE Carried
    BY <1>c, <2>2 DEF BreakLink, Cut, threadVars, Carried
  <2>3. ASSUME NEW c \in Conns, FailCount(c) PROVE Carried
    <3>1. AnswerError(c) /\ cur' = cur
      BY <2>3 DEF FailCount, NoCount, threadVars
    <3> QED
      BY <3>1, AnswerCarried DEF AnswerError, Reply
  <2>4. ASSUME CrashClient PROVE Carried
    BY <1>c, <2>4 DEF CrashClient, Cut, wireVars, Carried
  <2>5. ASSUME RefuseConnection \/ FailWrite PROVE Carried
    BY <1>c, <2>5 DEF RefuseConnection, ConnectFails, FailWrite, WriteFails, Leave, wireVars, Carried
  <2>6. ASSUME KillLogger PROVE Carried
    BY <2>6 DEF KillLogger, wireVars, threadVars, Carried
  <2>7. Carried
    BY <1>3, <2>2, <2>3, <2>4, <2>5, <2>6 DEF Faulty
  <2> QED
    BY <2>1, <2>7, StutterHandsOver
<1> QED
  BY <1>1, <1>2, <1>3

\* Every step.
LEMMA NextHandsOver ==
  ASSUME MonotoneClock, "flush" \notin FaultKinds, TypeInv, SafeInv, SafeInv', MadeOnce, [Next]_vars
  PROVE  MadeOnce' /\ [H!Next]_<<made, made \cap files, delivered>>
<1>1. CASE Next
  <2>1. ~FailFlush
    BY DEF FailFlush, Fault
  <2> QED
    BY <1>1, <2>1, LoggerHandsOver, ChildHandsOver, ThreadHandsOver, RestHandsOver DEF Next
<1>2. CASE UNCHANGED vars
  <2>1. UNCHANGED <<files, made, delivered, lpc, lsess, lcnt, lext, used>> /\ Carried
    BY <1>2 DEF vars, storeVars, loggerVars, diskVars, wireVars, threadVars, Carried
  <2> QED
    BY <2>1, StutterHandsOver DEF LoggerActive
<1> QED
  BY <1>1, <1>2

\* No file is made twice.
LEMMA MadeOnceInvariant == MonotoneClock /\ "flush" \notin FaultKinds => (Spec => []MadeOnce)
<1> SUFFICES ASSUME MonotoneClock, "flush" \notin FaultKinds PROVE Spec => []MadeOnce
  OBVIOUS
<1>1. Init => MadeOnce
  BY DEF Init, LoggerInit, WireInit, ThreadInit, NoRep, Reply, MadeOnce, OlderMade, WholeMade, LoggerActive
<1>2. TypeInv /\ SafeInv /\ SafeInv' /\ MadeOnce /\ [Next]_vars => MadeOnce'
  BY NextHandsOver
<1> QED
  BY <1>1, <1>2, SafeInvariant, TypeInvariant, PTL DEF Spec

\* The protocol between client.c and server.c implements Handover for any number
\* of sessions, frames, connections and faults: a finished file stays on the
\* drone until the client has it.  As for RemovalIsSafe every START is of a later
\* second than those before and fclose does not fail.
THEOREM ImplementsHandover ==
  MonotoneClock /\ "flush" \notin FaultKinds => (Spec => HandsOver)
<1> SUFFICES ASSUME MonotoneClock, "flush" \notin FaultKinds PROVE Spec => HandsOver
  OBVIOUS
<1>1. Init => H!Init
  BY DEF Init, H!Init, StoreInit, LoggerInit, DiskInit
<1>2. TypeInv /\ SafeInv /\ SafeInv' /\ MadeOnce /\ [Next]_vars
        => [H!Next]_<<made, made \cap files, delivered>>
  BY NextHandsOver
<1> QED
  BY <1>1, <1>2, SafeInvariant, TypeInvariant, MadeOnceInvariant, PTL DEF Spec, HandsOver, H!Spec
=============================================================================
