------------------------ MODULE LidarTransferProofs -------------------------
(***************************************************************************)
(* Type correctness of LidarTransfer, whatever the clock does: TypeInv is  *)
(* inductive.                                                              *)
(***************************************************************************)
EXTENDS LidarTransferInv, FiniteSetTheorems, WellFoundedInduction, TLAPS

(* The directory scans of DroneStore.                                      *)

\* A nonempty set of naturals has a least element, and Min finds it.
LEMMA MinIsLeast ==
  ASSUME NEW S, S \subseteq Nat, S # {}
  PROVE  Min(S) \in S /\ \A y \in S : Min(S) <= y
<1>1. \E x \in S : \A y \in S : ~(<<y, x>> \in OpToRel(<, Nat))
  BY NatLessThanWellFounded, WFMin
<1>2. \A x, y \in Nat : y < x => <<y, x>> \in OpToRel(<, Nat)
  BY Zenon DEF OpToRel
<1>3. \E x \in S : \A y \in S : ~(y < x)
  BY <1>1, <1>2
<1>4. \E x \in S : \A y \in S : x <= y
  BY <1>3
<1> QED
  BY <1>4 DEF Min

\* What a readdir pass over a bounded set of entries leaves behind: count tells
\* whether there is an entry, first is the least one, and with a count of two
\* there is a greater one.
LEMMA ScanFacts ==
  ASSUME NEW b \in Nat, NEW S, S \subseteq 0..b
  PROVE  /\ Scan(S) \in ScanResults
         /\ Scan(S).count = 0 <=> S = {}
         /\ S # {} => Scan(S).first \in S /\ \A y \in S : Scan(S).first <= y
         /\ Scan(S).count >= 2 => \E y \in S : Scan(S).first < y
<1>1. S \subseteq Nat
  OBVIOUS
<1>2. IsFiniteSet(S)
  <2>1. \A s \in S : s <= b
    OBVIOUS
  <2> QED
    BY <1>1, <2>1, FS_BoundedSetOfNaturals
<1>3. Cardinality(S) \in Nat /\ (Cardinality(S) = 0 <=> S = {})
  BY <1>2, FS_CardinalityType, FS_EmptySet
<1>4. S # {} => Min(S) \in S /\ \A y \in S : Min(S) <= y
  BY <1>1, MinIsLeast
<1>5. Scan(S).count = Cardinality(S)
  BY DEF Scan
<1>6. Scan(S).first = IF S = {} THEN 0 ELSE Min(S)
  BY DEF Scan
<1>7. Scan(S) \in ScanResults
  BY <1>1, <1>3, <1>4 DEF Scan, ScanResults
<1>8. ASSUME Cardinality(S) >= 2
      PROVE  S # {} /\ \E y \in S : Min(S) < y
  <2>1. S # {}
    BY <1>3, <1>8
  <2>2. S # {Min(S)}
    BY <1>2, <1>8, FS_Singleton
  <2>3. PICK y \in S : y # Min(S)
    BY <1>4, <2>1, <2>2
  <2>4. Min(S) \in Nat /\ y \in Nat /\ Min(S) <= y
    BY <1>1, <1>4, <2>1
  <2>5. Min(S) < y
    BY <2>3, <2>4
  <2> QED
    BY <2>1, <2>5
<1> QED
  BY <1>3, <1>4, <1>5, <1>6, <1>7, <1>8

\* The sizes are naturals, and the buffer that holds no session is no session.
LEMMA SizeFacts ==
  /\ NumSessions \in Nat /\ NumFrames \in Nat /\ NumExtras \in Nat
  /\ NumExtras >= 1
  /\ Sessions \subseteq 0..NumSessions /\ Frames \subseteq 0..NumFrames
  /\ Sessions \subseteq Nat /\ Frames \subseteq Nat /\ Extras \subseteq Nat
  /\ NoSession \notin Sessions
  /\ NoSession \in Nat
  BY SizesAssumption DEF Sessions, Frames, Extras, NoSession

-----------------------------------------------------------------------------
USE DEF NoSession

-----------------------------------------------------------------------------
(* Type correctness.                                                       *)

\* The initial state satisfies TypeInv.
LEMMA TypeInit == Init => TypeInv
<1> SUFFICES ASSUME Init PROVE TypeInv
  OBVIOUS
<1> USE SizeFacts, ConnAssumption, FaultAssumption
    DEF Init, StoreInit, LoggerInit, WireInit, ChildInit, ThreadInit, DiskInit
<1>1. StoreTypeOK /\ DiskTypeOK /\ used \subseteq Sessions /\ faults \in 0..MaxFaults
  BY DEF StoreTypeOK, DiskTypeOK
<1>2. lterm \in BOOLEAN /\ run \in BOOLEAN
  BY Zenon
<1>3. LoggerTypeOK
  BY <1>2 DEF LoggerTypeOK, LoggerPCs
<1>4. NoReq \in Requests /\ NoRep \in Replies /\ NoScan \in ScanResults
  BY DEF NoReq, Request, Requests, RequestOps, NoRep, Reply, Replies, ReplyOps, NoScan,
         ScanResults
<1>5. WireTypeOK
  BY <1>4 DEF WireTypeOK
<1>6. ChildTypeOK
  BY <1>4 DEF ChildTypeOK, ChildPCs
<1>7. ThreadTypeOK
  BY <1>2, <1>4 DEF ThreadTypeOK, ThreadPCs
<1>8. LoggerForm /\ ThreadForm /\ Dialogue
  BY DEF LoggerForm, LoggerActive, ThreadForm, Fetching, Dialogue, LinkUp, NoRep, Reply
<1>9. \A c \in Conns : Talk(c) /\ ChildForm(c)
  BY DEF Talk, ChildForm, NoRep, Reply
<1> QED
  BY <1>1, <1>3, <1>5, <1>6, <1>7, <1>8, <1>9 DEF TypeInv, TypeOK

\* A step on the drone that leaves the connections and the client alone keeps
\* TypeInv when it keeps the types of the store and of the logger.
LEMMA DroneStepType ==
  ASSUME TypeInv,
         UNCHANGED <<wireVars, childVars, threadVars, diskVars>>,
         StoreTypeOK', LoggerTypeOK', LoggerForm',
         used' \subseteq Sessions, faults' \in 0..MaxFaults
  PROVE  TypeInv'
<1> USE DEF wireVars, childVars, threadVars, diskVars
<1>1. WireTypeOK' /\ ChildTypeOK' /\ ThreadTypeOK' /\ DiskTypeOK'
  BY DEF TypeInv, TypeOK, WireTypeOK, ChildTypeOK, ThreadTypeOK, DiskTypeOK
<1>2. ThreadForm' /\ Dialogue'
  BY DEF TypeInv, ThreadForm, Fetching, Dialogue, LinkUp
<1>3. \A c \in Conns : Talk(c)' /\ ChildForm(c)'
  BY DEF TypeInv, Talk, ChildForm
<1> QED
  BY <1>1, <1>2, <1>3 DEF TypeInv, TypeOK

\* Every step of the logger keeps TypeInv.
LEMMA LoggerType == TypeInv /\ Logger => TypeInv'
<1> SUFFICES ASSUME TypeInv, Logger PROVE TypeInv'
  OBVIOUS
<1> USE SizeFacts
<1>1. StoreTypeOK /\ LoggerTypeOK /\ LoggerForm /\ used \subseteq Sessions /\ faults \in 0..MaxFaults
  BY DEF TypeInv, TypeOK
<1>2. LoggerActive => lsess \in Sessions
  BY <1>1 DEF LoggerForm
<1>3. /\ UNCHANGED <<wireVars, childVars, threadVars, diskVars>>
      /\ used' = used /\ faults' = faults
  BY DEF Logger
<1>4. StoreTypeOK' /\ LoggerTypeOK' /\ LoggerForm'
  <2> USE <1>1, <1>2 DEF StoreTypeOK, LoggerTypeOK, LoggerPCs, LoggerForm, LoggerActive, storeVars
  <2>1. CASE InstallHandlers
    BY <2>1 DEF InstallHandlers
  <2>2. CASE MakeSessionDir
    BY <2>2 DEF MakeSessionDir
  <2>3. CASE MakeTofDir
    BY <2>3 DEF MakeTofDir
  <2>4. CASE OpenFrame
    <3>1. Pcd(lsess, lcnt) \in Items
      BY <2>4 DEF OpenFrame, Pcd, Items, Frames
    <3> QED
      BY <2>4, <3>1 DEF OpenFrame
  <2>5. CASE CloseFrame
    <3>1. Pcd(lsess, lcnt) \in Items
      BY <2>5 DEF CloseFrame, Pcd, Items, Frames
    <3> QED
      BY <2>5, <3>1 DEF CloseFrame
  <2>6. CASE LeaveLoop
    BY <2>6 DEF LeaveLoop
  <2>7. CASE OpenExtra
    <3>1. Ext(lsess, lext) \in Items
      BY <2>7 DEF OpenExtra, Ext, Items, Extras
    <3> QED
      BY <2>7, <3>1 DEF OpenExtra
  <2>8. CASE CloseExtra
    <3>1. Ext(lsess, lext) \in Items
      BY <2>8 DEF CloseExtra, Ext, Items, Extras
    <3> QED
      BY <2>8, <3>1 DEF CloseExtra
  <2>9. CASE LoggerDone
    BY <2>9 DEF LoggerDone
  <2>10. CASE CopyFails
    BY <2>10 DEF CopyFails
  <2> QED
    BY <2>1, <2>2, <2>3, <2>4, <2>5, <2>6, <2>7, <2>8, <2>9, <2>10 DEF Logger, LoggerStep
<1> QED
  BY <1>1, <1>3, <1>4, DroneStepType

\* START keeps TypeInv: the new session is one of Sessions.
LEMMA KeyStartType == ASSUME NEW s \in Sessions, TypeInv, KeyStart(s) PROVE TypeInv'
<1> USE SizeFacts
<1>1. StoreTypeOK /\ LoggerTypeOK /\ used \subseteq Sessions /\ faults \in 0..MaxFaults
  BY DEF TypeInv, TypeOK
<1>2. /\ UNCHANGED <<wireVars, childVars, threadVars, diskVars>>
      /\ used' \subseteq Sessions /\ faults' = faults
  BY <1>1 DEF KeyStart
<1>3. lterm' \in BOOLEAN
  BY Zenon DEF KeyStart, Launch
<1>4. StoreTypeOK' /\ LoggerTypeOK' /\ LoggerForm'
  BY <1>1, <1>3 DEF KeyStart, Launch, StoreTypeOK, LoggerTypeOK, LoggerPCs, LoggerForm,
                    LoggerActive, storeVars
<1> QED
  BY <1>1, <1>2, <1>4, DroneStepType

\* STOP keeps TypeInv.
LEMMA KeyStopType == TypeInv /\ KeyStop => TypeInv'
<1> SUFFICES ASSUME TypeInv, KeyStop PROVE TypeInv'
  OBVIOUS
<1>1. StoreTypeOK /\ LoggerTypeOK /\ LoggerForm /\ used \subseteq Sessions /\ faults \in 0..MaxFaults
  BY DEF TypeInv, TypeOK
<1>2. UNCHANGED <<wireVars, childVars, threadVars, diskVars, used, faults>>
  BY DEF KeyStop
<1>3. lterm' \in BOOLEAN
  BY <1>1, Zenon DEF KeyStop, Terminate, LoggerTypeOK
<1>4. StoreTypeOK' /\ LoggerTypeOK' /\ LoggerForm'
  BY <1>1, <1>3 DEF KeyStop, Terminate, StoreTypeOK, LoggerTypeOK, LoggerPCs, LoggerForm,
                    LoggerActive, storeVars
<1> QED
  BY <1>1, <1>2, <1>4, DroneStepType

\* The death of the logger keeps TypeInv.
LEMMA KillLoggerType == TypeInv /\ KillLogger => TypeInv'
<1> SUFFICES ASSUME TypeInv, KillLogger PROVE TypeInv'
  OBVIOUS
<1>1. StoreTypeOK /\ LoggerTypeOK /\ LoggerForm /\ used \subseteq Sessions /\ faults \in 0..MaxFaults
  BY DEF TypeInv, TypeOK
<1>2. UNCHANGED <<wireVars, childVars, threadVars, diskVars, used>> /\ faults' \in 0..MaxFaults
  BY <1>1, FaultAssumption DEF KillLogger, Fault
<1>3. StoreTypeOK' /\ LoggerTypeOK' /\ LoggerForm'
  BY <1>1 DEF KillLogger, LoggerDies, StoreTypeOK, LoggerTypeOK, LoggerPCs, LoggerForm,
              LoggerActive, storeVars
<1> QED
  BY <1>1, <1>2, <1>3, DroneStepType

\* The reply r is one that the thread expects where it is.
Fits(r) ==
  /\ r.op # "none"
  /\ r.op = "ERROR" => tpc \in Waits \ {"body"}
  /\ r.op \in {"NO_TR", "WAIT", "EMPTY", "SENDING"} => tpc = "wait_next"
  /\ r.op = "REQUESTED" => tpc = "wait_extra"
  /\ r.op = "REMOVED" => tpc \in {"wait_remove", "wait_rmdir"}

\* While a child works on a request, the thread waits for its reply.
LEMMA ThreadWaits ==
  ASSUME TypeInv, NEW c \in Conns, link[c] = "up", req[c].op \notin {"none", "CLOSE"}
  PROVE  /\ c = tconn /\ LinkUp
         /\ rep[c].op = "none"
         /\ req[c].op = "SEND_NEXT" => tpc = "wait_next"
         /\ req[c].op = "REMOVE_FILE" => tpc = "wait_remove"
         /\ req[c].op = "SEND_FILE" => tpc = "wait_extra"
         /\ req[c].op = "REMOVE_DIR" => tpc = "wait_rmdir"
<1>1. Talk(c) /\ Dialogue
  BY DEF TypeInv
<1>2. NoReq.op = "none"
  BY DEF NoReq, Request
<1>3. c = tconn /\ rep[c].op = "none"
  BY <1>1, <1>2 DEF Talk
<1>4. LinkUp
  BY <1>3, ConnAssumption DEF LinkUp
<1> QED
  BY <1>1, <1>3, <1>4 DEF Dialogue

\* An answer that fits keeps the discipline.
LEMMA AnswerType ==
  ASSUME TypeInv, NEW c \in Conns, NEW r \in Replies, Answer(c, r),
         link[c] # "free", req[c].op \notin {"none", "CLOSE"},
         link[c] = "up" => Fits(r),
         r.op \in {"SENDING", "EMPTY"} => r.s \in Sessions,
         r.ok => ItemOf(r) \in Items,
         UNCHANGED <<loggerVars, threadVars>>
  PROVE  WireTypeOK' /\ ChildTypeOK' /\ Dialogue' /\ \A d \in Conns : Talk(d)' /\ ChildForm(d)'
<1> USE DEF loggerVars, threadVars
<1>1. NoReq \in Requests /\ NoReq.op = "none" /\ NoScan \in ScanResults
  BY DEF NoReq, Request, Requests, RequestOps, NoScan, ScanResults
<1>2. WireTypeOK /\ ChildTypeOK /\ Dialogue /\ \A d \in Conns : Talk(d) /\ ChildForm(d)
  BY DEF TypeInv, TypeOK
<1>3. link[c] = "up" => c = tconn
  BY ThreadWaits
<1>4. WireTypeOK' /\ ChildTypeOK'
  BY <1>1, <1>2 DEF Answer, WireTypeOK, ChildTypeOK, ChildPCs
<1>5. Dialogue'
  <2>1. CASE link[c] = "up"
    <3>1. rep'[tconn] = r /\ req'[tconn] = NoReq /\ tpc' = tpc /\ tconn' = tconn
      BY <1>2, <1>3, <2>1 DEF Answer, WireTypeOK
    <3> QED
      BY <1>1, <2>1, <3>1 DEF Dialogue, Fits, Waits, Replies, ReplyOps
  <2>2. CASE link[c] # "up"
    <3>1. LinkUp' => LinkUp /\ rep'[tconn] = rep[tconn] /\ req'[tconn] = req[tconn]
      BY <1>2, <2>2 DEF Answer, WireTypeOK, LinkUp
    <3> QED
      BY <1>2, <3>1 DEF Dialogue
  <2> QED
    BY <2>1, <2>2
<1>6. ASSUME NEW d \in Conns
      PROVE  Talk(d)'
  BY <1>1, <1>2, <1>3, <1>6 DEF Answer, WireTypeOK, ChildTypeOK, Talk
<1>7. ASSUME NEW d \in Conns
      PROVE  ChildForm(d)'
  BY <1>1, <1>2, <1>3, <1>7 DEF Answer, WireTypeOK, ChildTypeOK, ChildForm, ItemOf
<1> QED
  BY <1>4, <1>5, <1>6, <1>7

\* A step of a child keeps TypeInv when it keeps the store, the types of the
\* wire and of the children, and the discipline.
LEMMA ChildStepType ==
  ASSUME TypeInv,
         UNCHANGED <<loggerVars, threadVars, diskVars, used, faults>>,
         StoreTypeOK', WireTypeOK', ChildTypeOK', Dialogue',
         \A d \in Conns : Talk(d)' /\ ChildForm(d)'
  PROVE  TypeInv'
<1> USE DEF loggerVars, threadVars, diskVars
<1>1. LoggerTypeOK' /\ ThreadTypeOK' /\ DiskTypeOK' /\ used' \subseteq Sessions /\ faults' \in 0..MaxFaults
  BY DEF TypeInv, TypeOK, LoggerTypeOK, ThreadTypeOK, DiskTypeOK
<1>2. LoggerForm' /\ ThreadForm'
  BY DEF TypeInv, LoggerForm, LoggerActive, ThreadForm, Fetching
<1> QED
  BY <1>1, <1>2 DEF TypeInv, TypeOK

\* The same for a step that answers.
LEMMA AnswerStepType ==
  ASSUME TypeInv, NEW c \in Conns, NEW r \in Replies, Answer(c, r),
         link[c] # "free", req[c].op \notin {"none", "CLOSE"},
         link[c] = "up" => Fits(r),
         r.op \in {"SENDING", "EMPTY"} => r.s \in Sessions,
         r.ok => ItemOf(r) \in Items,
         UNCHANGED <<loggerVars, threadVars, diskVars, used, faults>>,
         StoreTypeOK'
  PROVE  TypeInv'
  BY AnswerType, ChildStepType

\* The replies that carry no file.
LEMMA PlainReply ==
  ASSUME NEW op \in ReplyOps, NEW s \in Nat
  PROVE  LET r == Reply(op, s, 0, FALSE)
         IN  r \in Replies /\ r.op = op /\ r.s = s /\ ~r.ok
  BY DEF Reply, Replies

\* A child that is not idle has a request in its hands and is alive.
LEMMA ChildBusy ==
  ASSUME TypeInv, NEW c \in Conns, cpc[c] \in {"files", "read", "logger", "compress", "rmrf"}
  PROVE  /\ link[c] # "free"
         /\ cpc[c] # "rmrf" => req[c].op = "SEND_NEXT"
         /\ cpc[c] = "rmrf" => req[c].op = "REMOVE_DIR"
<1>1. Talk(c)
  BY DEF TypeInv
<1>2. NoReq.op = "none"
  BY DEF NoReq, Request
<1> QED
  BY <1>1, <1>2 DEF Talk

\* An ERROR reply fits every request.
LEMMA ErrorFits ==
  ASSUME TypeInv, NEW c \in Conns, AnswerError(c),
         link[c] # "free", req[c].op \in {"SEND_NEXT", "REMOVE_FILE", "REMOVE_DIR", "SEND_FILE"},
         UNCHANGED <<loggerVars, threadVars>>
  PROVE  WireTypeOK' /\ ChildTypeOK' /\ Dialogue' /\ \A d \in Conns : Talk(d)' /\ ChildForm(d)'
<1> DEFINE r == Reply("ERROR", NoSession, 0, FALSE)
<1>1. r \in Replies /\ r.op = "ERROR" /\ ~r.ok
  <2>1. "ERROR" \in ReplyOps /\ NoSession \in Nat
    BY DEF ReplyOps, NoSession
  <2> QED
    BY <2>1, PlainReply
<1>2. link[c] = "up" => Fits(r)
  <2>1. link[c] = "up" => tpc \in Waits \ {"body"}
    BY ThreadWaits DEF Waits
  <2> QED
    BY <1>1, <2>1 DEF Fits
<1> HIDE DEF r
<1> QED
  BY <1>1, <1>2, AnswerType DEF AnswerError, r

LEMMA AnswerErrorType ==
  ASSUME TypeInv, NEW c \in Conns, AnswerError(c),
         link[c] # "free", req[c].op \in {"SEND_NEXT", "REMOVE_FILE", "REMOVE_DIR", "SEND_FILE"},
         UNCHANGED <<loggerVars, threadVars, diskVars, used, faults, storeVars>>
  PROVE  TypeInv'
<1>1. StoreTypeOK'
  BY DEF TypeInv, TypeOK, StoreTypeOK, storeVars
<1> QED
  BY <1>1, ErrorFits, ChildStepType

\* FindFirstDir yields a session when there is one.
LEMMA ScanDirsType ==
  ASSUME TypeInv, NEW c \in Conns, ScanDirs(c),
         UNCHANGED <<loggerVars, threadVars, diskVars, used, faults>>
  PROVE  TypeInv'
<1> USE DEF threadVars, loggerVars, wireVars, storeVars
<1>1. dirs \subseteq Sessions /\ WireTypeOK /\ ChildTypeOK /\ Dialogue /\ \A d \in Conns : Talk(d) /\ ChildForm(d)
  BY DEF TypeInv, TypeOK, StoreTypeOK
<1>2. /\ FindFirstDir \in ScanResults
      /\ FindFirstDir.count = 0 <=> dirs = {}
      /\ dirs # {} => FindFirstDir.first \in Sessions
  <2>1. dirs \subseteq 0..NumSessions /\ NumSessions \in Nat
    BY <1>1, SizeFacts
  <2> QED
    BY <1>1, <2>1, ScanFacts DEF FindFirstDir
<1>3. WireTypeOK' /\ ChildTypeOK' /\ Dialogue'
  BY <1>1, <1>2 DEF ScanDirs, WireTypeOK, ChildTypeOK, ChildPCs, Dialogue, LinkUp
<1>4. ASSUME NEW d \in Conns
      PROVE  Talk(d)' /\ ChildForm(d)'
  BY <1>1, <1>2, <1>4 DEF ScanDirs, Asked, ChildTypeOK, Talk, ChildForm
<1>5. StoreTypeOK'
  BY DEF ScanDirs, TypeInv, TypeOK, StoreTypeOK
<1> QED
  BY <1>3, <1>4, <1>5, ChildStepType

\* The child goes on to read tof, or answers ERROR.
LEMMA FindTofType ==
  ASSUME TypeInv, NEW c \in Conns, FindTof(c),
         UNCHANGED <<loggerVars, threadVars, diskVars, used, faults>>
  PROVE  TypeInv'
<1> USE DEF threadVars, loggerVars, wireVars, storeVars
<1>1. cpc[c] = "files" /\ link[c] # "free" /\ req[c].op = "SEND_NEXT"
  BY ChildBusy DEF FindTof
<1>2. CASE AnswerError(c)
  BY <1>1, <1>2, AnswerErrorType DEF FindTof
<1>3. CASE ~AnswerError(c)
  <2>1. WireTypeOK /\ ChildTypeOK /\ Dialogue /\ \A d \in Conns : Talk(d) /\ ChildForm(d)
    BY DEF TypeInv, TypeOK
  <2>2. cpc' = [cpc EXCEPT ![c] = "read"] /\ UNCHANGED <<wireVars, nd, nf, storeVars>>
    BY <1>3 DEF FindTof
  <2>3. WireTypeOK' /\ ChildTypeOK' /\ Dialogue'
    BY <2>1, <2>2 DEF WireTypeOK, ChildTypeOK, ChildPCs, Dialogue, LinkUp
  <2>4. ASSUME NEW d \in Conns
        PROVE  Talk(d)' /\ ChildForm(d)'
    BY <1>1, <2>1, <2>2, <2>4 DEF ChildTypeOK, Talk, ChildForm
  <2>5. StoreTypeOK'
    BY <2>2 DEF TypeInv, TypeOK, StoreTypeOK
  <2> QED
    BY <2>3, <2>4, <2>5, ChildStepType
<1> QED
  BY <1>2, <1>3

\* What FindNextFile reads, or the stack held, has the form of a scan result.
LEMMA ScanFilesType ==
  ASSUME TypeInv, NEW c \in Conns, ScanFiles(c),
         UNCHANGED <<loggerVars, threadVars, diskVars, used, faults>>
  PROVE  TypeInv'
<1> USE DEF threadVars, loggerVars, wireVars, storeVars
<1>1. cpc[c] = "read" /\ link[c] # "free" /\ req[c].op = "SEND_NEXT"
  BY ChildBusy DEF ScanFiles
<1>2. WireTypeOK /\ ChildTypeOK /\ Dialogue /\ \A d \in Conns : Talk(d) /\ ChildForm(d)
  BY DEF TypeInv, TypeOK
<1>3. FindNextFile(nd[c].first) \in ScanResults
  <2>1. FrameNumbers(nd[c].first) \subseteq 0..NumFrames /\ NumFrames \in Nat
    BY SizeFacts DEF FrameNumbers
  <2> QED
    BY <2>1, ScanFacts DEF FindNextFile
<1>4. PICK f : /\ f \in (IF nd[c].first \in tofs THEN {FindNextFile(nd[c].first)} ELSE Leftover)
               /\ nf' = [nf EXCEPT ![c] = f]
  BY DEF ScanFiles
<1>5. f \in ScanResults
  <2>1. Leftover \subseteq ScanResults
    BY SizeFacts DEF Leftover, ScanResults, Frames
  <2> QED
    BY <1>3, <1>4, <2>1
<1>6. cpc' = [cpc EXCEPT ![c] = "logger"] /\ UNCHANGED <<wireVars, nd, storeVars>>
  BY DEF ScanFiles
<1>7. WireTypeOK' /\ ChildTypeOK' /\ Dialogue'
  BY <1>2, <1>4, <1>5, <1>6 DEF WireTypeOK, ChildTypeOK, ChildPCs, Dialogue, LinkUp
<1>8. ASSUME NEW d \in Conns
      PROVE  Talk(d)' /\ ChildForm(d)'
  BY <1>1, <1>2, <1>4, <1>6, <1>8 DEF ChildTypeOK, Talk, ChildForm
<1>9. StoreTypeOK'
  BY <1>6 DEF TypeInv, TypeOK, StoreTypeOK
<1> QED
  BY <1>7, <1>8, <1>9, ChildStepType

\* The three replies of SendNext fit SEND_NEXT.
LEMMA CheckLoggerType ==
  ASSUME TypeInv, NEW c \in Conns, CheckLogger(c),
         UNCHANGED <<loggerVars, threadVars, diskVars, used, faults>>
  PROVE  TypeInv'
<1>1. cpc[c] = "logger" /\ link[c] # "free" /\ req[c].op = "SEND_NEXT"
  BY ChildBusy DEF CheckLogger
<1>2. link[c] = "up" => tpc = "wait_next"
  BY <1>1, ThreadWaits
<1>3. StoreTypeOK'
  BY DEF CheckLogger, TypeInv, TypeOK, StoreTypeOK, storeVars
<1>4. WireTypeOK /\ ChildTypeOK /\ Dialogue /\ \A d \in Conns : Talk(d) /\ ChildForm(d)
  BY DEF TypeInv, TypeOK
<1>5. ASSUME NEW op \in {"NO_TR", "WAIT"}, Answer(c, Reply(op, NoSession, 0, FALSE))
      PROVE  TypeInv'
  <2> DEFINE r == Reply(op, NoSession, 0, FALSE)
  <2>1. r \in Replies /\ r.op = op /\ ~r.ok
    <3>1. op \in ReplyOps
      BY DEF ReplyOps
    <3> QED
      BY <3>1, PlainReply
  <2>2. link[c] = "up" => Fits(r)
    BY <1>2, <2>1 DEF Fits
  <2> HIDE DEF r
  <2> QED
    BY <1>1, <1>3, <1>5, <2>1, <2>2, AnswerStepType DEF r
<1>6. ASSUME nd[c].count # 0, Answer(c, Reply("EMPTY", nd[c].first, 0, FALSE))
      PROVE  TypeInv'
  <2> DEFINE r == Reply("EMPTY", nd[c].first, 0, FALSE)
  <2>1. nd[c].first \in Sessions /\ nd[c].first \in Nat
    BY <1>1, <1>4, <1>6, SizeFacts DEF ChildForm
  <2>2. r \in Replies /\ r.op = "EMPTY" /\ r.s \in Sessions /\ ~r.ok
    <3>1. "EMPTY" \in ReplyOps
      BY DEF ReplyOps
    <3> QED
      BY <2>1, <3>1, PlainReply
  <2>3. link[c] = "up" => Fits(r)
    BY <1>2, <2>2 DEF Fits
  <2> HIDE DEF r
  <2> QED
    BY <1>1, <1>3, <1>6, <2>2, <2>3, AnswerStepType DEF r
<1>7. ASSUME nd[c].count # 0, cpc' = [cpc EXCEPT ![c] = "compress"], UNCHANGED <<wireVars, nd, nf>>
      PROVE  TypeInv'
  <2> USE DEF threadVars, loggerVars, wireVars
  <2>1. WireTypeOK' /\ ChildTypeOK' /\ Dialogue'
    BY <1>4, <1>7 DEF WireTypeOK, ChildTypeOK, ChildPCs, Dialogue, LinkUp
  <2>2. ASSUME NEW d \in Conns
        PROVE  Talk(d)' /\ ChildForm(d)'
    BY <1>1, <1>4, <1>7, <2>2 DEF ChildTypeOK, Talk, ChildForm
  <2> QED
    BY <1>3, <2>1, <2>2, ChildStepType
<1> QED
  BY <1>5, <1>6, <1>7 DEF CheckLogger

\* CompressAndSend, for a frame or for one of the other files.
LEMMA CompressType ==
  ASSUME TypeInv, NEW c \in Conns, NEW op \in {"SENDING", "REQUESTED"}, NEW s \in Nat, NEW k \in Nat,
         NEW item, item = ItemOf(Reply(op, s, k, TRUE)),
         CompressAndSend(c, op, s, k, item),
         link[c] # "free",
         op = "SENDING" => req[c].op = "SEND_NEXT" /\ s \in Sessions,
         op = "REQUESTED" => req[c].op = "SEND_FILE",
         UNCHANGED <<loggerVars, threadVars, diskVars, used, faults>>
  PROVE  TypeInv'
<1>1. CASE AnswerError(c)
  BY <1>1, AnswerErrorType DEF CompressAndSend
<1>2. CASE ~AnswerError(c)
  <2> DEFINE r == Reply(op, s, k, item \in made)
  <2>1. Answer(c, r) /\ UNCHANGED storeVars
    BY <1>2 DEF CompressAndSend
  <2>2. (item \in made) \in BOOLEAN
    OBVIOUS
  <2>3. r \in Replies /\ r.op = op /\ r.s = s /\ (r.ok <=> item \in made) /\ ItemOf(r) = item
    BY <2>2 DEF Reply, Replies, ReplyOps, ItemOf
  <2>4. link[c] = "up" => Fits(r)
    <3>1. link[c] = "up" => IF op = "SENDING" THEN tpc = "wait_next" ELSE tpc = "wait_extra"
      BY ThreadWaits
    <3> QED
      BY <2>3, <3>1 DEF Fits
  <2>5. StoreTypeOK'
    BY <2>1 DEF TypeInv, TypeOK, StoreTypeOK, storeVars
  <2>6. r.ok => ItemOf(r) \in Items
    BY <2>3 DEF TypeInv, TypeOK, LoggerTypeOK
  <2> HIDE DEF r
  <2> QED
    BY <2>1, <2>3, <2>4, <2>5, <2>6, AnswerStepType
<1> QED
  BY <1>1, <1>2

\* SendNext's file keeps TypeInv.
LEMMA SendNextFileType ==
  ASSUME TypeInv, NEW c \in Conns, SendNextFile(c),
         UNCHANGED <<loggerVars, threadVars, diskVars, used, faults>>
  PROVE  TypeInv'
<1>1. cpc[c] = "compress" /\ link[c] # "free" /\ req[c].op = "SEND_NEXT"
  BY ChildBusy DEF SendNextFile
<1>2. nd[c].first \in Sessions /\ nd[c].first \in Nat
  BY <1>1, SizeFacts DEF TypeInv, ChildForm
<1>3. nf[c].first \in Nat
  BY DEF TypeInv, TypeOK, ChildTypeOK, ScanResults
<1>4. Pcd(nd[c].first, nf[c].first) = ItemOf(Reply("SENDING", nd[c].first, nf[c].first, TRUE))
  BY DEF ItemOf, Reply
<1> QED
  BY <1>1, <1>2, <1>3, <1>4, CompressType DEF SendNextFile

\* SEND_FILE keeps TypeInv.
LEMMA SendFileType ==
  ASSUME TypeInv, NEW c \in Conns, SendFile(c),
         UNCHANGED <<loggerVars, threadVars, diskVars, used, faults>>
  PROVE  TypeInv'
<1>1. link[c] # "free" /\ req[c].op = "SEND_FILE"
  BY DEF SendFile, Asked, Alive
<1>2. req[c].s \in Nat /\ req[c].k \in Nat
  BY DEF TypeInv, TypeOK, WireTypeOK, Requests
<1>3. Ext(req[c].s, req[c].k) = ItemOf(Reply("REQUESTED", req[c].s, req[c].k, TRUE))
  BY DEF ItemOf, Reply
<1> QED
  BY <1>1, <1>2, <1>3, CompressType DEF SendFile

\* An answer REMOVED, with whatever the removal left of the store.
LEMMA RemovedType ==
  ASSUME TypeInv, NEW c \in Conns, NEW s \in Nat,
         Answer(c, Reply("REMOVED", s, 0, FALSE)),
         link[c] # "free", req[c].op \in {"REMOVE_FILE", "REMOVE_DIR"},
         UNCHANGED <<loggerVars, threadVars, diskVars, used, faults>>,
         StoreTypeOK'
  PROVE  TypeInv'
<1> DEFINE r == Reply("REMOVED", s, 0, FALSE)
<1>1. r \in Replies /\ r.op = "REMOVED" /\ ~r.ok
  <2>1. "REMOVED" \in ReplyOps
    BY DEF ReplyOps
  <2> QED
    BY <2>1, PlainReply
<1>2. link[c] = "up" => Fits(r)
  <2>1. link[c] = "up" => tpc \in {"wait_remove", "wait_rmdir"}
    BY ThreadWaits
  <2> QED
    BY <1>1, <2>1 DEF Fits
<1> HIDE DEF r
<1> QED
  BY <1>1, <1>2, AnswerStepType DEF r

\* REMOVE_FILE keeps TypeInv.
LEMMA RemoveFileType ==
  ASSUME TypeInv, NEW c \in Conns, RemoveFile(c),
         UNCHANGED <<loggerVars, threadVars, diskVars, used, faults>>
  PROVE  TypeInv'
<1>1. link[c] # "free" /\ req[c].op = "REMOVE_FILE"
  BY DEF RemoveFile, Asked, Alive
<1>2. req[c].s \in Nat
  BY DEF TypeInv, TypeOK, WireTypeOK, Requests
<1>3. CASE AnswerError(c) /\ UNCHANGED storeVars
  BY <1>1, <1>3, AnswerErrorType
<1>4. CASE /\ files' = files \ {Pcd(req[c].s, req[c].k)}
           /\ Answer(c, Reply("REMOVED", req[c].s, 0, FALSE))
           /\ UNCHANGED <<dirs, tofs>>
  <2>1. StoreTypeOK'
    BY <1>4 DEF TypeInv, TypeOK, StoreTypeOK
  <2> QED
    BY <1>1, <1>2, <1>4, <2>1, RemovedType
<1> QED
  BY <1>3, <1>4 DEF RemoveFile

\* The first half of REMOVE_DIR keeps TypeInv.
LEMMA UnlinkTreeType ==
  ASSUME TypeInv, NEW c \in Conns, UnlinkTree(c),
         UNCHANGED <<loggerVars, threadVars, diskVars, used, faults>>
  PROVE  TypeInv'
<1>1. link[c] # "free" /\ req[c].op = "REMOVE_DIR"
  BY DEF UnlinkTree, Asked, Alive
<1>2. CASE AnswerError(c) /\ UNCHANGED storeVars
  BY <1>1, <1>2, AnswerErrorType
<1>3. CASE /\ files' = files \ FilesOf(req[c].s)
           /\ tofs' = tofs \ {req[c].s}
           /\ cpc' = [cpc EXCEPT ![c] = "rmrf"]
           /\ UNCHANGED <<dirs, wireVars, nd, nf>>
  <2> USE DEF threadVars, loggerVars, wireVars
  <2>1. StoreTypeOK /\ WireTypeOK /\ ChildTypeOK /\ Dialogue /\ \A d \in Conns : Talk(d) /\ ChildForm(d)
    BY DEF TypeInv, TypeOK
  <2>2. StoreTypeOK' /\ WireTypeOK' /\ ChildTypeOK' /\ Dialogue'
    BY <1>3, <2>1 DEF StoreTypeOK, WireTypeOK, ChildTypeOK, ChildPCs, Dialogue, LinkUp
  <2>3. ASSUME NEW d \in Conns
        PROVE  Talk(d)' /\ ChildForm(d)'
    BY <1>1, <1>3, <2>1, <2>3 DEF ChildTypeOK, Talk, ChildForm
  <2> QED
    BY <2>2, <2>3, ChildStepType
<1> QED
  BY <1>2, <1>3 DEF UnlinkTree

\* The second half of REMOVE_DIR keeps TypeInv.
LEMMA RemoveDirType ==
  ASSUME TypeInv, NEW c \in Conns, RemoveDir(c),
         UNCHANGED <<loggerVars, threadVars, diskVars, used, faults>>
  PROVE  TypeInv'
<1>1. link[c] # "free" /\ req[c].op = "REMOVE_DIR"
  BY ChildBusy DEF RemoveDir
<1>2. req[c].s \in Nat
  BY DEF TypeInv, TypeOK, WireTypeOK, Requests
<1>3. CASE AnswerError(c) /\ UNCHANGED storeVars
  BY <1>1, <1>3, AnswerErrorType
<1>4. CASE /\ dirs' = dirs \ {req[c].s}
           /\ Answer(c, Reply("REMOVED", req[c].s, 0, FALSE))
           /\ UNCHANGED <<tofs, files>>
  <2>1. StoreTypeOK'
    BY <1>4 DEF TypeInv, TypeOK, StoreTypeOK
  <2> QED
    BY <1>1, <1>2, <1>4, <2>1, RemovedType
<1> QED
  BY <1>3, <1>4 DEF RemoveDir

\* The end of a child keeps TypeInv.
LEMMA ChildEndsType ==
  ASSUME TypeInv, NEW c \in Conns, ChildEnds(c),
         UNCHANGED <<loggerVars, threadVars, diskVars, used, faults>>
  PROVE  TypeInv'
<1> USE DEF threadVars, loggerVars, storeVars
<1>1. StoreTypeOK /\ WireTypeOK /\ ChildTypeOK /\ Dialogue /\ \A d \in Conns : Talk(d) /\ ChildForm(d)
  BY DEF TypeInv, TypeOK
<1>2. NoReq \in Requests /\ NoReq.op = "none" /\ NoScan \in ScanResults
  BY DEF NoReq, Request, Requests, RequestOps, NoScan, ScanResults
<1>3. rep[c].op = "none"
  BY <1>1, <1>2 DEF ChildEnds, Asked, Talk
<1>4. c = tconn => ~LinkUp'
  BY <1>1 DEF ChildEnds, WireTypeOK, LinkUp
<1>5. StoreTypeOK' /\ WireTypeOK' /\ ChildTypeOK'
  BY <1>1, <1>2 DEF ChildEnds, StoreTypeOK, WireTypeOK, ChildTypeOK, ChildPCs
<1>6. Dialogue'
  BY <1>1, <1>4 DEF ChildEnds, WireTypeOK, LinkUp, Dialogue
<1>7. ASSUME NEW d \in Conns
      PROVE  Talk(d)' /\ ChildForm(d)'
  BY <1>1, <1>2, <1>3, <1>7 DEF ChildEnds, WireTypeOK, ChildTypeOK, Talk, ChildForm
<1> QED
  BY <1>5, <1>6, <1>7, ChildStepType

\* Every step of a child keeps TypeInv.
LEMMA ChildType == ASSUME NEW c \in Conns, TypeInv, Child(c) PROVE TypeInv'
  BY ScanDirsType, FindTofType, ScanFilesType, CheckLoggerType, SendNextFileType, SendFileType,
     RemoveFileType, UnlinkTreeType, RemoveDirType, ChildEndsType
     DEF Child, ChildStep

\* A step of the client keeps TypeInv when it keeps the types of the wire, the
\* thread and the disk, and the discipline.
LEMMA ThreadStepType ==
  ASSUME TypeInv,
         UNCHANGED <<storeVars, loggerVars, childVars>>,
         used' = used, faults' \in 0..MaxFaults,
         WireTypeOK', ThreadTypeOK', DiskTypeOK', ThreadForm', Dialogue',
         \A d \in Conns : Talk(d)' /\ ChildForm(d)'
  PROVE  TypeInv'
<1> USE DEF storeVars, loggerVars, childVars
<1>1. StoreTypeOK' /\ LoggerTypeOK' /\ ChildTypeOK' /\ used' \subseteq Sessions
  BY DEF TypeInv, TypeOK, StoreTypeOK, LoggerTypeOK, ChildTypeOK
<1>2. LoggerForm'
  BY DEF TypeInv, LoggerForm, LoggerActive
<1> QED
  BY <1>1, <1>2 DEF TypeInv, TypeOK

\* The thread is gone.
LEMMA LeaveType ==
  ASSUME TypeInv, NEW code \in {-2, -1, 0}, Leave(code), tr' \in Sessions \cup {NoSession}
  PROVE  ThreadTypeOK' /\ ThreadForm'
<1>1. NoRep \in Replies /\ ~NoRep.ok
  BY DEF NoRep, Reply, Replies, ReplyOps
<1>2. ThreadTypeOK
  BY DEF TypeInv, TypeOK
<1>3. 1 \in 1..(NumExtras + 1)
  BY SizeFacts
<1>4. run' \in BOOLEAN
  BY <1>2 DEF Leave, ThreadTypeOK
<1>5. ThreadTypeOK'
  BY <1>1, <1>2, <1>3, <1>4 DEF Leave, ThreadTypeOK, ThreadPCs
<1>6. ThreadForm'
  BY <1>1 DEF Leave, ThreadForm, Fetching
<1> QED
  BY <1>5, <1>6

\* A thread without a working connection leaves the wire as it is.
LEMMA QuietLeave ==
  ASSUME TypeInv, ~LinkUp, tconn' = NoConn, UNCHANGED <<wireVars, childVars, made>>
  PROVE  WireTypeOK' /\ Dialogue' /\ \A d \in Conns : Talk(d)' /\ ChildForm(d)'
<1> USE DEF wireVars, childVars
<1>1. WireTypeOK' /\ Dialogue'
  BY DEF TypeInv, TypeOK, WireTypeOK, Dialogue, LinkUp
<1>2. ASSUME NEW d \in Conns
      PROVE  Talk(d)' /\ ChildForm(d)'
  BY <1>2, ConnAssumption DEF TypeInv, Talk, ChildForm, LinkUp, ItemOf
<1> QED
  BY <1>1, <1>2

\* A thread with a working connection and no request under way sends CLOSE.
LEMMA HangUpLeave ==
  ASSUME TypeInv, LinkUp, HangUp, tconn' = NoConn, UNCHANGED <<link, childVars, made>>,
         req[tconn].op = "none",
         Consume \/ (rep' = rep /\ rep[tconn].op = "none")
  PROVE  WireTypeOK' /\ Dialogue' /\ \A d \in Conns : Talk(d)' /\ ChildForm(d)'
<1> USE DEF childVars
<1>1. NoRep \in Replies /\ NoRep.op = "none" /\ ~NoRep.ok
  BY DEF NoRep, Reply, Replies, ReplyOps
<1>2. Request("CLOSE", NoSession, 0) \in Requests /\ Request("CLOSE", NoSession, 0).op = "CLOSE"
  BY DEF Request, Requests, RequestOps
<1>3. tconn \in Conns /\ WireTypeOK /\ ChildTypeOK /\ \A d \in Conns : Talk(d) /\ ChildForm(d)
  BY DEF TypeInv, TypeOK, ThreadTypeOK, LinkUp
<1>4. WireTypeOK'
  BY <1>1, <1>2, <1>3 DEF WireTypeOK, HangUp, Consume
<1>5. Dialogue'
  BY DEF Dialogue, LinkUp
<1>6. rep'[tconn].op = "none" /\ \A d \in Conns : d # tconn => rep'[d] = rep[d]
  BY <1>1, <1>3 DEF Consume, WireTypeOK
<1>7. rep'[tconn] = NoRep \/ rep'[tconn] = rep[tconn]
  BY <1>3 DEF Consume, WireTypeOK
<1>8. ASSUME NEW d \in Conns
      PROVE  Talk(d)'
  <2>1. CASE d = tconn
    BY <1>2, <1>3, <1>6, <2>1 DEF HangUp, LinkUp, WireTypeOK, Talk
  <2>2. CASE d # tconn
    BY <1>3, <1>6, <2>2 DEF HangUp, WireTypeOK, Talk
  <2> QED
    BY <2>1, <2>2
<1>9. ASSUME NEW d \in Conns
      PROVE  ChildForm(d)'
  BY <1>1, <1>3, <1>6, <1>7, <1>9 DEF ChildForm
<1> QED
  BY <1>4, <1>5, <1>8, <1>9

\* The thread takes a reply from the wire and goes on where no reply is due.
LEMMA ConsumeType ==
  ASSUME TypeInv, LinkUp, rep[tconn].op # "none", Consume,
         UNCHANGED <<link, req, tconn, childVars, made>>, tpc' # "body"
  PROVE  WireTypeOK' /\ Dialogue' /\ \A d \in Conns : Talk(d)' /\ ChildForm(d)'
<1> USE DEF childVars
<1>1. NoRep \in Replies /\ NoRep.op = "none" /\ ~NoRep.ok /\ NoReq.op = "none"
  BY DEF NoRep, Reply, Replies, ReplyOps, NoReq, Request
<1>2. tconn \in Conns /\ WireTypeOK /\ \A d \in Conns : Talk(d) /\ ChildForm(d)
  BY DEF TypeInv, TypeOK, ThreadTypeOK, LinkUp
<1>3. req[tconn].op = "none"
  BY <1>1, <1>2 DEF Talk
<1>4. WireTypeOK'
  BY <1>1, <1>2 DEF WireTypeOK, Consume
<1>5. rep'[tconn] = NoRep /\ \A d \in Conns : d # tconn => rep'[d] = rep[d]
  BY <1>2 DEF Consume, WireTypeOK
<1>6. Dialogue'
  BY <1>1, <1>3, <1>5 DEF Dialogue, LinkUp
<1>7. ASSUME NEW d \in Conns
      PROVE  Talk(d)' /\ ChildForm(d)'
  <2>1. Talk(d)'
    BY <1>1, <1>2, <1>5, <1>7 DEF Talk, LinkUp
  <2>2. ChildForm(d)'
    BY <1>1, <1>2, <1>5, <1>7 DEF ChildForm
  <2> QED
    BY <2>1, <2>2
<1> QED
  BY <1>4, <1>6, <1>7

\* No request is under way once its reply is there, or before it is sent.
LEMMA NothingAsked ==
  ASSUME TypeInv, LinkUp, rep[tconn].op # "none" \/ tpc \in Sends \cup {"write"}
  PROVE  /\ tconn \in Conns
         /\ req[tconn].op = "none"
         /\ tpc \in Sends \cup {"write"} => rep[tconn].op = "none"
<1>1. tconn \in Conns
  BY DEF TypeInv, TypeOK, ThreadTypeOK, LinkUp
<1>2. Talk(tconn) /\ Dialogue /\ NoReq.op = "none" /\ req[tconn] \in Requests /\ rep[tconn] \in Replies
  BY <1>1 DEF TypeInv, TypeOK, WireTypeOK, NoReq, Request
<1> QED
  BY <1>1, <1>2 DEF Talk, Dialogue, Sends, Waits, Requests, RequestOps, Replies, ReplyOps

\* The end of a round, after a reply.
LEMMA AgainType ==
  ASSUME TypeInv, LinkUp, rep[tconn].op # "none", Consume, Again,
         UNCHANGED <<tr, link, storeVars, loggerVars, childVars, used, faults>>,
         DiskTypeOK'
  PROVE  TypeInv'
<1>1. made' = made /\ tr \in Sessions \cup {NoSession} /\ faults \in 0..MaxFaults
  BY DEF loggerVars, TypeInv, TypeOK, ThreadTypeOK
<1>2. CASE Leave(0) /\ HangUp
  <2>1. tconn' = NoConn
    BY <1>2 DEF Leave
  <2>2. ThreadTypeOK' /\ ThreadForm'
    BY <1>1, <1>2, LeaveType
  <2>3. WireTypeOK' /\ Dialogue' /\ \A d \in Conns : Talk(d)' /\ ChildForm(d)'
    BY <1>1, <1>2, <2>1, NothingAsked, HangUpLeave
  <2> QED
    BY <1>1, <2>2, <2>3, ThreadStepType
<1>3. CASE /\ tpc' = "next" /\ folder' = NoSession /\ xi' = 1 /\ cur' = NoRep
           /\ UNCHANGED <<run, stat, tconn, tdir, req>>
  <2>1. NoRep \in Replies /\ ~NoRep.ok
    BY DEF NoRep, Reply, Replies, ReplyOps
  <2>2. ThreadTypeOK'
    BY <1>1, <1>3, <2>1, SizeFacts DEF TypeInv, TypeOK, ThreadTypeOK, ThreadPCs, Sends
  <2>3. ThreadForm'
    BY <1>1, <1>3, <2>1, ConnAssumption DEF ThreadForm, Fetching, LinkUp
  <2>4. WireTypeOK' /\ Dialogue' /\ \A d \in Conns : Talk(d)' /\ ChildForm(d)'
    BY <1>1, <1>3, ConsumeType
  <2> QED
    BY <1>1, <2>2, <2>3, <2>4, ThreadStepType
<1> QED
  BY <1>2, <1>3 DEF Again

\* OpenConnection: the new connection carries nothing yet.
LEMMA OpenConnectionType ==
  ASSUME TypeInv, OpenConnection, UNCHANGED <<storeVars, loggerVars, childVars, used, faults>>
  PROVE  TypeInv'
<1> USE DEF childVars, loggerVars, diskVars
<1>1. /\ WireTypeOK /\ ThreadTypeOK /\ DiskTypeOK /\ ThreadForm /\ faults \in 0..MaxFaults
      /\ \A d \in Conns : Talk(d) /\ ChildForm(d)
  BY DEF TypeInv, TypeOK
<1>2. PICK c \in Conns : link[c] = "free" /\ link' = [link EXCEPT ![c] = "up"] /\ tconn' = c
  BY DEF OpenConnection
<1>3. tconn = NoConn /\ tconn' # NoConn
  BY <1>1, <1>2, ConnAssumption DEF OpenConnection, ThreadForm
<1>4. rep[c].op = "none" /\ req[c].op = "none"
  BY <1>1, <1>2 DEF Talk, NoReq, Request
<1>5. WireTypeOK' /\ ThreadTypeOK' /\ DiskTypeOK'
  BY <1>1, <1>2 DEF OpenConnection, WireTypeOK, ThreadTypeOK, ThreadPCs, Sends, DiskTypeOK
<1>6. ThreadForm'
  BY <1>1, <1>3 DEF OpenConnection, ThreadForm, Fetching
<1>7. Dialogue'
  BY <1>2, <1>4 DEF OpenConnection, Dialogue
<1>8. ASSUME NEW d \in Conns
      PROVE  Talk(d)' /\ ChildForm(d)'
  BY <1>1, <1>2, <1>3, <1>4, <1>8, ConnAssumption DEF OpenConnection, WireTypeOK, Talk, ChildForm
<1> QED
  BY <1>1, <1>5, <1>6, <1>7, <1>8, ThreadStepType

\* TcpSendTT: the request fits the state the thread waits in.
LEMMA TcpSendType ==
  ASSUME TypeInv, TcpSendTT, UNCHANGED <<storeVars, loggerVars, childVars, used, faults>>
  PROVE  TypeInv'
<1> USE DEF childVars, loggerVars, diskVars
<1>1. /\ WireTypeOK /\ ThreadTypeOK /\ DiskTypeOK /\ ThreadForm /\ Dialogue /\ faults \in 0..MaxFaults
      /\ \A d \in Conns : Talk(d) /\ ChildForm(d)
  BY DEF TypeInv, TypeOK
<1>2. tpc \in Sends /\ LinkUp /\ tpc' = WaitAfter(tpc)
  BY DEF TcpSendTT
<1>3. tconn \in Conns /\ req[tconn].op = "none" /\ rep[tconn].op = "none"
  BY <1>2, NothingAsked
<1>4. /\ NextRequest \in Requests
      /\ NextRequest.op = CASE tpc = "next"   -> "SEND_NEXT"
                            [] tpc = "remove" -> "REMOVE_FILE"
                            [] tpc = "extra"  -> "SEND_FILE"
                            [] tpc = "rmdir"  -> "REMOVE_DIR"
  BY <1>1, <1>2, SizeFacts
     DEF NextRequest, Request, Requests, RequestOps, Sends, ThreadTypeOK, Replies
<1>5. req'[tconn] = NextRequest /\ \A d \in Conns : d # tconn => req'[d] = req[d]
  BY <1>1, <1>3 DEF TcpSendTT, WireTypeOK
<1>6. WireTypeOK' /\ ThreadTypeOK' /\ DiskTypeOK'
  BY <1>1, <1>2, <1>4 DEF TcpSendTT, WireTypeOK, ThreadTypeOK, ThreadPCs, Sends, Waits, WaitAfter, DiskTypeOK
<1>7. ThreadForm'
  BY <1>1, <1>2 DEF TcpSendTT, ThreadForm, Fetching, Sends, WaitAfter
<1>8. Dialogue'
  BY <1>2, <1>3, <1>4, <1>5 DEF TcpSendTT, Dialogue, Sends, WaitAfter
<1>9. ASSUME NEW d \in Conns
      PROVE  Talk(d)' /\ ChildForm(d)'
  <2>1. CASE d = tconn
    <3>1. cpc[d] = "idle"
      BY <1>1, <1>3, <2>1 DEF Talk, TypeInv, TypeOK, ChildTypeOK, ChildPCs
    <3> QED
      BY <1>1, <1>2, <1>3, <2>1, <3>1 DEF TcpSendTT, Talk, ChildForm, LinkUp
  <2>2. CASE d # tconn
    BY <1>1, <1>5, <2>2 DEF TcpSendTT, Talk, ChildForm
  <2> QED
    BY <2>1, <2>2
<1> QED
  BY <1>1, <1>6, <1>7, <1>8, <1>9, ThreadStepType

\* The thread ends without a word: it has no connection, or a lost one.
LEMMA QuietEndType ==
  ASSUME TypeInv, NEW code \in {-2, -1, 0}, Leave(code), ~LinkUp,
         UNCHANGED <<tr, diskVars, wireVars, storeVars, loggerVars, childVars, used>>,
         faults' \in 0..MaxFaults
  PROVE  TypeInv'
<1>1. tr' \in Sessions \cup {NoSession} /\ DiskTypeOK' /\ made' = made /\ tconn' = NoConn
  BY DEF TypeInv, TypeOK, ThreadTypeOK, DiskTypeOK, diskVars, loggerVars, Leave
<1>2. ThreadTypeOK' /\ ThreadForm'
  BY <1>1, LeaveType
<1>3. WireTypeOK' /\ Dialogue' /\ \A d \in Conns : Talk(d)' /\ ChildForm(d)'
  BY <1>1, QuietLeave
<1> QED
  BY <1>1, <1>2, <1>3, ThreadStepType

\* The thread ends with CLOSE: nothing is under way on its connection.
LEMMA HangUpEndType ==
  ASSUME TypeInv, NEW code \in {-2, -1, 0}, Leave(code), LinkUp, HangUp,
         req[tconn].op = "none",
         Consume \/ (rep' = rep /\ rep[tconn].op = "none"),
         UNCHANGED <<tr, diskVars, link, storeVars, loggerVars, childVars, used>>,
         faults' \in 0..MaxFaults
  PROVE  TypeInv'
<1>1. tr' \in Sessions \cup {NoSession} /\ DiskTypeOK' /\ made' = made /\ tconn' = NoConn
  BY DEF TypeInv, TypeOK, ThreadTypeOK, DiskTypeOK, diskVars, loggerVars, Leave
<1>2. ThreadTypeOK' /\ ThreadForm'
  BY <1>1, LeaveType
<1>3. WireTypeOK' /\ Dialogue' /\ \A d \in Conns : Talk(d)' /\ ChildForm(d)'
  BY <1>1, HangUpLeave
<1> QED
  BY <1>1, <1>2, <1>3, ThreadStepType

\* The steps that end the thread, or end its round.
LEMMA RoundEndType ==
  ASSUME TypeInv, UNCHANGED <<storeVars, loggerVars, childVars, used, faults>>,
         ConnectionLost \/ ReceiveError \/ ReceiveNoTr \/ ReceiveWait \/ ReceiveRemoved
           \/ ReceiveDirRemoved
  PROVE  TypeInv'
<1>1. DiskTypeOK /\ faults \in 0..MaxFaults /\ faults' = faults
  BY DEF TypeInv, TypeOK
<1>2. CASE ConnectionLost
  BY <1>1, <1>2, QuietEndType DEF ConnectionLost
<1>3. CASE ReceiveError
  <2>1. LinkUp /\ rep[tconn].op = "ERROR"
    BY <1>3 DEF ReceiveError, Received
  <2>2. req[tconn].op = "none"
    BY <2>1, NothingAsked
  <2> QED
    BY <1>1, <1>3, <2>1, <2>2, HangUpEndType DEF ReceiveError
<1>4. CASE ReceiveNoTr
  <2>1. LinkUp /\ rep[tconn].op = "NO_TR"
    BY <1>4 DEF ReceiveNoTr, Received
  <2>2. req[tconn].op = "none"
    BY <2>1, NothingAsked
  <2> QED
    BY <1>1, <1>4, <2>1, <2>2, HangUpEndType DEF ReceiveNoTr
<1>5. CASE ReceiveWait
  <2>1. LinkUp /\ rep[tconn].op # "none" /\ DiskTypeOK'
    BY <1>1, <1>5 DEF ReceiveWait, Received, DiskTypeOK, diskVars
  <2> QED
    BY <1>5, <2>1, AgainType DEF ReceiveWait
<1>6. CASE ReceiveRemoved
  <2>1. LinkUp /\ rep[tconn].op # "none" /\ DiskTypeOK'
    BY <1>1, <1>6 DEF ReceiveRemoved, Received, DiskTypeOK, diskVars
  <2> QED
    BY <1>6, <2>1, AgainType DEF ReceiveRemoved
<1>7. CASE ReceiveDirRemoved
  <2>1. LinkUp /\ rep[tconn].op # "none"
    BY <1>7 DEF ReceiveDirRemoved, Received
  <2>2. folder \in Sessions
    BY <1>7 DEF ReceiveDirRemoved, Received, TypeInv, ThreadForm
  <2>3. DiskTypeOK'
    BY <1>1, <1>7, <2>2 DEF ReceiveDirRemoved, DiskTypeOK
  <2> QED
    BY <1>7, <2>1, <2>3, AgainType DEF ReceiveDirRemoved
<1> QED
  BY <1>2, <1>3, <1>4, <1>5, <1>6, <1>7

\* SENDING and SENDING REQUESTED: the reply stays on the wire while its bytes
\* are read.
LEMMA ReceiveFileType ==
  ASSUME TypeInv, UNCHANGED <<storeVars, loggerVars, childVars, used, faults>>,
         ReceiveSending \/ ReceiveRequested
  PROVE  TypeInv'
<1> USE DEF childVars, loggerVars, diskVars, wireVars
<1>1. /\ WireTypeOK /\ ThreadTypeOK /\ DiskTypeOK /\ ThreadForm /\ Dialogue /\ faults \in 0..MaxFaults
      /\ \A d \in Conns : Talk(d) /\ ChildForm(d)
  BY DEF TypeInv, TypeOK
<1>2. LinkUp /\ rep[tconn].op \in {"SENDING", "REQUESTED"} /\ tpc' = "body" /\ cur' = rep[tconn]
  BY DEF ReceiveSending, ReceiveRequested, Received
<1>3. tconn \in Conns /\ req[tconn].op = "none"
  BY <1>2, NothingAsked
<1>4. rep[tconn] \in Replies /\ (rep[tconn].op = "SENDING" => rep[tconn].s \in Sessions)
  BY <1>1, <1>3 DEF WireTypeOK, ChildForm
<1>5. WireTypeOK' /\ ThreadTypeOK' /\ DiskTypeOK'
  BY <1>1, <1>4 DEF ReceiveSending, ReceiveRequested, Received, WireTypeOK, ThreadTypeOK, ThreadPCs,
                    Waits, DiskTypeOK
<1>6. ThreadForm'
  BY <1>1, <1>2, <1>3 DEF ReceiveSending, ReceiveRequested, Received, ThreadForm, Fetching, ChildForm, ItemOf
<1>7. Dialogue'
  BY <1>1, <1>2, <1>3 DEF ReceiveSending, ReceiveRequested, Dialogue, LinkUp
<1>8. ASSUME NEW d \in Conns
      PROVE  Talk(d)' /\ ChildForm(d)'
  BY <1>1, <1>8 DEF ReceiveSending, ReceiveRequested, Talk, ChildForm
<1> QED
  BY <1>1, <1>5, <1>6, <1>7, <1>8, ThreadStepType

\* EMPTY: the thread turns to the remaining files.
LEMMA ReceiveEmptyType ==
  ASSUME TypeInv, UNCHANGED <<storeVars, loggerVars, childVars, used, faults>>, ReceiveEmpty
  PROVE  TypeInv'
<1> USE DEF loggerVars, diskVars
<1>1. ThreadTypeOK /\ DiskTypeOK /\ ThreadForm /\ faults \in 0..MaxFaults
  BY DEF TypeInv, TypeOK
<1>2. LinkUp /\ rep[tconn].op = "EMPTY"
  BY DEF ReceiveEmpty, Received
<1>3. tconn \in Conns /\ rep[tconn].s \in Sessions
  BY <1>2, NothingAsked DEF TypeInv, ChildForm
<1>4. ThreadTypeOK' /\ DiskTypeOK'
  BY <1>1, <1>3, SizeFacts DEF ReceiveEmpty, ThreadTypeOK, ThreadPCs, Sends, DiskTypeOK
<1>5. ThreadForm'
  BY <1>1, <1>2, <1>3, SizeFacts, ConnAssumption DEF ReceiveEmpty, ThreadForm, Fetching
<1>6. WireTypeOK' /\ Dialogue' /\ \A d \in Conns : Talk(d)' /\ ChildForm(d)'
  BY <1>2, ConsumeType DEF ReceiveEmpty
<1> QED
  BY <1>1, <1>4, <1>5, <1>6, ThreadStepType

\* copy_buffer_in_file: the reply has been read to its END.
LEMMA OpenLocalType ==
  ASSUME TypeInv, UNCHANGED <<storeVars, loggerVars, childVars, used, faults>>, OpenLocal
  PROVE  TypeInv'
<1> USE DEF loggerVars, diskVars
<1>1. ThreadTypeOK /\ DiskTypeOK /\ ThreadForm /\ faults \in 0..MaxFaults
  BY DEF TypeInv, TypeOK
<1>2. LinkUp /\ tpc = "body" /\ rep[tconn] = cur /\ rep[tconn].op # "none" /\ Consume
  BY DEF OpenLocal, TypeInv, Dialogue, ThreadForm
<1>3. tconn \in Conns /\ req[tconn].op = "none"
  BY <1>2, NothingAsked
<1>4. CASE tdir \in adirs
  <2>1. ThreadTypeOK' /\ DiskTypeOK' /\ ThreadForm'
    BY <1>1, <1>2, <1>4 DEF OpenLocal, ThreadTypeOK, ThreadPCs, DiskTypeOK, ThreadForm, Fetching
  <2>2. WireTypeOK' /\ Dialogue' /\ \A d \in Conns : Talk(d)' /\ ChildForm(d)'
    BY <1>2, <1>4, ConsumeType DEF OpenLocal
  <2> QED
    BY <1>1, <2>1, <2>2, ThreadStepType
<1>5. CASE tdir \notin adirs
  BY <1>1, <1>2, <1>3, <1>5, HangUpEndType DEF OpenLocal
<1> QED
  BY <1>4, <1>5

\* Whatever reached the disk, the thread goes on to remove the frame, or to the
\* next of the remaining files.
LEMMA AfterWriteType ==
  ASSUME TypeInv, UNCHANGED <<storeVars, loggerVars, childVars, used>>,
         faults' \in 0..MaxFaults, tpc = "write", AfterWrite,
         UNCHANGED <<run, stat, tconn, tr, tdir, folder, wireVars>>, DiskTypeOK'
  PROVE  TypeInv'
<1> USE DEF loggerVars, childVars, wireVars
<1>1. /\ WireTypeOK /\ ThreadTypeOK /\ ThreadForm /\ Dialogue
      /\ \A d \in Conns : Talk(d) /\ ChildForm(d)
      /\ made \subseteq Items
  BY DEF TypeInv, TypeOK, LoggerTypeOK
<1>2. NoRep \in Replies /\ ~NoRep.ok
  BY DEF NoRep, Reply, Replies, ReplyOps
<1>3. LinkUp => req[tconn].op = "none" /\ rep[tconn].op = "none"
  BY NothingAsked
<1>4. cur.op # "SENDING" => xi \in 1..NumExtras
  BY <1>1, SizeFacts DEF ThreadForm, Fetching, ThreadTypeOK
<1>5. WireTypeOK' /\ ThreadTypeOK'
  BY <1>1, <1>2, <1>4, SizeFacts DEF AfterWrite, WireTypeOK, ThreadTypeOK, ThreadPCs, Sends
<1>6. ThreadForm'
  BY <1>1, <1>2, <1>4, SizeFacts DEF AfterWrite, ThreadForm, Fetching
<1>7. Dialogue'
  BY <1>3 DEF AfterWrite, Dialogue, LinkUp
<1>8. ASSUME NEW d \in Conns
      PROVE  Talk(d)' /\ ChildForm(d)'
  BY <1>1, <1>8 DEF Talk, ChildForm
<1> QED
  BY <1>5, <1>6, <1>7, <1>8, ThreadStepType

LEMMA CloseLocalType ==
  ASSUME TypeInv, UNCHANGED <<storeVars, loggerVars, childVars, used, faults>>, CloseLocal
  PROVE  TypeInv'
<1>1. DiskTypeOK /\ ThreadForm /\ faults \in 0..MaxFaults /\ made \subseteq Items
  BY DEF TypeInv, TypeOK, LoggerTypeOK
<1>2. DiskTypeOK'
  BY <1>1 DEF CloseLocal, DiskTypeOK, ThreadForm
<1> QED
  BY <1>1, <1>2, AfterWriteType DEF CloseLocal

\* Every step of the thread.
LEMMA ThreadType == TypeInv /\ Thread => TypeInv'
  BY OpenConnectionType, TcpSendType, RoundEndType, ReceiveFileType, ReceiveEmptyType,
     OpenLocalType, CloseLocalType DEF Thread, ThreadStep

\* A step that only touches t->running, t->status and what the stack holds,
\* or starts a thread that has no connection yet.
LEMMA KeysType ==
  ASSUME TypeInv, UNCHANGED <<storeVars, loggerVars, childVars, wireVars, diskVars, used, faults>>,
         UNCHANGED <<tconn, folder, xi, cur>>,
         tpc' = tpc \/ (tpc = "off" /\ tpc' = "connect"),
         run' \in BOOLEAN, stat' \in {-2, -1, 0, 1},
         tr' \in Sessions \cup {NoSession}, tdir' \in Sessions \cup {NoSession}
  PROVE  TypeInv'
<1> USE DEF loggerVars, diskVars, childVars, wireVars
<1>1. /\ WireTypeOK /\ ThreadTypeOK /\ DiskTypeOK /\ ThreadForm /\ Dialogue /\ faults \in 0..MaxFaults
      /\ \A d \in Conns : Talk(d) /\ ChildForm(d)
  BY DEF TypeInv, TypeOK
<1>2. WireTypeOK' /\ ThreadTypeOK' /\ DiskTypeOK'
  BY <1>1 DEF WireTypeOK, ThreadTypeOK, ThreadPCs, DiskTypeOK
<1>3. ThreadForm'
  BY <1>1 DEF ThreadForm, Fetching
<1>4. Dialogue'
  BY <1>1 DEF Dialogue, LinkUp, ThreadForm
<1>5. \A d \in Conns : Talk(d)' /\ ChildForm(d)'
  BY <1>1 DEF Talk, ChildForm
<1> QED
  BY <1>1, <1>2, <1>3, <1>4, <1>5, ThreadStepType

\* Every command of the user.
LEMMA UserType == TypeInv /\ User => TypeInv'
<1> SUFFICES ASSUME TypeInv, User PROVE TypeInv'
  OBVIOUS
<1>1. ThreadTypeOK
  BY DEF TypeInv, TypeOK
<1>2. CASE KeyTransmit \/ ResumeTransmission
  <2>1. run' \in BOOLEAN
    BY <1>2, Zenon DEF KeyTransmit, ResumeTransmission, CreateTransmissionThread
  <2> QED
    BY <1>1, <1>2, <2>1, KeysType DEF KeyTransmit, ResumeTransmission, CreateTransmissionThread, ThreadTypeOK
<1>3. CASE KeyStopTransmission \/ RestartClient
  <2>1. run' \in BOOLEAN
    BY <1>3, Zenon DEF KeyStopTransmission, RestartClient
  <2> QED
    BY <1>1, <1>3, <2>1, KeysType DEF KeyStopTransmission, RestartClient, ThreadTypeOK
<1> QED
  BY <1>2, <1>3, KeyStartType, KeyStopType DEF User

\* The loss of a connection takes the reply with it.
LEMMA CutType ==
  ASSUME TypeInv, NEW c \in Conns, NEW keep \in BOOLEAN, link[c] = "up",
         cpc[c] # "idle" => keep, Cut(c, keep),
         UNCHANGED <<childVars, made>>,
         \/ tconn' = tconn /\ cur' = cur /\ tpc' = tpc
         \/ tconn' = NoConn /\ c = tconn
  PROVE  WireTypeOK' /\ Dialogue' /\ \A d \in Conns : Talk(d)' /\ ChildForm(d)'
<1> USE DEF childVars
<1>1. WireTypeOK /\ ChildTypeOK /\ Dialogue /\ \A d \in Conns : Talk(d) /\ ChildForm(d)
  BY DEF TypeInv, TypeOK
<1>2. NoRep \in Replies /\ NoRep.op = "none" /\ ~NoRep.ok /\ NoReq \in Requests /\ NoReq.op = "none"
  BY DEF NoRep, Reply, Replies, ReplyOps, NoReq, Request, Requests, RequestOps
<1>3. WireTypeOK'
  BY <1>1, <1>2 DEF Cut, WireTypeOK
<1>4. Dialogue'
  <2>1. LinkUp' => LinkUp /\ tconn' = tconn /\ tconn # c
    BY <1>1 DEF LinkUp, Cut, WireTypeOK
  <2>2. ASSUME LinkUp' PROVE rep'[tconn] = rep[tconn] /\ req'[tconn] = req[tconn] /\ cur' = cur /\ tpc' = tpc
    BY <1>1, <2>1, <2>2 DEF LinkUp, Cut, WireTypeOK
  <2> QED
    BY <1>1, <2>1, <2>2 DEF Dialogue
<1>5. ASSUME NEW d \in Conns
      PROVE  Talk(d)' /\ ChildForm(d)'
  <2>1. CASE d = c
    BY <1>1, <1>2, <2>1 DEF Cut, WireTypeOK, ChildTypeOK, ChildPCs, Talk, ChildForm
  <2>2. CASE d # c
    BY <1>1, <2>2 DEF Cut, WireTypeOK, Talk, ChildForm
  <2> QED
    BY <2>1, <2>2
<1> QED
  BY <1>3, <1>4, <1>5

\* Every fault.
LEMMA FaultyType == TypeInv /\ Faulty => TypeInv'
<1> SUFFICES ASSUME TypeInv, Faulty PROVE TypeInv'
  OBVIOUS
<1>1. ThreadTypeOK /\ DiskTypeOK /\ ThreadForm
  BY DEF TypeInv, TypeOK
<1>2. ASSUME NEW kind, Fault(kind) PROVE faults' \in 0..MaxFaults
  BY <1>2, FaultAssumption DEF Fault, TypeInv, TypeOK
<1>3. ASSUME NEW c \in Conns, BreakLink(c) PROVE TypeInv'
  <2> USE DEF threadVars, diskVars, loggerVars
  <2>1. faults' \in 0..MaxFaults
    BY <1>2, <1>3 DEF BreakLink
  <2>2. WireTypeOK' /\ Dialogue' /\ \A d \in Conns : Talk(d)' /\ ChildForm(d)'
    <3>1. PICK keep \in BOOLEAN : (cpc[c] # "idle" => keep) /\ Cut(c, keep)
      BY <1>3 DEF BreakLink
    <3>2. link[c] = "up" /\ UNCHANGED <<childVars, made>> /\ tconn' = tconn /\ cur' = cur /\ tpc' = tpc
      BY <1>3 DEF BreakLink
    <3> QED
      BY <3>1, <3>2, CutType
  <2>3. ThreadTypeOK' /\ DiskTypeOK' /\ ThreadForm'
    BY <1>1, <1>3 DEF BreakLink, ThreadTypeOK, DiskTypeOK, ThreadForm, Fetching
  <2> QED
    BY <1>3, <2>1, <2>2, <2>3, ThreadStepType DEF BreakLink
<1>4. CASE CrashClient
  <2> USE DEF diskVars, loggerVars
  <2>1. faults' \in 0..MaxFaults
    BY <1>2, <1>4 DEF CrashClient
  <2>2. WireTypeOK' /\ Dialogue' /\ \A d \in Conns : Talk(d)' /\ ChildForm(d)'
    <3>1. CASE LinkUp
      <4>1. tconn \in Conns /\ link[tconn] = "up" /\ Cut(tconn, TRUE) /\ tconn' = NoConn
            /\ UNCHANGED <<childVars, made>>
        BY <1>1, <1>4, <3>1 DEF CrashClient, ThreadTypeOK, LinkUp
      <4>2. TRUE \in BOOLEAN
        OBVIOUS
      <4> QED
        BY <4>1, <4>2, CutType
    <3>2. CASE ~LinkUp
      BY <1>4, <3>2, QuietLeave DEF CrashClient
    <3> QED
      BY <3>1, <3>2
  <2>3. run' \in BOOLEAN
    BY <1>4, Zenon DEF CrashClient
  <2>4. NoRep \in Replies /\ ~NoRep.ok
    BY DEF NoRep, Reply, Replies, ReplyOps
  <2>5. ThreadTypeOK' /\ DiskTypeOK' /\ ThreadForm'
    BY <1>1, <1>4, <2>3, <2>4, SizeFacts DEF CrashClient, ThreadTypeOK, ThreadPCs, DiskTypeOK, ThreadForm, Fetching
  <2> QED
    BY <1>4, <2>1, <2>2, <2>5, ThreadStepType DEF CrashClient
<1>5. CASE RefuseConnection
  <2>1. ~LinkUp
    BY <1>1, <1>5 DEF RefuseConnection, ConnectFails, ThreadForm, LinkUp
  <2> QED
    BY <1>2, <1>5, <2>1, QuietEndType DEF RefuseConnection, ConnectFails
<1>6. CASE FailWrite
  <2>1. CASE LinkUp
    <3>1. req[tconn].op = "none" /\ rep[tconn].op = "none"
      BY <1>6, <2>1, NothingAsked DEF FailWrite, WriteFails
    <3> QED
      BY <1>2, <1>6, <2>1, <3>1, HangUpEndType DEF FailWrite, WriteFails, HangUp
  <2>2. CASE ~LinkUp
    BY <1>2, <1>6, <2>2, QuietEndType DEF FailWrite, WriteFails, wireVars
  <2> QED
    BY <2>1, <2>2
<1>7. CASE FailFlush
  <2>1. DiskTypeOK'
    BY <1>1, <1>7 DEF FailFlush, FlushFails, diskVars, DiskTypeOK
  <2> QED
    BY <1>2, <1>7, <2>1, AfterWriteType DEF FailFlush, FlushFails
<1>8. ASSUME NEW c \in Conns, FailCount(c) PROVE TypeInv'
  <2>1. faults' \in 0..MaxFaults /\ UNCHANGED <<storeVars, loggerVars, threadVars, diskVars, used>>
    BY <1>2, <1>8 DEF FailCount, NoCount
  <2>2. link[c] # "free" /\ req[c].op = "SEND_NEXT"
    BY <1>8, ChildBusy DEF FailCount, NoCount
  <2>3. AnswerError(c)
    BY <1>8 DEF FailCount, NoCount
  <2>4. WireTypeOK' /\ ChildTypeOK' /\ Dialogue' /\ \A d \in Conns : Talk(d)' /\ ChildForm(d)'
    BY <2>1, <2>2, <2>3, ErrorFits
  <2>5. StoreTypeOK' /\ LoggerTypeOK' /\ ThreadTypeOK' /\ DiskTypeOK' /\ used' \subseteq Sessions
    BY <2>1 DEF TypeInv, TypeOK, StoreTypeOK, LoggerTypeOK, ThreadTypeOK, DiskTypeOK,
                storeVars, loggerVars, threadVars, diskVars
  <2>6. LoggerForm' /\ ThreadForm'
    BY <2>1 DEF TypeInv, LoggerForm, LoggerActive, ThreadForm, Fetching, loggerVars, threadVars
  <2> QED
    BY <2>1, <2>4, <2>5, <2>6 DEF TypeInv, TypeOK
<1> QED
  BY <1>3, <1>4, <1>5, <1>6, <1>7, <1>8, KillLoggerType DEF Faulty

\* TypeInv is inductive.
LEMMA TypeNext == TypeInv /\ [Next]_vars => TypeInv'
<1> SUFFICES ASSUME TypeInv, [Next]_vars PROVE TypeInv'
  OBVIOUS
<1>1. CASE Next
  BY <1>1, LoggerType, ChildType, ThreadType, UserType, FaultyType DEF Next
<1>2. CASE UNCHANGED vars
  BY <1>2 DEF vars, storeVars, loggerVars, wireVars, childVars, threadVars, diskVars,
     TypeInv, TypeOK, StoreTypeOK, LoggerTypeOK, WireTypeOK, ChildTypeOK, ThreadTypeOK, DiskTypeOK,
     LoggerForm, LoggerActive, ThreadForm, Fetching, Dialogue, LinkUp, Talk, ChildForm
<1> QED
  BY <1>1, <1>2

\* Every reachable state satisfies TypeInv.
THEOREM TypeInvariant == Spec => []TypeInv
  BY TypeInit, TypeNext, PTL DEF Spec

\* The state of the drone, the wire, the thread and the disk keeps its types,
\* whatever the clock, the user and the faults do.
THEOREM TypeCorrect == Spec => []TypeOK
<1>1. TypeInv => TypeOK
  BY DEF TypeInv
<1> QED
  BY <1>1, TypeInvariant, PTL
=============================================================================
