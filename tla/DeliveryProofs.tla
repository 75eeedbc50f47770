--------------------------- MODULE DeliveryProofs ---------------------------
(***************************************************************************)
(* What arrives at the client: frames in order (OrderInv), nothing that is *)
(* lost again (Kept), complete sessions (FinalInv), and, without a fault,  *)
(* nothing twice (OnceInv).  Each rests on SafeInv and MadeOnce.           *)
(***************************************************************************)
EXTENDS HandoverProofs

(* Frames arrive in order.                                                 *)

\* OlderDone speaks of the logger, of what is made and of what is delivered.
LEMMA OlderDoneKept ==
  ASSUME UNCHANGED <<made, used, lpc, lsess, lcnt>>, delivered \subseteq delivered'
  PROVE  \A s, n : OlderDone(s, n) => OlderDone(s, n)'
  BY DEF OlderDone, LoggerActive, Newest

\* There is no frame at the start.
LEMMA OrderInit == Init => OrderInv
<1> SUFFICES ASSUME Init PROVE OrderInv
  OBVIOUS
<1> USE DEF Init, LoggerInit, WireInit, ChildInit, ThreadInit, DiskInit
<1>1. NoRep.op = "none"
  BY DEF NoRep, Reply
<1>2. delivered \subseteq made /\ DeliveredInOrder /\ ThreadInOrder
  BY DEF DeliveredInOrder, ThreadInOrder
<1>3. ASSUME NEW c \in Conns PROVE ScanInOrder(c) /\ ReplyInOrder(c)
  BY <1>1, <1>3 DEF ScanInOrder, ReplyInOrder
<1> QED
  BY <1>2, <1>3 DEF OrderInv

\* A step that leaves the connections and the thread alone: what they rely on
\* survives when OlderDone and Removed do.
LEMMA DroneStepOrder ==
  ASSUME TypeInv, OrderInv, UNCHANGED <<wireVars, childVars, threadVars>>,
         \A s, n \in Nat : OlderDone(s, n) => OlderDone(s, n)',
         \A s \in Nat : Removed(s) => Removed(s)',
         (delivered \subseteq made)', DeliveredInOrder'
  PROVE  OrderInv'
<1> USE DEF wireVars, childVars, threadVars
<1>1. ThreadTypeOK /\ WireTypeOK /\ ChildTypeOK
  BY DEF TypeInv, TypeOK
<1>2. ThreadInOrder'
  <2>1. cur.s \in Nat /\ cur.k \in Nat
    BY <1>1 DEF ThreadTypeOK, Replies
  <2> QED
    BY <2>1 DEF OrderInv, ThreadInOrder
<1>3. ASSUME NEW c \in Conns PROVE ScanInOrder(c)' /\ ReplyInOrder(c)'
  <2>1. nd[c].first \in Nat /\ nf[c].first \in Nat /\ rep[c].s \in Nat /\ rep[c].k \in Nat
    BY <1>1 DEF ChildTypeOK, WireTypeOK, ScanResults, Replies
  <2> QED
    BY <2>1 DEF OrderInv, ScanInOrder, ReplyInOrder
<1> QED
  BY <1>2, <1>3 DEF OrderInv

\* The logger makes its frames in order, and each is newer than all it has made
\* before.
LEMMA LoggerOrder ==
  ASSUME TypeInv, SafeInv, MadeOnce, OrderInv, Logger
  PROVE  OrderInv'
<1>1. /\ LoggerSafe /\ LoggerTypeOK /\ LoggerForm /\ used \subseteq Sessions /\ made \subseteq Items
      /\ UNCHANGED <<wireVars, childVars, threadVars, used, delivered>>
  BY DEF SafeInv, TypeInv, TypeOK, Logger, LoggerTypeOK, diskVars
<1>2. lcnt \in Nat /\ (LoggerActive => lsess \in Sessions /\ lsess \in used)
  BY <1>1, SizeFacts DEF LoggerTypeOK, LoggerForm, LoggerSafe
<1>3. /\ lsess' = lsess /\ LoggerActive
      /\ LoggerActive' => Newest' >= Newest
      /\ Newest \in Int /\ Newest' \in Int
  BY <1>2 DEF Logger, LoggerStep, InstallHandlers, MakeSessionDir, MakeTofDir, OpenFrame, CloseFrame, LeaveLoop,
     OpenExtra, CloseExtra, LoggerDone, CopyFails, LoggerActive, Newest
<1>4. /\ made \subseteq made' /\ made' \subseteq made \cup {Pcd(lsess, lcnt), Ext(lsess, lext)}
      /\ Pcd(lsess, lcnt) \in made' \ made => Newest = lcnt
      /\ \A s : s \notin tofs /\ s # lsess => s \notin tofs'
  BY OpensNew DEF Logger, LoggerStep, InstallHandlers, MakeSessionDir, MakeTofDir, OpenFrame, CloseFrame, LeaveLoop,
     OpenExtra, CloseExtra, LoggerDone, CopyFails, storeVars, Newest, Pcd, Ext
<1>5. ASSUME NEW s \in Nat, NEW n \in Nat, OlderDone(s, n) PROVE OlderDone(s, n)'
  <2>1. s \in used /\ s <= lsess /\ lsess \in Nat
    BY <1>1, <1>2, <1>3, <1>5, SizeFacts DEF OlderDone, LoggerSafe
  <2>2. LoggerActive' /\ lsess = s => n <= Newest'
    BY <1>3, <1>5 DEF OlderDone
  <2>3. ASSUME NEW item \in made', OlderFrame(item, Pcd(s, n)) PROVE item \in delivered
    <3>1. CASE item \in made
      BY <1>5, <2>3, <3>1 DEF OlderDone
    <3>2. CASE item = Pcd(lsess, lcnt) /\ item \notin made
      <4>1. lsess < s \/ (lsess = s /\ lcnt < n)
        BY <2>3, <3>2 DEF OlderFrame, Pcd, SessionOf
      <4> QED
        BY <1>2, <1>3, <1>4, <1>5, <2>1, <3>2, <4>1 DEF OlderDone
    <3>3. CASE item = Ext(lsess, lext)
      BY <2>3, <3>3 DEF OlderFrame, Ext
    <3> QED
      BY <1>4, <3>1, <3>2, <3>3
  <2> QED
    BY <1>1, <1>3, <2>1, <2>2, <2>3 DEF OlderDone
<1>6. \A s \in Nat : Removed(s) => Removed(s)'
  BY <1>1, <1>3, <1>4 DEF Removed, Over
<1>7. (delivered \subseteq made)'
  BY <1>1, <1>4 DEF OrderInv
<1>8. DeliveredInOrder'
  <2> SUFFICES ASSUME NEW missing \in made' \ delivered, NEW item \in delivered
               PROVE  ~OlderFrame(missing, item)
    BY <1>1 DEF DeliveredInOrder
  <2>1. CASE missing \in made
    BY <2>1 DEF OrderInv, DeliveredInOrder
  <2>2. CASE missing = Pcd(lsess, lcnt) /\ missing \notin made
    <3>1. item \in made /\ item \in Items /\ SessionOf(item) \in used /\ SessionOf(item) <= lsess
      BY <1>1 DEF OrderInv, MadeOnce, OlderMade, LoggerSafe
    <3>2. SessionOf(item) \in Nat /\ lsess \in Nat
      BY <1>1, <1>2, <1>3, <3>1, SizeFacts
    <3>3. CASE \E n \in Frames : item = Pcd(SessionOf(item), n)
      <4>1. PICK n \in Frames : item = Pcd(SessionOf(item), n)
        BY <3>3
      <4>2. SessionOf(item) = lsess => n < lcnt
        BY <1>3, <3>1, <4>1 DEF MadeOnce, OlderMade
      <4>3. item[2] = "pcd" /\ item[3] = n /\ missing[3] = lcnt /\ SessionOf(missing) = lsess
        BY <2>2, <4>1 DEF Pcd, SessionOf
      <4> QED
        BY <1>2, <3>1, <3>2, <4>2, <4>3, SizeFacts DEF OlderFrame
    <3>4. CASE \E i \in Extras : item = Ext(SessionOf(item), i)
      BY <3>4 DEF OlderFrame, Ext
    <3> QED
      BY <3>1, <3>3, <3>4, ItemFacts
  <2>3. CASE missing = Ext(lsess, lext)
    BY <2>3 DEF OlderFrame, Ext
  <2> QED
    BY <1>4, <2>1, <2>2, <2>3
<1> QED
  BY <1>1, <1>5, <1>6, <1>7, <1>8, DroneStepOrder

-----------------------------------------------------------------------------
(* The children of the server.                                             *)

\* A child that answers has nothing left to do; what counts is its reply.
LEMMA AnswerOrder ==
  ASSUME TypeInv, NEW c \in Conns, NEW r, Answer(c, r), ReplyInOrder(c),
         \A s, n : OlderDone(s, n)' = OlderDone(s, n),
         r.op = "SENDING" => OlderDone(r.s, r.k)
  PROVE  ScanInOrder(c)' /\ ReplyInOrder(c)'
<1>1. cpc'[c] = "idle" /\ (rep'[c] = r \/ rep'[c] = rep[c])
  BY DEF TypeInv, TypeOK, WireTypeOK, ChildTypeOK, Answer
<1> QED
  BY <1>1 DEF ScanInOrder, ReplyInOrder

LEMMA AnswerErrorOrder ==
  ASSUME TypeInv, NEW c \in Conns, AnswerError(c), ReplyInOrder(c),
         \A s, n : OlderDone(s, n)' = OlderDone(s, n)
  PROVE  ScanInOrder(c)' /\ ReplyInOrder(c)'
<1> DEFINE r == Reply("ERROR", NoSession, 0, FALSE)
<1>1. Answer(c, r) /\ r.op # "SENDING"
  BY DEF AnswerError, Reply
<1> HIDE DEF r
<1> QED
  BY <1>1, AnswerOrder

\* FindNextFile: the lowest frame of the oldest session is the next one, because
\* what is older and made has left the drone.
LEMMA FoundInOrder ==
  ASSUME TypeInv, SafeInv, NEW s \in tofs, Oldest(s), FindNextFile(s).count # 0
  PROVE  OlderDone(s, FindNextFile(s).first)
<1> DEFINE n == FindNextFile(s).first
<1>1. LoggerSafe /\ RemovedOnlyAfterWritten /\ made \subseteq Items /\ dirs \subseteq Sessions
  BY DEF SafeInv, TypeInv, TypeOK, StoreTypeOK, LoggerTypeOK
<1>2. s \in dirs /\ s \in used
  BY <1>1 DEF LoggerSafe
<1>3. FrameNumbers(s) \subseteq 0..NumFrames /\ NumFrames \in Nat
  BY SizeFacts DEF FrameNumbers
<1>4. n \in FrameNumbers(s) /\ \A m \in FrameNumbers(s) : n <= m
  BY <1>3, ScanFacts DEF FindNextFile
<1>5. LoggerActive /\ lsess = s => n <= Newest
  BY <1>1, <1>4 DEF LoggerSafe, FrameNumbers
<1>6. ASSUME NEW item \in made, OlderFrame(item, Pcd(s, n)) PROVE item \in delivered
  <2>1. SUFFICES ASSUME item \in files PROVE FALSE
    BY <1>1, <1>6 DEF RemovedOnlyAfterWritten
  <2>2. SessionOf(item) \in dirs /\ s <= SessionOf(item) /\ SessionOf(item) \in Nat /\ s \in Nat
    BY <1>1, <1>2, <2>1, SizeFacts DEF LoggerSafe, Oldest
  <2>3. item[2] = "pcd" /\ (SessionOf(item) < s \/ (SessionOf(item) = s /\ item[3] < n))
    BY <1>6 DEF OlderFrame, Pcd, SessionOf
  <2>4. PICK m \in Frames : item = Pcd(SessionOf(item), m)
    <3>1. \A i \in Extras : item # Ext(SessionOf(item), i)
      BY <2>3 DEF Ext
    <3> QED
      BY <1>1, <3>1, ItemFacts
  <2>5. item[3] = m /\ SessionOf(item) = s
    BY <2>2, <2>3, <2>4 DEF Pcd
  <2>6. m \in FrameNumbers(s)
    BY <2>1, <2>4, <2>5 DEF FrameNumbers
  <2> HIDE DEF n
  <2> QED
    BY <1>3, <1>4, <2>3, <2>5, <2>6, <2>2
<1> QED
  BY <1>2, <1>5, <1>6 DEF OlderDone

\* A step of child c: the frame it announces is the next one.
LEMMA ChildScanOrder ==
  ASSUME TypeInv, SafeInv, OrderInv, NEW c \in Conns, Child(c),
         \A s, n : OlderDone(s, n)' = OlderDone(s, n),
         \A s : Removed(s) => Removed(s)'
  PROVE  ScanInOrder(c)' /\ ReplyInOrder(c)'
<1>1. /\ ReplyInOrder(c) /\ ScanInOrder(c) /\ ScanSafe(c) /\ LoggerSafe
      /\ WireTypeOK /\ ChildTypeOK /\ dirs \subseteq Sessions
  BY DEF OrderInv, SafeInv, TypeInv, TypeOK, StoreTypeOK
<1>2. CASE ScanDirs(c)
  <2>1. rep' = rep /\ cpc'[c] \in {"logger", "files"} /\ (cpc'[c] = "logger" => nd'[c] = Scan({}))
    BY <1>1, <1>2 DEF ScanDirs, FindFirstDir, wireVars, ChildTypeOK
  <2>2. Scan({}).count = 0
    BY FS_EmptySet DEF Scan
  <2> QED
    BY <1>1, <2>1, <2>2 DEF ScanInOrder, ReplyInOrder
<1>3. CASE FindTof(c)
  <2>1. CASE AnswerError(c)
    BY <1>1, <2>1, AnswerErrorOrder
  <2>2. CASE cpc' = [cpc EXCEPT ![c] = "read"] /\ UNCHANGED wireVars
    BY <1>1, <2>2 DEF wireVars, ChildTypeOK, ScanInOrder, ReplyInOrder
  <2> QED
    BY <1>3, <2>1, <2>2 DEF FindTof
<1>4. CASE ScanFiles(c)
  <2>1. /\ cpc[c] = "read" /\ cpc'[c] = "logger" /\ rep' = rep /\ nd' = nd
        /\ nd[c].first \in tofs => nf'[c] = FindNextFile(nd[c].first)
    BY <1>1, <1>4 DEF ScanFiles, wireVars, ChildTypeOK
  <2>2. nd[c].count # 0 => Oldest(nd[c].first) /\ (nd[c].first \in tofs \/ Removed(nd[c].first))
    BY <1>1, <2>1 DEF ScanSafe
  <2>3. CASE nd[c].first \in tofs
    BY <1>1, <2>1, <2>2, <2>3, FoundInOrder DEF ScanInOrder, ReplyInOrder
  <2>4. CASE nd[c].first \notin tofs
    BY <1>1, <2>1, <2>2, <2>4 DEF ScanInOrder, ReplyInOrder
  <2> QED
    BY <2>3, <2>4
<1>5. CASE CheckLogger(c)
  <2>1. CASE Answer(c, Reply("NO_TR", NoSession, 0, FALSE))
    <3>1. Reply("NO_TR", NoSession, 0, FALSE).op # "SENDING"
      BY DEF Reply
    <3> QED
      BY <1>1, <2>1, <3>1, AnswerOrder
  <2>2. CASE Answer(c, Reply("WAIT", NoSession, 0, FALSE))
    <3>1. Reply("WAIT", NoSession, 0, FALSE).op # "SENDING"
      BY DEF Reply
    <3> QED
      BY <1>1, <2>2, <3>1, AnswerOrder
  <2>3. CASE Answer(c, Reply("EMPTY", nd[c].first, 0, FALSE))
    <3>1. Reply("EMPTY", nd[c].first, 0, FALSE).op # "SENDING"
      BY DEF Reply
    <3> QED
      BY <1>1, <2>3, <3>1, AnswerOrder
  <2>4. CASE /\ nd[c].count # 0 /\ nf[c].count >= MinCount(c)
             /\ cpc' = [cpc EXCEPT ![c] = "compress"] /\ UNCHANGED <<wireVars, nd, nf>>
    <3>1. nf[c].count # 0
      BY <1>1, <2>4 DEF MinCount, ChildTypeOK, ScanResults
    <3> QED
      BY <1>1, <1>5, <2>4, <3>1 DEF CheckLogger, wireVars, ChildTypeOK, ScanInOrder, ReplyInOrder
  <2> QED
    BY <1>5, <2>1, <2>2, <2>3, <2>4 DEF CheckLogger
<1>6. CASE SendNextFile(c)
  <2> DEFINE s == nd[c].first
             n == nf[c].first
             r == Reply("SENDING", s, n, Pcd(s, n) \in made)
  <2>1. CASE AnswerError(c)
    BY <1>1, <2>1, AnswerErrorOrder
  <2>2. CASE Pcd(s, n) \in files /\ Answer(c, r)
    <3>1. s \in tofs /\ r.s = s /\ r.k = n
      BY <1>1, <2>2, ItemFacts DEF LoggerSafe, Reply
    <3>2. OlderDone(s, n)
      BY <1>1, <1>6, <3>1 DEF SendNextFile, ScanInOrder, Removed
    <3> HIDE DEF r
    <3> QED
      BY <1>1, <2>2, <3>1, <3>2, AnswerOrder
  <2> QED
    BY <1>6, <2>1, <2>2 DEF SendNextFile, CompressAndSend
<1>7. CASE SendFile(c)
  <2> DEFINE r == Reply("REQUESTED", req[c].s, req[c].k, Ext(req[c].s, req[c].k) \in made)
  <2>1. Answer(c, r) \/ AnswerError(c)
    BY <1>7 DEF SendFile, CompressAndSend
  <2>2. r.op # "SENDING"
    BY DEF Reply
  <2> HIDE DEF r
  <2> QED
    BY <1>1, <2>1, <2>2, AnswerOrder, AnswerErrorOrder
<1>8. CASE RemoveFile(c) \/ UnlinkTree(c) \/ RemoveDir(c)
  <2> DEFINE r == Reply("REMOVED", req[c].s, 0, FALSE)
  <2>1. Answer(c, r) \/ AnswerError(c) \/ (cpc' = [cpc EXCEPT ![c] = "rmrf"] /\ UNCHANGED wireVars)
    BY <1>8 DEF RemoveFile, UnlinkTree, RemoveDir
  <2>2. r.op # "SENDING"
    BY DEF Reply
  <2>3. CASE cpc' = [cpc EXCEPT ![c] = "rmrf"] /\ UNCHANGED wireVars
    BY <1>1, <2>3 DEF wireVars, ChildTypeOK, ScanInOrder, ReplyInOrder
  <2> HIDE DEF r
  <2> QED
    BY <1>1, <2>1, <2>2, <2>3, AnswerOrder, AnswerErrorOrder
<1>9. CASE ChildEnds(c)
  BY <1>1, <1>9 DEF ChildEnds, ChildTypeOK, ScanInOrder, ReplyInOrder
<1> QED
  BY <1>2, <1>3, <1>4, <1>5, <1>6, <1>7, <1>8, <1>9 DEF Child, ChildStep

\* What a child does concerns its own connection, and the store only shrinks.
LEMMA ChildFrame ==
  ASSUME TypeInv, NEW c \in Conns, Child(c)
  PROVE  /\ UNCHANGED <<loggerVars, threadVars, diskVars, used>>
         /\ dirs' \subseteq dirs /\ tofs' \subseteq tofs /\ files' \subseteq files
         /\ \A d \in Conns \ {c} : /\ link'[d] = link[d] /\ req'[d] = req[d] /\ rep'[d] = rep[d]
                                   /\ cpc'[d] = cpc[d] /\ nd'[d] = nd[d] /\ nf'[d] = nf[d]
<1>1. WireTypeOK /\ ChildTypeOK
  BY DEF TypeInv, TypeOK
<1>2. UNCHANGED <<loggerVars, threadVars, diskVars, used>> /\ ChildStep(c)
  BY DEF Child
<1>3. dirs' \subseteq dirs /\ tofs' \subseteq tofs /\ files' \subseteq files
  BY <1>2 DEF ChildStep, ScanDirs, FindTof, ScanFiles, CheckLogger, SendNextFile, SendFile, CompressAndSend,
     RemoveFile, UnlinkTree, RemoveDir, ChildEnds, FilesOf, storeVars
<1>4. ASSUME NEW d \in Conns \ {c}
      PROVE  /\ link'[d] = link[d] /\ req'[d] = req[d] /\ rep'[d] = rep[d]
             /\ cpc'[d] = cpc[d] /\ nd'[d] = nd[d] /\ nf'[d] = nf[d]
  <2>1. ASSUME NEW r, Answer(c, r)
        PROVE  /\ link'[d] = link[d] /\ req'[d] = req[d] /\ rep'[d] = rep[d]
               /\ cpc'[d] = cpc[d] /\ nd'[d] = nd[d] /\ nf'[d] = nf[d]
    BY <1>1, <2>1 DEF Answer, WireTypeOK, ChildTypeOK
  <2>2. CASE \E r : Answer(c, r)
    BY <2>1, <2>2
  <2>3. CASE ~\E r : Answer(c, r)
    <3>1. \/ ScanDirs(c) \/ ScanFiles(c) \/ ChildEnds(c)
          \/ UNCHANGED <<wireVars, nd, nf>> /\ \E pc : cpc' = [cpc EXCEPT ![c] = pc]
      BY <1>2, <2>3 DEF ChildStep, FindTof, CheckLogger, SendNextFile, SendFile, CompressAndSend, RemoveFile,
         UnlinkTree, RemoveDir, AnswerError
    <3> QED
      BY <1>1, <3>1 DEF ScanDirs, ScanFiles, ChildEnds, wireVars, WireTypeOK, ChildTypeOK
  <2> QED
    BY <2>2, <2>3
<1> QED
  BY <1>2, <1>3, <1>4

LEMMA ChildOrder ==
  ASSUME TypeInv, SafeInv, OrderInv, NEW c \in Conns, Child(c)
  PROVE  OrderInv'
<1>1. /\ UNCHANGED <<lpc, lsess, lcnt, made, tpc, cur, delivered, used>> /\ tofs' \subseteq tofs
      /\ \A d \in Conns \ {c} : rep'[d] = rep[d] /\ cpc'[d] = cpc[d] /\ nd'[d] = nd[d] /\ nf'[d] = nf[d]
  BY ChildFrame DEF loggerVars, threadVars, diskVars
<1>2. /\ \A s, n : OlderDone(s, n)' = OlderDone(s, n)
      /\ \A s : Removed(s) => Removed(s)'
  BY <1>1 DEF OlderDone, LoggerActive, Newest, Removed, Over
<1>3. ScanInOrder(c)' /\ ReplyInOrder(c)'
  BY <1>2, ChildScanOrder
<1>4. (delivered \subseteq made)' /\ DeliveredInOrder' /\ ThreadInOrder'
  BY <1>1, <1>2 DEF OrderInv, DeliveredInOrder, ThreadInOrder
<1>5. \A d \in Conns \ {c} : ScanInOrder(d)' /\ ReplyInOrder(d)'
  BY <1>1, <1>2 DEF OrderInv, ScanInOrder, ReplyInOrder
<1> QED
  BY <1>3, <1>4, <1>5 DEF OrderInv

-----------------------------------------------------------------------------
(* The client.                                                             *)

\* A step of the client: the drone is as it was, and replies only go.
LEMMA ClientOrder ==
  ASSUME TypeInv, OrderInv, UNCHANGED <<storeVars, loggerVars, childVars, used>>,
         delivered \subseteq delivered', (delivered \subseteq made)', DeliveredInOrder',
         \A c \in Conns : rep'[c] = rep[c] \/ rep'[c].op = "none",
         \/ tpc' \notin {"body", "write"}
         \/ cur'.op # "SENDING"
         \/ OlderDone(cur'.s, cur'.k)
  PROVE  OrderInv'
<1>1. /\ \A s, n : OlderDone(s, n) => OlderDone(s, n)'
      /\ \A s : Removed(s)' = Removed(s)
  BY OlderDoneKept DEF storeVars, loggerVars, Removed, Over, LoggerActive
<1>2. ThreadInOrder'
  BY <1>1 DEF ThreadInOrder
<1>3. ASSUME NEW c \in Conns PROVE ScanInOrder(c)' /\ ReplyInOrder(c)'
  BY <1>1, <1>3 DEF OrderInv, ScanInOrder, ReplyInOrder, childVars
<1> QED
  BY <1>2, <1>3 DEF OrderInv

\* The frame the thread writes is the next one.
LEMMA CloseLocalOrder ==
  ASSUME TypeInv, MadeOnce, OrderInv, CloseLocal, UNCHANGED <<storeVars, loggerVars, childVars, used>>
  PROVE  OrderInv'
<1>1. tpc = "write" /\ tpc' \in {"remove", "extra", "rmdir"} /\ rep' = rep /\ made' = made
  BY DEF CloseLocal, AfterWrite, wireVars, loggerVars
<1>2. /\ delivered' = delivered \cup IF cur.ok THEN {ItemOf(cur)} ELSE {}
      /\ cur.ok => ItemOf(cur) \in made
  BY DEF CloseLocal, MadeOnce, WholeMade
<1>3. delivered \subseteq delivered' /\ (delivered \subseteq made)'
  BY <1>1, <1>2 DEF OrderInv
<1>4. DeliveredInOrder'
  <2> SUFFICES ASSUME NEW missing \in made \ delivered', NEW item \in delivered' PROVE ~OlderFrame(missing, item)
    BY <1>1 DEF DeliveredInOrder
  <2>1. CASE item \in delivered
    BY <1>3, <2>1 DEF OrderInv, DeliveredInOrder
  <2>2. CASE item = ItemOf(cur) /\ cur.op = "SENDING"
    <3>1. item = Pcd(cur.s, cur.k) /\ OlderDone(cur.s, cur.k)
      BY <1>1, <2>2 DEF ItemOf, OrderInv, ThreadInOrder
    <3> QED
      BY <1>3, <3>1 DEF OlderDone
  <2>3. CASE item = ItemOf(cur) /\ cur.op # "SENDING"
    BY <2>3 DEF ItemOf, OlderFrame, Ext
  <2> QED
    BY <1>2, <2>1, <2>2, <2>3
<1> QED
  BY <1>1, <1>3, <1>4, ClientOrder

\* The other steps of the thread deliver nothing.
LEMMA ThreadOrder ==
  ASSUME TypeInv, MadeOnce, OrderInv, Thread
  PROVE  OrderInv'
<1>1. /\ UNCHANGED <<storeVars, loggerVars, childVars, used>> /\ ThreadStep
      /\ WireTypeOK /\ ThreadTypeOK /\ NoRep.op = "none"
  BY DEF Thread, TypeInv, TypeOK, NoRep, Reply
<1>2. CASE CloseLocal
  BY <1>1, <1>2, CloseLocalOrder
<1>3. CASE ~CloseLocal
  <2>1. delivered' = delivered /\ made' = made
    BY <1>1, <1>3 DEF ThreadStep, OpenConnection, TcpSendTT, ConnectionLost, ReceiveError, ReceiveWait, ReceiveNoTr,
       ReceiveSending, ReceiveEmpty, ReceiveRequested, OpenLocal, ReceiveRemoved, ReceiveDirRemoved, diskVars,
       loggerVars
  <2>2. rep' = rep \/ Consume
    BY <1>1, <1>3 DEF ThreadStep, OpenConnection, TcpSendTT, ConnectionLost, ReceiveError, ReceiveWait, ReceiveNoTr,
       ReceiveSending, ReceiveEmpty, ReceiveRequested, OpenLocal, ReceiveRemoved, ReceiveDirRemoved, wireVars
  <2>3. \A c \in Conns : rep'[c] = rep[c] \/ rep'[c].op = "none"
    BY <1>1, <2>2 DEF Consume, WireTypeOK
  <2>4. \/ tpc' \notin {"body", "write"}
        \/ cur'.op # "SENDING"
        \/ OlderDone(cur'.s, cur'.k)
    <3>1. CASE ReceiveSending \/ ReceiveRequested
      <4>1. tconn \in Conns /\ cur' = rep[tconn]
        BY <1>1, <3>1 DEF ReceiveSending, ReceiveRequested, Received, LinkUp, ThreadTypeOK
      <4> QED
        BY <4>1 DEF OrderInv, ReplyInOrder
    <3>2. CASE OpenLocal
      BY <3>2 DEF OpenLocal, Leave, OrderInv, ThreadInOrder
    <3>3. CASE ~(ReceiveSending \/ ReceiveRequested \/ OpenLocal)
      BY <1>1, <1>3, <3>3 DEF ThreadStep, OpenConnection, TcpSendTT, ConnectionLost, ReceiveError, ReceiveWait,
         ReceiveNoTr, ReceiveEmpty, ReceiveRemoved, ReceiveDirRemoved, Again, Leave, WaitAfter, Sends
    <3> QED
      BY <3>1, <3>2, <3>3
  <2>5. DeliveredInOrder' /\ (delivered \subseteq made)'
    BY <2>1 DEF OrderInv, DeliveredInOrder
  <2> QED
    BY <1>1, <2>1, <2>3, <2>4, <2>5, ClientOrder
<1> QED
  BY <1>2, <1>3

\* Neither the user nor a fault delivers anything or changes what was made.
LEMMA RestOrder ==
  ASSUME MonotoneClock, "flush" \notin FaultKinds, TypeInv, SafeInv, OrderInv, User \/ Faulty
  PROVE  OrderInv'
<1>1. delivered \subseteq made /\ DeliveredInOrder /\ ThreadInOrder /\ WireTypeOK /\ NoRep.op = "none"
  BY DEF OrderInv, TypeInv, TypeOK, NoRep, Reply
<1>2. ASSUME NEW z \in Sessions, KeyStart(z) PROVE OrderInv'
  <2>1. /\ UNCHANGED <<wireVars, childVars, threadVars, delivered, made, tofs>>
        /\ used' = used \cup {z} /\ z \notin used /\ lsess' = z
    BY <1>2, StartsNew DEF KeyStart, Launch, storeVars, diskVars
  <2>2. /\ \A s, n : OlderDone(s, n) => OlderDone(s, n)'
        /\ \A s : Removed(s) => Removed(s)'
    BY <2>1 DEF OlderDone, Removed, Over
  <2>3. (delivered \subseteq made)' /\ DeliveredInOrder'
    BY <1>1, <2>1 DEF DeliveredInOrder
  <2> QED
    BY <2>1, <2>2, <2>3, DroneStepOrder
<1>3. CASE KeyStop \/ KillLogger
  <2>1. /\ UNCHANGED <<wireVars, childVars, threadVars, delivered, made, tofs, used, lsess, lcnt>>
        /\ LoggerActive' => LoggerActive /\ lpc' = lpc
    BY <1>3 DEF KeyStop, Terminate, KillLogger, LoggerDies, LoggerActive, storeVars, diskVars
  <2>2. /\ \A s, n : OlderDone(s, n) => OlderDone(s, n)'
        /\ \A s : Removed(s) => Removed(s)'
    BY <2>1 DEF OlderDone, Removed, Over, Newest
  <2>3. (delivered \subseteq made)' /\ DeliveredInOrder'
    BY <1>1, <2>1 DEF DeliveredInOrder
  <2> QED
    BY <2>1, <2>2, <2>3, DroneStepOrder
<1>4. CASE \/ KeyTransmit \/ KeyStopTransmission \/ ResumeTransmission \/ RestartClient
           \/ CrashClient \/ RefuseConnection \/ FailWrite \/ \E c \in Conns : BreakLink(c)
  <2>1. /\ UNCHANGED <<storeVars, loggerVars, childVars, used, delivered>>
        /\ tpc' \notin {"body", "write"} \/ (tpc' = tpc /\ cur' = cur)
    BY <1>4 DEF KeyTransmit, KeyStopTransmission, ResumeTransmission, RestartClient, CreateTransmissionThread,
       CrashClient, RefuseConnection, ConnectFails, FailWrite, WriteFails, Leave, BreakLink, threadVars, diskVars
  <2>2. \A c \in Conns : rep'[c] = rep[c] \/ rep'[c].op = "none"
    BY <1>1, <1>4 DEF KeyTransmit, KeyStopTransmission, ResumeTransmission, RestartClient,
       CreateTransmissionThread, CrashClient, RefuseConnection, ConnectFails, FailWrite, WriteFails, BreakLink, Cut,
       wireVars, WireTypeOK
  <2>3. (delivered \subseteq made)' /\ DeliveredInOrder'
    BY <1>1, <2>1 DEF DeliveredInOrder, loggerVars
  <2> QED
    BY <1>1, <2>1, <2>2, <2>3, ClientOrder DEF ThreadInOrder
<1>5. ASSUME NEW c \in Conns, FailCount(c) PROVE OrderInv'
  <2>1. /\ AnswerError(c) /\ UNCHANGED <<tofs, lpc, lsess, lcnt, made, tpc, cur, delivered, used>>
        /\ \A d \in Conns \ {c} : rep'[d] = rep[d] /\ cpc'[d] = cpc[d] /\ nd'[d] = nd[d] /\ nf'[d] = nf[d]
    BY <1>1, <1>5 DEF FailCount, NoCount, AnswerError, Answer, TypeInv, TypeOK, WireTypeOK, ChildTypeOK, storeVars,
       loggerVars, threadVars, diskVars
  <2>2. /\ \A s, n : OlderDone(s, n)' = OlderDone(s, n)
        /\ \A s : Removed(s)' = Removed(s)
    BY <2>1 DEF OlderDone, LoggerActive, Newest, Removed, Over
  <2>3. ScanInOrder(c)' /\ ReplyInOrder(c)'
    BY <2>1, <2>2, AnswerErrorOrder DEF OrderInv
  <2>4. \A d \in Conns \ {c} : ScanInOrder(d)' /\ ReplyInOrder(d)'
    BY <2>1, <2>2 DEF OrderInv, ScanInOrder, ReplyInOrder
  <2>5. (delivered \subseteq made)' /\ DeliveredInOrder' /\ ThreadInOrder'
    BY <1>1, <2>1, <2>2 DEF DeliveredInOrder, ThreadInOrder
  <2> QED
    BY <2>3, <2>4, <2>5 DEF OrderInv
<1>6. ~FailFlush
  BY DEF FailFlush, Fault
<1> QED
  BY <1>2, <1>3, <1>4, <1>5, <1>6 DEF User, Faulty

LEMMA OrderNext ==
  ASSUME MonotoneClock, "flush" \notin FaultKinds, TypeInv, SafeInv, MadeOnce, OrderInv, [Next]_vars
  PROVE  OrderInv'
<1>1. CASE Next
  BY <1>1, LoggerOrder, ChildOrder, ThreadOrder, RestOrder DEF Next
<1>2. CASE UNCHANGED vars
  <2>1. UNCHANGED <<storeVars, loggerVars, childVars, used, delivered, tpc, cur, rep>>
    BY <1>2 DEF vars, threadVars, diskVars, wireVars
  <2>2. (delivered \subseteq made)' /\ DeliveredInOrder' /\ ThreadInOrder
    BY <2>1 DEF OrderInv, DeliveredInOrder, loggerVars
  <2> QED
    BY <2>1, <2>2, ClientOrder DEF ThreadInOrder
<1> QED
  BY <1>1, <1>2

LEMMA OrderInvariant == MonotoneClock /\ "flush" \notin FaultKinds => (Spec => []OrderInv)
<1> SUFFICES ASSUME MonotoneClock, "flush" \notin FaultKinds PROVE Spec => []OrderInv
  OBVIOUS
<1>1. TypeInv /\ SafeInv /\ MadeOnce /\ OrderInv /\ [Next]_vars => OrderInv'
  BY OrderNext
<1> QED
  BY <1>1, OrderInit, TypeInvariant, SafeInvariant, MadeOnceInvariant, PTL DEF Spec

\* Frames reach the client oldest session first and lowest number first, however
\* often the connection is lost, the client crashes or a write fails, and while
\* the children of old connections are still at work: FindFirstDir and
\* FindNextFile (app/server/server_lib.c) always lead SendNext to the next frame.
THEOREM FramesInOrder ==
  MonotoneClock /\ "flush" \notin FaultKinds => (Spec => []DeliveredInOrder)
<1>1. OrderInv => DeliveredInOrder
  BY DEF OrderInv
<1> QED
  BY <1>1, OrderInvariant, PTL

-----------------------------------------------------------------------------
(* What has been written stays.                                            *)

\* The disk of the client takes what is written, and the client is not killed
\* while it writes.
SoundDisk == FaultKinds \cap {"write", "flush", "crash"} = {}

\* Only whole files have been delivered, so the buffer that a delivered file is
\* written from again holds all of it.
LEMMA RewriteIsWhole ==
  ASSUME TypeInv, SafeInv, OrderInv, tpc \in {"body", "write"}, ItemOf(cur) \in delivered
  PROVE  cur.ok
<1>1. cur.op \in {"SENDING", "REQUESTED"} /\ ThreadSafe /\ ItemOf(cur) \in made
  BY DEF TypeInv, ThreadForm, SafeInv, OrderInv
<1>2. CASE cur.op = "SENDING"
  BY <1>1, <1>2 DEF ThreadSafe, Removable, ItemOf
<1>3. CASE cur.op = "REQUESTED"
  BY <1>1, <1>3 DEF ThreadSafe, ItemOf
<1> QED
  BY <1>1, <1>2, <1>3

\* A copy is emptied by OpenLocal only, and written whole by CloseLocal.
LEMMA KeptNext ==
  ASSUME SoundDisk, TypeInv, SafeInv, OrderInv, Kept, [Next]_vars
  PROVE  Kept'
<1>1. CASE UNCHANGED <<delivered, copies>> /\ (tpc # "write" \/ UNCHANGED <<tpc, cur>>)
  BY <1>1 DEF Kept
<1>2. CASE Logger \/ (\E c \in Conns : Child(c)) \/ UNCHANGED vars
  BY <1>1, <1>2 DEF Logger, Child, vars, threadVars, diskVars
<1>3. CASE Thread
  <2>1. CASE OpenLocal
    <3>1. delivered' = delivered /\ tpc = "body"
      BY <2>1 DEF OpenLocal
    <3>2. CASE tpc' = "write" /\ cur' = cur /\ copies' = copies \ {ItemOf(cur)}
      <4>1. ItemOf(cur) \in delivered => cur.ok
        BY <3>1, RewriteIsWhole
      <4> QED
        BY <3>1, <3>2, <4>1 DEF Kept
    <3>3. CASE copies' = copies
      BY <1>1, <3>1, <3>3
    <3> QED
      BY <2>1, <3>2, <3>3 DEF OpenLocal
  <2>2. CASE CloseLocal
    BY <2>2 DEF CloseLocal, Kept
  <2>3. CASE ~(OpenLocal \/ CloseLocal)
    <3>1. UNCHANGED <<delivered, copies>> /\ tpc # "write"
      BY <1>3, <2>3 DEF Thread, ThreadStep, OpenConnection, TcpSendTT, ConnectionLost, ReceiveError, ReceiveWait,
         ReceiveNoTr, ReceiveSending, ReceiveEmpty, ReceiveRequested, ReceiveRemoved, ReceiveDirRemoved, Received,
         Sends, Waits, diskVars
    <3> QED
      BY <1>1, <3>1
  <2> QED
    BY <2>1, <2>2, <2>3
<1>4. CASE User
  <2>1. UNCHANGED <<delivered, copies>> /\ (tpc # "write" \/ UNCHANGED <<tpc, cur>>)
    BY <1>4 DEF User, KeyStart, KeyStop, KeyTransmit, KeyStopTransmission, ResumeTransmission, RestartClient,
       CreateTransmissionThread, threadVars, diskVars
  <2> QED
    BY <1>1, <2>1
<1>5. CASE Faulty
  <2>1. ~(FailFlush \/ FailWrite \/ CrashClient)
    BY DEF SoundDisk, FailFlush, FailWrite, CrashClient, Fault
  <2>2. UNCHANGED <<delivered, copies>> /\ (tpc # "write" \/ UNCHANGED <<tpc, cur>>)
    BY <1>5, <2>1 DEF Faulty, BreakLink, FailCount, RefuseConnection, ConnectFails, KillLogger, threadVars, diskVars
  <2> QED
    BY <1>1, <2>2
<1> QED
  BY <1>2, <1>3, <1>4, <1>5 DEF Next

LEMMA KeptInvariant == MonotoneClock /\ SoundDisk => (Spec => []Kept)
<1> SUFFICES ASSUME MonotoneClock, SoundDisk PROVE Spec => []Kept
  OBVIOUS
<1>1. "flush" \notin FaultKinds
  BY DEF SoundDisk
<1>2. Init => Kept
  BY DEF Init, DiskInit, Kept
<1>3. TypeInv /\ SafeInv /\ OrderInv /\ Kept /\ [Next]_vars => Kept'
  BY KeptNext
<1> QED
  BY <1>1, <1>2, <1>3, TypeInvariant, SafeInvariant, OrderInvariant, PTL DEF Spec

\* However often connections are lost or refused and whenever the logger dies, a
\* finished file is on the drone, whole on the client, or in the buffer that
\* copy_buffer_in_file (common/compression_lib.c) is writing out, although "wb"
\* empties an older copy while a late REMOVE_FILE may take the original.
THEOREM NothingIsLost == MonotoneClock /\ SoundDisk => (Spec => []NothingLost)
<1> SUFFICES ASSUME MonotoneClock, SoundDisk PROVE Spec => []NothingLost
  OBVIOUS
<1>1. "flush" \notin FaultKinds
  BY DEF SoundDisk
<1>2. SafeInv /\ Kept => NothingLost
  BY DEF SafeInv, RemovedOnlyAfterWritten, Kept, NothingLost
<1> QED
  BY <1>1, <1>2, SafeInvariant, KeptInvariant, PTL

-----------------------------------------------------------------------------
(* What is renamed is complete.                                            *)

\* Nothing is renamed at the start.
LEMMA FinalInit == Init => FinalInv
<1> SUFFICES ASSUME Init PROVE FinalInv
  OBVIOUS
<1> USE DEF Init, StoreInit, LoggerInit, WireInit, ThreadInit, DiskInit
<1>1. NoRep.op = "none" /\ NoReq.op = "none"
  BY DEF NoRep, Reply, NoReq, Request
<1>2. FinalDirComplete /\ Renamed = {}
  BY DEF FinalDirComplete, Renamed
<1>3. LoggerFinishes /\ ThreadFinal
  BY DEF LoggerFinishes, LoggerActive, ThreadFinal, Fetching
<1>4. ASSUME NEW c \in Conns PROVE WireFinal(c)
  BY <1>1, <1>4 DEF WireFinal
<1> QED
  BY <1>2, <1>3, <1>4 DEF FinalInv

\* A step that leaves the connections, the thread and the local directories
\* alone: what is over stays over, and what is removed stays removed.
LEMMA DroneStepFinal ==
  ASSUME FinalInv, UNCHANGED <<wireVars, threadVars, diskVars>>,
         \A s : Over(s) => Over(s)' /\ (s \notin dirs => s \notin dirs'),
         made \subseteq made', \A item \in made' \ made : ~Over(SessionOf(item)),
         LoggerFinishes'
  PROVE  FinalInv'
<1> USE DEF wireVars, threadVars, diskVars
<1>1. /\ \A s : Complete(s) => Complete(s)' /\ Over(s)
      /\ \A s : Over(s) /\ HandedOver(s) => HandedOver(s)'
      /\ Renamed' = Renamed /\ \A s \in Renamed : Over(s) /\ s \notin dirs
  BY DEF Complete, HandedOver, Renamed, FinalInv
<1>2. FinalDirComplete'
  <2>1. \A p \in fdirs : p[2] \in Renamed
    BY DEF Renamed
  <2> QED
    BY <1>1, <2>1 DEF FinalInv, FinalDirComplete
<1>3. ThreadFinal'
  BY <1>1 DEF FinalInv, ThreadFinal, Fetching
<1>4. ASSUME NEW c \in Conns PROVE WireFinal(c)'
  BY <1>1, <1>4 DEF FinalInv, WireFinal, ThreadFinal
<1> QED
  BY <1>1, <1>2, <1>3, <1>4 DEF FinalInv

\* The logger finds its directories where it made them, so it only ends when the
\* last of the remaining files is copied.
LEMMA LoggerFinal ==
  ASSUME TypeInv, SafeInv, MadeOnce, FinalInv, Logger
  PROVE  FinalInv'
<1>1. /\ LoggerFinishes /\ LoggerSafe /\ LoggerTypeOK /\ LoggerForm
      /\ UNCHANGED <<wireVars, threadVars, diskVars, used>> /\ LoggerStep
  BY DEF FinalInv, SafeInv, TypeInv, TypeOK, Logger
<1>2. lext \in Nat /\ NumExtras \in Nat /\ Extras = 1..NumExtras /\ LoggerActive /\ lsess \in used
  <2>1. LoggerActive
    BY <1>1 DEF LoggerStep, InstallHandlers, MakeSessionDir, MakeTofDir, OpenFrame, CloseFrame, LeaveLoop,
       OpenExtra, CloseExtra, LoggerDone, CopyFails, LoggerActive
  <2> QED
    BY <1>1, <2>1, SizeFacts DEF LoggerTypeOK, LoggerSafe, Extras
<1>3. ~CopyFails
  BY <1>1, SizeFacts DEF CopyFails, LoggerFinishes
<1>4. /\ lsess' = lsess /\ made \subseteq made'
      /\ made' \subseteq made \cup {Pcd(lsess, lcnt), Ext(lsess, lext)}
      /\ dirs \subseteq dirs' /\ dirs' \subseteq dirs \cup {lsess} /\ tofs \subseteq tofs'
  BY <1>1, <1>3, OpensNew DEF LoggerStep, InstallHandlers, MakeSessionDir, MakeTofDir, OpenFrame, CloseFrame, LeaveLoop,
     OpenExtra, CloseExtra, LoggerDone, storeVars
<1>5. \A s : Over(s) => s # lsess /\ Over(s)' /\ (s \notin dirs => s \notin dirs')
  BY <1>1, <1>2, <1>4 DEF Over
<1>6. \A item \in made' \ made : ~Over(SessionOf(item))
  BY <1>2, <1>4, <1>5, ItemFacts
<1>7. /\ LoggerActive' => \A i \in Extras : i < lext' => Ext(lsess, i) \in made'
      /\ ~LoggerActive' => \A i \in Extras : Ext(lsess, i) \in made'
  <2>1. CASE CloseExtra
    BY <1>1, <1>2, <2>1 DEF CloseExtra, LoggerFinishes, LoggerActive
  <2>2. CASE LoggerDone
    BY <1>1, <1>2, <2>2 DEF LoggerDone, LoggerFinishes, LoggerActive
  <2>3. CASE ~CloseExtra /\ ~LoggerDone
    <3>1. lext' = lext /\ LoggerActive'
      BY <1>1, <1>3, <2>3 DEF LoggerStep, InstallHandlers, MakeSessionDir, MakeTofDir, OpenFrame, CloseFrame,
         LeaveLoop, OpenExtra, LoggerActive
    <3> QED
      BY <1>1, <1>2, <1>4, <3>1 DEF LoggerFinishes
  <2> QED
    BY <2>1, <2>2, <2>3
<1>8. LoggerFinishes'
  <2>1. ASSUME NEW s \in dirs', Over(s)' PROVE Complete(s)'
    <3>1. CASE s = lsess
      BY <1>4, <1>7, <2>1, <3>1 DEF Complete, Over
    <3>2. CASE s # lsess
      <4>1. s \in dirs /\ Over(s)
        BY <1>1, <1>4, <2>1, <3>2 DEF Over
      <4> QED
        BY <1>1, <1>4, <2>1, <4>1 DEF LoggerFinishes, Complete
    <3> QED
      BY <3>1, <3>2
  <2>2. /\ lpc' \in {"spawn", "mkdir"} => lsess \notin dirs'
        /\ lpc' \in {"mktof", "loop", "copy", "extra", "xcopy"} => lsess \in dirs'
        /\ lpc' \in {"loop", "copy", "extra", "xcopy"} => lsess \in tofs'
    BY <1>1, <1>3 DEF LoggerStep, InstallHandlers, MakeSessionDir, MakeTofDir, OpenFrame, CloseFrame, LeaveLoop,
       OpenExtra, CloseExtra, LoggerDone, storeVars, LoggerFinishes
  <2> QED
    BY <1>4, <1>7, <2>1, <2>2 DEF LoggerFinishes
<1> QED
  BY <1>1, <1>4, <1>5, <1>6, <1>8, DroneStepFinal

\* Keys 1 and 2.
LEMMA LoggerKeysFinal ==
  ASSUME MonotoneClock, TypeInv, SafeInv, FinalInv, KeyStop \/ \E z \in Sessions : KeyStart(z)
  PROVE  FinalInv'
<1>1. LoggerFinishes /\ LoggerSafe /\ LoggerForm /\ LoggerTypeOK
  BY DEF FinalInv, SafeInv, TypeInv, TypeOK
<1>2. ASSUME NEW z \in Sessions, KeyStart(z) PROVE FinalInv'
  <2>1. /\ UNCHANGED <<wireVars, threadVars, diskVars, dirs, made>> /\ ~LoggerActive /\ lpc' = "spawn"
        /\ used' = used \cup {z} /\ z \notin used /\ lsess' = z /\ lext' = 1 /\ z \notin dirs
    BY <1>1, <1>2, StartsNew DEF KeyStart, Launch, storeVars, LoggerSafe
  <2>2. \A s : Over(s) => Over(s)'
    BY <2>1 DEF Over
  <2>3. \A s \in dirs : Over(s)
    BY <1>1, <2>1 DEF Over, LoggerSafe
  <2>4. \A i \in Extras : ~(i < 1)
    BY DEF Extras
  <2>5. LoggerFinishes'
    BY <1>1, <2>1, <2>2, <2>3, <2>4 DEF LoggerFinishes, Complete
  <2> QED
    BY <2>1, <2>2, <2>5, DroneStepFinal
<1>3. CASE KeyStop
  <2>1. /\ UNCHANGED <<wireVars, threadVars, diskVars, dirs, tofs, made, used, lsess, lext>> /\ LoggerActive
        /\ lpc' = lpc \/ (lpc' = "off" /\ lpc = "spawn")
    BY <1>3 DEF KeyStop, Terminate, storeVars
  <2>2. \A s : Over(s) => Over(s)'
    BY <2>1 DEF Over
  <2>3. \A s \in dirs : Over(s)' => Over(s)
    BY <1>1, <2>1 DEF Over, LoggerFinishes, LoggerActive
  <2>4. LoggerFinishes'
    <3>1. ASSUME NEW s \in dirs', Over(s)' PROVE Complete(s)'
      BY <1>1, <2>1, <2>3, <3>1 DEF LoggerFinishes, Complete
    <3> QED
      BY <1>1, <2>1, <3>1 DEF LoggerFinishes, LoggerActive
  <2> QED
    BY <2>1, <2>2, <2>4, DroneStepFinal
<1> QED
  BY <1>2, <1>3

\* A child takes away a session that is over, or nothing.
LEMMA ChildTakes ==
  ASSUME TypeInv, SafeInv, NEW c \in Conns, Child(c), NEW s, ~Over(s)
  PROVE  (s \in dirs => s \in dirs') /\ (s \in tofs => s \in tofs')
<1>1. ChildStep(c) /\ Talk(c) /\ RequestSafe(c)
  BY DEF Child, TypeInv, SafeInv
<1>2. CASE UnlinkTree(c) \/ RemoveDir(c)
  <2>1. req[c].op = "REMOVE_DIR"
    BY <1>1, <1>2 DEF UnlinkTree, RemoveDir, Asked, Talk
  <2>2. req[c].s # s
    BY <1>1, <2>1 DEF RequestSafe
  <2> QED
    BY <1>2, <2>2 DEF UnlinkTree, RemoveDir, storeVars
<1>3. CASE ~(UnlinkTree(c) \/ RemoveDir(c))
  <2>1. dirs' = dirs /\ tofs' = tofs
    BY <1>1, <1>3 DEF ChildStep, ScanDirs, FindTof, ScanFiles, CheckLogger, SendNextFile, SendFile,
       CompressAndSend, RemoveFile, ChildEnds, storeVars
  <2> QED
    BY <2>1
<1> QED
  BY <1>2, <1>3

\* What a child sends.
LEMMA ChildWireFinal ==
  ASSUME TypeInv, SafeInv, SafeInv', FinalInv, NEW c \in Conns, Child(c)
  PROVE  WireFinal(c)'
<1>1. /\ WireTypeOK /\ WireFinal(c) /\ LoggerFinishes /\ LoggerSafe /\ Talk(c) /\ ChildStep(c)
      /\ \A s \in Renamed : s \notin dirs
  BY DEF TypeInv, TypeOK, FinalInv, SafeInv, Child
<1>2. /\ UNCHANGED <<lpc, lsess, made, used, tpc, folder, fdirs>> /\ dirs' \subseteq dirs
      /\ Renamed' = Renamed /\ \A s : Complete(s)' = Complete(s)
  BY ChildFrame DEF loggerVars, threadVars, diskVars, Renamed, Complete, Over, LoggerActive
<1>3. ASSUME NEW r, Answer(c, r), r.op \notin {"SENDING", "REQUESTED"},
             link[c] = "up" /\ r.op = "REMOVED" /\ tpc = "wait_rmdir" => folder \notin dirs'
      PROVE  WireFinal(c)'
  <2>1. NoReq.op = "none"
    BY DEF NoReq, Request
  <2>2. req'[c] = NoReq /\ (rep'[c] = rep[c] \/ (rep'[c] = r /\ link[c] = "up"))
    BY <1>1, <1>3 DEF Answer, WireTypeOK
  <2> QED
    BY <1>1, <1>2, <1>3, <2>1, <2>2 DEF WireFinal
<1>4. ASSUME AnswerError(c) PROVE WireFinal(c)'
  <2>1. Reply("ERROR", NoSession, 0, FALSE).op = "ERROR"
    BY DEF Reply
  <2> QED
    BY <1>3, <1>4, <2>1 DEF AnswerError
<1>5. CASE UNCHANGED wireVars
  BY <1>1, <1>2, <1>5 DEF wireVars, WireFinal
<1>6. CASE ScanDirs(c) \/ FindTof(c) \/ ScanFiles(c)
  BY <1>4, <1>5, <1>6 DEF ScanDirs, FindTof, ScanFiles
<1>7. CASE CheckLogger(c)
  <2>1. /\ Reply("NO_TR", NoSession, 0, FALSE).op = "NO_TR" /\ Reply("WAIT", NoSession, 0, FALSE).op = "WAIT"
        /\ Reply("EMPTY", nd[c].first, 0, FALSE).op = "EMPTY"
    BY DEF Reply
  <2> QED
    BY <1>3, <1>5, <1>7, <2>1 DEF CheckLogger
<1>8. CASE SendNextFile(c) \/ SendFile(c)
  <2>1. CASE AnswerError(c)
    BY <1>4, <2>1
  <2>2. ASSUME NEW op \in {"SENDING", "REQUESTED"}, NEW s, NEW k, NEW ok, NEW item \in files,
               SessionOf(item) = s, Answer(c, Reply(op, s, k, ok))
        PROVE  WireFinal(c)'
    <3> DEFINE r == Reply(op, s, k, ok)
    <3>1. r.op = op /\ r.s = s
      BY DEF Reply
    <3>2. rep'[c] = rep[c] \/ (rep'[c] = r /\ link[c] = "up")
      BY <1>1, <2>2 DEF Answer, WireTypeOK
    <3>3. s \in dirs /\ s \notin Renamed
      BY <1>1, <2>2 DEF LoggerSafe
    <3>4. ASSUME rep'[c] = r, op = "REQUESTED" PROVE Complete(s)
      <4>1. rep'[c].op = "REQUESTED" /\ rep'[c].s = s
        BY <3>1, <3>4
      <4>2. Over(s)'
        BY <4>1 DEF SafeInv, ReplySafe, Current
      <4>3. Over(s)
        BY <1>2, <4>2 DEF Over, LoggerActive
      <4> QED
        BY <1>1, <3>3, <4>3 DEF LoggerFinishes
    <3>5. NoReq.op = "none" /\ req'[c] = NoReq
      BY <1>1, <2>2 DEF NoReq, Request, Answer, WireTypeOK
    <3> HIDE DEF r
    <3> QED
      BY <1>1, <1>2, <3>1, <3>2, <3>3, <3>4, <3>5 DEF WireFinal
  <2>3. CASE SendNextFile(c)
    BY <2>1, <2>2, <2>3, ItemFacts DEF SendNextFile, CompressAndSend
  <2>4. CASE SendFile(c)
    BY <2>1, <2>2, <2>4, ItemFacts DEF SendFile, CompressAndSend
  <2> QED
    BY <1>8, <2>3, <2>4
<1>9. CASE RemoveFile(c)
  <2>1. link[c] = "up" => tpc = "wait_remove"
    BY <1>9, ThreadWaits DEF RemoveFile, Asked
  <2>2. Reply("REMOVED", req[c].s, 0, FALSE).op = "REMOVED"
    BY DEF Reply
  <2> QED
    BY <1>3, <1>4, <1>9, <2>1, <2>2 DEF RemoveFile
<1>10. CASE UnlinkTree(c)
  <2>1. CASE AnswerError(c)
    BY <1>4, <2>1
  <2>2. CASE UNCHANGED wireVars
    BY <1>5, <2>2
  <2> QED
    BY <1>10, <2>1, <2>2 DEF UnlinkTree
<1>11. CASE RemoveDir(c)
  <2>1. link[c] = "up" => req[c].s = folder
    BY <1>1, <1>11 DEF RemoveDir, Talk, WireFinal
  <2>2. Reply("REMOVED", req[c].s, 0, FALSE).op = "REMOVED"
    BY DEF Reply
  <2> QED
    BY <1>3, <1>4, <1>11, <2>1, <2>2 DEF RemoveDir
<1>12. CASE ChildEnds(c)
  <2>1. req'[c] = NoReq /\ rep' = rep /\ NoReq.op = "none"
    BY <1>1, <1>12 DEF ChildEnds, NoReq, Request, WireTypeOK
  <2> QED
    BY <1>1, <1>2, <2>1 DEF WireFinal
<1> QED
  BY <1>1, <1>6, <1>7, <1>8, <1>9, <1>10, <1>11, <1>12 DEF ChildStep

LEMMA ChildFinal ==
  ASSUME TypeInv, SafeInv, SafeInv', FinalInv, NEW c \in Conns, Child(c)
  PROVE  FinalInv'
<1>1. /\ UNCHANGED <<loggerVars, threadVars, diskVars, used>> /\ dirs' \subseteq dirs
      /\ \A d \in Conns \ {c} : link'[d] = link[d] /\ req'[d] = req[d] /\ rep'[d] = rep[d]
  BY ChildFrame
<1>2. /\ Renamed' = Renamed /\ \A s : Over(s)' = Over(s) /\ Complete(s)' = Complete(s)
      /\ \A s : HandedOver(s)' = HandedOver(s)
  BY <1>1 DEF loggerVars, diskVars, Renamed, Complete, Over, LoggerActive, HandedOver
<1>3. FinalDirComplete' /\ ThreadFinal'
  BY <1>1, <1>2 DEF FinalInv, FinalDirComplete, ThreadFinal, Fetching, threadVars, diskVars, loggerVars
<1>4. LoggerFinishes'
  <2>1. LoggerActive => ~Over(lsess)
    BY DEF Over
  <2>2. LoggerActive => (lsess \in dirs => lsess \in dirs') /\ (lsess \in tofs => lsess \in tofs')
    BY <2>1, ChildTakes
  <2> QED
    BY <1>1, <1>2, <2>2 DEF FinalInv, LoggerFinishes, loggerVars, LoggerActive
<1>5. ASSUME NEW d \in Conns \ {c} PROVE WireFinal(d)'
  BY <1>1, <1>2 DEF FinalInv, WireFinal, threadVars
<1> QED
  BY <1>1, <1>2, <1>3, <1>4, <1>5, ChildWireFinal DEF FinalInv

\* A step of the client: the drone is as it was, no reply appears, and REMOVE_DIR
\* is on its way only where it was before, or where the thread does not wait for
\* its answer.
LEMMA ClientFinal ==
  ASSUME TypeInv', FinalInv, UNCHANGED <<storeVars, loggerVars, used, fdirs>>, delivered \subseteq delivered',
         ThreadFinal', FinalDirComplete',
         \A c \in Conns : rep'[c] = rep[c] \/ rep'[c].op = "none",
         \/ tpc' # "wait_rmdir"
         \/ /\ UNCHANGED <<tpc, folder>>
            /\ \A c \in Conns : link'[c] = "up" /\ req'[c].op = "REMOVE_DIR" => link[c] = "up" /\ req'[c] = req[c]
  PROVE  FinalInv'
<1>1. /\ Renamed' = Renamed /\ dirs' = dirs
      /\ \A s : Over(s)' = Over(s) /\ Complete(s)' = Complete(s)
  BY DEF storeVars, loggerVars, Renamed, Complete, Over, LoggerActive
<1>2. LoggerFinishes'
  BY <1>1 DEF FinalInv, LoggerFinishes, LoggerActive, storeVars, loggerVars
<1>3. ASSUME NEW c \in Conns PROVE WireFinal(c)'
  <2>1. WireFinal(c)
    BY DEF FinalInv
  <2>2. CASE tpc' # "wait_rmdir"
    <3>1. ~(req'[c].op = "REMOVE_DIR" /\ link'[c] = "up")
      <4>1. Talk(c)' /\ Dialogue'
        BY DEF TypeInv
      <4>2. link'[c] = "up" /\ req'[c].op = "REMOVE_DIR" => c = tconn' /\ LinkUp'
        BY <4>1, ConnAssumption DEF Talk, LinkUp
      <4> QED
        BY <2>2, <4>1, <4>2 DEF Dialogue
    <3> QED
      BY <1>1, <2>1, <2>2, <3>1 DEF WireFinal
  <2>3. CASE tpc' = "wait_rmdir"
    BY <1>1, <2>1, <2>3 DEF WireFinal
  <2> QED
    BY <2>2, <2>3
<1> QED
  BY <1>1, <1>2, <1>3 DEF FinalInv

\* ThreadFinal where the thread is at, or comes from, a step that concerns no
\* session.
LEMMA IdleFinal ==
  ASSUME FinalInv, tpc' \in {"off", "connect", "next", "wait_next", "remove", "wait_remove"},
         tdir' \in {tr', NoSession}
  PROVE  ThreadFinal'
  BY DEF ThreadFinal, Fetching

\* A reply that is consumed by a thread that starts the next round or ends.
LEMMA RoundEndFinal ==
  ASSUME TypeInv, TypeInv', FinalInv, UNCHANGED <<storeVars, loggerVars, childVars, used>>,
         OpenConnection \/ ConnectionLost \/ ReceiveError \/ ReceiveWait \/ ReceiveNoTr \/ ReceiveRemoved
  PROVE  FinalInv'
<1>1. UNCHANGED <<tr, tdir, copies, fdirs, delivered>> /\ tpc' \in {"off", "next"}
  BY DEF OpenConnection, ConnectionLost, ReceiveError, ReceiveWait, ReceiveNoTr, ReceiveRemoved, Again, Leave,
     diskVars
<1>2. WireTypeOK /\ NoRep.op = "none" /\ (rep' = rep \/ Consume)
  BY DEF TypeInv, TypeOK, NoRep, Reply, OpenConnection, ConnectionLost, ReceiveError, ReceiveWait, ReceiveNoTr,
     ReceiveRemoved, wireVars
<1>3. \A c \in Conns : rep'[c] = rep[c] \/ rep'[c].op = "none"
  BY <1>2 DEF Consume, WireTypeOK
<1>4. ThreadFinal' /\ FinalDirComplete'
  BY <1>1, IdleFinal DEF FinalInv, ThreadFinal, FinalDirComplete, loggerVars
<1> QED
  BY <1>1, <1>3, <1>4, ClientFinal

\* When REMOVE_DIR is sent, the whole session has been handed over.
LEMMA TcpSendFinal ==
  ASSUME TypeInv, TypeInv', SafeInv, SafeInv', FinalInv, UNCHANGED <<storeVars, loggerVars, childVars, used>>,
         TcpSendTT
  PROVE  FinalInv'
<1>1. /\ ThreadFinal /\ ThreadSafe /\ WireTypeOK /\ ThreadTypeOK /\ LoggerFinishes /\ FinalDirComplete
      /\ \A c \in Conns : WireFinal(c)
      /\ \A s \in Renamed : Over(s) /\ s \notin dirs
  BY DEF FinalInv, SafeInv, TypeInv, TypeOK
<1>2. /\ tpc \in Sends /\ LinkUp /\ tpc' = WaitAfter(tpc) /\ UNCHANGED <<tconn, tr, tdir, folder, xi, cur, rep, link>>
      /\ UNCHANGED <<copies, fdirs, delivered>> /\ req' = [req EXCEPT ![tconn] = NextRequest]
  BY DEF TcpSendTT, diskVars
<1>3. FinalDirComplete' /\ fdirs' = fdirs /\ delivered' = delivered
  BY <1>1, <1>2 DEF FinalDirComplete, loggerVars
<1>4. /\ Renamed' = Renamed /\ dirs' = dirs
      /\ \A s : Over(s)' = Over(s) /\ Complete(s)' = Complete(s) /\ HandedOver(s)' = HandedOver(s)
  BY <1>2 DEF storeVars, loggerVars, Renamed, Complete, Over, LoggerActive, HandedOver
<1>5. CASE tpc # "rmdir"
  <2>1. /\ tpc' \in {"wait_next", "wait_remove", "wait_extra"}
        /\ tpc' = "wait_extra" => tpc = "extra"
    BY <1>2, <1>5 DEF WaitAfter, Sends
  <2>2. ThreadFinal'
    BY <1>1, <1>2, <1>4, <2>1 DEF ThreadFinal, Fetching
  <2> QED
    BY <1>2, <1>3, <2>1, <2>2, ClientFinal
<1>6. CASE tpc = "rmdir"
  <2>1. /\ tpc' = "wait_rmdir" /\ NextRequest = Request("REMOVE_DIR", folder, 0) /\ tconn \in Conns
        /\ tdir \in {tr, NoSession} /\ folder = tr /\ Complete(folder)
    BY <1>1, <1>2, <1>6 DEF WaitAfter, NextRequest, LinkUp, ThreadTypeOK, ThreadFinal, ThreadSafe, Current
  <2>2. req'[tconn].op = "REMOVE_DIR" /\ req'[tconn].s = folder
    BY <1>1, <1>2, <2>1 DEF Request, WireTypeOK
  <2>3. HandedOver(folder)'
    BY <2>1, <2>2, <1>2 DEF SafeInv, RequestSafe, HandedOver
  <2>4. ThreadFinal'
    BY <1>2, <1>4, <2>1, <2>3 DEF ThreadFinal, Fetching
  <2>5. ASSUME NEW c \in Conns PROVE WireFinal(c)'
    <3>1. rep[c].op # "REMOVED"
      <4>1. Talk(c) /\ Dialogue /\ NoReq.op = "none"
        BY DEF TypeInv, NoReq, Request
      <4>2. rep[c].op # "none" => c = tconn
        BY <4>1 DEF Talk
      <4> QED
        BY <1>2, <1>6, <4>1, <4>2 DEF Dialogue
    <3>2. req'[c].op = "REMOVE_DIR" /\ link'[c] = "up" => c = tconn
      <4>1. Talk(c)'
        BY DEF TypeInv
      <4> QED
        BY <1>2, <4>1 DEF Talk
    <3> QED
      BY <1>1, <1>2, <1>4, <2>2, <3>1, <3>2 DEF WireFinal
  <2>6. LoggerFinishes'
    BY <1>1, <1>4 DEF LoggerFinishes, LoggerActive, storeVars, loggerVars
  <2> QED
    BY <1>1, <1>3, <1>4, <2>4, <2>5, <2>6 DEF FinalInv
<1> QED
  BY <1>5, <1>6

\* The file that is received, and then written, is of a session not yet renamed.
LEMMA ReceiveFileFinal ==
  ASSUME TypeInv, TypeInv', SafeInv, FinalInv, UNCHANGED <<storeVars, loggerVars, childVars, used>>,
         ReceiveSending \/ ReceiveRequested \/ ReceiveEmpty
  PROVE  FinalInv'
<1>1. /\ tconn \in Conns /\ WireFinal(tconn) /\ ReplySafe(tconn) /\ ThreadFinal /\ ThreadSafe /\ FinalDirComplete
      /\ UNCHANGED <<copies, fdirs, delivered>>
  BY DEF ReceiveSending, ReceiveRequested, ReceiveEmpty, Received, LinkUp, TypeInv, TypeOK, ThreadTypeOK, FinalInv,
     SafeInv, diskVars
<1>2. WireTypeOK /\ NoRep.op = "none" /\ (rep' = rep \/ Consume)
  BY DEF TypeInv, TypeOK, NoRep, Reply, ReceiveSending, ReceiveRequested, ReceiveEmpty, wireVars
<1>3. \A c \in Conns : rep'[c] = rep[c] \/ rep'[c].op = "none"
  BY <1>2 DEF Consume, WireTypeOK
<1>4. FinalDirComplete' /\ fdirs' = fdirs /\ Renamed' = Renamed /\ delivered' = delivered
  BY <1>1 DEF FinalDirComplete, Renamed, loggerVars
<1>5. \A s : Complete(s)' = Complete(s)
  BY DEF Complete, Over, LoggerActive, loggerVars
<1>6. CASE ReceiveSending
  <2>1. tpc' = "body" /\ cur' = rep[tconn] /\ tdir' = tr' /\ rep[tconn].op = "SENDING"
    BY <1>6 DEF ReceiveSending, Received
  <2>2. ThreadFinal'
    BY <1>1, <1>4, <2>1 DEF ThreadFinal, Fetching, WireFinal
  <2> QED
    BY <1>3, <1>4, <2>1, <2>2, ClientFinal
<1>7. CASE ReceiveRequested
  <2>1. tpc' = "body" /\ cur' = rep[tconn] /\ UNCHANGED <<tr, tdir, folder, xi>> /\ rep[tconn].op = "REQUESTED"
    BY <1>7 DEF ReceiveRequested, Received
  <2>2. rep[tconn].s = folder /\ Complete(folder) /\ rep[tconn].s \notin Renamed
    BY <1>1, <2>1 DEF ReplySafe, Current, WireFinal
  <2>3. ThreadFinal'
    BY <1>1, <1>4, <1>5, <2>1, <2>2 DEF ThreadFinal, Fetching
  <2> QED
    BY <1>3, <1>4, <2>1, <2>3, ClientFinal
<1>8. CASE ReceiveEmpty
  <2>1. tpc = "wait_next" /\ tpc' = "extra" /\ xi' = 1 /\ UNCHANGED <<tr, tdir, cur>>
    BY <1>8 DEF ReceiveEmpty, Received
  <2>2. cur.op # "REQUESTED"
    BY <1>1, <2>1 DEF ThreadSafe
  <2>3. ThreadFinal'
    BY <1>1, <2>1, <2>2 DEF ThreadFinal, Fetching
  <2> QED
    BY <1>3, <1>4, <2>1, <2>3, ClientFinal
<1> QED
  BY <1>6, <1>7, <1>8

LEMMA WriteFinal ==
  ASSUME TypeInv, TypeInv', SafeInv, FinalInv, UNCHANGED <<storeVars, loggerVars, childVars, used>>,
         OpenLocal \/ CloseLocal
  PROVE  FinalInv'
<1>1. /\ ThreadFinal /\ ThreadForm /\ FinalDirComplete /\ tpc \in {"body", "write"} /\ ThreadTypeOK
      /\ UNCHANGED <<tr, tdir, fdirs>> /\ delivered \subseteq delivered' /\ tdir \in {tr, NoSession}
      /\ ThreadTypeOK'
  BY DEF OpenLocal, CloseLocal, Leave, FinalInv, TypeInv, TypeOK, ThreadFinal
<1>2. WireTypeOK /\ NoRep.op = "none" /\ (rep' = rep \/ Consume)
  BY DEF TypeInv, TypeOK, NoRep, Reply, OpenLocal, CloseLocal, wireVars
<1>3. \A c \in Conns : rep'[c] = rep[c] \/ rep'[c].op = "none"
  BY <1>2 DEF Consume, WireTypeOK
<1>4. /\ Renamed' = Renamed /\ made' = made
      /\ \A s : Complete(s)' = Complete(s)
  BY <1>1 DEF Complete, Over, LoggerActive, loggerVars, Renamed
<1>5. FinalDirComplete'
  <2>1. \A p \in fdirs : p[2] \in Renamed
    BY DEF Renamed
  <2>2. SessionOf(ItemOf(cur)) \notin Renamed
    BY <1>1, ItemFacts DEF ItemOf, ThreadFinal
  <2>3. copies \ {ItemOf(cur)} \subseteq copies'
    BY DEF OpenLocal, CloseLocal
  <2>4. \A p \in fdirs : \A i \in Extras : SessionOf(Ext(p[2], i)) = p[2]
    BY ItemFacts
  <2> QED
    BY <1>1, <1>4, <2>1, <2>2, <2>3, <2>4 DEF FinalDirComplete
<1>6. CASE OpenLocal
  <2>1. CASE tpc' = "write" /\ UNCHANGED <<folder, xi, cur>>
    <3>1. tpc = "body"
      BY <1>6 DEF OpenLocal
    <3>2. ThreadFinal'
      BY <1>1, <1>4, <2>1, <3>1 DEF ThreadFinal, Fetching
    <3> QED
      BY <1>1, <1>3, <1>5, <2>1, <3>2, ClientFinal
  <2>2. CASE tpc' = "off"
    BY <1>1, <1>3, <1>5, <2>2, IdleFinal, ClientFinal
  <2> QED
    BY <1>6, <2>1, <2>2 DEF OpenLocal, Leave
<1>7. CASE CloseLocal
  <2>1. tpc = "write" /\ folder' = folder /\ AfterWrite
    BY <1>7 DEF CloseLocal
  <2>2. CASE cur.op = "SENDING" /\ tpc' = "remove"
    BY <1>1, <1>3, <1>5, <2>2, IdleFinal, ClientFinal
  <2>3. CASE cur.op = "REQUESTED" /\ tpc' \in {"extra", "rmdir"}
    <3>1. Complete(folder)
      BY <1>1, <2>1, <2>3 DEF ThreadFinal, Fetching
    <3>2. ThreadFinal'
      BY <1>1, <1>4, <2>1, <2>3, <3>1 DEF ThreadFinal
    <3> QED
      BY <1>1, <1>3, <1>5, <2>3, <3>2, ClientFinal
  <2> QED
    BY <1>1, <2>1, <2>2, <2>3 DEF AfterWrite, ThreadForm
<1> QED
  BY <1>6, <1>7

\* The local directory is renamed when its session has been handed over and has
\* left the drone, and with nothing of it under way.
LEMMA RenameFinal ==
  ASSUME TypeInv, TypeInv', SafeInv, Kept, FinalInv, UNCHANGED <<storeVars, loggerVars, childVars, used>>,
         ReceiveDirRemoved
  PROVE  FinalInv'
<1>1. /\ tconn \in Conns /\ WireFinal(tconn) /\ ThreadFinal /\ FinalDirComplete /\ LoggerFinishes /\ WireTypeOK
      /\ tpc = "wait_rmdir" /\ rep[tconn].op = "REMOVED" /\ LinkUp /\ Dialogue
      /\ \A s \in Renamed : Over(s) /\ s \notin dirs
      /\ \A c \in Conns : WireFinal(c) /\ Talk(c)
  BY DEF ReceiveDirRemoved, Received, LinkUp, TypeInv, TypeOK, ThreadTypeOK, FinalInv
<1>2. /\ folder = tr /\ Complete(folder) /\ HandedOver(folder) /\ folder \notin dirs /\ tdir \in {tr, NoSession}
  BY <1>1 DEF ThreadFinal, WireFinal
<1>3. /\ UNCHANGED <<tr, tdir, copies, delivered, made, dirs, link>> /\ tpc' \in {"off", "next"} /\ Consume
      /\ fdirs' = IF tdir \in adirs THEN fdirs \cup {<<folder, tdir>>} ELSE fdirs
  BY DEF ReceiveDirRemoved, Again, Leave, storeVars, loggerVars
<1>4. NoSession \notin adirs
  BY SizeFacts DEF TypeInv, TypeOK, DiskTypeOK
<1>5. fdirs' = fdirs \/ (fdirs' = fdirs \cup {<<folder, folder>>} /\ tdir = folder)
  BY <1>2, <1>3, <1>4
<1>6. Renamed' \subseteq Renamed \cup {folder}
  BY <1>5 DEF Renamed
<1>7. /\ \A s : Over(s)' = Over(s) /\ Complete(s)' = Complete(s)
      /\ LoggerFinishes'
  BY <1>1 DEF Over, Complete, LoggerFinishes, LoggerActive, loggerVars, storeVars
<1>8. \A s \in Renamed' : Over(s)' /\ s \notin dirs'
  BY <1>1, <1>2, <1>3, <1>6, <1>7 DEF Complete
<1>9. ThreadFinal'
  BY <1>2, <1>3, IdleFinal
<1>10. FinalDirComplete'
  <2>1. \A item \in made : SessionOf(item) = folder => item \in copies
    BY <1>1, <1>2 DEF HandedOver, Kept
  <2>2. \A i \in Extras : Ext(folder, i) \in copies
    BY <1>2, <2>1, ItemFacts DEF Complete
  <2> QED
    BY <1>1, <1>3, <1>5, <2>1, <2>2 DEF FinalDirComplete
<1>11. ASSUME NEW c \in Conns PROVE WireFinal(c)'
  <2>1. rep'[c].op = "none"
    <3>1. NoRep.op = "none" /\ NoReq.op = "none"
      BY DEF NoRep, Reply, NoReq, Request
    <3>2. CASE c = tconn
      BY <1>1, <1>3, <3>1, <3>2 DEF Consume, WireTypeOK
    <3>3. CASE c # tconn
      BY <1>1, <1>3, <3>1, <3>3 DEF Consume, WireTypeOK, Talk
    <3> QED
      BY <3>2, <3>3
  <2>2. ~(req'[c].op = "REMOVE_DIR" /\ link'[c] = "up")
    <3>1. Talk(c)' /\ Dialogue'
      BY DEF TypeInv
    <3>2. link'[c] = "up" /\ req'[c].op = "REMOVE_DIR" => c = tconn' /\ LinkUp'
      BY <3>1, ConnAssumption DEF Talk, LinkUp
    <3> QED
      BY <1>3, <3>1, <3>2 DEF Dialogue
  <2> QED
    BY <2>1, <2>2 DEF WireFinal
<1> QED
  BY <1>7, <1>8, <1>9, <1>10, <1>11 DEF FinalInv

\* The only faults are those of the connections.
OnlyLinksFail == FaultKinds \subseteq {"break", "connect"}

\* Keys 3 and 4, a new thread, a new client, a lost or refused connection.
LEMMA ClientRestFinal ==
  ASSUME TypeInv, TypeInv', FinalInv,
         \/ KeyTransmit \/ KeyStopTransmission \/ ResumeTransmission \/ RestartClient
         \/ RefuseConnection \/ \E c \in Conns : BreakLink(c)
  PROVE  FinalInv'
<1>1. /\ UNCHANGED <<storeVars, loggerVars, used, copies, fdirs, delivered>>
      /\ tpc' \in {"off", "connect"} \/ UNCHANGED <<tpc, cur, folder, xi, tr, tdir>>
      /\ tdir' \in {tdir, NoSession} /\ (tr' = tr \/ tdir' = NoSession)
  BY DEF KeyTransmit, KeyStopTransmission, ResumeTransmission, RestartClient, CreateTransmissionThread,
     RefuseConnection, ConnectFails, Leave, BreakLink, threadVars, diskVars
<1>2. ThreadFinal /\ FinalDirComplete' /\ WireTypeOK /\ NoRep.op = "none" /\ NoReq.op = "none"
  BY <1>1 DEF FinalInv, FinalDirComplete, loggerVars, TypeInv, TypeOK, NoRep, Reply, NoReq, Request
<1>3. /\ Renamed' = Renamed
      /\ \A s : Complete(s)' = Complete(s) /\ HandedOver(s)' = HandedOver(s)
  BY <1>1 DEF Complete, Over, LoggerActive, loggerVars, Renamed, HandedOver
<1>4. ThreadFinal'
  <2>1. CASE tpc' \in {"off", "connect"}
    <3>1. tdir' \in {tr', NoSession}
      BY <1>1, <1>2 DEF ThreadFinal
    <3> QED
      BY <2>1, <3>1, IdleFinal
  <2>2. CASE UNCHANGED <<tpc, cur, folder, xi, tr, tdir>>
    BY <1>2, <1>3, <2>2 DEF ThreadFinal, Fetching
  <2> QED
    BY <1>1, <2>1, <2>2
<1>5. CASE UNCHANGED wireVars
  <2>1. tpc' # "wait_rmdir" \/ UNCHANGED <<tpc, folder>>
    BY <1>1
  <2> QED
    BY <1>1, <1>2, <1>4, <1>5, <2>1, ClientFinal DEF wireVars
<1>6. ASSUME NEW c \in Conns, NEW keep \in BOOLEAN, Cut(c, keep), UNCHANGED threadVars PROVE FinalInv'
  <2>1. \A d \in Conns : /\ rep'[d] = rep[d] \/ rep'[d].op = "none"
                         /\ link'[d] = "up" => link[d] = "up" /\ req'[d] = req[d]
    BY <1>2, <1>6 DEF Cut, WireTypeOK
  <2>2. UNCHANGED <<tpc, folder>>
    BY <1>6 DEF threadVars
  <2> QED
    BY <1>1, <1>2, <1>4, <2>1, <2>2, ClientFinal
<1> QED
  BY <1>5, <1>6 DEF KeyTransmit, KeyStopTransmission, ResumeTransmission, RestartClient, CreateTransmissionThread,
     RefuseConnection, ConnectFails, BreakLink

LEMMA FinalNext ==
  ASSUME MonotoneClock, OnlyLinksFail, TypeInv, TypeInv', SafeInv, SafeInv', MadeOnce, Kept, FinalInv, [Next]_vars
  PROVE  FinalInv'
<1>1. CASE Logger
  BY <1>1, LoggerFinal
<1>2. ASSUME NEW c \in Conns, Child(c) PROVE FinalInv'
  BY <1>2, ChildFinal
<1>3. CASE Thread
  BY <1>3, RoundEndFinal, TcpSendFinal, ReceiveFileFinal, WriteFinal, RenameFinal DEF Thread, ThreadStep
<1>4. CASE User
  BY <1>4, LoggerKeysFinal, ClientRestFinal DEF User
<1>5. CASE Faulty
  <2>1. ~(CrashClient \/ FailWrite \/ FailFlush \/ KillLogger) /\ \A c \in Conns : ~FailCount(c)
    BY DEF OnlyLinksFail, CrashClient, FailWrite, FailFlush, KillLogger, FailCount, Fault
  <2> QED
    BY <1>5, <2>1, ClientRestFinal DEF Faulty
<1>6. CASE UNCHANGED vars
  <2>1. UNCHANGED <<storeVars, loggerVars, used, fdirs, delivered, copies, rep, req, link, tpc, folder, cur, tr, tdir, xi>>
    BY <1>6 DEF vars, wireVars, threadVars, diskVars
  <2>2. ThreadFinal' /\ FinalDirComplete'
    BY <2>1 DEF FinalInv, ThreadFinal, FinalDirComplete, Fetching, Renamed, Complete, HandedOver, Over, LoggerActive,
       loggerVars
  <2> QED
    BY <2>1, <2>2, ClientFinal
<1> QED
  BY <1>1, <1>2, <1>3, <1>4, <1>5, <1>6 DEF Next

LEMMA FinalInvariant == MonotoneClock /\ OnlyLinksFail => (Spec => []FinalInv)
<1> SUFFICES ASSUME MonotoneClock, OnlyLinksFail PROVE Spec => []FinalInv
  OBVIOUS
<1>1. SoundDisk /\ "flush" \notin FaultKinds
  BY DEF OnlyLinksFail, SoundDisk
<1>2. TypeInv /\ TypeInv' /\ SafeInv /\ SafeInv' /\ MadeOnce /\ Kept /\ FinalInv /\ [Next]_vars => FinalInv'
  BY FinalNext
<1> QED
  BY <1>1, <1>2, FinalInit, TypeInvariant, SafeInvariant, MadeOnceInvariant, KeptInvariant, PTL DEF Spec

\* A local directory that the thread (TransmissionThread, app/client/client_lib.c)
\* has renamed is the one of the session its name says, and holds every frame and
\* all the remaining files of that session, however often connections are lost or
\* refused and however many sessions, frames and connections there are.
THEOREM RenamedIsComplete == MonotoneClock /\ OnlyLinksFail => (Spec => []FinalDirComplete)
<1>1. FinalInv => FinalDirComplete
  BY DEF FinalInv
<1> QED
  BY <1>1, FinalInvariant, PTL

-----------------------------------------------------------------------------
(* Without a fault nothing is transferred twice.                           *)

\* A step that is no fault.
Faultless == Logger \/ (\E c \in Conns : Child(c)) \/ Thread \/ User \/ UNCHANGED vars

LEMMA FaultlessNext ==
  ASSUME TypeInv, [Next]_vars, faults' = 0
  PROVE  Faultless /\ faults = 0
<1>1. faults \in Nat
  BY FaultAssumption DEF TypeInv, TypeOK
<1>2. ~Faulty
  <2>1. Faulty => faults' = faults + 1
    BY DEF Faulty, BreakLink, CrashClient, RefuseConnection, FailWrite, FailFlush, KillLogger, FailCount, Fault
  <2>2. faults + 1 # 0
    BY <1>1
  <2> QED
    BY <2>1, <2>2
<1>3. Faultless
  BY <1>2 DEF Next, Faultless
<1>4. faults' = faults
  BY <1>3 DEF Faultless, Logger, Child, Thread, User, KeyStart, KeyStop, KeyTransmit, KeyStopTransmission,
     ResumeTransmission, RestartClient, vars
<1> QED
  BY <1>3, <1>4

LEMMA FaultlessSafe ==
  ASSUME MonotoneClock, TypeInv, TypeInv', SafeInv, MadeOnce, Faultless
  PROVE  SafeInv' /\ MadeOnce'
<1>1. SafeInv'
  <2>1. CASE UNCHANGED vars
    <3>1. /\ UNCHANGED <<wireVars, childVars, threadVars, diskVars, used, storeVars, made, lsess, lcnt, lext>>
          /\ lpc' = lpc
      BY <2>1 DEF vars, loggerVars
    <3> QED
      BY <3>1, LoggerEndsSafe
  <2> QED
    BY <2>1, LoggerSafeStep, ChildSafe, ThreadSafeStep, UserSafe DEF Faultless
<1>2. MadeOnce'
  <2>1. CASE UNCHANGED vars
    <3>1. UNCHANGED <<files, made, delivered, lpc, lsess, lcnt, lext, used>> /\ Carried
      BY <2>1 DEF vars, storeVars, loggerVars, diskVars, wireVars, threadVars, Carried
    <3> QED
      BY <3>1, StutterHandsOver DEF LoggerActive
  <2>2. CASE User
    <3>0. faults' = faults /\ faults \in Nat
      BY <2>2, FaultAssumption DEF User, KeyStart, KeyStop, KeyTransmit, KeyStopTransmission, ResumeTransmission,
         RestartClient, TypeInv, TypeOK
    <3>1. ~FailFlush
      BY <3>0 DEF FailFlush, Fault
    <3> QED
      BY <2>2, <3>1, RestHandsOver
  <2> QED
    BY <1>1, <2>1, <2>2, LoggerHandsOver, ChildHandsOver, ThreadHandsOver DEF Faultless
<1> QED
  BY <1>1, <1>2

LEMMA OnceInit == Init => OnceInv
<1> SUFFICES ASSUME Init PROVE SafeInv /\ MadeOnce /\ Connected /\ ExtrasLeft /\ Fresh
  BY DEF OnceInv
<1> USE DEF Init, StoreInit, LoggerInit, WireInit, ChildInit, ThreadInit, DiskInit
<1>1. NoRep.op = "none" /\ NoRep.ok = FALSE
  BY DEF NoRep, Reply
<1>2. SafeInv
  BY SafeInit
<1>3. MadeOnce /\ ExtrasLeft
  BY <1>1 DEF MadeOnce, OlderMade, WholeMade, ExtrasLeft, LoggerActive
<1>4. Connected
  BY DEF Connected
<1>5. Fresh
  BY <1>1 DEF Fresh, Fetching
<1> QED
  BY <1>2, <1>3, <1>4, <1>5

\* A step of the logger, START or STOP: a file that is opened has not been made
\* before, so it is not on the client.
LEMMA DroneStepOnce ==
  ASSUME Connected, Fresh, UNCHANGED <<wireVars, childVars, threadVars, diskVars>>, made \subseteq made',
         copies \cap files' = copies \cap files
  PROVE  Connected' /\ Fresh'
<1> USE DEF wireVars, childVars, threadVars, diskVars
<1>1. Connected'
  BY DEF Connected
<1>2. \A item : BeingRemoved(item)' = BeingRemoved(item)
  BY DEF BeingRemoved, Closing, Fetching, ItemOf
<1>3. \A c \in Conns : ItemOf(rep[c])' = ItemOf(rep[c])
  BY DEF ItemOf
<1> QED
  BY <1>1, <1>2, <1>3 DEF Fresh, Fetching

LEMMA LoggerOnce ==
  ASSUME TypeInv, SafeInv, MadeOnce, Connected, ExtrasLeft, Fresh, Logger
  PROVE  Connected' /\ ExtrasLeft' /\ Fresh'
<1>1. /\ LoggerSafe /\ LoggerForm /\ LoggerTypeOK /\ copies \subseteq made /\ LoggerStep /\ used' = used
      /\ UNCHANGED <<wireVars, childVars, threadVars, diskVars>>
  BY DEF SafeInv, TypeInv, TypeOK, Fresh, Logger
<1>2. /\ LoggerActive /\ lsess' = lsess /\ made \subseteq made' /\ files \subseteq files'
      /\ files' \subseteq files \cup {Pcd(lsess, lcnt), Ext(lsess, lext)}
      /\ tofs \subseteq tofs' /\ tofs' \subseteq tofs \cup {lsess}
  BY <1>1, OpensNew DEF LoggerStep, InstallHandlers, MakeSessionDir, MakeTofDir, OpenFrame, CloseFrame, LeaveLoop,
     OpenExtra, CloseExtra, LoggerDone, CopyFails, LoggerActive, storeVars
<1>3. lext \in Nat /\ NumExtras \in Nat /\ Extras = 1..NumExtras /\ lcnt \in Nat /\ NumFrames \in Nat
      /\ Frames = 0..(NumFrames - 1) /\ lsess \in used
  BY <1>1, <1>2, SizeFacts DEF LoggerTypeOK, LoggerSafe, Extras, Frames
<1>4. copies \cap files' = copies \cap files
  <2>1. CASE OpenFrame
    <3>1. lcnt \in Frames /\ ~(lcnt < lcnt) /\ files' = files \cup {Pcd(lsess, lcnt)}
      BY <1>3, <2>1 DEF OpenFrame
    <3>2. Pcd(lsess, lcnt) \notin made
      BY <1>2, <3>1 DEF MadeOnce, OlderMade
    <3> QED
      BY <1>1, <3>1, <3>2
  <2>2. CASE OpenExtra
    <3>1. lext \in Extras /\ ~(lext < lext) /\ files' = files \cup {Ext(lsess, lext)}
      BY <1>1, <1>3, <2>2 DEF OpenExtra, LoggerTypeOK
    <3>2. Ext(lsess, lext) \notin made
      BY <1>2, <3>1 DEF MadeOnce, OlderMade
    <3> QED
      BY <1>1, <3>1, <3>2
  <2>3. CASE ~OpenFrame /\ ~OpenExtra
    <3>1. files' = files
      BY <1>1, <2>3 DEF LoggerStep, InstallHandlers, MakeSessionDir, MakeTofDir, CloseFrame, LeaveLoop,
         CloseExtra, LoggerDone, CopyFails, storeVars
    <3> QED
      BY <3>1
  <2> QED
    BY <2>1, <2>2, <2>3
<1>5. lpc' \in {"spawn", "mkdir", "mktof"} => lsess \notin tofs' /\ lext' = 1
  BY <1>1 DEF LoggerStep, InstallHandlers, MakeSessionDir, MakeTofDir, OpenFrame, CloseFrame, LeaveLoop,
     OpenExtra, CloseExtra, LoggerDone, CopyFails, storeVars, ExtrasLeft
<1>6. /\ LoggerActive' => \A i \in Extras : i < lext' => lsess \notin tofs' \/ Ext(lsess, i) \in files'
      /\ ~LoggerActive' => lsess \notin tofs' \/ \A i \in Extras : Ext(lsess, i) \in files'
  <2>1. CASE CloseExtra
    <3>1. lext' = lext + 1 /\ lpc' = "extra" /\ Ext(lsess, lext) \in files' /\ tofs' = tofs
      BY <1>1, <1>2, <2>1 DEF CloseExtra, LoggerSafe, storeVars
    <3>2. \A i \in Extras : i < lext + 1 => i < lext \/ i = lext
      BY <1>3
    <3> QED
      BY <1>2, <3>1, <3>2 DEF ExtrasLeft, LoggerActive
  <2>2. CASE LoggerDone
    <3>1. \A i \in Extras : i < lext
      BY <1>3, <2>2 DEF LoggerDone
    <3> QED
      BY <1>2, <2>2, <3>1 DEF LoggerDone, ExtrasLeft, LoggerActive, storeVars
  <2>3. CASE CopyFails
    BY <1>1, <2>3 DEF CopyFails, LoggerSafe, LoggerActive, storeVars
  <2>4. CASE MakeTofDir
    <3>1. lext' = 1 /\ lpc' = "loop"
      BY <2>4 DEF MakeTofDir, ExtrasLeft
    <3>2. \A i \in Extras : ~(i < 1)
      BY <1>3
    <3> QED
      BY <3>1, <3>2 DEF LoggerActive
  <2>5. CASE ~CloseExtra /\ ~LoggerDone /\ ~CopyFails /\ ~MakeTofDir
    <3>1. lext' = lext /\ LoggerActive' /\ tofs' = tofs
      BY <1>1, <2>5 DEF LoggerStep, InstallHandlers, MakeSessionDir, OpenFrame, CloseFrame,
         LeaveLoop, OpenExtra, LoggerActive, storeVars
    <3> QED
      BY <1>2, <3>1 DEF ExtrasLeft
  <2> QED
    BY <2>1, <2>2, <2>3, <2>4, <2>5
<1>7. ASSUME NEW s \in tofs', Over(s)', NEW i \in Extras PROVE Ext(s, i) \in files'
  <2>1. CASE s = lsess
    BY <1>2, <1>6, <1>7, <2>1 DEF Over
  <2>2. CASE s # lsess
    BY <1>1, <1>2, <1>7, <2>2 DEF Over, ExtrasLeft
  <2> QED
    BY <2>1, <2>2
<1>8. ExtrasLeft'
  BY <1>2, <1>5, <1>6, <1>7 DEF ExtrasLeft
<1> QED
  BY <1>1, <1>2, <1>4, <1>8, DroneStepOnce

\* START opens a session that has no directory, and STOP ends a logger only before
\* it has made one.
LEMMA LoggerKeysOnce ==
  ASSUME MonotoneClock, TypeInv, SafeInv, Connected, ExtrasLeft, Fresh, KeyStop \/ \E z \in Sessions : KeyStart(z)
  PROVE  Connected' /\ ExtrasLeft' /\ Fresh'
<1>1. /\ LoggerSafe /\ UNCHANGED <<wireVars, childVars, threadVars, diskVars, files, made, tofs>>
  BY DEF SafeInv, KeyStop, Terminate, KeyStart, Launch, storeVars
<1>2. ASSUME NEW z \in Sessions, KeyStart(z) PROVE ExtrasLeft'
  <2>1. /\ ~LoggerActive /\ lpc' = "spawn" /\ used' = used \cup {z} /\ lsess' = z /\ lext' = 1 /\ z \notin tofs
    BY <1>1, <1>2, StartsNew DEF KeyStart, Launch, LoggerSafe
  <2>2. \A s \in tofs : Over(s)
    BY <1>1, <2>1 DEF Over, LoggerSafe
  <2> QED
    BY <1>1, <2>1, <2>2 DEF ExtrasLeft, LoggerActive
<1>3. ASSUME KeyStop PROVE ExtrasLeft'
  <2>1. /\ UNCHANGED <<used, lsess, lext>> /\ LoggerActive
        /\ lpc' = lpc \/ (lpc' = "off" /\ lpc = "spawn")
    BY <1>3 DEF KeyStop, Terminate
  <2>2. \A s \in tofs : Over(s)' => Over(s)
    BY <2>1 DEF Over, ExtrasLeft, LoggerActive
  <2> QED
    BY <1>1, <2>1, <2>2 DEF ExtrasLeft, LoggerActive
<1>4. ExtrasLeft'
  BY <1>2, <1>3
<1> QED
  BY <1>1, <1>4, DroneStepOnce

\* A child ends only on CLOSE, so never on the connection of the thread.
LEMMA ChildConnected ==
  ASSUME TypeInv, Connected, NEW c \in Conns, Child(c)
  PROVE  Connected'
<1>1. /\ WireTypeOK /\ ThreadTypeOK /\ Talk(c) /\ Dialogue /\ ChildStep(c) /\ NoReq.op = "none"
      /\ UNCHANGED <<tconn, cur, folder>>
  BY DEF TypeInv, TypeOK, Child, NoReq, Request, threadVars
<1>2. \A d \in Conns \ {c} : link'[d] = link[d] /\ req'[d] = req[d]
  BY ChildFrame
<1>3. link[c] # "cut" /\ (tconn = c => link[c] = "up")
  BY ConnAssumption DEF Connected
<1>4. CASE ChildEnds(c)
  <2>1. c # tconn
    <3>1. tconn = c => LinkUp
      BY <1>3, ConnAssumption DEF LinkUp
    <3> QED
      BY <1>1, <1>3, <1>4, <3>1 DEF ChildEnds, Asked, Dialogue
  <2>2. link'[c] = "free"
    BY <1>1, <1>4 DEF ChildEnds, WireTypeOK
  <2> QED
    BY <1>1, <1>2, <1>3, <2>1, <2>2 DEF Connected, ThreadTypeOK
<1>5. CASE ~ChildEnds(c)
  <2>1. link' = link /\ (req' = req \/ req' = [req EXCEPT ![c] = NoReq])
    BY <1>1, <1>5 DEF ChildStep, ScanDirs, FindTof, ScanFiles, CheckLogger, SendNextFile, SendFile, CompressAndSend,
       RemoveFile, UnlinkTree, RemoveDir, AnswerError, Answer, wireVars
  <2>2. \A d \in Conns : req'[d] = req[d] \/ req'[d].op = "none"
    BY <1>1, <2>1 DEF WireTypeOK
  <2> QED
    BY <1>1, <2>1, <2>2 DEF Connected, ThreadTypeOK
<1> QED
  BY <1>4, <1>5

\* A child removes frames, or all that is below a session together with tof.
LEMMA ChildExtras ==
  ASSUME TypeInv, ExtrasLeft, NEW c \in Conns, Child(c)
  PROVE  ExtrasLeft'
<1>1. /\ ChildStep(c) /\ UNCHANGED <<lpc, lsess, lext, used>> /\ tofs' \subseteq tofs
  BY ChildFrame DEF Child, loggerVars
<1>2. ASSUME NEW s \in tofs', NEW i, Ext(s, i) \in files PROVE Ext(s, i) \in files'
  <2>1. CASE RemoveFile(c)
    BY <1>2, <2>1 DEF RemoveFile, Pcd, Ext, storeVars
  <2>2. CASE UnlinkTree(c)
    BY <1>2, <2>2 DEF UnlinkTree, FilesOf, SessionOf, Ext, storeVars
  <2>3. CASE ~RemoveFile(c) /\ ~UnlinkTree(c)
    <3>1. files' = files
      BY <1>1, <2>3 DEF ChildStep, ScanDirs, FindTof, ScanFiles, CheckLogger, SendNextFile, SendFile,
         CompressAndSend, RemoveDir, ChildEnds, storeVars
    <3> QED
      BY <1>2, <3>1
  <2> QED
    BY <2>1, <2>2, <2>3
<1>3. \A s : Over(s)' = Over(s)
  BY <1>1 DEF Over, LoggerActive
<1>4. ASSUME NEW s \in tofs', Over(s), NEW i \in Extras PROVE Ext(s, i) \in files'
  BY <1>1, <1>2, <1>4 DEF ExtrasLeft
<1>5. ASSUME LoggerActive, lsess \in tofs', NEW i \in Extras, i < lext PROVE Ext(lsess, i) \in files'
  BY <1>1, <1>2, <1>5 DEF ExtrasLeft
<1> QED
  BY <1>1, <1>3, <1>4, <1>5 DEF ExtrasLeft, LoggerActive

\* Fresh after a step of a child, from what it leaves on its own connection.
LEMMA ChildFresh ==
  ASSUME TypeInv, Fresh, NEW c \in Conns, Child(c),
         rep'[c].op \in {"SENDING", "REQUESTED"} => ItemOf(rep'[c]) \notin copies,
         rep'[c].op \in {"REMOVED", "ERROR"} \/ cpc'[c] = "rmrf" => copies \cap files' = {}
  PROVE  Fresh'
<1>1. /\ UNCHANGED <<made, copies, adirs, tpc, cur, folder, xi, tdir>> /\ files' \subseteq files
      /\ \A d \in Conns \ {c} : rep'[d] = rep[d] /\ cpc'[d] = cpc[d]
  BY ChildFrame DEF loggerVars, diskVars, threadVars
<1>2. \A item : BeingRemoved(item)' = BeingRemoved(item)
  BY <1>1 DEF BeingRemoved, Closing, Fetching, ItemOf
<1>3. ASSUME NEW d \in Conns
      PROVE  /\ rep'[d].op \in {"SENDING", "REQUESTED"} => ItemOf(rep'[d]) \notin copies'
             /\ rep'[d].op \in {"REMOVED", "ERROR"} \/ cpc'[d] = "rmrf" => copies' \cap files' = {}
  <2>1. CASE d = c
    BY <1>1, <2>1
  <2>2. CASE d # c
    BY <1>1, <1>3, <2>2 DEF Fresh
  <2> QED
    BY <2>1, <2>2
<1>4. \A item \in copies' \cap files' : BeingRemoved(item)'
  BY <1>1, <1>2 DEF Fresh
<1> QED
  BY <1>1, <1>3, <1>4 DEF Fresh, Fetching

\* Where no removal is under way, nothing is in both places; where one is, what is
\* in both places is what it removes.
LEMMA InBoth ==
  ASSUME TypeInv, Fresh
  PROVE  /\ tpc \notin {"remove", "wait_remove"} /\ ~Closing => copies \cap files = {}
         /\ tpc \in {"remove", "wait_remove"} => copies \cap files \subseteq {Pcd(cur.s, cur.k)}
         /\ Closing => \A item \in copies \cap files : \E i \in Extras : i < xi /\ item = Ext(folder, i)
         /\ Closing /\ xi = 1 => copies \cap files = {}
<1>1. tpc \in {"remove", "wait_remove"} => cur.op = "SENDING" /\ ~Closing
  BY DEF TypeInv, ThreadForm, Closing, Fetching
<1>2. \A item \in copies \cap files : BeingRemoved(item)
  BY DEF Fresh
<1>3. \A i \in Extras : ~(i < 1)
  BY DEF Extras
<1> QED
  BY <1>1, <1>2, <1>3 DEF BeingRemoved, ItemOf

\* What a child answers: a file that the client lacks, or that nothing is in both
\* places any more.
LEMMA ChildOnce ==
  ASSUME TypeInv, SafeInv, Connected, ExtrasLeft, Fresh, NEW c \in Conns, Child(c)
  PROVE  Connected' /\ ExtrasLeft' /\ Fresh'
<1>1. /\ WireTypeOK /\ ChildTypeOK /\ Talk(c) /\ ChildStep(c) /\ RequestSafe(c) /\ LoggerSafe /\ ThreadSafe /\ ThreadForm
      /\ ThreadTypeOK /\ copies' = copies /\ link[c] # "cut"
  BY DEF TypeInv, TypeOK, SafeInv, Child, Connected, diskVars
<1>2. ASSUME link[c] # "free", req[c].op \in {"SEND_NEXT", "REMOVE_FILE", "REMOVE_DIR", "SEND_FILE"}
      PROVE  /\ link[c] = "up" /\ c = tconn /\ tconn # NoConn
             /\ req[c].op = "SEND_NEXT" => tpc = "wait_next"
             /\ req[c].op = "REMOVE_FILE" => tpc = "wait_remove"
             /\ req[c].op = "SEND_FILE" => tpc = "wait_extra"
             /\ req[c].op = "REMOVE_DIR" => tpc = "wait_rmdir"
  <2>1. link[c] = "up"
    BY <1>1, <1>2 DEF WireTypeOK
  <2> QED
    BY <1>2, <2>1, ThreadWaits, ConnAssumption
<1>3. /\ rep[c].op \in {"SENDING", "REQUESTED"} => ItemOf(rep[c]) \notin copies
      /\ rep[c].op \in {"REMOVED", "ERROR"} \/ cpc[c] = "rmrf" => copies \cap files' = {}
  <2>1. files' \subseteq files
    BY ChildFrame
  <2> QED
    BY <2>1 DEF Fresh
<1>4. ASSUME NEW r, Answer(c, r), r.op \in {"SENDING", "REQUESTED"} => ItemOf(r) \notin copies,
             r.op \in {"REMOVED", "ERROR"} => copies \cap files' = {}
      PROVE  Fresh'
  <2>1. (rep'[c] = rep[c] \/ rep'[c] = r) /\ cpc'[c] = "idle"
    BY <1>1, <1>4 DEF Answer, WireTypeOK, ChildTypeOK
  <2> QED
    BY <1>3, <1>4, <2>1, ChildFresh
<1>5. ASSUME AnswerError(c), copies \cap files' = {} PROVE Fresh'
  <2>1. Reply("ERROR", NoSession, 0, FALSE).op = "ERROR"
    BY DEF Reply
  <2> QED
    BY <1>4, <1>5, <2>1 DEF AnswerError
<1>6. ASSUME UNCHANGED wireVars, cpc'[c] # "rmrf" \/ copies \cap files' = {} PROVE Fresh'
  BY <1>3, <1>6, ChildFresh DEF wireVars
<1>7. ASSUME ScanDirs(c) \/ ScanFiles(c) PROVE Fresh'
  BY <1>1, <1>6, <1>7 DEF ScanDirs, ScanFiles, ChildTypeOK
<1>8. ASSUME FindTof(c) PROVE Fresh'
  <2>1. copies \cap files = {}
    BY <1>2, <1>8, ChildBusy, InBoth DEF FindTof, Closing, Fetching
  <2>2. CASE AnswerError(c)
    BY <1>5, <1>8, <2>1, <2>2 DEF FindTof, storeVars
  <2>3. CASE ~AnswerError(c)
    BY <1>1, <1>6, <1>8, <2>3 DEF FindTof, ChildTypeOK
  <2> QED
    BY <2>2, <2>3
<1>9. ASSUME CheckLogger(c) PROVE Fresh'
  <2>1. /\ Reply("NO_TR", NoSession, 0, FALSE).op = "NO_TR" /\ Reply("WAIT", NoSession, 0, FALSE).op = "WAIT"
        /\ Reply("EMPTY", nd[c].first, 0, FALSE).op = "EMPTY"
    BY DEF Reply
  <2>2. CASE UNCHANGED wireVars /\ cpc' = [cpc EXCEPT ![c] = "compress"]
    BY <1>1, <1>6, <2>2 DEF ChildTypeOK
  <2> QED
    BY <1>4, <1>9, <2>1, <2>2 DEF CheckLogger
<1>10. ASSUME SendNextFile(c) PROVE Fresh'
  <2> DEFINE s == nd[c].first
             n == nf[c].first
             r == Reply("SENDING", s, n, Pcd(s, n) \in made)
  <2>1. copies \cap files = {}
    BY <1>2, <1>10, ChildBusy, InBoth DEF SendNextFile, Closing, Fetching
  <2>2. r.op = "SENDING" /\ ItemOf(r) = Pcd(s, n)
    BY DEF Reply, ItemOf
  <2>3. \/ Answer(c, r) /\ Pcd(s, n) \in files
        \/ AnswerError(c)
    BY <1>10 DEF SendNextFile, CompressAndSend
  <2>4. files' = files
    BY <1>10 DEF SendNextFile, CompressAndSend, storeVars
  <2> HIDE DEF r
  <2>5. CASE Answer(c, r) /\ Pcd(s, n) \in files
    <3>1. ItemOf(r) \notin copies
      BY <2>1, <2>2, <2>5
    <3> QED
      BY <1>4, <2>2, <2>5, <3>1
  <2> QED
    BY <1>5, <2>1, <2>3, <2>4, <2>5
<1>11. ASSUME SendFile(c) PROVE Fresh'
  <2> DEFINE r == Reply("REQUESTED", tr, xi, Ext(tr, xi) \in made)
  <2>1. /\ tpc = "wait_extra" /\ req[c].s = tr /\ req[c].k = xi
    BY <1>1, <1>2, <1>11 DEF SendFile, Asked, Alive, RequestSafe
  <2>2. r.op = "REQUESTED" /\ ItemOf(r) = Ext(tr, xi)
    BY DEF Reply, ItemOf
  <2>3. \/ Answer(c, r) /\ Ext(tr, xi) \in files
        \/ AnswerError(c) /\ Ext(tr, xi) \notin files
    BY <1>11, <2>1 DEF SendFile, CompressAndSend
  <2>4. files' = files
    BY <1>11 DEF SendFile, CompressAndSend, storeVars
  <2>5. Closing /\ Fetching /\ xi \in Extras /\ NumExtras \in Nat
    BY <1>1, <2>1, SizeFacts DEF Closing, Fetching, ThreadForm, ThreadTypeOK, Extras
  <2> HIDE DEF r
  <2>6. CASE Answer(c, r) /\ Ext(tr, xi) \in files
    <3>1. Ext(tr, xi) \notin copies
      <4>1. ASSUME NEW i \in Extras, i < xi PROVE Ext(folder, i) # Ext(tr, xi)
        <5>1. i # xi
          BY <2>5, <4>1 DEF Extras
        <5> QED
          BY <5>1 DEF Ext
      <4> QED
        BY <2>5, <2>6, <4>1, InBoth
    <3> QED
      BY <1>4, <2>2, <2>6, <3>1
  <2>7. CASE AnswerError(c) /\ Ext(tr, xi) \notin files
    <3>1. ASSUME NEW item \in copies \cap files PROVE FALSE
      <4>1. PICK i \in Extras : i < xi /\ item = Ext(folder, i)
        BY <2>5, InBoth
      <4>2. xi > 1
        BY <2>5, <4>1 DEF Extras
      <4>3. folder = tr /\ Over(folder)
        BY <1>1, <2>5, <4>2 DEF ThreadSafe, Current
      <4>4. folder \in tofs
        BY <1>1, <4>1, ItemFacts DEF LoggerSafe
      <4> QED
        BY <2>5, <2>7, <4>3, <4>4 DEF ExtrasLeft
    <3> QED
      BY <1>5, <2>4, <2>7, <3>1
  <2> QED
    BY <2>3, <2>6, <2>7
<1>12. ASSUME RemoveFile(c) PROVE Fresh'
  <2>1. /\ tpc = "wait_remove" /\ req[c].s = cur.s /\ req[c].k = cur.k
    BY <1>1, <1>2, <1>12 DEF RemoveFile, Asked, Alive, Connected
  <2>2. copies \cap files' = {}
    BY <1>12, <2>1, InBoth DEF RemoveFile, storeVars
  <2>3. Reply("REMOVED", req[c].s, 0, FALSE).op = "REMOVED"
    BY DEF Reply
  <2> QED
    BY <1>4, <1>5, <1>12, <2>2, <2>3 DEF RemoveFile
<1>13. ASSUME UnlinkTree(c) PROVE Fresh'
  <2>1. tpc = "wait_rmdir" /\ req[c].s = folder
    BY <1>1, <1>2, <1>13 DEF UnlinkTree, Asked, Alive, Connected
  <2>2. \A item \in copies \cap files : SessionOf(item) = folder
    BY <2>1, InBoth, ItemFacts DEF Closing
  <2>3. copies \cap files' = {}
    BY <1>1, <1>13, <2>1, <2>2 DEF UnlinkTree, storeVars, FilesOf, LoggerSafe
  <2>4. CASE AnswerError(c)
    BY <1>5, <2>3, <2>4
  <2>5. CASE ~AnswerError(c)
    BY <1>6, <1>13, <2>3, <2>5 DEF UnlinkTree
  <2> QED
    BY <2>4, <2>5
<1>14. ASSUME RemoveDir(c) PROVE Fresh'
  <2>1. copies \cap files' = {}
    BY <1>3, <1>14 DEF RemoveDir
  <2>2. Reply("REMOVED", req[c].s, 0, FALSE).op = "REMOVED"
    BY DEF Reply
  <2> QED
    BY <1>4, <1>5, <1>14, <2>1, <2>2 DEF RemoveDir
<1>15. ASSUME ChildEnds(c) PROVE Fresh'
  <2>1. rep' = rep /\ cpc'[c] = "idle"
    BY <1>1, <1>15 DEF ChildEnds, ChildTypeOK
  <2> QED
    BY <1>3, <2>1, ChildFresh
<1>16. Fresh'
  BY <1>1, <1>7, <1>8, <1>9, <1>10, <1>11, <1>12, <1>13, <1>14, <1>15 DEF ChildStep
<1> QED
  BY <1>16, ChildConnected, ChildExtras

\* The thread's connection is never cut, so it never loses it; it waits for a
\* removal only when it has just asked for it.
LEMMA ThreadConnected ==
  ASSUME TypeInv, TypeInv', Connected, Thread
  PROVE  ~ConnectionLost /\ Connected'
<1>1. /\ WireTypeOK /\ ThreadTypeOK /\ ThreadForm /\ ThreadStep /\ ThreadTypeOK' /\ Dialogue'
  BY DEF TypeInv, TypeOK, Thread
<1>2. ~ConnectionLost
  BY <1>1 DEF ConnectionLost, Sends, Waits, ThreadForm, Connected, LinkUp
<1>3. /\ \A c \in Conns : link'[c] # "cut"
      /\ tconn' # NoConn => link'[tconn'] = "up"
  <2>1. CASE OpenConnection
    BY <1>1, <2>1 DEF OpenConnection, Connected, WireTypeOK
  <2>2. CASE ~OpenConnection
    <3>1. link' = link /\ tconn' \in {tconn, NoConn}
      BY <1>1, <1>2, <2>2 DEF ThreadStep, TcpSendTT, ReceiveError, ReceiveWait, ReceiveNoTr, ReceiveSending,
         ReceiveEmpty, ReceiveRequested, OpenLocal, CloseLocal, ReceiveRemoved, ReceiveDirRemoved, Again, Leave,
         wireVars
    <3> QED
      BY <3>1 DEF Connected
  <2> QED
    BY <2>1, <2>2
<1>4. tconn' # NoConn => LinkUp'
  BY <1>3 DEF LinkUp
<1>5. CASE TcpSendTT
  <2>1. /\ tpc \in Sends /\ LinkUp /\ tpc' = WaitAfter(tpc) /\ UNCHANGED <<tconn, folder, cur>>
        /\ req' = [req EXCEPT ![tconn] = NextRequest]
    BY <1>5 DEF TcpSendTT
  <2>2. tconn \in Conns /\ req'[tconn] = NextRequest
    BY <1>1, <2>1 DEF LinkUp, ThreadTypeOK, WireTypeOK
  <2>3. /\ NextRequest.op = "REMOVE_FILE" => NextRequest.s = cur.s /\ NextRequest.k = cur.k
        /\ NextRequest.op = "REMOVE_DIR" => NextRequest.s = folder
    BY <2>1 DEF NextRequest, Sends, Request
  <2> QED
    BY <1>2, <1>3, <2>1, <2>2, <2>3 DEF Connected
<1>6. CASE ~TcpSendTT
  <2>1. tpc' \notin {"wait_remove", "wait_rmdir"}
    BY <1>1, <1>2, <1>6 DEF ThreadStep, OpenConnection, ReceiveError, ReceiveWait, ReceiveNoTr, ReceiveSending,
       ReceiveEmpty, ReceiveRequested, OpenLocal, CloseLocal, AfterWrite, ReceiveRemoved, ReceiveDirRemoved, Again, Leave
  <2>2. tconn' # NoConn => req'[tconn'].op \notin {"REMOVE_FILE", "REMOVE_DIR"}
    BY <1>1, <1>4, <2>1 DEF Dialogue
  <2> QED
    BY <1>2, <1>3, <2>2 DEF Connected
<1> QED
  BY <1>5, <1>6

\* Fresh after a step of the client that copies nothing.
LEMMA ClientFresh ==
  ASSUME Fresh, UNCHANGED <<files, made, cpc>>, copies' \subseteq copies,
         \A c \in Conns : rep'[c] = rep[c] \/ rep'[c].op = "none",
         \A item \in copies \cap files : BeingRemoved(item)',
         (Fetching /\ xi > 1)' \/ (tpc' = "write" /\ cur'.op = "REQUESTED") => tdir' \in adirs'
  PROVE  Fresh'
<1>1. \A item \in copies' \cap files' : BeingRemoved(item)'
  OBVIOUS
<1>2. ASSUME NEW c \in Conns
      PROVE  /\ rep'[c].op \in {"SENDING", "REQUESTED"} => ItemOf(rep'[c]) \notin copies'
             /\ rep'[c].op \in {"REMOVED", "ERROR"} \/ cpc'[c] = "rmrf" => copies' \cap files' = {}
  BY <1>2 DEF Fresh
<1>3. copies' \subseteq made'
  BY DEF Fresh
<1> QED
  BY <1>1, <1>2, <1>3 DEF Fresh

\* ... and after which the thread is where it removes nothing.
LEMMA RestFresh ==
  ASSUME Fresh, UNCHANGED <<files, made, cpc>>, copies' \subseteq copies, copies \cap files = {},
         \A c \in Conns : rep'[c] = rep[c] \/ rep'[c].op = "none",
         tpc' \in {"off", "connect", "next", "wait_next", "remove", "wait_remove"}
  PROVE  Fresh'
<1>1. ~Fetching' /\ tpc' # "write"
  BY DEF Fetching
<1> QED
  BY <1>1, ClientFresh

\* What is written is not on the wire any more, and is removed next.
LEMMA CloseLocalFresh ==
  ASSUME TypeInv, SafeInv, MadeOnce, Connected, Fresh, Thread, CloseLocal
  PROVE  Fresh'
<1>1. /\ WireTypeOK /\ ThreadTypeOK /\ ThreadForm /\ ThreadSafe /\ Dialogue /\ \A c \in Conns : Talk(c)
      /\ tpc = "write" /\ AfterWrite /\ UNCHANGED <<folder, tdir, adirs, files, made, cpc, rep>>
      /\ copies' \subseteq copies \cup {ItemOf(cur)} /\ (~cur.ok => copies' = copies)
  BY DEF TypeInv, TypeOK, SafeInv, Thread, CloseLocal, storeVars, loggerVars, childVars, wireVars
<1>2. copies' \subseteq made'
  BY <1>1 DEF MadeOnce, WholeMade, Fresh
<1>3. ASSUME NEW c \in Conns
      PROVE  rep'[c].op \notin {"SENDING", "REQUESTED", "REMOVED", "ERROR"} /\ cpc'[c] # "rmrf"
  <2>1. rep[c].op \notin {"SENDING", "REQUESTED", "REMOVED", "ERROR"}
    <3>1. rep[c].op # "none" => c = tconn /\ LinkUp
      BY InFlight, ConnAssumption DEF AllUnderWay, UnderWay, LinkUp
    <3> QED
      BY <1>1, <3>1 DEF Dialogue, Waits
  <2>2. cpc[c] # "rmrf"
    <3>1. cpc[c] = "rmrf" => link[c] = "up" /\ req[c].op = "REMOVE_DIR"
      BY <1>1, ChildBusy DEF Connected, WireTypeOK
    <3> QED
      BY <1>1, <3>1, ThreadWaits
  <2> QED
    BY <1>1, <2>1, <2>2
<1>4. CASE cur.op = "SENDING"
  <2>1. tpc' = "remove" /\ cur' = cur
    BY <1>1, <1>4 DEF AfterWrite
  <2>2. copies \cap files = {}
    BY <1>1, <1>4, InBoth DEF Closing, Fetching
  <2>3. \A item \in copies' \cap files' : item = ItemOf(cur')
    BY <1>1, <2>1, <2>2
  <2>4. \A item \in copies' \cap files' : BeingRemoved(item)'
    BY <2>1, <2>3 DEF BeingRemoved
  <2>5. ~Fetching'
    BY <2>1 DEF Fetching
  <2> QED
    BY <1>2, <1>3, <2>1, <2>4, <2>5 DEF Fresh
<1>5. CASE cur.op # "SENDING"
  <2>1. /\ tpc' \in {"extra", "rmdir"} /\ xi' = xi + 1 /\ cur.op = "REQUESTED" /\ Closing' /\ Fetching /\ Closing
    BY <1>1, <1>5 DEF AfterWrite, ThreadForm, Closing, Fetching
  <2>2. ItemOf(cur) = Ext(folder, xi)
    BY <1>1, <2>1 DEF ThreadSafe, Current, ItemOf
  <2>3. xi \in Extras /\ xi < xi + 1 /\ \A i \in Extras : i < xi => i < xi + 1
    BY <1>1, <2>1, SizeFacts DEF ThreadTypeOK, ThreadForm, Extras
  <2>4. ASSUME NEW item \in copies' \cap files' PROVE BeingRemoved(item)'
    <3>1. \E i \in Extras : i < xi' /\ item = Ext(folder', i)
      <4>1. CASE item \in copies
        BY <1>1, <2>1, <2>3, <4>1, InBoth
      <4>2. CASE item \notin copies
        BY <1>1, <2>1, <2>2, <2>3, <4>2
      <4> QED
        BY <4>1, <4>2
    <3> QED
      BY <2>1, <3>1 DEF BeingRemoved
  <2>5. tdir' \in adirs'
    BY <1>1, <2>1 DEF Fresh
  <2> QED
    BY <1>2, <1>3, <2>4, <2>5 DEF Fresh
<1> QED
  BY <1>4, <1>5

LEMMA ThreadOnce ==
  ASSUME TypeInv, TypeInv', SafeInv, MadeOnce, Connected, ExtrasLeft, Fresh, Thread
  PROVE  Connected' /\ ExtrasLeft' /\ Fresh'
<1>1. /\ WireTypeOK /\ ThreadTypeOK /\ ThreadForm /\ Dialogue /\ ThreadStep /\ ~ConnectionLost /\ Connected'
      /\ UNCHANGED <<files, tofs, made, cpc, lpc, lsess, lext, used>> /\ NoRep.op = "none"
  BY ThreadConnected DEF TypeInv, TypeOK, Thread, storeVars, loggerVars, childVars, NoRep, Reply
<1>2. ExtrasLeft'
  BY <1>1 DEF ExtrasLeft, Over, LoggerActive
<1>3. ASSUME Consume PROVE \A c \in Conns : rep'[c] = rep[c] \/ rep'[c].op = "none"
  BY <1>1, <1>3 DEF Consume, WireTypeOK
<1>4. ASSUME OpenConnection PROVE Fresh'
  <2>1. copies \cap files = {}
    BY <1>4, InBoth DEF OpenConnection, Closing, Fetching
  <2> QED
    BY <1>1, <1>4, <2>1, RestFresh DEF OpenConnection, diskVars
<1>5. ASSUME ReceiveError \/ ReceiveWait \/ ReceiveNoTr \/ ReceiveRemoved \/ ReceiveDirRemoved PROVE Fresh'
  <2>1. /\ LinkUp /\ Consume /\ copies' = copies /\ tpc' \in {"off", "next"}
        /\ tpc = "wait_next" \/ rep[tconn].op \in {"REMOVED", "ERROR"}
    BY <1>5 DEF ReceiveError, ReceiveWait, ReceiveNoTr, ReceiveRemoved, ReceiveDirRemoved, Received, Again, Leave,
       diskVars
  <2>2. CASE tpc = "wait_next"
    <3>1. copies \cap files = {}
      BY <2>2, InBoth DEF Closing, Fetching
    <3> QED
      BY <1>1, <1>3, <2>1, <3>1, RestFresh
  <2>3. CASE rep[tconn].op \in {"REMOVED", "ERROR"}
    <3>1. copies \cap files = {}
      BY <1>1, <2>1, <2>3 DEF Fresh, LinkUp, ThreadTypeOK
    <3> QED
      BY <1>1, <1>3, <2>1, <3>1, RestFresh
  <2> QED
    BY <2>1, <2>2, <2>3
<1>6. ASSUME ReceiveSending \/ ReceiveEmpty PROVE Fresh'
  <2>1. copies \cap files = {}
    BY <1>6, InBoth DEF ReceiveSending, ReceiveEmpty, Received, Closing, Fetching
  <2>2. /\ copies' = copies /\ (rep' = rep \/ Consume) /\ tpc' # "write"
        /\ ~(Fetching /\ xi > 1)'
    BY <1>6 DEF ReceiveSending, ReceiveEmpty, Received, Fetching, diskVars, wireVars
  <2> QED
    BY <1>1, <1>3, <2>1, <2>2, ClientFresh
<1>7. ASSUME TcpSendTT \/ ReceiveRequested PROVE Fresh'
  <2>1. /\ UNCHANGED <<copies, adirs, tdir, folder, xi, rep>> /\ tpc' # "write"
        /\ TcpSendTT => cur' = cur
        /\ Closing => Closing'
        /\ Fetching' => Fetching
        /\ tpc \in {"remove", "wait_remove"} => TcpSendTT /\ tpc' = "wait_remove"
    BY <1>7 DEF TcpSendTT, WaitAfter, Sends, ReceiveRequested, Received, Closing, Fetching, diskVars, wireVars
  <2>2. \A item \in copies \cap files : BeingRemoved(item)'
    BY <2>1 DEF Fresh, BeingRemoved
  <2>3. (Fetching /\ xi > 1)' => tdir' \in adirs'
    BY <2>1 DEF Fresh
  <2> QED
    BY <1>1, <2>1, <2>2, <2>3, ClientFresh
<1>8. ASSUME OpenLocal PROVE Fresh'
  <2>1. tpc = "body" /\ LinkUp /\ Consume /\ copies' \subseteq copies
    BY <1>8 DEF OpenLocal
  <2>2. CASE tdir \in adirs
    <3>1. tpc' = "write" /\ UNCHANGED <<tdir, adirs, folder, xi, cur>>
      BY <1>8, <2>2 DEF OpenLocal
    <3>2. \A item \in copies \cap files : BeingRemoved(item)'
      BY <2>1, <3>1 DEF Fresh, BeingRemoved, Closing, Fetching
    <3> QED
      BY <1>1, <1>3, <2>1, <2>2, <3>1, <3>2, ClientFresh
  <2>3. CASE tdir \notin adirs
    <3>1. tpc' = "off"
      BY <1>8, <2>3 DEF OpenLocal, Leave
    <3>2. ~Fetching \/ xi = 1
      BY <1>1, <2>3, SizeFacts DEF Fresh, ThreadTypeOK
    <3>3. copies \cap files = {}
      BY <2>1, <3>2, InBoth DEF Closing
    <3> QED
      BY <1>1, <1>3, <2>1, <3>1, <3>3, RestFresh
  <2> QED
    BY <2>2, <2>3
<1>9. Fresh'
  BY <1>1, <1>4, <1>5, <1>6, <1>7, <1>8, CloseLocalFresh DEF ThreadStep
<1> QED
  BY <1>1, <1>2, <1>9

\* The keys find the thread off, where nothing is in both places, or only clear
\* running.
LEMMA KeysOnce ==
  ASSUME TypeInv, Connected, ExtrasLeft, Fresh,
         KeyTransmit \/ KeyStopTransmission \/ ResumeTransmission \/ RestartClient
  PROVE  Connected' /\ ExtrasLeft' /\ Fresh'
<1>1. /\ UNCHANGED <<files, tofs, made, cpc, lpc, lsess, lext, used, wireVars, diskVars, tconn, cur, folder, xi>>
      /\ \/ tpc = "off" /\ tpc' \in {"off", "connect"}
         \/ UNCHANGED <<tpc, tdir>>
  BY DEF KeyTransmit, KeyStopTransmission, ResumeTransmission, RestartClient, CreateTransmissionThread, storeVars,
     loggerVars, childVars
<1>2. Connected' /\ ExtrasLeft'
  BY <1>1 DEF Connected, ExtrasLeft, Over, LoggerActive, wireVars
<1>3. CASE tpc = "off" /\ tpc' \in {"off", "connect"}
  <2>1. copies \cap files = {}
    BY <1>3, InBoth DEF Closing, Fetching
  <2>2. copies' = copies /\ rep' = rep
    BY <1>1 DEF diskVars, wireVars
  <2> QED
    BY <1>1, <1>2, <1>3, <2>1, <2>2, RestFresh
<1>4. CASE UNCHANGED <<tpc, tdir>>
  <2>1. UNCHANGED <<copies, adirs, rep, tpc, tdir, cur, folder, xi, files, made, cpc>>
    BY <1>1, <1>4 DEF diskVars, wireVars
  <2>2. \A item \in copies \cap files : BeingRemoved(item)'
    BY <2>1 DEF Fresh, BeingRemoved, Closing, Fetching
  <2>3. (Fetching /\ xi > 1)' \/ (tpc' = "write" /\ cur'.op = "REQUESTED") => tdir' \in adirs'
    BY <2>1 DEF Fresh, Fetching
  <2> QED
    BY <1>2, <2>1, <2>2, <2>3, ClientFresh
<1> QED
  BY <1>1, <1>3, <1>4

\* Every step that leaves no fault behind.
LEMMA OnceNext ==
  ASSUME MonotoneClock, TypeInv, TypeInv', OnceInv, [Next]_vars
  PROVE  OnceInv'
<1> SUFFICES ASSUME faults' = 0 PROVE SafeInv' /\ MadeOnce' /\ Connected' /\ ExtrasLeft' /\ Fresh'
  BY DEF OnceInv
<1>1. Faultless /\ faults = 0
  BY FaultlessNext
<1>2. SafeInv /\ MadeOnce /\ Connected /\ ExtrasLeft /\ Fresh
  BY <1>1 DEF OnceInv
<1>3. SafeInv' /\ MadeOnce'
  BY <1>1, <1>2, FaultlessSafe
<1>4. CASE UNCHANGED vars
  <2>1. /\ UNCHANGED <<wireVars, childVars, threadVars, diskVars, made, files>>
        /\ UNCHANGED <<tofs, lpc, lsess, lext, used>>
    BY <1>4 DEF vars, storeVars, loggerVars
  <2>2. ExtrasLeft'
    BY <1>2, <2>1 DEF ExtrasLeft, Over, LoggerActive
  <2> QED
    BY <1>2, <1>3, <2>1, <2>2, DroneStepOnce
<1>5. CASE User
  BY <1>2, <1>3, <1>5, LoggerKeysOnce, KeysOnce DEF User
<1> QED
  BY <1>1, <1>2, <1>3, <1>4, <1>5, LoggerOnce, ChildOnce, ThreadOnce DEF Faultless

\* Only "wb" empties a copy, and the file on the wire has none.
LEMMA CopiesStay ==
  ASSUME TypeInv, OnceInv, [Next]_vars
  PROVE  [faults = 0 => copies \subseteq copies']_vars
<1> SUFFICES ASSUME faults = 0, Next PROVE copies \subseteq copies'
  OBVIOUS
<1>1. CASE OpenLocal
  <2>1. ThreadForm /\ ThreadTypeOK /\ Dialogue /\ Fresh
    BY DEF TypeInv, TypeOK, OnceInv
  <2>2. /\ tconn \in Conns /\ LinkUp /\ tpc = "body"
        /\ copies' = copies \ {ItemOf(cur)} \/ copies' = copies
    BY <1>1, <2>1 DEF OpenLocal, LinkUp, ThreadTypeOK
  <2>3. rep[tconn] = cur /\ cur.op \in {"SENDING", "REQUESTED"}
    BY <2>1, <2>2 DEF Dialogue, ThreadForm
  <2>4. ItemOf(cur) \notin copies
    BY <2>1, <2>2, <2>3 DEF Fresh
  <2> QED
    BY <2>2, <2>4
<1>2. CASE CloseLocal
  BY <1>2 DEF CloseLocal
<1>3. CASE ~OpenLocal /\ ~CloseLocal
  <2>1. copies' = copies
    <3>1. CASE Logger \/ (\E c \in Conns : Child(c)) \/ User
      BY <3>1 DEF Logger, Child, User, KeyStart, KeyStop, KeyTransmit, KeyStopTransmission, ResumeTransmission,
         RestartClient, CreateTransmissionThread, diskVars
    <3>2. CASE Thread
      BY <1>3, <3>2 DEF Thread, ThreadStep, OpenConnection, TcpSendTT, ConnectionLost, ReceiveError, ReceiveWait,
         ReceiveNoTr, ReceiveSending, ReceiveEmpty, ReceiveRequested, ReceiveRemoved, ReceiveDirRemoved, diskVars
    <3>3. CASE Faulty
      BY <3>3 DEF Faulty, BreakLink, CrashClient, RefuseConnection, ConnectFails, FailWrite, WriteFails, FailFlush,
         FlushFails, KillLogger, FailCount, diskVars
    <3> QED
      BY <3>1, <3>2, <3>3 DEF Next
  <2> QED
    BY <2>1
<1> QED
  BY <1>1, <1>2, <1>3

LEMMA OnceInvariant == MonotoneClock => (Spec => []OnceInv)
<1> SUFFICES ASSUME MonotoneClock PROVE Spec => []OnceInv
  OBVIOUS
<1>1. TypeInv /\ TypeInv' /\ OnceInv /\ [Next]_vars => OnceInv'
  BY OnceNext
<1> QED
  BY <1>1, OnceInit, TypeInvariant, PTL DEF Spec

\* Without a fault no file is transferred twice: as long as nothing has failed, the
\* "wb" of copy_buffer_in_file never empties a copy that is whole, whatever the
\* number of sessions, frames, remaining files and connections.  The faults that
\* may come later are not restricted.
THEOREM NothingTwice == MonotoneClock => (Spec => NoCopyRewritten)
<1> SUFFICES ASSUME MonotoneClock PROVE Spec => NoCopyRewritten
  OBVIOUS
<1>1. TypeInv /\ OnceInv /\ [Next]_vars => [faults = 0 => copies \subseteq copies']_vars
  BY CopiesStay
<1> QED
  BY <1>1, OnceInvariant, TypeInvariant, PTL DEF Spec, NoCopyRewritten
=============================================================================
