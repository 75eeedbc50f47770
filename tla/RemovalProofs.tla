--------------------------- MODULE RemovalProofs ----------------------------
(***************************************************************************)
(* With timestamps that grow, the drone deletes a file only after the      *)
(* client has written it: SafeInv is inductive, and RemovedOnlyAfterWritten *)
(* is one of its conjuncts.                                                *)
(***************************************************************************)
EXTENDS LidarTransferProofs

\* The initial state has no session, no file and no request.
LEMMA SafeInit == Init => SafeInv
<1> SUFFICES ASSUME Init PROVE SafeInv
  OBVIOUS
<1> USE DEF Init, StoreInit, LoggerInit, WireInit, ChildInit, ThreadInit, DiskInit
<1>1. NoRep.op = "none" /\ NoReq.op = "none"
  BY DEF NoRep, Reply, NoReq, Request
<1>2. RemovedOnlyAfterWritten /\ LoggerSafe
  BY DEF RemovedOnlyAfterWritten, LoggerSafe, LoggerActive
<1>3. ThreadSafe
  BY <1>1 DEF ThreadSafe, Fetching
<1>4. ASSUME NEW c \in Conns PROVE RequestSafe(c) /\ ScanSafe(c) /\ ReplySafe(c)
  BY <1>1, <1>4 DEF RequestSafe, ScanSafe, ReplySafe
<1> QED
  BY <1>2, <1>3, <1>4 DEF SafeInv

\* Frames and files are told apart by their kind.
LEMMA ItemFacts ==
  /\ \A s, n, z, m : Pcd(s, n) = Pcd(z, m) <=> s = z /\ n = m
  /\ \A s, n, z, m : Ext(s, n) = Ext(z, m) <=> s = z /\ n = m
  /\ \A s, n, z, m : Pcd(s, n) # Ext(z, m)
  /\ \A s, n : SessionOf(Pcd(s, n)) = s /\ SessionOf(Ext(s, n)) = s
  /\ \A item \in Items : \/ \E n \in Frames : item = Pcd(SessionOf(item), n)
                         \/ \E i \in Extras : item = Ext(SessionOf(item), i)
  BY DEF Pcd, Ext, SessionOf, Items

\* What the connections and the thread do with a session survives a step of the
\* drone that lets what is over be over, what is settled be settled, and brings
\* back no session that has gone.
LEMMA DroneStepSafe ==
  ASSUME TypeInv, SafeInv,
         UNCHANGED <<wireVars, childVars, threadVars, diskVars>>,
         used \subseteq used',
         \A s \in Nat : Over(s) => Over(s)',
         \A s, n \in Nat : Settled(s, n) => Settled(s, n)',
         \A s, n \in Nat : Settled(s, n) /\ Pcd(s, n) \in made' => Pcd(s, n) \in made,
         \A item \in made' : Over(SessionOf(item)) => item \in made,
         \A s \in used : Oldest(s) => Oldest(s)',
         \A s \in Nat : Over(s) /\ NoFrames(s) => NoFrames(s)',
         tr \notin dirs => tr \notin dirs',
         tofs \subseteq tofs', \A s \in Nat : Removed(s) => Removed(s)',
         tr # NoSession => (LoggerActive /\ lsess = tr => Newest >= 0)',
         RemovedOnlyAfterWritten', LoggerSafe'
  PROVE  SafeInv'
<1> USE DEF wireVars, childVars, threadVars, diskVars
<1>1. /\ ThreadSafe /\ ThreadForm /\ ThreadTypeOK /\ WireTypeOK /\ ChildTypeOK
      /\ \A c \in Conns : RequestSafe(c) /\ ScanSafe(c) /\ ReplySafe(c) /\ ChildForm(c)
  BY DEF SafeInv, TypeInv, TypeOK
<1>2. ASSUME NEW f \in Nat
      PROVE  (Current(f) => Current(f)') /\ (EmptyRight(f) => EmptyRight(f)')
  BY <1>2 DEF Current, EmptyRight
<1>3. ASSUME NEW r \in Replies, Removable(r) PROVE Removable(r)'
  <2>1. r.s \in Nat /\ r.k \in Nat /\ Settled(r.s, r.k)
    BY <1>3 DEF Replies, Removable
  <2> QED
    BY <1>3, <2>1 DEF Removable
<1>4. folder \in Nat /\ tr \in Nat /\ cur \in Replies /\ cur.s \in Nat /\ cur.k \in Nat /\ xi \in Nat
  BY <1>1, SizeFacts DEF ThreadTypeOK, Replies
<1>5. \A i \in Nat : Over(folder) => (Ext(folder, i) \in made' => Ext(folder, i) \in made)
  BY <1>4, ItemFacts
<1>6. ThreadSafe'
  <2>1. (tr # NoSession => /\ tr \in used
                           /\ Oldest(tr)
                           /\ LoggerActive /\ lsess = tr => Newest >= 0)'
    BY <1>1 DEF ThreadSafe
  <2>2. (tpc \in {"body", "write"} /\ cur.op = "SENDING" => Removable(cur))'
    BY <1>1, <1>3, <1>4 DEF ThreadSafe, Removable
  <2>3. (tpc = "remove" => Settled(cur.s, cur.k) /\ Safe(Pcd(cur.s, cur.k)))'
    BY <1>1, <1>4 DEF ThreadSafe, Safe
  <2>4. (Fetching \/ tpc = "rmdir" => EmptyRight(folder))'
    BY <1>1, <1>2, <1>4 DEF ThreadSafe, Fetching
  <2>5. ((Fetching /\ (xi > 1 \/ cur.op = "REQUESTED")) \/ tpc = "rmdir" =>
           /\ Current(folder)
           /\ \A i \in Extras : i < xi => Safe(Ext(folder, i)))'
    BY <1>1, <1>2, <1>4, <1>5, SizeFacts DEF ThreadSafe, Fetching, Current, Safe
  <2>6. (tpc \in {"body", "write"} /\ cur.op = "REQUESTED" =>
           cur.s = tr /\ cur.k = xi /\ (~cur.ok => Ext(tr, xi) \notin made))'
    BY <1>1, <1>4, <1>5 DEF ThreadSafe, Fetching, Current
  <2>7. (tpc = "rmdir" => xi > NumExtras)' /\ (cur.op = "REQUESTED" => tpc \in {"body", "write"})'
    BY <1>1 DEF ThreadSafe
  <2> QED
    BY <2>1, <2>2, <2>3, <2>4, <2>5, <2>6, <2>7 DEF ThreadSafe
<1>7. ASSUME NEW c \in Conns
      PROVE  RequestSafe(c)' /\ ScanSafe(c)' /\ ReplySafe(c)'
  <2>1. /\ RequestSafe(c) /\ ScanSafe(c) /\ ReplySafe(c) /\ ChildForm(c)
        /\ req[c].s \in Nat /\ req[c].k \in Nat /\ rep[c] \in Replies /\ rep[c].s \in Nat
        /\ nd[c].first \in Nat /\ nf[c].first \in Nat
    BY <1>1 DEF WireTypeOK, ChildTypeOK, Requests, Replies, ScanResults
  <2>2. RequestSafe(c)'
    BY <2>1 DEF RequestSafe, Safe
  <2>3. ScanSafe(c)'
    BY <1>2, <2>1 DEF ScanSafe
  <2>4. ReplySafe(c)'
    BY <1>2, <1>3, <1>4, <1>5, <2>1 DEF ReplySafe, Removable, Current, Settled
  <2> QED
    BY <2>2, <2>3, <2>4
<1> QED
  BY <1>6, <1>7 DEF SafeInv

\* A step that changes nothing the drone keeps, except that a running logger may
\* have ended, brings nothing back.
LEMMA LoggerEndsSafe ==
  ASSUME TypeInv, SafeInv,
         UNCHANGED <<wireVars, childVars, threadVars, diskVars, used, storeVars, made, lsess, lcnt, lext>>,
         lpc' = lpc \/ lpc' = "off"
  PROVE  SafeInv'
<1> USE DEF storeVars
<1>1. LoggerSafe /\ ThreadSafe /\ RemovedOnlyAfterWritten
  BY DEF SafeInv
<1>2. tr' = tr /\ delivered' = delivered
  BY DEF threadVars, diskVars
<1>3. LoggerActive' => LoggerActive /\ lpc' = lpc
  BY DEF LoggerActive
<1>4. RemovedOnlyAfterWritten' /\ LoggerSafe'
  BY <1>1, <1>2, <1>3 DEF RemovedOnlyAfterWritten, LoggerSafe, Newest, LoggerActive
<1>5. /\ \A s : Over(s) => Over(s)'
      /\ \A s, n : Settled(s, n) => Settled(s, n)'
      /\ \A s : Oldest(s) => Oldest(s)'
      /\ \A s : NoFrames(s) => NoFrames(s)'
      /\ \A s : Removed(s) => Removed(s)'
  BY <1>3 DEF Over, Settled, Newest, Oldest, NoFrames, Removed
<1>6. tr # NoSession => (LoggerActive /\ lsess = tr => Newest >= 0)'
  BY <1>1, <1>2, <1>3 DEF ThreadSafe, Newest
<1> QED
  BY <1>2, <1>4, <1>5, <1>6, DroneStepSafe

\* KeyStart: the new session is newer than every other, so no session that was
\* seen becomes current again.
LEMMA KeyStartSafe ==
  ASSUME MonotoneClock, TypeInv, SafeInv, NEW s \in Sessions, KeyStart(s)
  PROVE  SafeInv'
<1> USE DEF storeVars
<1>1. LoggerSafe /\ ThreadSafe /\ RemovedOnlyAfterWritten /\ used \subseteq Sessions /\ files \subseteq Items
  BY DEF SafeInv, TypeInv, TypeOK, StoreTypeOK
<1>2. /\ UNCHANGED <<wireVars, childVars, threadVars, diskVars, storeVars, made>>
      /\ used' = used \cup {s} /\ s \notin used /\ \A u \in used : u < s
      /\ ~LoggerActive /\ LoggerActive' /\ lpc' = "spawn" /\ lsess' = s /\ lcnt' = 0
  BY <1>1, SizeFacts DEF KeyStart, Launch, LoggerActive
<1>3. tr' = tr /\ delivered' = delivered
  BY <1>2 DEF threadVars, diskVars
<1>4. \A n \in Frames : Pcd(s, n) \notin files
  BY <1>1, <1>2, ItemFacts DEF LoggerSafe
<1>5. RemovedOnlyAfterWritten' /\ LoggerSafe'
  BY <1>1, <1>2, <1>3, <1>4, SizeFacts DEF RemovedOnlyAfterWritten, LoggerSafe, Newest
<1>6. /\ \A z : Over(z) => Over(z)'
      /\ \A z, n : Settled(z, n) => Settled(z, n)'
      /\ \A z : Oldest(z) => Oldest(z)'
      /\ \A z : NoFrames(z) => NoFrames(z)'
      /\ \A z : Removed(z) => Removed(z)'
  BY <1>2 DEF Over, Settled, Oldest, NoFrames, Removed
<1>7. tr # NoSession => (LoggerActive /\ lsess = tr => Newest >= 0)'
  BY <1>1, <1>2, <1>3 DEF ThreadSafe
<1> QED
  BY <1>2, <1>3, <1>5, <1>6, <1>7, DroneStepSafe

\* A step of the logger only adds to its own session, and only its newest frame
\* or one of the remaining files becomes whole.
LEMMA LoggerSafeStep ==
  ASSUME TypeInv, SafeInv, Logger
  PROVE  SafeInv'
<1> USE DEF storeVars
<1>1. /\ LoggerSafe /\ ThreadSafe /\ RemovedOnlyAfterWritten
      /\ LoggerTypeOK /\ LoggerForm /\ files \subseteq Items /\ used \subseteq Sessions
      /\ dirs \subseteq Sessions
  BY DEF SafeInv, TypeInv, TypeOK, StoreTypeOK
<1>2. UNCHANGED <<wireVars, childVars, threadVars, diskVars, used>>
  BY DEF Logger
<1>3. tr' = tr /\ delivered' = delivered /\ used' = used
  BY <1>2 DEF threadVars, diskVars
<1>4. lcnt \in Nat /\ lext \in Nat /\ (LoggerActive => lsess \in Sessions /\ lsess \in Nat)
  BY <1>1, SizeFacts DEF LoggerTypeOK, LoggerForm
<1>5. CASE LoggerDone \/ CopyFails \/ InstallHandlers \/ LeaveLoop
  <2>1. CASE LoggerDone \/ CopyFails
    BY <1>2, <2>1, LoggerEndsSafe DEF LoggerDone, CopyFails
  <2>2. CASE InstallHandlers \/ LeaveLoop
    <3>1. /\ LoggerActive /\ LoggerActive' /\ UNCHANGED <<storeVars, made, lsess, lcnt>>
          /\ lpc # "copy" /\ lpc' \in {"mkdir", "extra"} /\ lpc \in {"spawn", "loop"}
          /\ lpc' = "mkdir" => lpc = "spawn"
      BY <2>2 DEF InstallHandlers, LeaveLoop, LoggerActive
    <3>2. Newest' = Newest
      BY <3>1 DEF Newest
    <3>3. RemovedOnlyAfterWritten' /\ LoggerSafe'
      BY <1>1, <1>3, <3>1, <3>2 DEF RemovedOnlyAfterWritten, LoggerSafe
    <3>4. /\ \A s : Over(s) => Over(s)'
          /\ \A s, n : Settled(s, n) => Settled(s, n)'
          /\ \A s : Oldest(s) => Oldest(s)'
          /\ \A s : NoFrames(s) => NoFrames(s)'
          /\ \A s : Removed(s) => Removed(s)'
      BY <1>3, <3>1, <3>2 DEF Over, Settled, Oldest, NoFrames, Removed
    <3>5. tr # NoSession => (LoggerActive /\ lsess = tr => Newest >= 0)'
      BY <1>1, <1>3, <3>1, <3>2 DEF ThreadSafe
    <3> QED
      BY <1>2, <1>3, <3>1, <3>3, <3>4, <3>5, DroneStepSafe
  <2> QED
    BY <1>5, <2>1, <2>2
<1>6. CASE MakeSessionDir \/ MakeTofDir
  <2>1. /\ LoggerActive /\ LoggerActive' /\ UNCHANGED <<files, made, lsess, lcnt>>
        /\ lpc \in {"mkdir", "mktof"} /\ lpc' \in {"mktof", "loop"} /\ lcnt = 0
        /\ dirs \subseteq dirs' /\ dirs' \subseteq dirs \cup {lsess}
        /\ tofs \subseteq tofs' /\ tofs' \subseteq tofs \cup {lsess} /\ tofs' \subseteq dirs'
    BY <1>1, <1>6 DEF MakeSessionDir, MakeTofDir, LoggerActive, LoggerSafe
  <2>2. Newest' = Newest /\ Newest = -1
    BY <2>1 DEF Newest
  <2>3. RemovedOnlyAfterWritten' /\ LoggerSafe'
    BY <1>1, <1>3, <2>1, <2>2 DEF RemovedOnlyAfterWritten, LoggerSafe
  <2>4. /\ \A s : Over(s) => Over(s)'
        /\ \A s, n : Settled(s, n) => Settled(s, n)'
        /\ \A s : NoFrames(s) => NoFrames(s)'
        /\ \A s : Removed(s) => Removed(s)'
    BY <1>3, <2>1, <2>2 DEF Over, Settled, NoFrames, Removed
  <2>5. \A s \in used : Oldest(s) => Oldest(s)'
    BY <1>1, <2>1 DEF Oldest, LoggerSafe
  <2>6. tr # lsess
    BY <1>1, <1>4, <2>1, <2>2, SizeFacts DEF ThreadSafe
  <2> QED
    BY <1>2, <1>3, <2>1, <2>2, <2>3, <2>4, <2>5, <2>6, DroneStepSafe
<1>7. CASE OpenFrame \/ CloseFrame
  <2>1. /\ LoggerActive /\ LoggerActive' /\ UNCHANGED <<dirs, tofs, lsess>> /\ lcnt \in Frames
        /\ files' \subseteq files \cup {Pcd(lsess, lcnt)} /\ files \subseteq files'
        /\ made' \subseteq made \cup {Pcd(lsess, lcnt)}
        /\ Newest' = lcnt /\ Newest \in Int /\ Newest <= lcnt
        /\ ~(made' \subseteq made) => Newest = lcnt
        /\ Pcd(lsess, lcnt) \in files'
        /\ lsess \in tofs
        /\ lpc' \in {"copy", "loop"}
    <3>1. CASE OpenFrame
      BY <1>1, <1>4, <3>1, SizeFacts DEF OpenFrame, LoggerActive, Newest, LoggerSafe, Frames
    <3>2. CASE CloseFrame
      <4>1. lpc = "copy" /\ lcnt < NumFrames /\ Newest = lcnt /\ LoggerActive /\ Pcd(lsess, lcnt) \in files
        BY <1>1, <1>4, <3>2 DEF CloseFrame, LoggerForm, Newest, LoggerActive, LoggerSafe
      <4>2. lsess \in tofs
        BY <1>1, <4>1, ItemFacts DEF LoggerSafe
      <4> QED
        BY <1>4, <3>2, <4>1, <4>2, SizeFacts DEF CloseFrame, LoggerActive, Newest, Frames
    <3> QED
      BY <1>7, <3>1, <3>2
  <2>2. RemovedOnlyAfterWritten'
    BY <1>1, <1>3, <2>1 DEF RemovedOnlyAfterWritten
  <2>3. LoggerSafe'
    BY <1>1, <1>3, <1>4, <2>1, ItemFacts, SizeFacts DEF LoggerSafe
  <2>4. /\ \A s : Over(s) => Over(s)'
        /\ \A s, n \in Nat : Settled(s, n) => Settled(s, n)'
        /\ \A s : Oldest(s) => Oldest(s)'
        /\ \A s : Removed(s) => Removed(s)'
    BY <1>3, <1>4, <2>1 DEF Over, Settled, Oldest, Removed
  <2>5. \A s : Over(s) /\ NoFrames(s) => NoFrames(s)'
    BY <2>1, ItemFacts DEF Over, NoFrames
  <2>6. \A s, n \in Nat : Settled(s, n) /\ Pcd(s, n) \in made' => Pcd(s, n) \in made
    BY <1>4, <2>1, ItemFacts DEF Settled
  <2>7. \A item \in made' : Over(SessionOf(item)) => item \in made
    BY <2>1, ItemFacts DEF Over
  <2>8. tr # NoSession => (LoggerActive /\ lsess = tr => Newest >= 0)'
    BY <1>4, <2>1
  <2> QED
    BY <1>2, <1>3, <2>1, <2>2, <2>3, <2>4, <2>5, <2>6, <2>7, <2>8, DroneStepSafe
<1>8. CASE OpenExtra \/ CloseExtra
  <2>1. /\ LoggerActive /\ LoggerActive' /\ UNCHANGED <<dirs, tofs, lsess, lcnt>>
        /\ files' \subseteq files \cup {Ext(lsess, lext)} /\ files \subseteq files'
        /\ made' \subseteq made \cup {Ext(lsess, lext)}
        /\ Newest' = Newest
        /\ Ext(lsess, lext) \in files'
        /\ lpc' = "xcopy" => lext' = lext
        /\ lsess \in tofs
        /\ lpc' \in {"xcopy", "extra"}
    <3>1. CASE OpenExtra
      BY <1>1, <3>1 DEF OpenExtra, LoggerActive, Newest, LoggerSafe
    <3>2. CASE CloseExtra
      <4>1. lpc = "xcopy" /\ LoggerActive /\ Ext(lsess, lext) \in files
        BY <1>1, <3>2 DEF CloseExtra, LoggerActive, LoggerSafe
      <4>2. lsess \in tofs
        BY <1>1, <4>1, ItemFacts DEF LoggerSafe
      <4> QED
        BY <3>2, <4>1, <4>2 DEF CloseExtra, LoggerActive, Newest
    <3> QED
      BY <1>8, <3>1, <3>2
  <2>2. RemovedOnlyAfterWritten'
    BY <1>1, <1>3, <2>1 DEF RemovedOnlyAfterWritten
  <2>3. LoggerSafe'
    BY <1>1, <1>3, <2>1, ItemFacts DEF LoggerSafe
  <2>4. /\ \A s : Over(s) => Over(s)'
        /\ \A s, n : Settled(s, n) => Settled(s, n)'
        /\ \A s : Oldest(s) => Oldest(s)'
        /\ \A s : Removed(s) => Removed(s)'
    BY <1>3, <2>1 DEF Over, Settled, Oldest, Removed
  <2>5. \A s : NoFrames(s) => NoFrames(s)'
    BY <2>1, ItemFacts DEF NoFrames
  <2>6. \A s, n : Pcd(s, n) \in made' => Pcd(s, n) \in made
    BY <2>1, ItemFacts
  <2>7. \A item \in made' : Over(SessionOf(item)) => item \in made
    BY <2>1, ItemFacts DEF Over
  <2>8. tr # NoSession => (LoggerActive /\ lsess = tr => Newest >= 0)'
    BY <1>1, <1>3, <2>1 DEF ThreadSafe
  <2> QED
    BY <1>2, <1>3, <2>1, <2>2, <2>3, <2>4, <2>5, <2>6, <2>7, <2>8, DroneStepSafe
<1> QED
  BY <1>5, <1>6, <1>7, <1>8 DEF Logger, LoggerStep

-----------------------------------------------------------------------------
(* The children of the server.                                             *)

\* A step of child c leaves the others and the thread as they are; what they
\* rely on survives when the store only shrinks.
LEMMA ChildStepSafe ==
  ASSUME SafeInv, TypeInv, NEW c \in Conns,
         UNCHANGED <<loggerVars, threadVars, diskVars, used>>,
         dirs' \subseteq dirs, files' \subseteq files,
         tofs' \subseteq tofs, \A s \in tofs \ tofs' : Over(s),
         RemovedOnlyAfterWritten', LoggerSafe',
         \A d \in Conns \ {c} : /\ link'[d] = link[d] /\ req'[d] = req[d] /\ rep'[d] = rep[d]
                                /\ cpc'[d] = cpc[d] /\ nd'[d] = nd[d] /\ nf'[d] = nf[d],
         RequestSafe(c)', ScanSafe(c)', ReplySafe(c)'
  PROVE  SafeInv'
<1> USE DEF loggerVars, threadVars, diskVars
<1>1. ThreadSafe /\ \A d \in Conns : RequestSafe(d) /\ ScanSafe(d) /\ ReplySafe(d)
  BY DEF SafeInv
<1>2. /\ Newest' = Newest /\ LoggerActive' = LoggerActive
      /\ \A s : Over(s)' = Over(s)
      /\ \A s, n : Settled(s, n)' = Settled(s, n)
      /\ \A item : Safe(item)' = Safe(item)
      /\ \A r : Removable(r)' = Removable(r)
      /\ Fetching' = Fetching
  BY DEF Newest, LoggerActive, Over, Settled, Safe, Removable, Fetching
<1>3. /\ \A s : Oldest(s) => Oldest(s)'
      /\ \A s : NoFrames(s) => NoFrames(s)'
      /\ \A s : Removed(s) => Removed(s)'
      /\ \A s \in tofs : s \in tofs' \/ Removed(s)'
  BY <1>2 DEF Oldest, NoFrames, Removed
<1>4. \A f : (Current(f) => Current(f)') /\ (EmptyRight(f) => EmptyRight(f)')
  BY <1>2, <1>3 DEF Current, EmptyRight
<1>5. ThreadSafe'
  BY <1>1, <1>2, <1>3, <1>4 DEF ThreadSafe
<1>6. ASSUME NEW d \in Conns \ {c}
      PROVE  RequestSafe(d)' /\ ScanSafe(d)' /\ ReplySafe(d)'
  <2>1. RequestSafe(d)'
    BY <1>1, <1>2, <1>6 DEF RequestSafe
  <2>2. ScanSafe(d)'
    BY <1>1, <1>2, <1>3, <1>4, <1>6 DEF ScanSafe
  <2>3. ReplySafe(d)'
    BY <1>1, <1>2, <1>3, <1>4, <1>6 DEF ReplySafe
  <2> QED
    BY <2>1, <2>2, <2>3
<1> QED
  BY <1>5, <1>6 DEF SafeInv

\* A child that answers has nothing left to do; what counts is its reply.
LEMMA AnswerSafe ==
  ASSUME SafeInv, TypeInv, NEW c \in Conns, NEW r, Answer(c, r),
         UNCHANGED <<loggerVars, threadVars, diskVars, used>>,
         dirs' \subseteq dirs, files' \subseteq files, tofs' = tofs,
         RemovedOnlyAfterWritten', LoggerSafe',
         req[c].op \notin {"none", "CLOSE"},
         link[c] = "up" =>
           /\ r.op = "SENDING" => Removable(r) /\ Oldest(r.s)
           /\ r.op = "EMPTY" => EmptyRight(r.s)
           /\ r.op = "REQUESTED" =>
                r.s = tr /\ r.k = xi /\ Current(folder) /\ (~r.ok => Ext(tr, xi) \notin made)
  PROVE  SafeInv'
<1>1. WireTypeOK /\ ChildTypeOK /\ Talk(c)
  BY DEF TypeInv, TypeOK
<1>2. NoReq.op = "none"
  BY DEF NoReq, Request
<1>3. /\ req'[c].op = "none" /\ cpc'[c] = "idle" /\ link' = link
      /\ \/ rep'[c] = r /\ link[c] = "up"
         \/ rep'[c] = rep[c] /\ rep[c].op = "none"
  BY <1>1, <1>2 DEF Answer, WireTypeOK, ChildTypeOK, Talk
<1>4. \A d \in Conns \ {c} : /\ link'[d] = link[d] /\ req'[d] = req[d] /\ rep'[d] = rep[d]
                             /\ cpc'[d] = cpc[d] /\ nd'[d] = nd[d] /\ nf'[d] = nf[d]
  BY <1>1 DEF Answer, WireTypeOK, ChildTypeOK
<1>5. RequestSafe(c)' /\ ScanSafe(c)'
  BY <1>3 DEF RequestSafe, ScanSafe
<1>6. ReplySafe(c)'
  <2> USE DEF loggerVars, threadVars, diskVars
  <2>1. CASE rep'[c].op = "none"
    BY <2>1 DEF ReplySafe
  <2>2. CASE rep'[c] = r /\ link[c] = "up"
    BY <2>2 DEF ReplySafe, Removable, Settled, Newest, LoggerActive, Oldest, EmptyRight, Current,
                Over, NoFrames
  <2> QED
    BY <1>3, <2>1, <2>2
<1> QED
  BY <1>4, <1>5, <1>6, ChildStepSafe

\* LoggerSafe and RemovedOnlyAfterWritten speak of the store, the logger and
\* what is delivered.
LEMMA StoreKept ==
  ASSUME SafeInv, UNCHANGED <<storeVars, loggerVars, diskVars, used>>
  PROVE  LoggerSafe' /\ RemovedOnlyAfterWritten' /\ dirs' \subseteq dirs /\ files' \subseteq files /\ tofs' = tofs
  BY DEF storeVars, loggerVars, diskVars, SafeInv, LoggerSafe, RemovedOnlyAfterWritten, LoggerActive, Newest

\* An error reply promises nothing.
LEMMA AnswerErrorSafe ==
  ASSUME SafeInv, TypeInv, NEW c \in Conns, AnswerError(c),
         UNCHANGED <<storeVars, loggerVars, threadVars, diskVars, used>>,
         req[c].op \notin {"none", "CLOSE"}
  PROVE  SafeInv'
<1> DEFINE r == Reply("ERROR", NoSession, 0, FALSE)
<1>1. r.op = "ERROR"
  BY DEF Reply
<1>2. LoggerSafe' /\ RemovedOnlyAfterWritten' /\ dirs' \subseteq dirs /\ files' \subseteq files /\ tofs' = tofs
  BY StoreKept
<1>3. Answer(c, r)
  BY DEF AnswerError
<1> HIDE DEF r
<1> QED
  BY <1>1, <1>2, <1>3, AnswerSafe

\* FindFirstDir: the oldest of several sessions is not the logger's.
LEMMA ScanDirsSafe ==
  ASSUME SafeInv, TypeInv, NEW c \in Conns, ScanDirs(c),
         UNCHANGED <<loggerVars, threadVars, diskVars, used>>
  PROVE  SafeInv'
<1>1. LoggerSafe /\ WireTypeOK /\ ChildTypeOK /\ dirs \subseteq Sessions /\ used \subseteq Sessions
  BY DEF SafeInv, TypeInv, TypeOK, StoreTypeOK
<1>2. RequestSafe(c) /\ ReplySafe(c) /\ UNCHANGED <<storeVars, wireVars>>
  BY DEF SafeInv, ScanDirs
<1>3. LoggerSafe' /\ RemovedOnlyAfterWritten' /\ dirs' \subseteq dirs /\ files' \subseteq files /\ tofs' = tofs
  BY <1>2, StoreKept
<1>4. /\ FindFirstDir.count # 0 => FindFirstDir.first \in dirs /\ Oldest(FindFirstDir.first)
      /\ FindFirstDir.count >= 2 => \E y \in dirs : FindFirstDir.first < y
      /\ FindFirstDir.count \in Nat
      /\ dirs = {} <=> FindFirstDir.count = 0
  BY <1>1, SizeFacts, ScanFacts DEF FindFirstDir, ScanResults, Oldest
<1>5. ASSUME FindFirstDir.count >= 2 PROVE Over(FindFirstDir.first)
  <2>1. PICK y \in dirs : FindFirstDir.first < y
    BY <1>4, <1>5
  <2>2. y <= lsess /\ y \in Nat /\ FindFirstDir.first \in dirs /\ FindFirstDir.first \in Nat
    BY <1>1, <1>4, <1>5, SizeFacts DEF LoggerSafe
  <2>3. FindFirstDir.first # lsess
    BY <2>1, <2>2
  <2> QED
    BY <1>1, <2>2, <2>3 DEF Over, LoggerSafe
<1>6. /\ nd'[c] = FindFirstDir /\ cpc'[c] \in {"files", "logger"}
      /\ cpc'[c] = "logger" => FindFirstDir.count = 0
      /\ \A d \in Conns \ {c} : cpc'[d] = cpc[d] /\ nd'[d] = nd[d] /\ nf'[d] = nf[d]
  BY <1>1, <1>4 DEF ScanDirs, ChildTypeOK
<1>7. FindFirstDir.count # 0 => FindFirstDir.first \in used
  BY <1>1, <1>4 DEF LoggerSafe
<1>8. ScanSafe(c)'
  <2>1. /\ nd'[c].count # 0 => nd'[c].first \in used /\ Oldest(nd'[c].first)
        /\ nd'[c].count >= 2 => Over(nd'[c].first)
    BY <1>4, <1>5, <1>6, <1>7
  <2>2. nd'[c].count # 0 => tr <= nd'[c].first
    <3>1. nd'[c].count # 0 => nd'[c].first \in dirs /\ nd'[c].first \in Nat
      BY <1>1, <1>4, <1>6, SizeFacts
    <3>2. tr # NoSession => Oldest(tr)
      BY DEF SafeInv, ThreadSafe
    <3> QED
      BY <3>1, <3>2 DEF Oldest, NoSession
  <2> QED
    BY <1>2, <1>6, <2>1, <2>2 DEF ScanSafe, Over, Oldest, LoggerActive, storeVars, loggerVars, threadVars
<1>9. RequestSafe(c)' /\ ReplySafe(c)'
  BY <1>2 DEF RequestSafe, ReplySafe, wireVars, storeVars, loggerVars, threadVars, diskVars, Settled, Safe,
     Over, Newest, LoggerActive, Removable, Oldest, EmptyRight, Current, NoFrames
<1>10. \A d \in Conns \ {c} : link'[d] = link[d] /\ req'[d] = req[d] /\ rep'[d] = rep[d]
  BY <1>2 DEF wireVars
<1> QED
  BY <1>3, <1>6, <1>8, <1>9, <1>10, ChildStepSafe

\* FindLidarDataInfo: the session has its tof, or the answer is an error.
LEMMA FindTofSafe ==
  ASSUME SafeInv, TypeInv, NEW c \in Conns, FindTof(c),
         UNCHANGED <<loggerVars, threadVars, diskVars, used>>
  PROVE  SafeInv'
<1>1. ChildTypeOK /\ ScanSafe(c) /\ RequestSafe(c) /\ ReplySafe(c)
  BY DEF SafeInv, TypeInv, TypeOK
<1>2. cpc[c] = "files" /\ req[c].op = "SEND_NEXT" /\ UNCHANGED storeVars
  BY ChildBusy DEF FindTof
<1>3. CASE AnswerError(c)
  BY <1>2, <1>3, AnswerErrorSafe
<1>4. CASE ~AnswerError(c)
  <2>1. /\ nd[c].first \in tofs /\ nd' = nd /\ nf' = nf /\ link' = link /\ req' = req /\ rep' = rep
        /\ cpc'[c] = "read" /\ \A d \in Conns \ {c} : cpc'[d] = cpc[d]
    BY <1>1, <1>4 DEF FindTof, ChildTypeOK, wireVars
  <2>2. ScanSafe(c)'
    BY <1>1, <1>2, <2>1 DEF ScanSafe, storeVars, loggerVars, threadVars, Over, Oldest, LoggerActive
  <2>3. LoggerSafe' /\ RemovedOnlyAfterWritten' /\ dirs' \subseteq dirs /\ files' \subseteq files /\ tofs' = tofs
    BY <1>2, StoreKept
  <2>4. RequestSafe(c)' /\ ReplySafe(c)'
    BY <1>1, <1>2, <2>1 DEF RequestSafe, ReplySafe, storeVars, loggerVars, threadVars, diskVars,
       Settled, Safe, Over, Newest, LoggerActive, Removable, Oldest, EmptyRight, Current, NoFrames
  <2> QED
    BY <2>1, <2>2, <2>3, <2>4, ChildStepSafe
<1> QED
  BY <1>3, <1>4

\* FindNextFile on a session that is there: with two frames the first is not the
\* newest, and a session without frames is over or is not the thread's.
LEMMA FramesSafe ==
  ASSUME SafeInv, TypeInv, NEW s \in tofs, Oldest(s)
  PROVE  LET f == FindNextFile(s) IN
         /\ f.count # 0 => f.first \in Frames
         /\ f.count >= 2 => Settled(s, f.first)
         /\ f.count = 0 => EmptyRight(s)
<1> DEFINE f == FindNextFile(s)
<1>1. /\ LoggerSafe /\ ThreadSafe /\ dirs \subseteq Sessions
      /\ LoggerForm /\ LoggerTypeOK /\ ThreadTypeOK
  BY DEF SafeInv, TypeInv, TypeOK, StoreTypeOK
<1>2. s \in dirs /\ s \in Sessions /\ s \in Nat /\ s \in used
  BY <1>1, SizeFacts DEF LoggerSafe
<1>3. /\ f.count \in Nat
      /\ f.count = 0 => NoFrames(s)
      /\ f.count # 0 => f.first \in Frames
      /\ f.count >= 2 => \E y \in Frames : Pcd(s, y) \in files /\ f.first < y
  <2>1. FrameNumbers(s) \subseteq 0..NumFrames /\ NumFrames \in Nat
    BY SizeFacts DEF FrameNumbers
  <2>2. /\ f \in ScanResults
        /\ f.count = 0 <=> FrameNumbers(s) = {}
        /\ FrameNumbers(s) # {} => f.first \in FrameNumbers(s)
        /\ f.count >= 2 => \E y \in FrameNumbers(s) : f.first < y
    BY <2>1, ScanFacts DEF FindNextFile
  <2> QED
    BY <2>2 DEF FrameNumbers, NoFrames, ScanResults
<1> HIDE DEF f
<1>4. LoggerActive => Newest \in Int /\ (Newest >= 0 => Newest \in Frames)
  BY <1>1, SizeFacts DEF LoggerForm, LoggerTypeOK, Newest, Frames
<1>5. f.count >= 2 => Settled(s, f.first)
  <2>1. ASSUME f.count >= 2, LoggerActive, lsess = s PROVE f.first < Newest
    <3>1. PICK y \in Frames : Pcd(s, y) \in files /\ f.first < y
      BY <1>3, <2>1
    <3>2. Pcd(lsess, y) \in files
      BY <2>1, <3>1
    <3>3. y <= Newest
      BY <1>1, <2>1, <3>2 DEF LoggerSafe
    <3>4. f.first \in Frames
      BY <1>3, <2>1
    <3>5. y \in Nat /\ f.first \in Nat
      BY <3>1, <3>4, SizeFacts
    <3> QED
      BY <1>4, <2>1, <3>1, <3>3, <3>5
  <2> QED
    BY <1>2, <2>1 DEF Settled
<1>6. f.count = 0 => EmptyRight(s)
  <2>1. CASE tr = s
    <3>1. ASSUME f.count = 0, LoggerActive, lsess = s PROVE FALSE
      <4>1. Newest >= 0
        BY <1>1, <1>2, <2>1, <3>1, SizeFacts DEF ThreadSafe
      <4>2. Pcd(s, Newest) \in files /\ Newest \in Frames
        BY <1>1, <1>4, <3>1, <4>1 DEF LoggerSafe
      <4> QED
        BY <1>3, <3>1, <4>2 DEF NoFrames
    <3> QED
      BY <1>2, <1>3, <2>1, <3>1 DEF EmptyRight, Current, Over
  <2>2. CASE tr # s
    <3>1. ASSUME tr \in dirs PROVE FALSE
      <4>1. s <= tr /\ tr <= s
        BY <1>1, <1>2, <3>1, SizeFacts DEF Oldest, ThreadSafe
      <4> QED
        BY <1>1, <1>2, <2>2, <3>1, <4>1, SizeFacts
    <3> QED
      BY <3>1 DEF EmptyRight
  <2> QED
    BY <2>1, <2>2
<1> QED
  BY <1>3, <1>5, <1>6 DEF f

\* FindNextFile on a session that has been removed under it: whatever the stack
\* held, the session is over and has no frame left to be taken for another.
LEMMA LeftoverSafe ==
  ASSUME SafeInv, TypeInv, NEW s \in Nat, Removed(s), Oldest(s), tr <= s
  PROVE  EmptyRight(s)
<1>1. LoggerSafe /\ ThreadTypeOK
  BY DEF SafeInv, TypeInv, TypeOK
<1>2. NoFrames(s)
  BY <1>1, ItemFacts DEF LoggerSafe, NoFrames, Removed
<1>3. ASSUME tr \in dirs PROVE tr = s
  BY <1>1, <1>3, SizeFacts DEF Oldest, ThreadTypeOK
<1> QED
  BY <1>2, <1>3 DEF EmptyRight, Current, Removed

LEMMA ScanFilesSafe ==
  ASSUME SafeInv, TypeInv, NEW c \in Conns, ScanFiles(c),
         UNCHANGED <<loggerVars, threadVars, diskVars, used>>
  PROVE  SafeInv'
<1> DEFINE s == nd[c].first
<1>1. ScanSafe(c) /\ ChildForm(c) /\ ChildTypeOK /\ cpc[c] = "read" /\ UNCHANGED <<storeVars, wireVars, nd>>
  BY DEF SafeInv, TypeInv, TypeOK, ScanFiles
<1>2. s \in Nat /\ s \in used /\ Oldest(s) /\ nd[c].count # 0 /\ (nd[c].count >= 2 => Over(s))
      /\ (link[c] = "up" => tr <= s) /\ (s \in tofs \/ Removed(s))
  BY <1>1, SizeFacts DEF ScanSafe, ChildForm
<1>3. PICK f \in IF s \in tofs THEN {FindNextFile(s)} ELSE Leftover : nf' = [nf EXCEPT ![c] = f]
  BY DEF ScanFiles
<1>4. /\ f.count # 0 => f.first \in Frames
      /\ f.count >= 2 => Settled(s, f.first) \/ Removed(s)
      /\ f.count = 0 /\ link[c] = "up" => EmptyRight(s)
  <2>1. CASE s \in tofs
    BY <1>2, <1>3, <2>1, FramesSafe
  <2>2. CASE s \notin tofs
    <3>1. f.first \in Frames
      BY <1>3, <2>2 DEF Leftover
    <3> QED
      BY <1>2, <2>2, <3>1, LeftoverSafe
  <2> QED
    BY <2>1, <2>2
<1>5. /\ nf'[c] = f /\ cpc'[c] = "logger" /\ nd' = nd /\ link' = link /\ req' = req /\ rep' = rep
      /\ \A d \in Conns \ {c} : cpc'[d] = cpc[d] /\ nf'[d] = nf[d]
  BY <1>1, <1>3 DEF ScanFiles, ChildTypeOK, wireVars
<1> HIDE DEF s
<1>6. ScanSafe(c)'
  <2>1. nd'[c].first = s /\ nd'[c].count = nd[c].count
    BY <1>5 DEF s
  <2> QED
    BY <1>1, <1>2, <1>4, <1>5, <2>1 DEF ScanSafe, storeVars, loggerVars, threadVars, Over, Removed,
       Oldest, LoggerActive, Settled, Newest, EmptyRight, Current, NoFrames
<1>7. LoggerSafe' /\ RemovedOnlyAfterWritten' /\ dirs' \subseteq dirs /\ files' \subseteq files /\ tofs' = tofs
  BY <1>1, StoreKept
<1>8. RequestSafe(c)' /\ ReplySafe(c)'
  BY <1>1, <1>5 DEF SafeInv, RequestSafe, ReplySafe, storeVars, loggerVars, threadVars, diskVars,
     Settled, Safe, Over, Newest, LoggerActive, Removable, Oldest, EmptyRight, Current, NoFrames
<1> QED
  BY <1>5, <1>6, <1>7, <1>8, ChildStepSafe

\* SendNext decides: a frame it sends is settled, an EMPTY it answers is right.
LEMMA CheckLoggerSafe ==
  ASSUME SafeInv, TypeInv, NEW c \in Conns, CheckLogger(c),
         UNCHANGED <<loggerVars, threadVars, diskVars, used>>
  PROVE  SafeInv'
<1>1. /\ WireTypeOK /\ ChildTypeOK /\ ScanSafe(c) /\ RequestSafe(c) /\ ReplySafe(c)
      /\ nd[c].count \in Nat /\ nf[c].count \in Nat
  BY DEF SafeInv, TypeInv, TypeOK, ChildTypeOK, ScanResults
<1>2. cpc[c] = "logger" /\ req[c].op = "SEND_NEXT" /\ UNCHANGED storeVars
  BY ChildBusy DEF CheckLogger
<1>3. LoggerSafe' /\ RemovedOnlyAfterWritten' /\ dirs' \subseteq dirs /\ files' \subseteq files /\ tofs' = tofs
  BY <1>2, StoreKept
<1>4. ASSUME NEW op \in {"NO_TR", "WAIT"}, Answer(c, Reply(op, NoSession, 0, FALSE))
      PROVE  SafeInv'
  <2> DEFINE r == Reply(op, NoSession, 0, FALSE)
  <2>1. r.op = op
    BY DEF Reply
  <2> HIDE DEF r
  <2> QED
    BY <1>2, <1>3, <1>4, <2>1, AnswerSafe DEF r
<1>5. ASSUME nd[c].count # 0, nf[c].count < MinCount(c), ~OnlyActive(c),
             Answer(c, Reply("EMPTY", nd[c].first, 0, FALSE))
      PROVE  SafeInv'
  <2> DEFINE r == Reply("EMPTY", nd[c].first, 0, FALSE)
  <2>1. r.op = "EMPTY" /\ r.s = nd[c].first
    BY DEF Reply
  <2>2. nf[c].count = 0
    BY <1>1, <1>5 DEF MinCount
  <2>3. link[c] = "up" => EmptyRight(r.s)
    BY <1>1, <1>2, <1>5, <2>1, <2>2 DEF ScanSafe
  <2> HIDE DEF r
  <2> QED
    BY <1>2, <1>3, <1>5, <2>1, <2>3, AnswerSafe DEF r
<1>6. ASSUME nd[c].count # 0, nf[c].count >= MinCount(c),
             cpc' = [cpc EXCEPT ![c] = "compress"], UNCHANGED <<wireVars, nd, nf>>
      PROVE  SafeInv'
  <2>1. nf[c].first \in Frames /\ nf[c].count >= 1 /\ nd[c].first \in used
    BY <1>1, <1>2, <1>6 DEF ScanSafe, MinCount
  <2>2. Settled(nd[c].first, nf[c].first) \/ Removed(nd[c].first)
    <3>1. CASE nf[c].count >= 2
      BY <1>1, <1>2, <1>6, <3>1 DEF ScanSafe
    <3>2. CASE ~LoggerActive
      BY <2>1, <3>2 DEF Settled
    <3>3. CASE nd[c].count >= 2
      BY <1>1, <1>2, <1>6, <3>3 DEF ScanSafe, Over, Settled
    <3> QED
      BY <1>1, <1>6, <3>1, <3>2, <3>3 DEF MinCount, OnlyActive
  <2>3. /\ cpc'[c] = "compress" /\ nd' = nd /\ nf' = nf /\ link' = link /\ req' = req /\ rep' = rep
        /\ \A d \in Conns \ {c} : cpc'[d] = cpc[d]
    BY <1>1, <1>6 DEF ChildTypeOK, wireVars
  <2>4. ScanSafe(c)'
    BY <1>1, <1>2, <2>1, <2>2, <2>3 DEF ScanSafe, storeVars, loggerVars, threadVars, Over, Removed,
         Oldest, LoggerActive, Settled, Newest
  <2>5. RequestSafe(c)' /\ ReplySafe(c)'
    BY <1>1, <1>2, <2>3 DEF RequestSafe, ReplySafe, storeVars, loggerVars, threadVars, diskVars,
       Settled, Safe, Over, Newest, LoggerActive, Removable, Oldest, EmptyRight, Current, NoFrames
  <2> QED
    BY <1>3, <2>3, <2>4, <2>5, ChildStepSafe
<1> QED
  BY <1>4, <1>5, <1>6 DEF CheckLogger

\* CompressAndSend of a settled frame of the oldest session.
LEMMA SendNextFileSafe ==
  ASSUME SafeInv, TypeInv, NEW c \in Conns, SendNextFile(c),
         UNCHANGED <<loggerVars, threadVars, diskVars, used>>
  PROVE  SafeInv'
<1>1. cpc[c] = "compress" /\ req[c].op = "SEND_NEXT" /\ UNCHANGED storeVars
  BY ChildBusy DEF SendNextFile, CompressAndSend
<1>2. LoggerSafe' /\ RemovedOnlyAfterWritten' /\ dirs' \subseteq dirs /\ files' \subseteq files /\ tofs' = tofs
  BY <1>1, StoreKept
<1>3. CASE AnswerError(c)
  BY <1>1, <1>3, AnswerErrorSafe
<1>4. CASE ~AnswerError(c)
  <2> DEFINE s == nd[c].first
             n == nf[c].first
             r == Reply("SENDING", s, n, Pcd(s, n) \in made)
  <2>1. Answer(c, r) /\ Pcd(s, n) \in files
    BY <1>4 DEF SendNextFile, CompressAndSend
  <2>2. r.op = "SENDING" /\ r.s = s /\ r.k = n /\ (~r.ok => Pcd(s, n) \notin made)
    BY DEF Reply
  <2>3. n \in Frames /\ Settled(s, n) /\ Oldest(s)
    <3>1. s \in tofs
      BY <2>1, ItemFacts DEF SafeInv, LoggerSafe
    <3> QED
      BY <1>1, <3>1 DEF SafeInv, TypeInv, ScanSafe, ChildForm, Removed
  <2> HIDE DEF r
  <2>4. Removable(r) /\ Oldest(r.s)
    BY <2>2, <2>3 DEF Removable
  <2> QED
    BY <1>1, <1>2, <2>1, <2>2, <2>4, AnswerSafe
<1> QED
  BY <1>3, <1>4

\* CompressAndSend of a remaining file: that it is there shows that the thread's
\* session has not left the drone.
LEMMA SendFileSafe ==
  ASSUME SafeInv, TypeInv, NEW c \in Conns, SendFile(c),
         UNCHANGED <<loggerVars, threadVars, diskVars, used>>
  PROVE  SafeInv'
<1>1. req[c].op = "SEND_FILE" /\ UNCHANGED storeVars
  BY DEF SendFile, Asked, CompressAndSend
<1>2. LoggerSafe' /\ RemovedOnlyAfterWritten' /\ dirs' \subseteq dirs /\ files' \subseteq files /\ tofs' = tofs
  BY <1>1, StoreKept
<1>3. CASE AnswerError(c)
  BY <1>1, <1>3, AnswerErrorSafe
<1>4. CASE ~AnswerError(c)
  <2> DEFINE s == req[c].s
             k == req[c].k
             r == Reply("REQUESTED", s, k, Ext(s, k) \in made)
  <2>1. Answer(c, r) /\ Ext(s, k) \in files
    BY <1>4 DEF SendFile, CompressAndSend
  <2>2. r.op = "REQUESTED" /\ r.s = s /\ r.k = k /\ (~r.ok => Ext(s, k) \notin made)
    BY DEF Reply
  <2>3. s \in dirs
    BY <2>1, ItemFacts DEF SafeInv, LoggerSafe
  <2>4. ASSUME link[c] = "up"
        PROVE  s = tr /\ k = xi /\ Current(folder)
    <3>1. s = tr /\ k = xi
      BY <1>1, <2>4 DEF SafeInv, RequestSafe
    <3>2. Fetching
      BY <1>1, <2>4, ThreadWaits DEF Fetching
    <3> QED
      BY <2>3, <3>1, <3>2 DEF SafeInv, ThreadSafe, EmptyRight
  <2> HIDE DEF r
  <2> QED
    BY <1>1, <1>2, <2>1, <2>2, <2>4, AnswerSafe
<1> QED
  BY <1>3, <1>4

\* RemoveFile: the frame is settled, and on the client if it is whole.
LEMMA RemoveFileSafe ==
  ASSUME SafeInv, TypeInv, NEW c \in Conns, RemoveFile(c),
         UNCHANGED <<loggerVars, threadVars, diskVars, used>>
  PROVE  SafeInv'
<1> DEFINE item == Pcd(req[c].s, req[c].k)
<1>1. /\ req[c].op = "REMOVE_FILE" /\ LoggerSafe /\ RemovedOnlyAfterWritten /\ LoggerTypeOK
      /\ Settled(req[c].s, req[c].k) /\ Safe(item)
  BY DEF RemoveFile, Asked, SafeInv, RequestSafe, TypeInv, TypeOK
<1>2. CASE AnswerError(c) /\ UNCHANGED storeVars
  BY <1>1, <1>2, AnswerErrorSafe
<1>3. CASE /\ files' = files \ {item}
           /\ Answer(c, Reply("REMOVED", req[c].s, 0, FALSE))
           /\ UNCHANGED <<dirs, tofs>>
  <2> DEFINE r == Reply("REMOVED", req[c].s, 0, FALSE)
  <2>1. r.op = "REMOVED"
    BY DEF Reply
  <2>2. UNCHANGED <<lpc, lsess, lcnt, lext, made, delivered, used>>
    BY DEF loggerVars, diskVars
  <2>3. RemovedOnlyAfterWritten'
    BY <1>1, <1>3, <2>2 DEF RemovedOnlyAfterWritten, Safe
  <2>4. LoggerActive /\ Newest >= 0 => Pcd(lsess, Newest) # item
    <3>1. LoggerActive => Newest \in Int
      BY <1>1, SizeFacts DEF LoggerTypeOK, Newest
    <3>2. req[c].k \in Nat
      BY DEF TypeInv, TypeOK, WireTypeOK, Requests
    <3> QED
      BY <1>1, <3>1, <3>2, ItemFacts DEF Settled
  <2>5. LoggerSafe'
    BY <1>1, <1>3, <2>2, <2>4, ItemFacts DEF LoggerSafe, LoggerActive, Newest
  <2> HIDE DEF r
  <2> QED
    BY <1>1, <1>3, <2>1, <2>3, <2>5, AnswerSafe DEF r
<1> QED
  BY <1>2, <1>3 DEF RemoveFile

\* rmrf, the files: the session is over and all the logger made of it is on the
\* client.
LEMMA UnlinkTreeSafe ==
  ASSUME SafeInv, TypeInv, NEW c \in Conns, UnlinkTree(c),
         UNCHANGED <<loggerVars, threadVars, diskVars, used>>
  PROVE  SafeInv'
<1> DEFINE s == req[c].s
<1>1. /\ req[c].op = "REMOVE_DIR" /\ LoggerSafe /\ RemovedOnlyAfterWritten /\ ChildTypeOK
      /\ Over(s) /\ \A item \in made : SessionOf(item) = s => item \in delivered
  BY DEF UnlinkTree, Asked, SafeInv, RequestSafe, TypeInv, TypeOK
<1>2. CASE AnswerError(c) /\ UNCHANGED storeVars
  BY <1>1, <1>2, AnswerErrorSafe
<1>3. CASE /\ files' = files \ FilesOf(s)
           /\ tofs' = tofs \ {s}
           /\ cpc' = [cpc EXCEPT ![c] = "rmrf"]
           /\ UNCHANGED <<dirs, wireVars, nd, nf>>
  <2>1. UNCHANGED <<lpc, lsess, lcnt, lext, made, delivered, used, tr, xi, folder>>
    BY DEF loggerVars, diskVars, threadVars
  <2>2. RemovedOnlyAfterWritten'
    BY <1>1, <1>3, <2>1 DEF RemovedOnlyAfterWritten, FilesOf
  <2>3. LoggerSafe'
    BY <1>1, <1>3, <2>1, ItemFacts DEF LoggerSafe, LoggerActive, Newest, FilesOf, Over
  <2>4. cpc'[c] = "rmrf" /\ \A d \in Conns \ {c} : cpc'[d] = cpc[d]
    BY <1>1, <1>3 DEF ChildTypeOK
  <2>5. ScanSafe(c)'
    BY <2>4 DEF ScanSafe
  <2>6. RequestSafe(c)'
    BY <1>1, <1>3, <2>1 DEF RequestSafe, wireVars, Over, LoggerActive
  <2>7. ReplySafe(c)'
    <3>1. rep[c].op = "none"
      BY <1>1 DEF TypeInv, Talk, NoReq, Request
    <3> QED
      BY <1>3, <3>1 DEF ReplySafe, wireVars
  <2>8. \A d \in Conns \ {c} : /\ link'[d] = link[d] /\ req'[d] = req[d] /\ rep'[d] = rep[d]
                               /\ nd'[d] = nd[d] /\ nf'[d] = nf[d]
    BY <1>3 DEF wireVars
  <2> QED
    BY <1>1, <1>3, <2>2, <2>3, <2>4, <2>5, <2>6, <2>7, <2>8, ChildStepSafe
<1> QED
  BY <1>2, <1>3 DEF UnlinkTree

\* rmrf, the directory itself: nothing is left in it.
LEMMA RemoveDirSafe ==
  ASSUME SafeInv, TypeInv, NEW c \in Conns, RemoveDir(c),
         UNCHANGED <<loggerVars, threadVars, diskVars, used>>
  PROVE  SafeInv'
<1> DEFINE s == req[c].s
<1>1. req[c].op = "REMOVE_DIR" /\ LoggerSafe /\ RemovedOnlyAfterWritten
  BY ChildBusy DEF RemoveDir, SafeInv
<1>2. CASE AnswerError(c) /\ UNCHANGED storeVars
  BY <1>1, <1>2, AnswerErrorSafe
<1>3. CASE /\ s \in dirs \ tofs
           /\ FilesOf(s) = {}
           /\ dirs' = dirs \ {s}
           /\ Answer(c, Reply("REMOVED", s, 0, FALSE))
           /\ UNCHANGED <<tofs, files>>
  <2> DEFINE r == Reply("REMOVED", s, 0, FALSE)
  <2>1. r.op = "REMOVED"
    BY DEF Reply
  <2>2. UNCHANGED <<lpc, lsess, lcnt, lext, made, delivered, used>>
    BY DEF loggerVars, diskVars
  <2>3. RemovedOnlyAfterWritten'
    BY <1>1, <1>3, <2>2 DEF RemovedOnlyAfterWritten
  <2>4. LoggerSafe'
    BY <1>1, <1>3, <2>2 DEF LoggerSafe, LoggerActive, Newest, FilesOf
  <2> HIDE DEF r
  <2> QED
    BY <1>1, <1>3, <2>1, <2>3, <2>4, AnswerSafe DEF r
<1> QED
  BY <1>2, <1>3 DEF RemoveDir

\* The end of a child takes its request with it.
LEMMA ChildEndsSafe ==
  ASSUME SafeInv, TypeInv, NEW c \in Conns, ChildEnds(c),
         UNCHANGED <<loggerVars, threadVars, diskVars, used>>
  PROVE  SafeInv'
<1>1. WireTypeOK /\ ChildTypeOK /\ Talk(c) /\ NoReq.op = "none"
  BY DEF TypeInv, TypeOK, NoReq, Request
<1>2. rep[c].op = "none"
  BY <1>1 DEF ChildEnds, Asked, Talk
<1>3. /\ req'[c].op = "none" /\ cpc'[c] = "idle" /\ rep'[c] = rep[c] /\ UNCHANGED storeVars
      /\ \A d \in Conns \ {c} : /\ link'[d] = link[d] /\ req'[d] = req[d] /\ rep'[d] = rep[d]
                                /\ cpc'[d] = cpc[d] /\ nd'[d] = nd[d] /\ nf'[d] = nf[d]
  BY <1>1 DEF ChildEnds, WireTypeOK, ChildTypeOK
<1>4. RequestSafe(c)' /\ ScanSafe(c)' /\ ReplySafe(c)'
  BY <1>2, <1>3 DEF RequestSafe, ScanSafe, ReplySafe
<1>5. LoggerSafe' /\ RemovedOnlyAfterWritten' /\ dirs' \subseteq dirs /\ files' \subseteq files /\ tofs' = tofs
  BY <1>3, StoreKept
<1> QED
  BY <1>3, <1>4, <1>5, ChildStepSafe

\* Every step of a child.
LEMMA ChildSafe == ASSUME SafeInv, TypeInv, NEW c \in Conns, Child(c) PROVE SafeInv'
<1>1. UNCHANGED <<loggerVars, threadVars, diskVars, used>>
  BY DEF Child
<1> QED
  BY <1>1, ScanDirsSafe, FindTofSafe, ScanFilesSafe, CheckLoggerSafe, SendNextFileSafe, SendFileSafe,
     RemoveFileSafe, UnlinkTreeSafe, RemoveDirSafe, ChildEndsSafe DEF Child, ChildStep

-----------------------------------------------------------------------------
(* The client.                                                             *)

\* What is under way on a connection that is up concerns the thread, and tells
\* where the thread is.
Scanning == {"files", "read", "logger", "compress"}

UnderWay(c) ==
  /\ link[c] = "up" /\ req[c].op = "SEND_FILE" => tpc = "wait_extra"
  /\ link[c] = "up" /\ cpc[c] \in Scanning => c = tconn /\ req[c].op = "SEND_NEXT" /\ tpc = "wait_next"
  /\ rep[c].op # "none" => c = tconn /\ link[c] = "up" /\ req[c].op = "none"
  /\ rep[c].op = "EMPTY" => tpc = "wait_next"
  /\ rep[c].op = "REQUESTED" => tpc \in {"wait_extra", "body"}

AllUnderWay == \A c \in Conns : UnderWay(c)

\* It does so by the discipline of the protocol.
LEMMA InFlight == TypeInv => AllUnderWay
<1> SUFFICES ASSUME TypeInv, NEW c \in Conns PROVE UnderWay(c)
  BY DEF AllUnderWay
<1>1. Talk(c) /\ Dialogue /\ NoReq.op = "none"
  BY DEF TypeInv, NoReq, Request
<1>2. rep[c].op # "none" => c = tconn /\ link[c] = "up" /\ req[c].op = "none"
  BY <1>1 DEF Talk
<1>3. link[c] = "up" /\ c = tconn => LinkUp
  BY ConnAssumption DEF LinkUp
<1>4. /\ link[c] = "up" /\ req[c].op = "SEND_FILE" => tpc = "wait_extra"
      /\ link[c] = "up" /\ req[c].op = "SEND_NEXT" => c = tconn /\ tpc = "wait_next"
  BY ThreadWaits
<1> QED
  BY <1>1, <1>2, <1>3, <1>4 DEF UnderWay, Talk, Dialogue, Scanning

\* The parts of SafeInv that a step of the client cannot disturb: the drone is
\* as it was, and delivered only grows.
LEMMA ClientStep ==
  ASSUME SafeInv, UNCHANGED <<storeVars, loggerVars, childVars, used>>, delivered \subseteq delivered'
  PROVE  /\ RemovedOnlyAfterWritten' /\ LoggerSafe'
         /\ Newest' = Newest /\ LoggerActive' = LoggerActive
         /\ \A s : Over(s)' = Over(s)
         /\ \A s, n : Settled(s, n)' = Settled(s, n)
         /\ \A item : Safe(item) => Safe(item)'
         /\ \A r : Removable(r)' = Removable(r)
         /\ \A s : Oldest(s)' = Oldest(s) /\ NoFrames(s)' = NoFrames(s) /\ Removed(s)' = Removed(s)
         /\ tofs' = tofs
         /\ tr' = tr => \A f : Current(f)' = Current(f) /\ EmptyRight(f)' = EmptyRight(f)
<1> USE DEF storeVars, loggerVars
<1>1. RemovedOnlyAfterWritten' /\ LoggerSafe'
  BY DEF SafeInv, RemovedOnlyAfterWritten, LoggerSafe, LoggerActive, Newest
<1> QED
  BY <1>1 DEF Newest, LoggerActive, Over, Settled, Safe, Removable, Oldest, NoFrames, Current, EmptyRight, Removed

\* Nothing on the wire appears in this step that was not there, except CLOSE.
WireKept ==
  \A c \in Conns :
    /\ req'[c] = req[c] \/ req'[c].op \in {"none", "CLOSE"}
    /\ rep'[c] = rep[c] \/ rep'[c].op = "none"

\* A step after which the thread is off, connecting or at the start of a round,
\* where it relies on nothing but its session.
LEMMA RestSafe ==
  ASSUME SafeInv, TypeInv, TypeInv', UNCHANGED <<storeVars, loggerVars, childVars, used>>,
         delivered \subseteq delivered', WireKept,
         tpc' \in {"off", "connect", "next"}, cur'.op # "REQUESTED",
         tr' = tr \/ tr' = NoSession
  PROVE  SafeInv'
<1>1. ThreadSafe /\ \A c \in Conns : RequestSafe(c) /\ ScanSafe(c) /\ ReplySafe(c)
  BY DEF SafeInv
<1>2. /\ RemovedOnlyAfterWritten' /\ LoggerSafe'
      /\ Newest' = Newest /\ LoggerActive' = LoggerActive
      /\ \A s : Over(s)' = Over(s)
      /\ \A s, n : Settled(s, n)' = Settled(s, n)
      /\ \A item : Safe(item) => Safe(item)'
      /\ \A r : Removable(r)' = Removable(r)
      /\ \A s : Oldest(s)' = Oldest(s) /\ Removed(s)' = Removed(s)
      /\ tofs' = tofs
      /\ used' = used /\ lsess' = lsess /\ made' = made /\ cpc' = cpc /\ nd' = nd /\ nf' = nf
  BY ClientStep DEF loggerVars, childVars
<1>3. ThreadSafe'
  BY <1>1, <1>2 DEF ThreadSafe, Fetching
<1>4. ASSUME NEW c \in Conns
      PROVE  RequestSafe(c)' /\ ScanSafe(c)' /\ ReplySafe(c)'
  <2>1. /\ ~(link'[c] = "up" /\ req'[c].op = "SEND_FILE")
        /\ ~(link'[c] = "up" /\ cpc'[c] \in Scanning)
        /\ rep'[c].op \notin {"EMPTY", "REQUESTED"}
    <3>1. AllUnderWay'
      BY InFlight, PTL
    <3> QED
      BY <3>1 DEF AllUnderWay, UnderWay
  <2>2. RequestSafe(c)'
    BY <1>1, <1>2, <2>1 DEF WireKept, RequestSafe
  <2>3. ScanSafe(c)'
    BY <1>1, <1>2, <2>1 DEF ScanSafe, Scanning
  <2>4. ReplySafe(c)'
    BY <1>1, <1>2, <2>1 DEF WireKept, ReplySafe
  <2> QED
    BY <2>2, <2>3, <2>4
<1> QED
  BY <1>2, <1>3, <1>4 DEF SafeInv

\* A step in which the thread stays with its session: what its connection
\* carries is kept, or is a request that is safe.
LEMMA SameSessionSafe ==
  ASSUME SafeInv, TypeInv, TypeInv', UNCHANGED <<storeVars, loggerVars, childVars, used>>,
         delivered \subseteq delivered', tr' = tr, ThreadSafe',
         \A c \in Conns :
           /\ link'[c] = "up" => link[c] = "up"
           /\ req'[c] = req[c] \/ req'[c].op \in {"none", "CLOSE"} \/ RequestSafe(c)'
           /\ rep'[c] = rep[c] \/ rep'[c].op = "none",
         (xi' = xi /\ folder' = folder) \/ tpc' \notin {"wait_extra", "body"}
  PROVE  SafeInv'
<1>1. \A c \in Conns : RequestSafe(c) /\ ScanSafe(c) /\ ReplySafe(c)
  BY DEF SafeInv
<1>2. /\ RemovedOnlyAfterWritten' /\ LoggerSafe'
      /\ \A s : Over(s)' = Over(s)
      /\ \A s, n : Settled(s, n)' = Settled(s, n)
      /\ \A item : Safe(item) => Safe(item)'
      /\ \A r : Removable(r)' = Removable(r)
      /\ \A s : Oldest(s)' = Oldest(s) /\ Removed(s)' = Removed(s)
      /\ tofs' = tofs
      /\ \A f : Current(f)' = Current(f) /\ EmptyRight(f)' = EmptyRight(f)
      /\ used' = used /\ made' = made /\ cpc' = cpc /\ nd' = nd /\ nf' = nf
  BY ClientStep DEF loggerVars, childVars
<1>3. AllUnderWay'
  BY InFlight, PTL
<1>4. ASSUME NEW c \in Conns
      PROVE  RequestSafe(c)' /\ ScanSafe(c)' /\ ReplySafe(c)'
  <2>1. RequestSafe(c)'
    BY <1>1, <1>2, <1>3 DEF AllUnderWay, UnderWay, RequestSafe
  <2>2. ScanSafe(c)'
    BY <1>1, <1>2 DEF ScanSafe
  <2>3. ReplySafe(c)'
    BY <1>1, <1>2, <1>3 DEF AllUnderWay, UnderWay, ReplySafe
  <2> QED
    BY <2>1, <2>2, <2>3
<1> QED
  BY <1>2, <1>4 DEF SafeInv

\* ThreadSafe rests on these facts of the client.
LEMMA ThreadKept ==
  ASSUME SafeInv, UNCHANGED <<storeVars, loggerVars, childVars, used, tpc, tr, folder, xi, cur>>,
         delivered \subseteq delivered'
  PROVE  ThreadSafe'
<1>1. ThreadSafe /\ lsess' = lsess /\ made' = made
  BY DEF SafeInv, loggerVars
<1>2. /\ Newest' = Newest /\ LoggerActive' = LoggerActive
      /\ \A s, n : Settled(s, n)' = Settled(s, n)
      /\ \A item : Safe(item) => Safe(item)'
      /\ \A r : Removable(r)' = Removable(r)
      /\ \A s : Oldest(s)' = Oldest(s)
      /\ \A f : Current(f)' = Current(f) /\ EmptyRight(f)' = EmptyRight(f)
  BY ClientStep
<1> QED
  BY <1>1, <1>2 DEF ThreadSafe, Fetching

\* A thread that leaves has no file in its hands.
LEMMA LeaveSafe ==
  ASSUME TypeInv, NEW code, Leave(code)
  PROVE  tpc' = "off" /\ cur'.op # "REQUESTED"
  BY DEF Leave, NoRep, Reply

\* To take a reply and to hang up bring no request and no reply.
LEMMA ConsumeKeeps ==
  ASSUME TypeInv, tconn \in Conns,
         rep' = rep \/ Consume,
         req' = req \/ HangUp
  PROVE  WireKept
<1>1. NoRep.op = "none" /\ Request("CLOSE", NoSession, 0).op = "CLOSE" /\ WireTypeOK
  BY DEF NoRep, Reply, Request, TypeInv, TypeOK
<1> QED
  BY <1>1 DEF WireKept, Consume, HangUp, WireTypeOK

\* The test at the end of the do loop.
LEMMA AgainSafe ==
  ASSUME SafeInv, TypeInv, TypeInv', LinkUp, Consume, Again,
         UNCHANGED <<storeVars, loggerVars, childVars, used, tr, delivered>>
  PROVE  SafeInv'
<1>1. tconn \in Conns
  BY DEF TypeInv, TypeOK, ThreadTypeOK, LinkUp
<1>2. WireKept
  BY <1>1, ConsumeKeeps DEF Again
<1>3. tpc' \in {"off", "next"} /\ cur'.op # "REQUESTED"
  BY DEF Again, Leave, NoRep, Reply
<1> QED
  BY <1>2, <1>3, RestSafe

\* The steps that end the thread, or its round.
LEMMA RoundEndSafe ==
  ASSUME SafeInv, TypeInv, TypeInv', UNCHANGED <<storeVars, loggerVars, childVars, used>>,
         ConnectionLost \/ ReceiveError \/ ReceiveNoTr \/ ReceiveWait \/ ReceiveRemoved
           \/ ReceiveDirRemoved \/ OpenConnection
  PROVE  SafeInv'
<1>1. LinkUp => tconn \in Conns
  BY DEF TypeInv, TypeOK, ThreadTypeOK, LinkUp
<1>2. CASE ConnectionLost
  <2>1. WireKept /\ tr' = tr /\ delivered' = delivered /\ Leave(-2)
    BY <1>2 DEF ConnectionLost, WireKept, wireVars, diskVars
  <2> QED
    BY <2>1, LeaveSafe, RestSafe
<1>3. CASE ReceiveError \/ ReceiveNoTr
  <2>1. LinkUp /\ Consume /\ HangUp /\ tr' = tr /\ delivered' = delivered /\ (Leave(-1) \/ Leave(0))
    BY <1>3 DEF ReceiveError, ReceiveNoTr, Received, diskVars
  <2>2. WireKept
    BY <1>1, <2>1, ConsumeKeeps
  <2> QED
    BY <2>1, <2>2, LeaveSafe, RestSafe
<1>4. CASE ReceiveWait \/ ReceiveRemoved \/ ReceiveDirRemoved
  <2>1. LinkUp /\ Consume /\ Again /\ tr' = tr /\ delivered' = delivered
    BY <1>4 DEF ReceiveWait, ReceiveRemoved, ReceiveDirRemoved, Received, diskVars
  <2> QED
    BY <2>1, AgainSafe
<1>5. CASE OpenConnection
  <2>1. WireKept /\ tr' = tr /\ delivered' = delivered /\ tpc' = "next" /\ cur' = cur
    BY <1>5 DEF OpenConnection, WireKept, diskVars
  <2>2. cur.op # "REQUESTED"
    BY <1>5 DEF OpenConnection, SafeInv, ThreadSafe
  <2> QED
    BY <2>1, <2>2, RestSafe
<1> QED
  BY <1>2, <1>3, <1>4, <1>5

\* TcpSendTT: what the thread asks to be removed is on the client; the frames
\* of an empty session have been removed, so they were written.
LEMMA TcpSendSafe ==
  ASSUME SafeInv, TypeInv, TypeInv', UNCHANGED <<storeVars, loggerVars, childVars, used>>, TcpSendTT
  PROVE  SafeInv'
<1>1. ThreadSafe /\ RemovedOnlyAfterWritten /\ WireTypeOK /\ ThreadTypeOK /\ made \subseteq Items
  BY DEF SafeInv, TypeInv, TypeOK, LoggerTypeOK
<1>2. /\ tpc \in Sends /\ tconn \in Conns /\ tpc' = WaitAfter(tpc)
      /\ UNCHANGED <<tconn, tr, folder, xi, cur, delivered>>
      /\ link' = link /\ rep' = rep /\ made' = made /\ lsess' = lsess
  BY <1>1 DEF TcpSendTT, ThreadTypeOK, LinkUp, diskVars, loggerVars
<1>3. /\ req'[tconn] = NextRequest
      /\ \A c \in Conns : c # tconn => req'[c] = req[c]
  BY <1>1, <1>2 DEF TcpSendTT, WireTypeOK
<1>4. /\ Newest' = Newest /\ LoggerActive' = LoggerActive
      /\ \A s : Over(s)' = Over(s)
      /\ \A s, n : Settled(s, n)' = Settled(s, n)
      /\ \A item : Safe(item) => Safe(item)'
      /\ \A s : Oldest(s)' = Oldest(s)
      /\ \A f : Current(f)' = Current(f) /\ EmptyRight(f)' = EmptyRight(f)
  BY <1>2, ClientStep
<1>5. RequestSafe(tconn)'
  <2>1. CASE tpc = "next"
    BY <1>2, <1>3, <2>1 DEF NextRequest, Request, RequestSafe
  <2>2. CASE tpc = "remove"
    <3>1. req'[tconn].op = "REMOVE_FILE" /\ req'[tconn].s = cur.s /\ req'[tconn].k = cur.k
      BY <1>3, <2>2 DEF NextRequest, Request
    <3> QED
      BY <1>1, <1>2, <1>4, <2>2, <3>1 DEF RequestSafe, ThreadSafe
  <2>3. CASE tpc = "extra"
    <3>1. req'[tconn].op = "SEND_FILE" /\ req'[tconn].s = tr /\ req'[tconn].k = xi
      BY <1>3, <2>3 DEF NextRequest, Request
    <3> QED
      BY <1>2, <3>1 DEF RequestSafe
  <2>4. CASE tpc = "rmdir"
    <3>1. req'[tconn].op = "REMOVE_DIR" /\ req'[tconn].s = folder
      BY <1>3, <2>4 DEF NextRequest, Request
    <3>2. Current(folder) /\ (\A i \in Extras : Safe(Ext(folder, i)))
      <4>1. Current(folder) /\ (\A i \in Extras : i < xi => Safe(Ext(folder, i))) /\ xi > NumExtras
        BY <1>1, <2>4 DEF ThreadSafe
      <4> QED
        BY <1>1, <4>1, SizeFacts DEF Extras, ThreadTypeOK
    <3>3. ASSUME NEW item \in made, SessionOf(item) = folder PROVE item \in delivered
      <4>1. CASE \E n \in Frames : item = Pcd(folder, n)
        BY <1>1, <3>2, <3>3, <4>1 DEF Current, NoFrames, RemovedOnlyAfterWritten
      <4>2. CASE \E i \in Extras : item = Ext(folder, i)
        BY <3>2, <3>3, <4>2 DEF Safe
      <4> QED
        BY <1>1, <3>3, <4>1, <4>2, ItemFacts
    <3> QED
      BY <1>2, <1>4, <3>1, <3>2, <3>3 DEF RequestSafe, Current
  <2> QED
    BY <1>2, <2>1, <2>2, <2>3, <2>4 DEF Sends
<1>6. ThreadSafe'
  <2>1. (Fetching \/ tpc = "rmdir")' => Fetching \/ tpc = "rmdir"
    BY <1>2 DEF Fetching, Sends, WaitAfter
  <2>2. /\ tpc' \in {"wait_next", "wait_remove", "wait_extra", "wait_rmdir"}
        /\ cur.op # "REQUESTED"
        /\ Fetching' => Fetching
    BY <1>1, <1>2 DEF Sends, WaitAfter, ThreadSafe, Fetching
  <2> QED
    BY <1>1, <1>2, <1>4, <2>1, <2>2 DEF ThreadSafe
<1> QED
  BY <1>2, <1>3, <1>5, <1>6, SameSessionSafe

\* SENDING: the thread moves to the session of the frame.
LEMMA ReceiveSendingSafe ==
  ASSUME SafeInv, TypeInv, TypeInv', UNCHANGED <<storeVars, loggerVars, childVars, used>>, ReceiveSending
  PROVE  SafeInv'
<1>1. /\ ThreadSafe /\ LoggerTypeOK
      /\ \A c \in Conns : RequestSafe(c) /\ ScanSafe(c) /\ ReplySafe(c)
  BY DEF SafeInv, TypeInv, TypeOK
<1>2. LinkUp /\ tconn \in Conns /\ rep[tconn].op = "SENDING"
  BY DEF ReceiveSending, Received, TypeInv, TypeOK, ThreadTypeOK, LinkUp
<1>3. /\ tr' = rep[tconn].s /\ cur' = rep[tconn] /\ tpc' = "body" /\ UNCHANGED <<delivered, link, req, rep, tconn>>
      /\ lsess' = lsess /\ made' = made /\ cpc' = cpc /\ nd' = nd /\ nf' = nf /\ used' = used
  BY DEF ReceiveSending, wireVars, loggerVars, childVars
<1>4. Removable(rep[tconn]) /\ Oldest(rep[tconn].s)
  BY <1>1, <1>2 DEF ReplySafe
<1>5. /\ RemovedOnlyAfterWritten' /\ LoggerSafe'
      /\ Newest' = Newest /\ LoggerActive' = LoggerActive
      /\ \A s : Over(s)' = Over(s)
      /\ \A s, n : Settled(s, n)' = Settled(s, n)
      /\ \A item : Safe(item) => Safe(item)'
      /\ \A r : Removable(r)' = Removable(r)
      /\ \A s : Oldest(s)' = Oldest(s) /\ Removed(s)' = Removed(s)
      /\ tofs' = tofs
  BY <1>3, ClientStep
<1>6. AllUnderWay /\ AllUnderWay'
  BY InFlight, PTL
<1>7. rep[tconn].s \in used /\ (LoggerActive /\ lsess = rep[tconn].s => Newest >= 0)
  <2>1. rep[tconn].k \in Nat
    BY <1>4, SizeFacts DEF Removable
  <2>2. Newest \in Int
    BY <1>1, SizeFacts DEF LoggerTypeOK, Newest
  <2> QED
    BY <1>4, <2>1, <2>2 DEF Removable, Settled
<1>8. ThreadSafe'
  <2>1. (tr # NoSession => /\ tr \in used
                           /\ Oldest(tr)
                           /\ LoggerActive /\ lsess = tr => Newest >= 0)'
    BY <1>3, <1>4, <1>5, <1>7
  <2>2. (cur.op = "SENDING" /\ Removable(cur))'
    BY <1>2, <1>3, <1>4, <1>5
  <2> QED
    BY <1>3, <2>1, <2>2 DEF ThreadSafe, Fetching
<1>9. ASSUME NEW c \in Conns
      PROVE  RequestSafe(c)' /\ ScanSafe(c)' /\ ReplySafe(c)'
  <2>1. /\ ~(link'[c] = "up" /\ req'[c].op = "SEND_FILE")
        /\ ~(link'[c] = "up" /\ cpc'[c] \in Scanning)
        /\ rep'[c].op \notin {"EMPTY", "REQUESTED"}
    BY <1>2, <1>3, <1>6 DEF AllUnderWay, UnderWay
  <2>2. RequestSafe(c)'
    BY <1>1, <1>3, <1>5, <2>1 DEF RequestSafe
  <2>3. ScanSafe(c)'
    BY <1>1, <1>3, <1>5, <2>1 DEF ScanSafe, Scanning
  <2>4. ReplySafe(c)'
    BY <1>1, <1>3, <1>5, <2>1 DEF ReplySafe
  <2> QED
    BY <2>2, <2>3, <2>4
<1> QED
  BY <1>5, <1>8, <1>9 DEF SafeInv

\* EMPTY: the remaining files are those of the thread's session, or cannot be
\* had.
LEMMA ReceiveEmptySafe ==
  ASSUME SafeInv, TypeInv, TypeInv', UNCHANGED <<storeVars, loggerVars, childVars, used>>, ReceiveEmpty
  PROVE  SafeInv'
<1>1. ThreadSafe /\ \A c \in Conns : ReplySafe(c)
  BY DEF SafeInv
<1>2. LinkUp /\ tconn \in Conns /\ rep[tconn].op = "EMPTY" /\ tpc = "wait_next" /\ cur.op # "REQUESTED"
  BY <1>1 DEF ReceiveEmpty, Received, TypeInv, TypeOK, ThreadTypeOK, LinkUp, ThreadSafe
<1>3. /\ folder' = rep[tconn].s /\ xi' = 1 /\ tpc' = "extra" /\ UNCHANGED <<tr, cur, delivered, link, req>>
      /\ used' = used /\ lsess' = lsess
  BY DEF ReceiveEmpty, diskVars, loggerVars
<1>4. WireKept
  BY <1>2, ConsumeKeeps DEF ReceiveEmpty
<1>5. /\ Newest' = Newest /\ LoggerActive' = LoggerActive
      /\ \A s : Oldest(s)' = Oldest(s)
      /\ \A f : EmptyRight(f)' = EmptyRight(f)
  BY <1>3, ClientStep
<1>6. EmptyRight(rep[tconn].s)
  BY <1>1, <1>2 DEF ReplySafe
<1>7. ThreadSafe'
  <2>1. (Fetching \/ tpc = "rmdir" => EmptyRight(folder))'
    BY <1>3, <1>5, <1>6
  <2> QED
    BY <1>1, <1>2, <1>3, <1>5, <2>1 DEF ThreadSafe, Fetching
<1> QED
  BY <1>3, <1>4, <1>7, SameSessionSafe DEF WireKept

\* SENDING REQUESTED: the reply is the file asked for, of a session that is over.
LEMMA ReceiveRequestedSafe ==
  ASSUME SafeInv, TypeInv, TypeInv', UNCHANGED <<storeVars, loggerVars, childVars, used>>, ReceiveRequested
  PROVE  SafeInv'
<1>1. ThreadSafe /\ \A c \in Conns : ReplySafe(c)
  BY DEF SafeInv
<1>2. LinkUp /\ tconn \in Conns /\ rep[tconn].op = "REQUESTED" /\ tpc = "wait_extra"
  BY <1>1 DEF ReceiveRequested, Received, TypeInv, TypeOK, ThreadTypeOK, LinkUp
<1>3. /\ cur' = rep[tconn] /\ tpc' = "body" /\ UNCHANGED <<tr, folder, xi, delivered, link, req, rep>>
      /\ used' = used /\ lsess' = lsess /\ made' = made
  BY DEF ReceiveRequested, diskVars, loggerVars, wireVars
<1>4. /\ Newest' = Newest /\ LoggerActive' = LoggerActive
      /\ \A s : Oldest(s)' = Oldest(s)
      /\ \A item : Safe(item) => Safe(item)'
      /\ \A f : EmptyRight(f)' = EmptyRight(f) /\ Current(f)' = Current(f)
  BY <1>3, ClientStep
<1>5. rep[tconn].s = tr /\ rep[tconn].k = xi /\ Current(folder) /\ (~rep[tconn].ok => Ext(tr, xi) \notin made)
  BY <1>1, <1>2 DEF ReplySafe
<1>6. \A i \in Extras : i < xi => Safe(Ext(folder, i))
  <2>1. CASE xi > 1
    BY <1>1, <1>2, <2>1 DEF ThreadSafe, Fetching
  <2>2. CASE ~(xi > 1)
    <3>1. xi \in Nat
      BY SizeFacts DEF TypeInv, TypeOK, ThreadTypeOK
    <3> QED
      BY <2>2, <3>1, SizeFacts DEF Extras
  <2> QED
    BY <2>1, <2>2
<1>7. ThreadSafe'
  <2>1. EmptyRight(folder)' /\ Current(folder)' /\ (\A i \in Extras : i < xi => Safe(Ext(folder, i)))'
    BY <1>3, <1>4, <1>5, <1>6 DEF EmptyRight
  <2>2. (cur.op = "REQUESTED" /\ cur.s = tr /\ cur.k = xi /\ (~cur.ok => Ext(tr, xi) \notin made))'
    BY <1>2, <1>3, <1>5
  <2> QED
    BY <1>1, <1>3, <1>4, <2>1, <2>2 DEF ThreadSafe
<1> QED
  BY <1>3, <1>7, SameSessionSafe

\* copy_buffer_in_file opens the local file, or the thread ends.
LEMMA OpenLocalSafe ==
  ASSUME SafeInv, TypeInv, TypeInv', UNCHANGED <<storeVars, loggerVars, childVars, used>>, OpenLocal
  PROVE  SafeInv'
<1>1. ThreadSafe /\ tconn \in Conns /\ Consume /\ tr' = tr /\ delivered' = delivered /\ link' = link
  BY DEF SafeInv, OpenLocal, TypeInv, TypeOK, ThreadTypeOK, LinkUp
<1>2. CASE tdir \in adirs
  <2>1. tpc = "body" /\ tpc' = "write" /\ UNCHANGED <<folder, xi, cur, req, tr, delivered, link>>
    BY <1>2 DEF OpenLocal
  <2>2. WireKept
    BY <1>1, <2>1, ConsumeKeeps
  <2>3. /\ Newest' = Newest /\ LoggerActive' = LoggerActive
        /\ \A item : Safe(item) => Safe(item)'
        /\ \A r : Removable(r)' = Removable(r)
        /\ \A s : Oldest(s)' = Oldest(s)
        /\ \A f : Current(f)' = Current(f) /\ EmptyRight(f)' = EmptyRight(f)
        /\ lsess' = lsess /\ made' = made
    BY <1>1, ClientStep DEF loggerVars
  <2>4. Fetching' = Fetching
    BY <2>1 DEF Fetching
  <2>5. ThreadSafe'
    BY <1>1, <2>1, <2>3, <2>4 DEF ThreadSafe
  <2> QED
    BY <1>1, <2>1, <2>2, <2>5, SameSessionSafe DEF WireKept
<1>3. CASE tdir \notin adirs
  <2>1. Leave(-1) /\ HangUp
    BY <1>3 DEF OpenLocal
  <2>2. WireKept
    BY <1>1, <2>1, ConsumeKeeps
  <2> QED
    BY <1>1, <2>1, <2>2, LeaveSafe, RestSafe
<1> QED
  BY <1>2, <1>3

\* fclose: from here on the item is on the client, if it was whole.
LEMMA CloseLocalSafe ==
  ASSUME SafeInv, TypeInv, TypeInv', UNCHANGED <<storeVars, loggerVars, childVars, used>>, CloseLocal
  PROVE  SafeInv'
<1>1. ThreadSafe /\ ThreadForm /\ ThreadTypeOK
  BY DEF SafeInv, TypeInv, TypeOK
<1>2. /\ tpc = "write" /\ UNCHANGED <<tr, folder, link, req, rep>>
      /\ delivered \subseteq delivered' /\ (cur.ok => ItemOf(cur) \in delivered')
      /\ lsess' = lsess /\ made' = made
  BY DEF CloseLocal, AfterWrite, wireVars, loggerVars
<1>3. /\ Newest' = Newest /\ LoggerActive' = LoggerActive
      /\ \A s, n : Settled(s, n)' = Settled(s, n)
      /\ \A item : Safe(item) => Safe(item)'
      /\ \A s : Oldest(s)' = Oldest(s)
      /\ \A f : Current(f)' = Current(f) /\ EmptyRight(f)' = EmptyRight(f)
  BY <1>2, ClientStep
<1>4. CASE cur.op = "SENDING"
  <2>1. tpc' = "remove" /\ UNCHANGED <<xi, cur>>
    BY <1>4 DEF CloseLocal, AfterWrite
  <2>2. (Settled(cur.s, cur.k) /\ Safe(Pcd(cur.s, cur.k)))'
    <3>1. Removable(cur) /\ ItemOf(cur) = Pcd(cur.s, cur.k)
      BY <1>1, <1>2, <1>4 DEF ThreadSafe, ItemOf
    <3> QED
      BY <1>2, <1>3, <2>1, <3>1 DEF Removable, Safe
  <2>3. ThreadSafe'
    BY <1>1, <1>2, <1>3, <1>4, <2>1, <2>2 DEF ThreadSafe, Fetching
  <2> QED
    BY <1>2, <2>1, <2>3, SameSessionSafe
<1>5. CASE cur.op # "SENDING"
  <2>1. cur.op = "REQUESTED" /\ Fetching /\ xi \in Nat
    BY <1>1, <1>2, <1>5, SizeFacts DEF ThreadForm, Fetching, ThreadTypeOK
  <2>2. /\ tpc' = IF xi < NumExtras THEN "extra" ELSE "rmdir"
        /\ xi' = xi + 1 /\ cur' = NoRep /\ NoRep.op = "none"
    BY <1>5 DEF CloseLocal, AfterWrite, NoRep, Reply
  <2>3. /\ Current(folder) /\ cur.s = tr /\ cur.k = xi /\ (~cur.ok => Ext(tr, xi) \notin made)
        /\ \A i \in Extras : i < xi => Safe(Ext(folder, i))
    BY <1>1, <1>2, <2>1 DEF ThreadSafe
  <2>4. Ext(folder, xi) \in made' => Ext(folder, xi) \in delivered'
    <3>1. ItemOf(cur) = Ext(folder, xi) /\ folder = tr
      BY <2>1, <2>3 DEF ItemOf, Current
    <3> QED
      BY <1>2, <2>3, <3>1
  <2>5. (Current(folder) /\ EmptyRight(folder) /\ \A i \in Extras : i < xi => Safe(Ext(folder, i)))'
    <3>1. ASSUME NEW i \in Extras, i < xi' PROVE Safe(Ext(folder, i))'
      <4>1. i < xi \/ i = xi
        BY <2>1, <2>2, <3>1, SizeFacts
      <4> QED
        BY <1>2, <1>3, <2>3, <2>4, <4>1 DEF Safe
    <3> QED
      BY <1>2, <1>3, <2>3, <3>1 DEF EmptyRight
  <2>6. tpc' \in {"extra", "rmdir"} /\ (tpc' = "rmdir" => xi' > NumExtras)
    BY <2>1, <2>2, SizeFacts
  <2>7. ThreadSafe'
    BY <1>1, <1>2, <1>3, <2>2, <2>5, <2>6 DEF ThreadSafe, Fetching
  <2> QED
    BY <1>2, <2>6, <2>7, SameSessionSafe
<1> QED
  BY <1>4, <1>5

\* Every step of the thread.
LEMMA ThreadSafeStep ==
  ASSUME SafeInv, TypeInv, TypeInv', Thread
  PROVE  SafeInv'
<1>1. UNCHANGED <<storeVars, loggerVars, childVars, used>> /\ ThreadStep
  BY DEF Thread
<1> QED
  BY <1>1, RoundEndSafe, TcpSendSafe, ReceiveSendingSafe, ReceiveEmptySafe, ReceiveRequestedSafe,
     OpenLocalSafe, CloseLocalSafe DEF ThreadStep

\* Every command of the user.
LEMMA UserSafe ==
  ASSUME MonotoneClock, SafeInv, TypeInv, TypeInv', User
  PROVE  SafeInv'
<1>1. CASE KeyStop
  BY <1>1, LoggerEndsSafe DEF KeyStop, Terminate
<1>2. CASE KeyTransmit \/ ResumeTransmission \/ RestartClient
  <2>1. /\ UNCHANGED <<storeVars, loggerVars, childVars, used>> /\ delivered' = delivered
        /\ WireKept /\ tpc = "off" /\ tpc' \in {"off", "connect"} /\ cur' = cur
        /\ tr' = tr \/ tr' = NoSession
    BY <1>2 DEF KeyTransmit, ResumeTransmission, RestartClient, CreateTransmissionThread, WireKept, wireVars,
       diskVars
  <2>2. cur.op # "REQUESTED"
    BY <2>1 DEF SafeInv, ThreadSafe
  <2> QED
    BY <2>1, <2>2, RestSafe
<1>3. CASE KeyStopTransmission
  <2>1. /\ UNCHANGED <<storeVars, loggerVars, childVars, used, tpc, tr, folder, xi, cur, link, req, rep>>
        /\ delivered' = delivered
    BY <1>3 DEF KeyStopTransmission, wireVars, diskVars
  <2>2. ThreadSafe'
    BY <2>1, ThreadKept
  <2> QED
    BY <2>1, <2>2, SameSessionSafe
<1> QED
  BY <1>1, <1>2, <1>3, KeyStartSafe DEF User

\* Every fault but the one that loses the buffered bytes of a local file.
LEMMA FaultySafe ==
  ASSUME "flush" \notin FaultKinds, SafeInv, TypeInv, TypeInv', Faulty
  PROVE  SafeInv'
<1>1. WireTypeOK /\ NoRep.op = "none" /\ NoReq.op = "none"
  BY DEF TypeInv, TypeOK, NoRep, NoReq, Reply, Request
<1>2. ASSUME NEW c \in Conns, BreakLink(c) PROVE SafeInv'
  <2>1. /\ UNCHANGED <<storeVars, loggerVars, childVars, used, tpc, tr, folder, xi, cur>>
        /\ delivered' = delivered
    BY <1>2 DEF BreakLink, threadVars, diskVars
  <2>2. \A d \in Conns : /\ link'[d] = "up" => link[d] = "up"
                         /\ req'[d] = req[d] \/ req'[d].op \in {"none", "CLOSE"}
                         /\ rep'[d] = rep[d] \/ rep'[d].op = "none"
    BY <1>1, <1>2 DEF BreakLink, Cut, WireTypeOK
  <2>3. ThreadSafe'
    BY <2>1, ThreadKept
  <2> QED
    BY <2>1, <2>2, <2>3, SameSessionSafe
<1>3. CASE CrashClient
  <2>1. /\ UNCHANGED <<storeVars, loggerVars, childVars, used>> /\ delivered' = delivered
        /\ tpc' = "off" /\ cur'.op # "REQUESTED" /\ tr' = NoSession
    BY <1>1, <1>3 DEF CrashClient, diskVars
  <2>2. WireKept
    BY <1>1, <1>3 DEF CrashClient, Cut, wireVars, WireTypeOK, WireKept
  <2> QED
    BY <2>1, <2>2, RestSafe
<1>4. CASE RefuseConnection
  <2>1. /\ UNCHANGED <<storeVars, loggerVars, childVars, used>> /\ delivered' = delivered
        /\ WireKept /\ Leave(-1) /\ tr' = tr
    BY <1>4 DEF RefuseConnection, ConnectFails, diskVars, wireVars, WireKept
  <2> QED
    BY <2>1, LeaveSafe, RestSafe
<1>5. CASE FailWrite
  <2>1. /\ UNCHANGED <<storeVars, loggerVars, childVars, used>> /\ delivered' = delivered
        /\ Leave(-1) /\ tr' = tr
    BY <1>5 DEF FailWrite, WriteFails, diskVars
  <2>2. WireKept
    <3>1. Request("CLOSE", NoSession, 0).op = "CLOSE"
      BY DEF Request
    <3> QED
      BY <1>1, <1>5, <3>1 DEF FailWrite, WriteFails, WireKept, WireTypeOK
  <2> QED
    BY <2>1, <2>2, LeaveSafe, RestSafe
<1>6. CASE KillLogger
  BY <1>6, LoggerEndsSafe DEF KillLogger, LoggerDies
<1>7. ~FailFlush
  BY DEF FailFlush, Fault
<1>8. ASSUME NEW c \in Conns, FailCount(c) PROVE SafeInv'
  <2>1. /\ AnswerError(c)
        /\ UNCHANGED <<storeVars, loggerVars, threadVars, diskVars, used>>
        /\ req[c].op = "SEND_NEXT"
    BY <1>8 DEF FailCount, NoCount, TypeInv, Talk
  <2> QED
    BY <2>1, AnswerErrorSafe
<1> QED
  BY <1>2, <1>3, <1>4, <1>5, <1>6, <1>7, <1>8 DEF Faulty

\* SafeInv is inductive, given TypeInv before and after the step.
LEMMA SafeNext ==
  ASSUME MonotoneClock, "flush" \notin FaultKinds, SafeInv, TypeInv, TypeInv', [Next]_vars
  PROVE  SafeInv'
<1>1. CASE Next
  BY <1>1, LoggerSafeStep, ChildSafe, ThreadSafeStep, UserSafe, FaultySafe DEF Next
<1>2. CASE UNCHANGED vars
  <2>1. /\ UNCHANGED <<wireVars, childVars, threadVars, diskVars, used, storeVars, made, lsess, lcnt, lext>>
        /\ lpc' = lpc
    BY <1>2 DEF vars, loggerVars
  <2> QED
    BY <2>1, LoggerEndsSafe
<1> QED
  BY <1>1, <1>2

\* With timestamps that grow and a disk that takes what is written, every
\* reachable state satisfies SafeInv.
THEOREM SafeInvariant == MonotoneClock /\ "flush" \notin FaultKinds => (Spec => []SafeInv)
<1> SUFFICES ASSUME MonotoneClock, "flush" \notin FaultKinds PROVE Spec => []SafeInv
  OBVIOUS
<1>1. SafeInv /\ TypeInv /\ TypeInv' /\ [Next]_vars => SafeInv'
  BY SafeNext
<1> QED
  BY <1>1, SafeInit, TypeInvariant, PTL DEF Spec

\* RemoveFile and RemoveDir (app/server/server_lib.c) never delete a file the
\* logger has finished before the client has closed its own whole copy of it,
\* for any number of sessions, frames, connections and faults, as long as every
\* START is of a later second than those before (client/client.c:89) and fclose,
\* whose result the client does not test (common/compression_lib.c:72), does not
\* fail.
THEOREM RemovalIsSafe ==
  MonotoneClock /\ "flush" \notin FaultKinds => (Spec => []RemovedOnlyAfterWritten)
<1>1. SafeInv => RemovedOnlyAfterWritten
  BY DEF SafeInv
<1> QED
  BY <1>1, SafeInvariant, PTL
=============================================================================
