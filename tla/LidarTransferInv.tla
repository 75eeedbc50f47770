-------------------------- MODULE LidarTransferInv --------------------------
(***************************************************************************)
(* The inductive invariants of LidarTransfer, from which its theorems      *)
(* follow.  TypeInv holds whatever the timestamps are; SafeInv needs       *)
(* timestamps that grow.                                                   *)
(***************************************************************************)
EXTENDS LidarTransfer

(* Types, and the discipline of the protocol.                              *)

\* Connection c carries one request or one reply at a time, the one that the
\* state of the thread calls for; a connection that the thread has left only
\* carries CLOSE.
Talk(c) ==
  /\ link[c] # "up" => rep[c].op = "none"
  /\ link[c] = "free" => req[c] = NoReq
  /\ cpc[c] \in {"files", "read", "logger", "compress"} => req[c].op = "SEND_NEXT"
  /\ cpc[c] = "rmrf" => req[c].op = "REMOVE_DIR"
  /\ rep[c].op # "none" => req[c] = NoReq
  /\ link[c] = "up" /\ c # tconn => req[c].op = "CLOSE"

Dialogue ==
  LinkUp =>
    /\ req[tconn].op # "CLOSE"
    /\ req[tconn].op = "SEND_NEXT" => tpc = "wait_next"
    /\ req[tconn].op = "REMOVE_FILE" => tpc = "wait_remove"
    /\ req[tconn].op = "SEND_FILE" => tpc = "wait_extra"
    /\ req[tconn].op = "REMOVE_DIR" => tpc = "wait_rmdir"
    /\ rep[tconn].op = "ERROR" => tpc \in Waits \ {"body"}
    /\ rep[tconn].op \in {"NO_TR", "WAIT", "EMPTY"} => tpc = "wait_next"
    /\ rep[tconn].op = "SENDING" => tpc \in {"wait_next", "body"}
    /\ rep[tconn].op = "REQUESTED" => tpc \in {"wait_extra", "body"}
    /\ rep[tconn].op = "REMOVED" => tpc \in {"wait_remove", "wait_rmdir"}
    /\ tpc = "body" => rep[tconn] = cur

\* The thread is fetching the remaining files of folder.
Fetching ==
  \/ tpc \in {"extra", "wait_extra"}
  \/ tpc \in {"body", "write"} /\ cur.op = "REQUESTED"

ThreadForm ==
  /\ tpc \in {"off", "connect"} <=> tconn = NoConn
  /\ tpc \in {"body", "write"} => cur.op \in {"SENDING", "REQUESTED"}
  /\ tpc \in {"remove", "wait_remove"} => cur.op = "SENDING"
  /\ cur.ok => ItemOf(cur) \in Items
  /\ Fetching => xi <= NumExtras
  /\ Fetching \/ tpc \in {"rmdir", "wait_rmdir"} => folder \in Sessions

ChildForm(c) ==
  /\ cpc[c] \in {"files", "read", "compress"} => nd[c].count # 0
  /\ cpc[c] \in {"files", "read", "logger", "compress"} /\ nd[c].count # 0 => nd[c].first \in Sessions
  /\ rep[c].op \in {"SENDING", "EMPTY"} => rep[c].s \in Sessions
  /\ rep[c].ok => ItemOf(rep[c]) \in Items

LoggerForm ==
  /\ LoggerActive => lsess \in Sessions
  /\ lpc = "copy" => lcnt < NumFrames
  /\ lpc = "xcopy" => lext <= NumExtras

TypeInv ==
  /\ TypeOK
  /\ LoggerForm
  /\ ThreadForm
  /\ Dialogue
  /\ \A c \in Conns : Talk(c) /\ ChildForm(c)

-----------------------------------------------------------------------------
(* Safety of removal.                                                      *)

\* The newest frame that the logger has begun (-1: none yet).
Newest == IF lpc = "copy" THEN lcnt ELSE lcnt - 1

\* The acquisition of session s has ended.
Over(s) == s \in used /\ ~(LoggerActive /\ lsess = s)

\* Frame n of session s is not the logger's newest one, and never will be again.
Settled(s, n) == s \in used /\ (LoggerActive /\ lsess = s => n < Newest)

\* Session s has been removed, at least below its directory.
Removed(s) == Over(s) /\ s \notin tofs

Safe(item) == item \in made => item \in delivered

NoFrames(s) == \A n \in Frames : Pcd(s, n) \notin files

\* No session on the drone is older than s.
Oldest(s) == \A d \in dirs : s <= d

\* EMPTY f is right for the session the thread is at, or else that session has
\* left the drone and its remaining files cannot be had.
Current(f) == f = tr /\ Over(f) /\ NoFrames(f)
EmptyRight(f) == Current(f) \/ tr \notin dirs

LoggerSafe ==
  /\ \A u \in used : u <= lsess
  /\ LoggerActive => lsess \in used
  /\ dirs \subseteq used
  /\ tofs \subseteq dirs
  /\ \A item \in files : SessionOf(item) \in tofs
  /\ LoggerActive => \A n \in Frames : Pcd(lsess, n) \in files => n <= Newest
  /\ LoggerActive /\ Newest >= 0 => Pcd(lsess, Newest) \in files
  /\ lpc = "xcopy" => Ext(lsess, lext) \in files
  /\ lpc \in {"spawn", "mkdir", "mktof"} => lcnt = 0

\* The frame a reply, or the thread, carries may be removed once it is written.
Removable(r) ==
  /\ Settled(r.s, r.k)
  /\ r.k \in Frames
  /\ ~r.ok => Pcd(r.s, r.k) \notin made

RequestSafe(c) ==
  /\ req[c].op = "REMOVE_FILE" => Settled(req[c].s, req[c].k) /\ Safe(Pcd(req[c].s, req[c].k))
  /\ req[c].op = "REMOVE_DIR" =>
       Over(req[c].s) /\ \A item \in made : SessionOf(item) = req[c].s => item \in delivered
  /\ req[c].op = "SEND_FILE" /\ link[c] = "up" => req[c].s = tr /\ req[c].k = xi

ScanSafe(c) ==
  /\ cpc[c] \in {"files", "read", "logger", "compress"} /\ nd[c].count # 0 =>
       /\ nd[c].first \in used
       /\ Oldest(nd[c].first)
       /\ nd[c].count >= 2 => Over(nd[c].first)
       /\ link[c] = "up" => tr <= nd[c].first
  /\ cpc[c] = "read" => nd[c].first \in tofs \/ Removed(nd[c].first)
  /\ cpc[c] = "logger" /\ nd[c].count # 0 =>
       /\ nf[c].count # 0 => nf[c].first \in Frames
       /\ nf[c].count >= 2 => Settled(nd[c].first, nf[c].first) \/ Removed(nd[c].first)
       /\ nf[c].count = 0 /\ link[c] = "up" => EmptyRight(nd[c].first)
  /\ cpc[c] = "compress" =>
       /\ nf[c].first \in Frames
       /\ Settled(nd[c].first, nf[c].first) \/ Removed(nd[c].first)

ReplySafe(c) ==
  /\ rep[c].op = "SENDING" => Removable(rep[c]) /\ Oldest(rep[c].s)
  /\ rep[c].op = "EMPTY" => EmptyRight(rep[c].s)
  /\ rep[c].op = "REQUESTED" =>
       /\ rep[c].s = tr /\ rep[c].k = xi
       /\ Current(folder)
       /\ ~rep[c].ok => Ext(tr, xi) \notin made

ThreadSafe ==
  /\ tr # NoSession =>
       /\ tr \in used
       /\ Oldest(tr)
       /\ LoggerActive /\ lsess = tr => Newest >= 0
  /\ tpc \in {"body", "write"} /\ cur.op = "SENDING" => Removable(cur)
  /\ tpc = "remove" => Settled(cur.s, cur.k) /\ Safe(Pcd(cur.s, cur.k))
  /\ Fetching \/ tpc = "rmdir" => EmptyRight(folder)
  /\ (Fetching /\ (xi > 1 \/ cur.op = "REQUESTED")) \/ tpc = "rmdir" =>
       /\ Current(folder)
       /\ \A i \in Extras : i < xi => Safe(Ext(folder, i))
  /\ tpc \in {"body", "write"} /\ cur.op = "REQUESTED" =>
       cur.s = tr /\ cur.k = xi /\ (~cur.ok => Ext(tr, xi) \notin made)
  /\ tpc = "rmdir" => xi > NumExtras
  /\ cur.op = "REQUESTED" => tpc \in {"body", "write"}

\* The inductive invariant of RemovedOnlyAfterWritten.
SafeInv ==
  /\ RemovedOnlyAfterWritten
  /\ LoggerSafe
  /\ ThreadSafe
  /\ \A c \in Conns : RequestSafe(c) /\ ScanSafe(c) /\ ReplySafe(c)

-----------------------------------------------------------------------------
(* Every file is made once.                                                *)

\* What has been made belongs to a session that was started, and in the session
\* of the logger it is older than what the logger makes next.
OlderMade ==
  /\ \A item \in made : SessionOf(item) \in used
  /\ LoggerActive =>
       /\ \A n \in Frames : Pcd(lsess, n) \in made => n < lcnt
       /\ \A i \in Extras : Ext(lsess, i) \in made => i < lext

\* What travels whole has been made.
WholeMade ==
  /\ cur.ok => ItemOf(cur) \in made
  /\ \A c \in Conns : rep[c].ok => ItemOf(rep[c]) \in made

MadeOnce == OlderMade /\ WholeMade

-----------------------------------------------------------------------------
(* Frames arrive in order.                                                 *)

\* Whatever frame older than the n-th of session s has been made is delivered,
\* and no such frame will be made any more.
OlderDone(s, n) ==
  /\ s \in used
  /\ LoggerActive /\ lsess = s => n <= Newest
  /\ \A item \in made : OlderFrame(item, Pcd(s, n)) => item \in delivered

\* The frame that SendNext has found is the next one, unless its session has been
\* removed since.
ScanInOrder(c) ==
  (cpc[c] = "logger" /\ nd[c].count # 0 /\ nf[c].count # 0) \/ cpc[c] = "compress" =>
    OlderDone(nd[c].first, nf[c].first) \/ Removed(nd[c].first)

ReplyInOrder(c) == rep[c].op = "SENDING" => OlderDone(rep[c].s, rep[c].k)

ThreadInOrder ==
  tpc \in {"body", "write"} /\ cur.op = "SENDING" => OlderDone(cur.s, cur.k)

\* The inductive invariant of DeliveredInOrder.
OrderInv ==
  /\ delivered \subseteq made
  /\ DeliveredInOrder
  /\ ThreadInOrder
  /\ \A c \in Conns : ScanInOrder(c) /\ ReplyInOrder(c)

-----------------------------------------------------------------------------
(* What has been written stays, and what is renamed is complete.           *)

\* A file that has been whole on the client still is, or is being written again
\* from a buffer that holds all of it.
Kept ==
  \A item \in delivered : item \in copies \/ (tpc = "write" /\ cur.ok /\ ItemOf(cur) = item)

\* The logger of session s has ended and left all the remaining files.
Complete(s) == Over(s) /\ \A i \in Extras : Ext(s, i) \in made

HandedOver(s) == \A item \in made : SessionOf(item) = s => item \in delivered

\* The sessions whose local directory has been renamed.
Renamed == {p[2] : p \in fdirs}

\* A logger that nobody kills ends with CopyOtherFiles: its directories are there
\* as long as it is.
LoggerFinishes ==
  /\ \A s \in dirs : Over(s) => Complete(s)
  /\ lpc \in {"spawn", "mkdir"} => lsess \notin dirs
  /\ lpc \in {"mktof", "loop", "copy", "extra", "xcopy"} => lsess \in dirs
  /\ lpc \in {"loop", "copy", "extra", "xcopy"} => lsess \in tofs
  /\ LoggerActive => \A i \in Extras : i < lext => Ext(lsess, i) \in made

\* What travels is of a session that has not been renamed.
WireFinal(c) ==
  /\ rep[c].op \in {"SENDING", "REQUESTED"} => rep[c].s \notin Renamed
  /\ rep[c].op = "REQUESTED" => Complete(rep[c].s)
  /\ rep[c].op = "REMOVED" /\ tpc = "wait_rmdir" => folder \notin dirs
  /\ req[c].op = "REMOVE_DIR" /\ link[c] = "up" => req[c].s = folder

ThreadFinal ==
  /\ tdir \in {tr, NoSession}
  /\ tpc \in {"body", "write"} => cur.s \notin Renamed
  /\ (Fetching /\ (xi > 1 \/ cur.op = "REQUESTED")) \/ tpc = "rmdir" => Complete(folder)
  /\ tpc = "wait_rmdir" => folder = tr /\ Complete(folder) /\ HandedOver(folder)

\* The inductive invariant of FinalDirComplete.
FinalInv ==
  /\ FinalDirComplete
  /\ \A s \in Renamed : Over(s) /\ s \notin dirs
  /\ LoggerFinishes
  /\ ThreadFinal
  /\ \A c \in Conns : WireFinal(c)

-----------------------------------------------------------------------------
(* Without a fault nothing is transferred twice.                           *)

\* The thread has begun with the remaining files of folder and has not left it.
Closing == Fetching \/ tpc \in {"rmdir", "wait_rmdir"}

\* A copied file that is still on the drone is on its way to be removed.
BeingRemoved(item) ==
  \/ tpc \in {"remove", "wait_remove"} /\ item = ItemOf(cur)
  \/ Closing /\ \E i \in Extras : i < xi /\ item = Ext(folder, i)

\* The connections: only the thread's own carries more than CLOSE.
Connected ==
  /\ \A c \in Conns : link[c] # "cut"
  /\ tconn # NoConn => link[tconn] = "up"
  /\ tconn # NoConn /\ req[tconn].op = "REMOVE_FILE" => req[tconn].s = cur.s /\ req[tconn].k = cur.k
  /\ tconn # NoConn /\ req[tconn].op = "REMOVE_DIR" => req[tconn].s = folder

\* A logger that has ended has left all the remaining files, as long as their
\* directory is there.
ExtrasLeft ==
  /\ lpc \in {"spawn", "mkdir", "mktof"} => lsess \notin tofs /\ lext = 1
  /\ LoggerActive => \A i \in Extras : i < lext => lsess \notin tofs \/ Ext(lsess, i) \in files
  /\ \A s \in tofs : Over(s) => \A i \in Extras : Ext(s, i) \in files

\* What is asked for is not on the client yet, and the answer that ends a removal,
\* or that ends the thread, finds nothing that is in both places.
Fresh ==
  /\ copies \subseteq made
  /\ \A item \in copies \cap files : BeingRemoved(item)
  /\ \A c \in Conns :
       /\ rep[c].op \in {"SENDING", "REQUESTED"} => ItemOf(rep[c]) \notin copies
       /\ rep[c].op \in {"REMOVED", "ERROR"} \/ cpc[c] = "rmrf" => copies \cap files = {}
  /\ (Fetching /\ xi > 1) \/ (tpc = "write" /\ cur.op = "REQUESTED") => tdir \in adirs

\* The inductive invariant of NoCopyRewritten.
OnceInv == faults = 0 => SafeInv /\ MadeOnce /\ Connected /\ ExtrasLeft /\ Fresh
=============================================================================
