---------------------------- MODULE ServerChild -----------------------------
(***************************************************************************)
(* The child process that server_handler forks for a transmission          *)
(* connection (app/server/server.c, server_lib.c).  It answers one command *)
(* after the other.  SEND_NEXT reads the directories, then the files, then *)
(* asks pgrep for the logger, then reads the file: the logger and the      *)
(* other children run between these steps.                                 *)
(***************************************************************************)
EXTENDS VoxlLogger, Wire

VARIABLES
  cpc,     \* Conns -> where the child is
  nd,      \* Conns -> tr.d, the directories SendNext saw
  nf       \* Conns -> tr.f, the frames SendNext saw

childVars == <<cpc, nd, nf>>

ChildPCs == {"idle", "files", "read", "logger", "compress", "rmrf"}
NoScan == [count |-> 0, first |-> 0]

ChildTypeOK ==
  /\ cpc \in [Conns -> ChildPCs]
  /\ nd \in [Conns -> ScanResults]
  /\ nf \in [Conns -> ScanResults]

ChildInit ==
  /\ cpc = [c \in Conns |-> "idle"]
  /\ nd = [c \in Conns |-> NoScan]
  /\ nf = [c \in Conns |-> NoScan]

Alive(c) == link[c] # "free"

\* The child is back in tcp_readline with this command to carry out.
Asked(c, op) == Alive(c) /\ cpc[c] = "idle" /\ req[c].op = op

\* tcp_send of the reply and return to the command loop; on a connection that
\* is cut nobody reads it.
Answer(c, r) ==
  /\ rep' = IF link[c] = "up" THEN [rep EXCEPT ![c] = r] ELSE rep
  /\ req' = [req EXCEPT ![c] = NoReq]
  /\ cpc' = [cpc EXCEPT ![c] = "idle"]
  /\ nd' = [nd EXCEPT ![c] = NoScan]
  /\ nf' = [nf EXCEPT ![c] = NoScan]
  /\ UNCHANGED link

AnswerError(c) == Answer(c, Reply("ERROR", NoSession, 0, FALSE))

\* SendNext, FindNextTr, FindFirstDir: which session is the oldest.
ScanDirs(c) ==
  /\ Asked(c, "SEND_NEXT")
  /\ nd' = [nd EXCEPT ![c] = FindFirstDir]
  /\ cpc' = [cpc EXCEPT ![c] = IF dirs = {} THEN "logger" ELSE "files"]
  /\ UNCHANGED <<storeVars, wireVars, nf>>

\* FindLidarDataInfo looks for tof in log0000 and in log0001; a session without
\* it is an error.
FindTof(c) ==
  /\ cpc[c] = "files"
  /\ \/ /\ nd[c].first \notin tofs
        /\ AnswerError(c)
     \/ /\ nd[c].first \in tofs
        /\ cpc' = [cpc EXCEPT ![c] = "read"]
        /\ UNCHANGED <<wireVars, nd, nf>>
  /\ UNCHANGED storeVars

\* FindNextFile opens and reads tof.  When it has gone since, nothing is read
\* and tr.f keeps what the stack held: count decides between two, one and less.
Leftover == [count : 0..2, first : Frames]

ScanFiles(c) ==
  /\ cpc[c] = "read"
  /\ \E f \in IF nd[c].first \in tofs THEN {FindNextFile(nd[c].first)} ELSE Leftover :
       nf' = [nf EXCEPT ![c] = f]
  /\ cpc' = [cpc EXCEPT ![c] = "logger"]
  /\ UNCHANGED <<storeVars, wireVars, nd>>

\* While the logger runs and there is one session only, its last frame may
\* still be in the making.
OnlyActiveOff(c) == LoggerActive /\ nd[c].count = 0   \* mutant: off by one
OnlyActive(c) == LoggerActive /\ nd[c].count = 1
MinCount(c) == IF OnlyActive(c) THEN 2 ELSE 1

\* SendNext decides with what it saw and with the logger's state now.
CheckLogger(c) ==
  /\ cpc[c] = "logger"
  /\ \/ /\ nd[c].count = 0
        /\ Answer(c, Reply("NO_TR", NoSession, 0, FALSE))
     \/ /\ nd[c].count # 0
        /\ nf[c].count >= MinCount(c)
        /\ cpc' = [cpc EXCEPT ![c] = "compress"]
        /\ UNCHANGED <<wireVars, nd, nf>>
     \/ /\ nd[c].count # 0
        /\ nf[c].count < MinCount(c)
        /\ OnlyActive(c)
        /\ Answer(c, Reply("WAIT", NoSession, 0, FALSE))
     \/ /\ nd[c].count # 0
        /\ nf[c].count < MinCount(c)
        /\ ~OnlyActive(c)
        /\ Answer(c, Reply("EMPTY", nd[c].first, 0, FALSE))
  /\ UNCHANGED storeVars

\* popen fails, ProcNumber returns -1 and SendNext gives up.
NoCount(c) ==
  /\ cpc[c] = "logger"
  /\ AnswerError(c)
  /\ UNCHANGED storeVars

\* CompressAndSend of an item under the given reply line: the bytes on disk
\* now, or an error when the file cannot be opened.
CompressAndSend(c, op, s, k, item) ==
  /\ \/ /\ item \in files
        /\ Answer(c, Reply(op, s, k, item \in made))
     \/ /\ item \notin files
        /\ AnswerError(c)
  /\ UNCHANGED storeVars

SendNextFile(c) ==
  /\ cpc[c] = "compress"
  /\ LET s == nd[c].first
         n == nf[c].first
     IN  CompressAndSend(c, "SENDING", s, n, Pcd(s, n))

SendFile(c) ==
  /\ Asked(c, "SEND_FILE")
  /\ LET s == req[c].s
         k == req[c].k
     IN  CompressAndSend(c, "REQUESTED", s, k, Ext(s, k))

RemoveNothing(c) ==    \* mutant: the remove call is missing
  /\ Asked(c, "REMOVE_FILE")
  /\ Answer(c, Reply("REMOVED", req[c].s, 0, FALSE))
  /\ UNCHANGED storeVars

RemoveFile(c) ==
  /\ Asked(c, "REMOVE_FILE")
  /\ LET item == Pcd(req[c].s, req[c].k) IN
     \/ /\ item \in files
        /\ files' = files \ {item}
        /\ Answer(c, Reply("REMOVED", req[c].s, 0, FALSE))
        /\ UNCHANGED <<dirs, tofs>>
     \/ /\ item \notin files
        /\ AnswerError(c)
        /\ UNCHANGED storeVars

\* RemoveDir, rmrf: nftw walks depth first, so the files and the directories
\* below go first ...
UnlinkTree(c) ==
  /\ Asked(c, "REMOVE_DIR")
  /\ \/ /\ req[c].s \in dirs
        /\ files' = files \ FilesOf(req[c].s)
        /\ tofs' = tofs \ {req[c].s}
        /\ cpc' = [cpc EXCEPT ![c] = "rmrf"]
        /\ UNCHANGED <<dirs, wireVars, nd, nf>>
     \/ /\ req[c].s \notin dirs
        /\ AnswerError(c)
        /\ UNCHANGED storeVars

\* ... and the session's directory last; remove fails when it is not there any
\* more, or not empty.
RemoveDir(c) ==
  /\ cpc[c] = "rmrf"
  /\ \/ /\ req[c].s \in dirs \ tofs
        /\ FilesOf(req[c].s) = {}
        /\ dirs' = dirs \ {req[c].s}
        /\ Answer(c, Reply("REMOVED", req[c].s, 0, FALSE))
        /\ UNCHANGED <<tofs, files>>
     \/ /\ \/ req[c].s \notin dirs \ tofs
           \/ FilesOf(req[c].s) # {}
        /\ AnswerError(c)
        /\ UNCHANGED storeVars

\* The process is gone: CLOSE ends the loop, or a write on the lost connection
\* raises SIGPIPE, or read fails, or the process was killed half way.
ChildEnds(c) ==
  /\ \/ Asked(c, "CLOSE")
     \/ link[c] = "cut"
  /\ link' = [link EXCEPT ![c] = "free"]
  /\ req' = [req EXCEPT ![c] = NoReq]
  /\ cpc' = [cpc EXCEPT ![c] = "idle"]
  /\ nd' = [nd EXCEPT ![c] = NoScan]
  /\ nf' = [nf EXCEPT ![c] = NoScan]
  /\ UNCHANGED <<storeVars, rep>>

ChildStep(c) ==
  \/ ScanDirs(c)
  \/ FindTof(c)
  \/ ScanFiles(c)
  \/ CheckLogger(c)
  \/ SendNextFile(c)
  \/ SendFile(c)
  \/ RemoveFile(c)
  \/ UnlinkTree(c)
  \/ RemoveDir(c)
  \/ ChildEnds(c)
=============================================================================
