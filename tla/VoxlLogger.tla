----------------------------- MODULE VoxlLogger -----------------------------
(***************************************************************************)
(* The acquisition process voxl-logger (data_generation/voxl-logger.c).    *)
(* START launches it with a session, it creates the directories, copies    *)
(* one point cloud after the other, and on SIGTERM leaves the loop, copies *)
(* the remaining files and ends.  At most one runs at a time.              *)
(***************************************************************************)
EXTENDS DroneStore

VARIABLES
  lpc,     \* where the process is; "off" when there is none
  lsess,   \* timestamp: the session of its -d option
  lcnt,    \* cnt: frames copied so far
  lext,    \* the next of CopyOtherFiles' four copies
  lterm,   \* ~running: SIGTERM was caught
  made     \* history: items the logger has finished, and not opened again since

loggerVars == <<lpc, lsess, lcnt, lext, lterm, made>>

LoggerPCs == {"off", "spawn", "mkdir", "mktof", "loop", "copy", "extra", "xcopy"}

LoggerTypeOK ==
  /\ lpc \in LoggerPCs
  /\ lsess \in Sessions \cup {NoSession}
  /\ lcnt \in 0..NumFrames
  /\ lext \in 1..(NumExtras + 1)
  /\ lterm \in BOOLEAN
  /\ made \subseteq Items

LoggerInit ==
  /\ lpc = "off"
  /\ lsess = NoSession
  /\ lcnt = 0
  /\ lext = 1
  /\ lterm = FALSE
  /\ made = {}

\* ProcNumber(LOGGER_NAME) > 0: pgrep finds the process by its name.
LoggerActive == lpc # "off"

\* start.sh s, run by system() in the server: the process exists, its signal
\* handlers are not installed yet.
Launch(s) ==
  /\ ~LoggerActive
  /\ lpc' = "spawn"
  /\ lsess' = s
  /\ lcnt' = 0
  /\ lext' = 1
  /\ lterm' = FALSE
  /\ UNCHANGED <<storeVars, made>>

\* stop.sh, killall voxl-logger: SIGTERM ends a process without handlers, and
\* otherwise only clears running.
Terminate ==
  /\ LoggerActive
  /\ \/ /\ lpc = "spawn"
        /\ lpc' = "off"
        /\ UNCHANGED lterm
     \/ /\ lpc # "spawn"
        /\ lterm' = TRUE
        /\ UNCHANGED lpc
  /\ UNCHANGED <<storeVars, lsess, lcnt, lext, made>>

InstallHandlers ==
  /\ lpc = "spawn"
  /\ lpc' = "mkdir"
  /\ UNCHANGED <<storeVars, lsess, lcnt, lext, lterm, made>>

\* MakePath creates the session's directory first and tof last; the other
\* directories follow before the loop and are told apart by no property.
MakeSessionDir ==
  /\ lpc = "mkdir"
  /\ lpc' = "mktof"
  /\ dirs' = dirs \cup {lsess}
  /\ UNCHANGED <<tofs, files, lsess, lcnt, lext, lterm, made>>

MakeTofDir ==
  /\ lpc = "mktof"
  /\ lsess \in dirs
  /\ lpc' = "loop"
  /\ tofs' = tofs \cup {lsess}
  /\ UNCHANGED <<dirs, files, lsess, lcnt, lext, lterm, made>>

\* CopyFile opens the next frame for writing, with "w+": one left by an earlier
\* logger of the session is emptied.  When the reference frames are used up the
\* loop only sleeps.
OpenFrame ==
  /\ lpc = "loop"
  /\ ~lterm
  /\ lcnt < NumFrames
  /\ lsess \in tofs
  /\ lpc' = "copy"
  /\ files' = files \cup {Pcd(lsess, lcnt)}
  /\ made' = made \ {Pcd(lsess, lcnt)}
  /\ UNCHANGED <<dirs, tofs, lsess, lcnt, lext, lterm>>

\* CopyFile closes it: the frame is whole.  Had its name been unlinked in the
\* meantime, the copy would end all the same.
CloseFrame ==
  /\ lpc = "copy"
  /\ lpc' = "loop"
  /\ lcnt' = lcnt + 1
  /\ made' = made \cup {Pcd(lsess, lcnt)}
  /\ UNCHANGED <<storeVars, lsess, lext, lterm>>

LeaveLoop ==
  /\ lpc = "loop"
  /\ lterm
  /\ lpc' = "extra"
  /\ UNCHANGED <<storeVars, lsess, lcnt, lext, lterm, made>>

OpenExtraForever ==    \* mutant: the end of the list is not tested
  /\ lpc = "extra"
  /\ lsess \in tofs
  /\ lpc' = "xcopy"
  /\ files' = files \cup {Ext(lsess, lext)}
  /\ made' = made \ {Ext(lsess, lext)}
  /\ UNCHANGED <<dirs, tofs, lsess, lcnt, lext, lterm>>

OpenExtra ==
  /\ lpc = "extra"
  /\ lext <= NumExtras
  /\ lsess \in tofs
  /\ lpc' = "xcopy"
  /\ files' = files \cup {Ext(lsess, lext)}
  /\ made' = made \ {Ext(lsess, lext)}
  /\ UNCHANGED <<dirs, tofs, lsess, lcnt, lext, lterm>>

CloseExtra ==
  /\ lpc = "xcopy"
  /\ lpc' = "extra"
  /\ lext' = lext + 1
  /\ made' = made \cup {Ext(lsess, lext)}
  /\ UNCHANGED <<storeVars, lsess, lcnt, lterm>>

LoggerDone ==
  /\ lpc = "extra"
  /\ lext > NumExtras
  /\ lpc' = "off"
  /\ UNCHANGED <<storeVars, lsess, lcnt, lext, lterm, made>>

\* mkdir or fopen fails because the parent directory is gone: EXIT_FAILURE.
CopyFails ==
  /\ lpc \in {"mktof", "loop", "extra"}
  /\ lsess \notin (IF lpc = "mktof" THEN dirs ELSE tofs)
  /\ lpc = "loop" => ~lterm /\ lcnt < NumFrames
  /\ lpc = "extra" => lext <= NumExtras
  /\ lpc' = "off"
  /\ UNCHANGED <<storeVars, lsess, lcnt, lext, lterm, made>>

\* The process dies wherever it is: a failed copy, a full disk, a kill.  What
\* it was writing stays behind unfinished.
LoggerDies ==
  /\ LoggerActive
  /\ lpc' = "off"
  /\ UNCHANGED <<storeVars, lsess, lcnt, lext, lterm, made>>

LoggerStep ==
  \/ InstallHandlers
  \/ MakeSessionDir
  \/ MakeTofDir
  \/ OpenFrame
  \/ CloseFrame
  \/ LeaveLoop
  \/ OpenExtra
  \/ CloseExtra
  \/ LoggerDone
  \/ CopyFails
=============================================================================
