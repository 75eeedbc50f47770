----------------------------- MODULE DroneStore -----------------------------
(***************************************************************************)
(* The data directory of the drone (data_generation/generated_data): one   *)
(* directory per acquisition session, named by the timestamp of its START  *)
(* command, holding the point clouds data_<n>.pcd and four other files.    *)
(* The logger fills it and the children of the server read and empty it.   *)
(*                                                                         *)
(* A session is a number, ordered as the timestamps are.  A file is an     *)
(* item <<session, kind, number>>; where it lies below the session's       *)
(* directory, log0000 or log0001, is left out.                             *)
(***************************************************************************)
EXTENDS Integers, FiniteSets, FiniteSetsExt

CONSTANTS
  NumSessions,   \* how many START commands get a timestamp of their own
  NumFrames,     \* point clouds in reference_data (81 in the repository)
  NumExtras      \* files CopyOtherFiles writes (4 in the code)

ASSUME SizesAssumption ==
  /\ NumSessions \in Nat \ {0}
  /\ NumFrames \in Nat \ {0}
  /\ NumExtras \in Nat \ {0}

Sessions  == 1..NumSessions
NoSession == 0                    \* a timestamp buffer that holds no session
Frames    == 0..(NumFrames - 1)
Extras    == 1..NumExtras

\* data_<n>.pcd of session s, and the i-th of the files requested at the end:
\* tof/data.csv, tof info.json, imu data.csv, imu info.json.
Pcd(s, n) == <<s, "pcd", n>>
Ext(s, i) == <<s, "ext", i>>
Items == (Sessions \X {"pcd"} \X Frames) \cup (Sessions \X {"ext"} \X Extras)
SessionOf(item) == item[1]

VARIABLES
  dirs,    \* sessions whose directory exists
  tofs,    \* sessions whose .../run/mpa/tof directory exists
  files    \* items that have a directory entry, whole or still being written

storeVars == <<dirs, tofs, files>>

StoreTypeOK ==
  /\ dirs \subseteq Sessions
  /\ tofs \subseteq Sessions
  /\ files \subseteq Items

StoreInit ==
  /\ dirs = {}
  /\ tofs = {}
  /\ files = {}

FilesOf(s) == {item \in files : SessionOf(item) = s}

\* What a pass of readdir leaves behind: the number of entries and the least
\* one (0 stands for the bytes the code leaves unset when there is none).
Scan(S) == [count |-> Cardinality(S), first |-> IF S = {} THEN 0 ELSE Min(S)]

ScanResults == [count : Nat, first : Nat]

\* struct next_dir: the session directories, oldest first.
FindLastDir ==      \* mutant: difftime compared the wrong way round
  [count |-> Cardinality(dirs), first |-> IF dirs = {} THEN 0 ELSE Max(dirs)]
FindFirstDir == Scan(dirs)

\* struct next_file: the frames of session s; data.csv is skipped by name.
FrameNumbers(s) == {n \in Frames : Pcd(s, n) \in files}
FindNextFile(s) == Scan(FrameNumbers(s))
=============================================================================
