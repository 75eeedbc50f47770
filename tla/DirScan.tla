------------------------------ MODULE DirScan -------------------------------
(***************************************************************************)
(* One pass of readdir over the data directory (FindFirstDir) or over the  *)
(* tof directory of a session (FindNextFile) in app/server/server_lib.c,   *)
(* entry by entry, while the logger adds entries and another child of the  *)
(* server removes some.  LidarTransfer takes the pass as one step.         *)
(*                                                                         *)
(* A well-formed name is a number, ordered as the timestamps or the frame  *)
(* numbers are; Stray is a name without a timestamp.                       *)
(***************************************************************************)
EXTENDS Integers, FiniteSets

CONSTANTS
  Last,       \* the names are 0..Last
  HasStray,   \* TRUE: a name without a timestamp lies in the directory
  Shift,      \* by how much mktime may set a time back, depending on tm_isdst
  MaxNew      \* entries that may appear during one pass

Stray == -1
Names == 0..Last
Entries == Names \cup {Stray}

ASSUME ScanAssumption ==
  /\ Last \in Nat
  /\ HasStray \in BOOLEAN
  /\ Shift \in Nat
  /\ MaxNew \in Nat

VARIABLES
  present,   \* the entries of the directory
  newest,    \* history: the name given last (-1: none yet)
  pc,        \* "idle", in the loop of readdir ("scan"), or at its end ("done")
  mark,      \* history: newest when the pass began
  todo,      \* entries that readdir may still return
  stay,      \* those of todo that have been there since opendir
  count, first, last    \* what the pass has found; first and last with their times

dirVars == <<present, newest>>
found == <<count, first, last>>
vars == <<dirVars, pc, mark, todo, stay, found>>

TypeOK ==
  /\ present \subseteq Entries
  /\ newest \in Entries
  /\ pc \in {"idle", "scan", "done"}
  /\ mark \in Entries
  /\ todo \subseteq Entries /\ stay \subseteq todo
  /\ count \in Nat
  /\ first \in [name : Entries, ts : Int]
  /\ last \in [name : Entries, ts : Int]

Init ==
  /\ present = IF HasStray THEN {Stray} ELSE {}
  /\ newest = -1
  /\ pc = "idle"
  /\ mark = -1
  /\ todo = {} /\ stay = {}
  /\ count = 0
  /\ first = [name |-> 0, ts |-> 0]
  /\ last = [name |-> 0, ts |-> 0]

-----------------------------------------------------------------------------
(* The directory changes.                                                  *)

\* The logger makes the next session, or opens the next frame: readdir may or
\* may not return an entry that is younger than the pass.
Add ==
  /\ newest < Last
  /\ pc = "scan" => newest - mark < MaxNew
  /\ newest' = newest + 1
  /\ present' = present \cup {newest'}
  /\ \/ UNCHANGED todo
     \/ pc = "scan" /\ todo' = todo \cup {newest'}
  /\ UNCHANGED <<pc, mark, stay, found>>

\* A late REMOVE_FILE or REMOVE_DIR of another connection: readdir may or may
\* not return an entry that has gone.
Remove(e) ==
  /\ present' = present \ {e}
  /\ stay' = stay \ {e}
  /\ todo' \in {todo, todo \ {e}}
  /\ UNCHANGED <<newest, pc, mark, found>>

-----------------------------------------------------------------------------
(* The pass.                                                               *)

\* mktime of the name's fields, with a tm_isdst that nobody has set, or -1 when
\* strptime fails.  ExtractFileNumber is exact: Shift is 0.
StringToTime(e) == IF e = Stray THEN {-1} ELSE {e, e - Shift}

OpendirBelow ==        \* mutant: the count does not start at 0
  /\ pc = "idle"
  /\ pc' = "scan"
  /\ mark' = newest
  /\ todo' = present
  /\ stay' = present
  /\ count' = -1
  /\ UNCHANGED <<dirVars, first, last>>

Opendir ==
  /\ pc = "idle"
  /\ pc' = "scan"
  /\ mark' = newest
  /\ todo' = present
  /\ stay' = present
  /\ count' = 0
  /\ UNCHANGED <<dirVars, first, last>>

\* The loop's body with an entry and its time.
VisitNewest(x) ==      \* mutant: a comparison of times is turned round
  /\ first' = IF count = 0 \/ x.ts > first.ts THEN x ELSE first
  /\ last' = IF count = 0 \/ x.ts > last.ts THEN x ELSE last
  /\ count' = count + 1

VisitEarliest(x) ==    \* mutant: only the first entry read is kept
  /\ first' = IF count = 0 THEN x ELSE first
  /\ last' = IF count = 0 \/ x.ts > last.ts THEN x ELSE last
  /\ count' = count + 1

Visit(x) ==
  /\ first' = IF count = 0 \/ x.ts < first.ts THEN x ELSE first
  /\ last' = IF count = 0 \/ x.ts > last.ts THEN x ELSE last
  /\ count' = count + 1

\* readdir returns e.
ReaddirOnce(e) ==     \* mutant: the directory is not read on to its end
  /\ pc = "scan"
  /\ \E t \in StringToTime(e) : Visit([name |-> e, ts |-> t])
  /\ todo' = {}
  /\ stay' = {}
  /\ UNCHANGED <<dirVars, pc, mark>>

Readdir(e) ==
  /\ pc = "scan"
  /\ \E t \in StringToTime(e) : Visit([name |-> e, ts |-> t])
  /\ todo' = todo \ {e}
  /\ stay' = stay \ {e}
  /\ UNCHANGED <<dirVars, pc, mark>>

\* readdir returns NULL once everything that stayed has been returned.
Closedir ==
  /\ pc = "scan"
  /\ stay = {}
  /\ pc' = "done"
  /\ todo' = {}
  /\ UNCHANGED <<dirVars, mark, stay, found>>

\* SendNext has used the result.
Return ==
  /\ pc = "done"
  /\ pc' = "idle"
  /\ UNCHANGED <<dirVars, mark, todo, stay, found>>

Next ==
  \/ Add
  \/ \E e \in present \cap Names : Remove(e)
  \/ Opendir
  \/ \E e \in todo : Readdir(e)
  \/ Closedir
  \/ Return

Spec == Init /\ [][Next]_vars

-----------------------------------------------------------------------------
(* Properties: what SendNext relies on when it reads the result, whatever  *)
(* the order of readdir and whatever changed during the pass.              *)

\* first is the oldest session (the lowest frame): nothing in the directory is
\* older, not even what appeared during the pass.
OldestFound ==
  pc = "done" /\ count # 0 => first.name \in Names /\ \A e \in present : first.name <= e

\* Two entries are enough to know that first is not the one being written.
SeveralMeansFinished == pc = "done" /\ count >= 2 => first.name < newest

\* NO_TR and EMPTY rest on a count of 0, and one entry on a count of 1: what was
\* there before the pass and is there after it has been counted.
NothingOverlooked ==
  pc = "done" => Cardinality({e \in present : e <= mark}) <= count
=============================================================================
