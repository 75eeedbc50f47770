--------------------------- MODULE DirScanProofs ----------------------------
(***************************************************************************)
(* For directories of any size, read in any order: the scan counts all     *)
(* that was there before and is there after it, and where names are well   *)
(* formed, times do not depend on tm_isdst and at most one entry is new in *)
(* each pass, it finds the oldest entry.                                   *)
(***************************************************************************)
EXTENDS DirScan, FiniteSetTheorems, TLAPS

\* The conditions under which FindFirstDir and FindNextFile can be relied on.
CleanDir == ~HasStray /\ Shift = 0 /\ MaxNew <= 1

\* What has been read is no longer due, and bounds it from below and above.
FoundInv ==
  count # 0 =>
    /\ first.name \in Names /\ first.ts = first.name
    /\ last.name \in Names /\ last.ts = last.name
    /\ first.name \notin todo /\ last.name \notin todo
    /\ first.name <= last.name /\ last.name <= newest
    /\ count >= 2 => first.name < last.name

\* What is in the directory is still due, is not older than first, or is new.
PassInv ==
  pc # "idle" =>
    /\ mark <= newest
    /\ pc = "scan" => newest <= mark + 1
    /\ count # 0 => first.name <= mark + 1
    /\ \A e \in present : e \in stay \/ e > mark \/ (count # 0 /\ first.name <= e)
    /\ pc = "done" => stay = {}

ScanInv ==
  /\ TypeOK
  /\ present \cup todo \subseteq Names
  /\ \A e \in present \cup todo : e <= newest
  /\ FoundInv
  /\ PassInv

LEMMA EntryFacts ==
  /\ \A n \in Names : n \in Int /\ n >= 0 /\ n \in Entries
  /\ \A n \in Entries : n \in Int /\ n >= -1
  /\ -1 \in Entries
  BY ScanAssumption DEF Names, Entries, Stray

LEMMA ScanInit == CleanDir /\ Init => ScanInv
  BY EntryFacts, ScanAssumption DEF CleanDir, Init, ScanInv, TypeOK, FoundInv, PassInv, Names

\* A new entry is newer than everything that has been read.
LEMMA AddKeeps == ASSUME CleanDir, ScanInv, Add PROVE ScanInv'
<1> USE EntryFacts, ScanAssumption
<1>1. newest' = newest + 1 /\ newest' \in Names /\ newest \in Int /\ newest' > newest /\ mark \in Int
  BY DEF Add, ScanInv, TypeOK, Names
<1>2. /\ present' = present \cup {newest'} /\ todo \subseteq todo' /\ todo' \subseteq todo \cup {newest'}
      /\ UNCHANGED <<pc, mark, stay, count, first, last>>
  BY DEF Add, found
<1>3. TypeOK'
  BY <1>1, <1>2 DEF ScanInv, TypeOK
<1>4. (present \cup todo \subseteq Names)' /\ (\A e \in present \cup todo : e <= newest)'
  <2>1. \A e \in present \cup todo : e \in Names /\ e \in Int /\ e <= newest
    BY DEF ScanInv
  <2>2. \A e \in present \cup todo : e <= newest'
    BY <1>1, <2>1
  <2>3. \A e \in present' \cup todo' : e \in present \cup todo \/ e = newest'
    BY <1>2
  <2>4. newest' <= newest'
    BY <1>1
  <2> QED
    BY <1>1, <2>1, <2>2, <2>3, <2>4
<1>5. FoundInv'
  <2> SUFFICES ASSUME count # 0 PROVE FoundInv'
    BY <1>2 DEF FoundInv
  <2>1. /\ first.name \in Int /\ last.name \in Int /\ first.name <= newest /\ last.name <= newest
        /\ first.name \in Names /\ first.ts = first.name /\ last.name \in Names /\ last.ts = last.name
        /\ first.name \notin todo /\ last.name \notin todo /\ first.name <= last.name
        /\ count >= 2 => first.name < last.name
    <3>1. FoundInv
      BY DEF ScanInv
    <3>2. first.name \in Names /\ last.name \in Names /\ first.name <= last.name /\ last.name <= newest
      BY <3>1 DEF FoundInv
    <3>3. first.name \in Int /\ last.name \in Int
      BY <3>2
    <3>4. first.name <= newest
      BY <1>1, <3>2, <3>3
    <3> QED
      BY <3>1, <3>2, <3>3, <3>4 DEF FoundInv
  <2>2. first.name # newest' /\ last.name # newest' /\ last.name <= newest'
    BY <1>1, <2>1
  <2>3. first.name \notin todo' /\ last.name \notin todo'
    BY <1>2, <2>1, <2>2
  <2> QED
    BY <1>2, <2>1, <2>2, <2>3 DEF FoundInv
<1>6. PassInv'
  <2>1. pc = "scan" => newest - mark < MaxNew
    BY DEF Add
  <2>2. pc = "scan" => newest' <= mark + 1
    BY <1>1, <2>1 DEF CleanDir
  <2> SUFFICES ASSUME pc # "idle" PROVE PassInv'
    BY <1>2 DEF PassInv
  <2>3. mark <= newest /\ (count # 0 => first.name <= mark + 1) /\ (pc = "done" => stay = {})
    BY DEF ScanInv, PassInv
  <2>4. \A e \in present : e \in stay \/ e > mark \/ (count # 0 /\ first.name <= e)
    BY DEF ScanInv, PassInv
  <2>5. newest' > mark /\ mark <= newest'
    BY <1>1, <2>3
  <2>6. (\A e \in present : e \in stay \/ e > mark \/ (count # 0 /\ first.name <= e))'
    BY <1>2, <2>4, <2>5
  <2> QED
    BY <1>2, <2>2, <2>3, <2>5, <2>6 DEF PassInv
<1> QED
  BY <1>3, <1>4, <1>5, <1>6 DEF ScanInv

\* An entry that goes leaves less to be found.
LEMMA RemoveKeeps == ASSUME ScanInv, NEW e \in present \cap Names, Remove(e) PROVE ScanInv'
<1>1. /\ present' = present \ {e} /\ stay' = stay \ {e} /\ todo' \subseteq todo /\ todo \ {e} \subseteq todo'
      /\ UNCHANGED <<newest, pc, mark, count, first, last>>
  BY DEF Remove, found
<1> QED
  BY <1>1 DEF ScanInv, TypeOK, FoundInv, PassInv

\* A pass begins with everything due.
LEMMA OpendirKeeps == ASSUME ScanInv, Opendir PROVE ScanInv'
<1>1. /\ pc' = "scan" /\ mark' = newest /\ todo' = present /\ stay' = present /\ count' = 0
      /\ UNCHANGED <<present, newest, first, last>>
  BY DEF Opendir, dirVars
<1> QED
  BY <1>1, EntryFacts DEF ScanInv, TypeOK, FoundInv, PassInv

\* The entry that is read differs from those read before.
LEMMA ReaddirKeeps == ASSUME CleanDir, ScanInv, NEW e \in todo, Readdir(e) PROVE ScanInv'
<1> USE EntryFacts
<1>1. e \in Names /\ e \in Int /\ e # -1 /\ e <= newest /\ count \in Nat /\ newest \in Int /\ mark \in Int
  BY DEF ScanInv, TypeOK
<1>2. /\ Visit([name |-> e, ts |-> e])
      /\ todo' = todo \ {e} /\ stay' = stay \ {e} /\ pc = "scan"
      /\ UNCHANGED <<present, newest, pc, mark>>
  BY <1>1 DEF Readdir, StringToTime, Stray, CleanDir, dirVars
<1> DEFINE x == [name |-> e, ts |-> e]
<1>3. /\ first' = IF count = 0 \/ e < first.ts THEN x ELSE first
      /\ last' = IF count = 0 \/ e > last.ts THEN x ELSE last
      /\ count' = count + 1 /\ x.name = e /\ x.ts = e /\ x \in [name : Entries, ts : Int]
  BY <1>1, <1>2 DEF Visit
<1> HIDE DEF x
<1>4. TypeOK'
  BY <1>1, <1>2, <1>3 DEF ScanInv, TypeOK
<1>5. (present \cup todo \subseteq Names)' /\ (\A z \in present \cup todo : z <= newest)'
  BY <1>2 DEF ScanInv
<1>6. CASE count = 0
  <2>1. first' = x /\ last' = x /\ count' = 1
    BY <1>3, <1>6
  <2>2. FoundInv'
    BY <1>1, <1>2, <1>3, <2>1 DEF FoundInv
  <2>3. PassInv'
    BY <1>1, <1>2, <1>3, <1>6, <2>1 DEF ScanInv, PassInv
  <2> QED
    BY <1>4, <1>5, <2>2, <2>3 DEF ScanInv
<1>7. CASE count # 0
  <2>1. /\ first.name \in Int /\ last.name \in Int /\ first.ts = first.name /\ last.ts = last.name
        /\ first.name # e /\ last.name # e /\ first.name <= last.name /\ last.name <= newest
        /\ count >= 2 => first.name < last.name
    BY <1>7 DEF ScanInv, FoundInv
  <2>2. /\ first'.name <= first.name /\ first'.name <= e /\ first'.name \in Names /\ first'.ts = first'.name
        /\ last'.name >= last.name /\ last'.name >= e /\ last'.name \in Names /\ last'.ts = last'.name
        /\ last'.name <= newest /\ first'.name < last'.name
        /\ first'.name \notin todo' /\ last'.name \notin todo'
    BY <1>1, <1>2, <1>3, <1>7, <2>1 DEF ScanInv, FoundInv
  <2>3. FoundInv'
    BY <1>2, <2>2 DEF FoundInv
  <2>4. first'.name \in Int /\ first.name \in Int
    BY <2>1, <2>2
  <2>5. /\ mark <= newest /\ newest <= mark + 1 /\ first.name <= mark + 1
        /\ \A z \in present : z \in stay \/ z > mark \/ first.name <= z
    BY <1>2, <1>7 DEF ScanInv, PassInv
  <2>6. first'.name <= mark + 1
    BY <1>1, <2>2, <2>4, <2>5
  <2>7. \A z \in present : z \in Int
    BY DEF ScanInv
  <2>8. \A z \in present : z \in stay' \/ z > mark \/ first'.name <= z
    BY <1>1, <1>2, <2>2, <2>4, <2>5, <2>7
  <2>9. count' # 0
    BY <1>1, <1>3
  <2>10. PassInv'
    BY <1>2, <2>5, <2>6, <2>8, <2>9 DEF PassInv
  <2> QED
    BY <1>4, <1>5, <2>3, <2>10 DEF ScanInv
<1> QED
  BY <1>6, <1>7

\* The end of the pass and the use of its result change nothing that was found.
LEMMA EndKeeps == ASSUME ScanInv, Closedir \/ Return PROVE ScanInv'
  BY DEF Closedir, Return, dirVars, found, ScanInv, TypeOK, FoundInv, PassInv

LEMMA ScanNext == ASSUME CleanDir, ScanInv, [Next]_vars PROVE ScanInv'
<1>1. CASE UNCHANGED vars
  BY <1>1 DEF vars, dirVars, found, ScanInv, TypeOK, FoundInv, PassInv
<1> QED
  BY <1>1, AddKeeps, RemoveKeeps, OpendirKeeps, ReaddirKeeps, EndKeeps DEF Next

LEMMA ScanInvariant == CleanDir => (Spec => []ScanInv)
<1> SUFFICES ASSUME CleanDir PROVE Spec => []ScanInv
  OBVIOUS
<1>1. ScanInv /\ [Next]_vars => ScanInv'
  BY ScanNext
<1> QED
  BY <1>1, ScanInit, PTL DEF Spec

\* FindFirstDir returns the oldest session, and FindNextFile the lowest frame,
\* for a directory of any size that is read in any order while entries come and
\* go.
THEOREM ScanFindsOldest == CleanDir => (Spec => []OldestFound)
<1>1. ScanInv => OldestFound
  <2> SUFFICES ASSUME ScanInv, pc = "done", count # 0
               PROVE  first.name \in Names /\ \A e \in present : first.name <= e
    BY DEF OldestFound
  <2>1. first.name \in Names /\ first.name <= mark + 1 /\ mark \in Int
    BY EntryFacts DEF ScanInv, FoundInv, PassInv, TypeOK
  <2>2. ASSUME NEW e \in present PROVE first.name <= e
    BY <2>1, <2>2, EntryFacts DEF ScanInv, PassInv
  <2> QED
    BY <2>1, <2>2
<1> QED
  BY <1>1, ScanInvariant, PTL

\* A first among two or more is never the entry that is still being written, so
\* that SendNext may send it while the logger runs.
THEOREM ScanSparesNewest == CleanDir => (Spec => []SeveralMeansFinished)
<1>1. ScanInv => SeveralMeansFinished
  BY EntryFacts DEF ScanInv, TypeOK, FoundInv, SeveralMeansFinished
<1> QED
  BY <1>1, ScanInvariant, PTL

-----------------------------------------------------------------------------
(* Without any condition on the names, the clock and the new entries.      *)

\* The pass keeps its types.
LEMMA TypeNext == ASSUME TypeOK, [Next]_vars PROVE TypeOK'
<1> USE EntryFacts, ScanAssumption
<1>1. CASE Add
  <2>1. newest' \in Entries
    BY <1>1 DEF Add, TypeOK, Entries, Names, Stray
  <2> QED
    BY <1>1, <2>1 DEF Add, TypeOK, found
<1>2. ASSUME NEW e \in present \cap Names, Remove(e) PROVE TypeOK'
  BY <1>2 DEF Remove, TypeOK, found
<1>3. CASE Opendir
  BY <1>3 DEF Opendir, TypeOK, dirVars
<1>4. ASSUME NEW e \in todo, Readdir(e) PROVE TypeOK'
  <2>1. e \in Entries
    BY DEF TypeOK
  <2>2. PICK t \in StringToTime(e) : Visit([name |-> e, ts |-> t])
    BY <1>4 DEF Readdir
  <2>3. t \in Int
    BY <2>1 DEF StringToTime
  <2> QED
    BY <1>4, <2>1, <2>2, <2>3 DEF Readdir, Visit, TypeOK, dirVars
<1>5. CASE Closedir \/ Return
  BY <1>5 DEF Closedir, Return, TypeOK, dirVars, found
<1>6. CASE UNCHANGED vars
  BY <1>6 DEF vars, dirVars, found, TypeOK
<1> QED
  BY <1>1, <1>2, <1>3, <1>4, <1>5, <1>6 DEF Next

\* The variables of FindFirstDir and FindNextFile keep their types, whatever names
\* lie in the directory.
THEOREM ScanTypes == Spec => []TypeOK
<1>1. Init => TypeOK
  BY EntryFacts, ScanAssumption DEF Init, TypeOK, Names, Entries, Stray
<1>2. TypeOK /\ [Next]_vars => TypeOK'
  BY TypeNext
<1> QED
  BY <1>1, <1>2, PTL DEF Spec

\* The entries as old as the pass that readdir does not owe any more.
Settled == {e \in present : e <= mark} \ stay

\* Each of them has been counted.
CountInv ==
  /\ mark <= newest
  /\ pc # "idle" => Cardinality(Settled) <= count
  /\ pc = "done" => stay = {}

LEMMA SettledFinite == TypeOK => IsFiniteSet(Settled)
<1> SUFFICES ASSUME TypeOK PROVE IsFiniteSet(Settled)
  OBVIOUS
<1>1. IsFiniteSet((-1)..Last)
  BY FS_Interval, ScanAssumption
<1>2. Settled \subseteq (-1)..Last
  <2>1. Entries \subseteq (-1)..Last
    BY ScanAssumption DEF Entries, Names, Stray
  <2> QED
    BY <2>1 DEF Settled, TypeOK
<1> QED
  BY <1>1, <1>2, FS_Subset

\* A step that settles nothing new.
LEMMA SettledShrinks ==
  ASSUME TypeOK, CountInv, pc' = "idle" \/ pc # "idle", Settled' \subseteq Settled, count' = count,
         (mark <= newest)', (pc = "done" => stay = {})'
  PROVE  CountInv'
<1>1. IsFiniteSet(Settled)
  BY SettledFinite
<1>2. Cardinality(Settled') <= Cardinality(Settled) /\ Cardinality(Settled') \in Nat /\ Cardinality(Settled) \in Nat
  BY <1>1, FS_Subset, FS_CardinalityType
<1>3. pc' # "idle" => Cardinality(Settled') <= count'
  BY <1>2 DEF CountInv, TypeOK
<1> QED
  BY <1>3 DEF CountInv

\* An entry that readdir returns is counted once.
LEMMA CountNext == ASSUME TypeOK, TypeOK', CountInv, [Next]_vars PROVE CountInv'
<1> USE EntryFacts
<1>1. newest \in Int /\ mark \in Int /\ mark <= newest
  BY DEF TypeOK, CountInv
<1>2. CASE Add
  <2>1. /\ newest' = newest + 1 /\ present' = present \cup {newest + 1}
        /\ UNCHANGED <<pc, mark, stay, count>>
    BY <1>2 DEF Add, found
  <2>2. Settled' \subseteq Settled
    BY <1>1, <2>1 DEF Settled
  <2> QED
    BY <1>1, <2>1, <2>2, SettledShrinks DEF CountInv
<1>3. ASSUME NEW e \in present \cap Names, Remove(e) PROVE CountInv'
  <2>1. present' = present \ {e} /\ stay' = stay \ {e} /\ UNCHANGED <<newest, pc, mark, count>>
    BY <1>3 DEF Remove, found
  <2>2. Settled' \subseteq Settled
    BY <2>1 DEF Settled
  <2> QED
    BY <2>1, <2>2, SettledShrinks DEF CountInv
<1>4. CASE Opendir
  <2>1. /\ pc' = "scan" /\ mark' = newest /\ stay' = present /\ present' = present /\ newest' = newest
        /\ count' = 0
    BY <1>4 DEF Opendir, dirVars
  <2>2. Settled' = {}
    BY <2>1 DEF Settled
  <2> QED
    BY <1>1, <2>1, <2>2, FS_EmptySet DEF CountInv
<1>5. ASSUME NEW e \in todo, Readdir(e) PROVE CountInv'
  <2>1. pc = "scan" /\ stay' = stay \ {e} /\ count' = count + 1 /\ UNCHANGED <<present, newest, pc, mark>>
    BY <1>5 DEF Readdir, Visit, dirVars
  <2>2. Settled' \subseteq Settled \cup {e}
    BY <2>1 DEF Settled
  <2>3. IsFiniteSet(Settled)
    BY SettledFinite
  <2>4. /\ IsFiniteSet(Settled \cup {e}) /\ Cardinality(Settled) \in Nat
        /\ Cardinality(Settled \cup {e}) <= Cardinality(Settled) + 1
    <3>1. Cardinality(Settled) \in Nat
      BY <2>3, FS_CardinalityType
    <3>2. /\ IsFiniteSet(Settled \cup {e})
          /\ Cardinality(Settled \cup {e}) = IF e \in Settled THEN Cardinality(Settled)
                                             ELSE Cardinality(Settled) + 1
      BY <2>3, FS_AddElement
    <3> QED
      BY <3>1, <3>2
  <2>5. /\ Cardinality(Settled') <= Cardinality(Settled \cup {e})
        /\ Cardinality(Settled') \in Nat /\ Cardinality(Settled \cup {e}) \in Nat
    BY <2>2, <2>4, FS_Subset, FS_CardinalityType
  <2>6. Cardinality(Settled) <= count /\ count \in Nat
    BY <2>1 DEF CountInv, TypeOK
  <2>7. Cardinality(Settled') <= count'
    BY <2>1, <2>4, <2>5, <2>6
  <2> QED
    BY <1>1, <2>1, <2>7 DEF CountInv
<1>6. CASE Closedir \/ Return
  <2>1. UNCHANGED <<present, newest, mark, stay, count>> /\ (pc' = "done" => stay = {}) /\ pc # "idle"
    BY <1>6 DEF Closedir, Return, dirVars, found
  <2>2. Settled' = Settled
    BY <2>1 DEF Settled
  <2> QED
    BY <1>1, <2>1, <2>2, SettledShrinks
<1>7. CASE UNCHANGED vars
  <2>1. UNCHANGED <<present, newest, mark, stay, count, pc>>
    BY <1>7 DEF vars, dirVars, found
  <2>2. Settled' = Settled
    BY <2>1 DEF Settled
  <2> QED
    BY <1>1, <2>1, <2>2, SettledShrinks DEF CountInv
<1> QED
  BY <1>2, <1>3, <1>4, <1>5, <1>6, <1>7 DEF Next

\* No entry that was there before the pass and is there after it escapes the
\* count of FindFirstDir and FindNextFile (app/server/server_lib.c), in a directory
\* of any size and with any names, times and new entries: NO_TR is only sent when
\* no session was left, and EMPTY when no frame was.
THEOREM ScanCountsAll == Spec => []NothingOverlooked
<1>1. Init => CountInv
  BY DEF Init, CountInv
<1>2. TypeOK /\ TypeOK' /\ CountInv /\ [Next]_vars => CountInv'
  BY CountNext
<1>3. CountInv => NothingOverlooked
  <2> SUFFICES ASSUME CountInv, pc = "done" PROVE Cardinality({e \in present : e <= mark}) <= count
    BY DEF NothingOverlooked
  <2>1. Settled = {e \in present : e <= mark}
    BY DEF CountInv, Settled
  <2> QED
    BY <2>1 DEF CountInv
<1> QED
  BY <1>1, <1>2, <1>3, ScanTypes, PTL DEF Spec
=============================================================================
