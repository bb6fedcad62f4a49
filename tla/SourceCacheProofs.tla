------------------------- MODULE SourceCacheProofs -------------------------
(***************************************************************************)
(* Safety of the source file cache, for any goroutines, paths and bounds.  *)
(***************************************************************************)
EXTENDS SourceCache, FiniteSetTheorems, TLAPS

USE BoundsAssumption, AbsentAssumption

LEMMA TypeInit == Init => TypeOK
<1> SUFFICES ASSUME Init PROVE TypeOK
    OBVIOUS
<1>1. disk \in [Paths -> File]
    <2>1. disk \in [Paths -> [state : {"readable", "denied"}, version : {0}]]
        BY DEF Init
    <2>2. \A p \in Paths : disk[p] \in File
        <3> SUFFICES ASSUME NEW p \in Paths PROVE disk[p] \in File
            OBVIOUS
        <3>1. disk[p] \in [state : {"readable", "denied"}, version : {0}]
            BY <2>1
        <3> QED
            BY <3>1 DEF File
    <2> QED
        BY <2>1, <2>2
<1>2. Idle \in Proc /\ Idle.pc = "idle"
    BY DEF Idle, Proc, PCs
<1>3. proc \in [Goroutines -> Proc] /\ \A g \in Goroutines : proc[g].pc = "idle"
    BY <1>2 DEF Init
<1>4. /\ sourceFileCache \in [Paths -> Lines \cup {Absent}]
      /\ reads \in [Paths -> Nat]
    BY DEF Init
<1>5. /\ sourceAvailable \in {"unset", "yes", "no"}
      /\ calls \in 0 .. MaxCalls /\ changes \in 0 .. MaxChanges
    BY DEF Init
<1>6. failed \in BOOLEAN
    BY DEF Init
<1> QED
    BY <1>1, <1>3, <1>4, <1>5, <1>6 DEF TypeOK, At

LEMMA TypeStep == TypeOK /\ [Next]_vars => TypeOK'
<1> SUFFICES ASSUME TypeOK, [Next]_vars PROVE TypeOK'
    OBVIOUS
<1> USE DEF TypeOK, At, world, ghost
<1>1. CASE UNCHANGED vars
    BY <1>1 DEF vars
<1>2. CASE DiskChanges
    BY <1>2 DEF DiskChanges, File
<1>3. ASSUME NEW g \in Goroutines, NEW p \in Paths, Call(g, p)
      PROVE  TypeOK'
    BY <1>3 DEF Call, Proc, PCs
<1>4. ASSUME NEW g \in Goroutines, Step(g)
      PROVE  TypeOK'
    <2> USE DEF Proc, PCs, Goto, Return, Idle
    <2>1. CASE checkSourceAvailable(g)
        BY <2>1 DEF checkSourceAvailable
    <2>2. CASE getCachedSourceFile(g)
        BY <2>2 DEF getCachedSourceFile
    <2>3. CASE Open(g)
        <3> DEFINE p == proc[g].path
                   lines == Whole(p, disk[p].version)
        <3>1. p \in Paths /\ proc[g] \in Proc
            BY <2>3 DEF Open
        <3>2. lines \in Lines
            <4>1. disk[p] \in File
                BY <3>1
            <4> QED
                BY <3>1, <4>1 DEF File, Whole, Lines
        <3>3. /\ proc' = [proc EXCEPT ![g].pc = "markYes", ![g].lines = lines]
              /\ UNCHANGED <<sourceAvailable, sourceFileCache, disk, calls, changes, reads, failed>>
            BY <2>3 DEF Open
        <3> HIDE DEF lines
        <3>4. proc'[g] = [proc[g] EXCEPT !.pc = "markYes", !.lines = lines]
            BY <3>3
        <3>5. proc'[g] \in Proc /\ proc'[g].path = p /\ proc'[g].lines = lines
            BY <3>1, <3>2, <3>4
        <3> QED
            BY <3>1, <3>2, <3>3, <3>5
    <2>4. CASE OpenFailsForGood(g)
        BY <2>4 DEF OpenFailsForGood
    <2>5. CASE OpenFailsForNow(g)
        BY <2>5 DEF OpenFailsForNow
    <2>6. CASE MarkAvailable(g)
        BY <2>6 DEF MarkAvailable, decided
    <2>7. CASE MarkUnavailable(g)
        BY <2>7 DEF MarkUnavailable, decided
    <2>8. CASE Scan(g)
        BY <2>8 DEF Scan
    <2>9. CASE ScanFails(g)
        BY <2>9 DEF ScanFails
    <2>10. CASE cacheSourceFile(g)
        BY <2>10 DEF cacheSourceFile, stored
    <2> QED
        BY <1>4, <2>1, <2>2, <2>3, <2>4, <2>5, <2>6, <2>7, <2>8, <2>9, <2>10 DEF Step
<1> QED
    BY <1>1, <1>2, <1>3, <1>4 DEF Next

(* The state of SourceCache is well typed.                                 *)
THEOREM TypeCorrect == Spec => []TypeOK
BY TypeInit, TypeStep, PTL DEF Spec

(* A goroutine on its way to report a missing file has seen one, and the   *)
(* switch is off only after such a report.                                 *)
FailureSeen ==
    /\ OffOnlyForGood
    /\ \A g \in Goroutines : At(g, "markNo") => failed

LEMMA FailureStep ==
    ASSUME TypeOK, FailureSeen, [Next]_vars
    PROVE  FailureSeen'
<1> USE DEF FailureSeen, OffOnlyForGood, At, world, ghost
<1>1. CASE UNCHANGED vars
    BY <1>1 DEF vars
<1>2. CASE DiskChanges
    BY <1>2 DEF DiskChanges
<1>3. ASSUME NEW g \in Goroutines, NEW p \in Paths, Call(g, p)
      PROVE  FailureSeen'
    BY <1>3 DEF Call, TypeOK
<1>4. ASSUME NEW g \in Goroutines, Step(g)
      PROVE  FailureSeen'
    <2> USE DEF Goto, Return, Idle
    <2>0. proc \in [Goroutines -> Proc]
        BY DEF TypeOK
    <2>1. CASE checkSourceAvailable(g)
        <3>1. \A h \in Goroutines : proc'[h].pc = "markNo" => proc[h].pc = "markNo"
            BY <2>0, <2>1 DEF checkSourceAvailable, Proc
        <3> QED
            BY <2>1, <3>1 DEF checkSourceAvailable
    <2>2. CASE getCachedSourceFile(g)
        <3>1. \A h \in Goroutines : proc'[h].pc = "markNo" => proc[h].pc = "markNo"
            BY <2>0, <2>2 DEF getCachedSourceFile, Proc
        <3> QED
            BY <2>2, <3>1 DEF getCachedSourceFile
    <2>3. CASE Open(g)
        BY <2>0, <2>3 DEF Open, Proc
    <2>4. CASE OpenFailsForGood(g)
        BY <2>4 DEF OpenFailsForGood
    <2>5. CASE OpenFailsForNow(g)
        BY <2>0, <2>5 DEF OpenFailsForNow
    <2>6. CASE MarkAvailable(g)
        BY <2>0, <2>6 DEF MarkAvailable, decided
    <2>7. CASE MarkUnavailable(g)
        BY <2>0, <2>7 DEF MarkUnavailable, decided
    <2>8. CASE Scan(g)
        BY <2>0, <2>8 DEF Scan
    <2>9. CASE ScanFails(g)
        BY <2>0, <2>9 DEF ScanFails
    <2>10. CASE cacheSourceFile(g)
        BY <2>0, <2>10 DEF cacheSourceFile
    <2> QED
        BY <1>4, <2>1, <2>2, <2>3, <2>4, <2>5, <2>6, <2>7, <2>8, <2>9, <2>10 DEF Step
<1> QED
    BY <1>1, <1>2, <1>3, <1>4 DEF Next

(* Source display is switched off only after an open that failed for good. *)
THEOREM OffOnlyForGoodHolds == Spec => []OffOnlyForGood
<1>1. Init => FailureSeen
    BY DEF Init, FailureSeen, OffOnlyForGood, At, Idle
<1>2. TypeOK /\ FailureSeen /\ [Next]_vars => FailureSeen'
    BY FailureStep
<1>3. FailureSeen => OffOnlyForGood
    BY DEF FailureSeen
<1> QED
    BY <1>1, <1>2, <1>3, TypeCorrect, PTL DEF Spec

(* The lines a goroutine reads are a whole version of the file it was      *)
(* called for, and so are those it leaves in the cache.                    *)
IsWhole(lines, p) == \E v \in 0 .. changes : lines = Whole(p, v)

LinesWhole ==
    /\ \A p \in Paths : sourceFileCache[p] # Absent => IsWhole(sourceFileCache[p], p)
    /\ \A g \in Goroutines : proc[g].pc \in {"markYes", "scan", "store"} =>
          IsWhole(proc[g].lines, proc[g].path)
    /\ \A p \in Paths : disk[p].version \in 0 .. changes

LEMMA LinesStep ==
    ASSUME TypeOK, LinesWhole, [Next]_vars
    PROVE  LinesWhole'
<1>0. proc \in [Goroutines -> Proc] /\ changes \in Nat
    BY DEF TypeOK
<1> USE DEF LinesWhole, IsWhole, At, world, ghost
<1>1. CASE UNCHANGED vars
    BY <1>1 DEF vars
<1>2. CASE DiskChanges
    <2>1. /\ changes' = changes + 1
          /\ UNCHANGED <<sourceFileCache, proc>>
          /\ \A p \in Paths : disk'[p].version \in {disk[p].version, changes + 1}
        BY <1>2 DEF DiskChanges, TypeOK
    <2>2. \A lines, p : IsWhole(lines, p) => IsWhole(lines, p)'
        BY <1>0, <2>1
    <2> QED
        BY <1>0, <2>1, <2>2
<1>3. ASSUME NEW g \in Goroutines, NEW p \in Paths, Call(g, p)
      PROVE  LinesWhole'
    BY <1>0, <1>3 DEF Call
<1>4. ASSUME NEW g \in Goroutines, Step(g)
      PROVE  LinesWhole'
    <2> USE DEF Goto, Return, Idle, Proc
    <2>1. CASE checkSourceAvailable(g)
        BY <1>0, <2>1 DEF checkSourceAvailable
    <2>2. CASE getCachedSourceFile(g)
        BY <1>0, <2>2 DEF getCachedSourceFile
    <2>3. CASE Open(g)
        <3> DEFINE p == proc[g].path
                   lines == Whole(p, disk[p].version)
        <3>1. /\ proc' = [proc EXCEPT ![g].pc = "markYes", ![g].lines = lines]
              /\ UNCHANGED <<sourceFileCache, disk, changes>>
              /\ p \in Paths
            BY <2>3 DEF Open, TypeOK
        <3>2. IsWhole(lines, p)
            BY <3>1
        <3> HIDE DEF lines
        <3>3. /\ proc'[g].lines = lines /\ proc'[g].path = p
              /\ \A h \in Goroutines \ {g} : proc'[h] = proc[h]
            BY <1>0, <3>1
        <3> QED
            BY <3>1, <3>2, <3>3
    <2>4. CASE OpenFailsForGood(g)
        BY <1>0, <2>4 DEF OpenFailsForGood
    <2>5. CASE OpenFailsForNow(g)
        BY <1>0, <2>5 DEF OpenFailsForNow
    <2>6. CASE MarkAvailable(g)
        BY <1>0, <2>6 DEF MarkAvailable
    <2>7. CASE MarkUnavailable(g)
        BY <1>0, <2>7 DEF MarkUnavailable
    <2>8. CASE Scan(g)
        BY <1>0, <2>8 DEF Scan
    <2>9. CASE ScanFails(g)
        BY <1>0, <2>9 DEF ScanFails
    <2>10. CASE cacheSourceFile(g)
        BY <1>0, <2>10 DEF cacheSourceFile, stored, TypeOK
    <2> QED
        BY <1>4, <2>1, <2>2, <2>3, <2>4, <2>5, <2>6, <2>7, <2>8, <2>9, <2>10 DEF Step
<1> QED
    BY <1>1, <1>2, <1>3, <1>4 DEF Next

(* The cache holds for a path only what that file once said, to its end.   *)
THEOREM CachedWholeHolds == Spec => []CachedWhole
<1>1. Init => LinesWhole
    BY DEF Init, LinesWhole, IsWhole, Idle
<1>2. TypeOK /\ LinesWhole /\ [Next]_vars => LinesWhole'
    BY LinesStep
<1>3. LinesWhole => CachedWhole
    BY DEF LinesWhole, IsWhole, CachedWhole
<1> QED
    BY <1>1, <1>2, <1>3, TypeCorrect, PTL DEF Spec

(* Once the sources are available they stay so, and a cached file stays    *)
(* cached.                                                                 *)
THEOREM StaysReadableHolds == Spec => StaysReadable
<1> DEFINE Kept == \A p \in Paths :
        sourceAvailable = "yes" /\ sourceFileCache[p] # Absent =>
            sourceAvailable' = "yes" /\ sourceFileCache'[p] # Absent
<1>1. ASSUME TypeOK, [Next]_vars PROVE [Kept]_vars
    <2>1. CASE UNCHANGED vars
        BY <2>1
    <2>2. ASSUME NEW g \in Goroutines, Step(g)
          PROVE  Kept
        <3>1. CASE cacheSourceFile(g)
            <4>1. proc[g].lines # Absent /\ proc[g].path \in Paths
                BY <1>1, <3>1 DEF cacheSourceFile, TypeOK, At
            <4>2. /\ sourceAvailable' = sourceAvailable
                  /\ sourceFileCache' = [sourceFileCache EXCEPT ![proc[g].path] = proc[g].lines]
                BY <3>1 DEF cacheSourceFile, stored
            <4>3. sourceFileCache \in [Paths -> Lines \cup {Absent}]
                BY <1>1 DEF TypeOK
            <4> QED
                BY <4>1, <4>2, <4>3
        <3>2. CASE MarkAvailable(g) \/ MarkUnavailable(g)
            BY <3>2 DEF MarkAvailable, MarkUnavailable, decided
        <3>3. CASE ~cacheSourceFile(g) /\ ~MarkAvailable(g) /\ ~MarkUnavailable(g)
            BY <2>2, <3>3 DEF Step, checkSourceAvailable, getCachedSourceFile, Open,
                OpenFailsForGood, OpenFailsForNow, Scan, ScanFails
        <3> QED
            BY <3>1, <3>2, <3>3
    <2>3. CASE DiskChanges
        BY <2>3 DEF DiskChanges
    <2>4. ASSUME NEW g \in Goroutines, NEW p \in Paths, Call(g, p)
          PROVE  Kept
        BY <2>4 DEF Call
    <2> QED
        BY <1>1, <2>1, <2>2, <2>3, <2>4 DEF Next
<1> QED
    BY <1>1, TypeCorrect, PTL DEF Spec, StaysReadable

-----------------------------------------------------------------------------
(* How often a file is read.                                               *)

(* The goroutines that have yet to read p, and those that have but have    *)
(* not stored its lines.                                                   *)
Ahead(p) == {g \in Goroutines : proc[g].path = p /\ proc[g].pc \in {"open", "markYes", "scan"}}
Ready(p) == {g \in Goroutines : proc[g].path = p /\ proc[g].pc = "store"}

(* Until a file is cached, each time it was read is one of those who are   *)
(* about to store it; after that, nobody joins those who will read it.     *)
ReadsInv ==
    \A p \in Paths :
        /\ sourceFileCache[p] = Absent => reads[p] = Cardinality(Ready(p))
        /\ sourceFileCache[p] # Absent =>
               reads[p] + Cardinality(Ahead(p)) <= Cardinality(Goroutines)

(* Those ahead and those ready are different goroutines.                   *)
LEMMA AheadReady ==
    ASSUME NEW p
    PROVE  /\ IsFiniteSet(Ahead(p)) /\ IsFiniteSet(Ready(p))
           /\ Cardinality(Ahead(p)) \in Nat /\ Cardinality(Ready(p)) \in Nat
           /\ Cardinality(Goroutines) \in Nat
           /\ Cardinality(Ready(p)) + Cardinality(Ahead(p)) <= Cardinality(Goroutines)
<1>1. IsFiniteSet(Ahead(p)) /\ IsFiniteSet(Ready(p)) /\ IsFiniteSet(Ready(p) \cup Ahead(p))
    BY GoroutinesAssumption, FS_Subset DEF Ahead, Ready
<1>2. Cardinality(Ahead(p)) \in Nat /\ Cardinality(Ready(p)) \in Nat /\ Cardinality(Goroutines) \in Nat
    BY <1>1, GoroutinesAssumption, FS_CardinalityType
<1>3. Ready(p) \cap Ahead(p) = {} /\ Ready(p) \cup Ahead(p) \in SUBSET Goroutines
    BY DEF Ahead, Ready
<1>4. Cardinality(Ready(p) \cup Ahead(p)) = Cardinality(Ready(p)) + Cardinality(Ahead(p))
    <2>1. Cardinality(Ready(p) \cup Ahead(p))
             = Cardinality(Ready(p)) + Cardinality(Ahead(p)) - Cardinality(Ready(p) \cap Ahead(p))
        BY <1>1, FS_Union
    <2> QED
        BY <1>2, <1>3, <2>1, FS_EmptySet
<1>5. Cardinality(Ready(p) \cup Ahead(p)) <= Cardinality(Goroutines)
    BY <1>3, GoroutinesAssumption, FS_Subset
<1> QED
    BY <1>1, <1>2, <1>4, <1>5

(* Nothing more is read than what those ahead read.                        *)
LEMMA ReadsKept ==
    ASSUME TypeOK, ReadsInv, reads' = reads, sourceFileCache' = sourceFileCache,
           \A p \in Paths : /\ sourceFileCache[p] = Absent => Ready(p)' = Ready(p)
                            /\ sourceFileCache[p] # Absent => Ahead(p)' \subseteq Ahead(p)
    PROVE  ReadsInv'
<1> SUFFICES ASSUME NEW p \in Paths
             PROVE  /\ sourceFileCache[p] = Absent => reads[p] = Cardinality(Ready(p)')
                    /\ sourceFileCache[p] # Absent =>
                           reads[p] + Cardinality(Ahead(p)') <= Cardinality(Goroutines)
    BY DEF ReadsInv
<1>1. CASE sourceFileCache[p] = Absent
    BY <1>1 DEF ReadsInv
<1>2. CASE sourceFileCache[p] # Absent
    <2>1. Ahead(p)' \in SUBSET Ahead(p) /\ IsFiniteSet(Ahead(p))
        BY <1>2, AheadReady
    <2>2. IsFiniteSet(Ahead(p)') /\ Cardinality(Ahead(p)') <= Cardinality(Ahead(p))
        BY <2>1, FS_Subset
    <2>3. /\ Cardinality(Ahead(p)') \in Nat /\ Cardinality(Ahead(p)) \in Nat
          /\ Cardinality(Goroutines) \in Nat /\ reads[p] \in Nat
        BY <2>2, AheadReady, FS_CardinalityType DEF TypeOK
    <2> QED
        BY <1>2, <2>2, <2>3 DEF ReadsInv
<1> QED
    BY <1>1, <1>2

LEMMA ReadsStep ==
    ASSUME TypeOK, ReadsInv, [Next]_vars
    PROVE  ReadsInv'
<1>0. proc \in [Goroutines -> Proc]
    BY DEF TypeOK
<1>1. CASE UNCHANGED vars
    BY <1>1, ReadsKept DEF vars, Ahead, Ready
<1>2. CASE DiskChanges
    BY <1>2, ReadsKept DEF DiskChanges, ghost, Ahead, Ready
<1>3. ASSUME NEW g \in Goroutines, reads' = reads, sourceFileCache' = sourceFileCache,
             \A h \in Goroutines \ {g} : proc'[h] = proc[h],
             proc[g].pc # "store", proc'[g].pc # "store",
             \/ proc'[g].pc \notin {"open", "markYes", "scan"}
             \/ proc'[g].path = proc[g].path /\ proc[g].pc \in {"open", "markYes", "scan"}
             \/ proc'[g].path = proc[g].path /\ sourceFileCache[proc[g].path] = Absent
      PROVE  ReadsInv'
    <2>1. ASSUME NEW p \in Paths
          PROVE  /\ Ready(p)' = Ready(p)
                 /\ sourceFileCache[p] # Absent => Ahead(p)' \subseteq Ahead(p)
        BY <1>3 DEF Ahead, Ready
    <2> QED
        BY <1>3, <2>1, ReadsKept
<1>4. ASSUME NEW g \in Goroutines, NEW p \in Paths, Call(g, p)
      PROVE  ReadsInv'
    BY <1>0, <1>3, <1>4 DEF Call, At, ghost
<1>5. ASSUME NEW g \in Goroutines, Step(g)
      PROVE  ReadsInv'
    <2> USE DEF Goto, Return, Idle, Proc, At, world, ghost
    <2>1. CASE checkSourceAvailable(g)
        BY <1>0, <1>3, <2>1 DEF checkSourceAvailable
    <2>2. CASE getCachedSourceFile(g)
        BY <1>0, <1>3, <2>2 DEF getCachedSourceFile
    <2>3. CASE Open(g)
        BY <1>0, <1>3, <2>3 DEF Open
    <2>4. CASE OpenFailsForGood(g)
        BY <1>0, <1>3, <2>4 DEF OpenFailsForGood
    <2>5. CASE OpenFailsForNow(g)
        BY <1>0, <1>3, <2>5 DEF OpenFailsForNow
    <2>6. CASE MarkAvailable(g)
        BY <1>0, <1>3, <2>6 DEF MarkAvailable
    <2>7. CASE MarkUnavailable(g)
        BY <1>0, <1>3, <2>7 DEF MarkUnavailable
    <2>8. CASE Scan(g)
        <3> DEFINE q == proc[g].path
        <3>1. /\ q \in Paths /\ reads' = [reads EXCEPT ![q] = @ + 1]
              /\ sourceFileCache' = sourceFileCache /\ proc[g].pc = "scan"
              /\ proc'[g].path = q /\ proc'[g].pc = "store"
              /\ \A h \in Goroutines \ {g} : proc'[h] = proc[h]
            BY <1>0, <2>8 DEF Scan, TypeOK
        <3>2. ASSUME NEW p \in Paths, p # q
              PROVE  Ready(p)' = Ready(p) /\ Ahead(p)' = Ahead(p)
            BY <3>1, <3>2 DEF Ahead, Ready
        <3>3. /\ Ready(q)' = Ready(q) \cup {g} /\ g \notin Ready(q)
              /\ Ahead(q)' = Ahead(q) \ {g} /\ g \in Ahead(q)
            BY <3>1 DEF Ahead, Ready
        <3>4. /\ Cardinality(Ready(q)') = Cardinality(Ready(q)) + 1
              /\ Cardinality(Ahead(q)') = Cardinality(Ahead(q)) - 1
            <4>1. IsFiniteSet(Ready(q)) /\ IsFiniteSet(Ahead(q))
                BY AheadReady
            <4>2. Cardinality(Ready(q) \cup {g}) = Cardinality(Ready(q)) + 1
                BY <3>3, <4>1, FS_AddElement
            <4>3. Cardinality(Ahead(q) \ {g}) = Cardinality(Ahead(q)) - 1
                BY <3>3, <4>1, FS_RemoveElement
            <4> QED
                BY <3>3, <4>2, <4>3
        <3>5. /\ Cardinality(Ready(q)) \in Nat /\ Cardinality(Ahead(q)) \in Nat
              /\ Cardinality(Goroutines) \in Nat /\ reads[q] \in Nat
            BY <3>1, AheadReady DEF TypeOK
        <3>6. reads'[q] = reads[q] + 1 /\ \A p \in Paths : p # q => reads'[p] = reads[p]
            BY <3>1 DEF TypeOK
        <3> QED
            BY <3>1, <3>2, <3>4, <3>5, <3>6 DEF ReadsInv
    <2>9. CASE ScanFails(g)
        BY <1>0, <1>3, <2>9 DEF ScanFails
    <2>10. CASE cacheSourceFile(g)
        <3> DEFINE q == proc[g].path
        <3>1. /\ q \in Paths /\ proc[g].lines # Absent /\ proc[g].pc = "store"
              /\ sourceFileCache' = [sourceFileCache EXCEPT ![q] = proc[g].lines]
              /\ reads' = reads /\ proc'[g].pc = "idle" /\ proc'[g].path = Absent
              /\ \A h \in Goroutines \ {g} : proc'[h] = proc[h]
            BY <1>0, <2>10, AbsentAssumption DEF cacheSourceFile, stored, TypeOK
        <3>2. ASSUME NEW p \in Paths, p # q
              PROVE  Ready(p)' = Ready(p) /\ sourceFileCache'[p] = sourceFileCache[p]
            BY <3>1, <3>2 DEF Ready, TypeOK
        <3>3. \A p \in Paths : Ahead(p)' = Ahead(p)
            BY <3>1 DEF Ahead
        <3>4. sourceFileCache'[q] # Absent
            BY <3>1 DEF TypeOK
        <3>5. reads[q] + Cardinality(Ahead(q)) <= Cardinality(Goroutines)
            BY <3>1, AheadReady DEF ReadsInv
        <3> QED
            BY <3>1, <3>2, <3>3, <3>4, <3>5 DEF ReadsInv
    <2> QED
        BY <1>5, <2>1, <2>2, <2>3, <2>4, <2>5, <2>6, <2>7, <2>8, <2>9, <2>10 DEF Step
<1> QED
    BY <1>1, <1>2, <1>4, <1>5 DEF Next

(* A file is read at most once by each goroutine, however often it is      *)
(* asked for (stack.go:224-249).                                           *)
THEOREM ReadsBoundedHolds == Spec => []ReadsBounded
<1>1. Init => ReadsInv
    <2> SUFFICES ASSUME Init, NEW p \in Paths
                 PROVE  sourceFileCache[p] = Absent /\ reads[p] = Cardinality(Ready(p))
        BY DEF ReadsInv
    <2>1. Ready(p) = {}
        BY DEF Init, Ready, Idle
    <2> QED
        BY <2>1, FS_EmptySet DEF Init
<1>2. TypeOK /\ ReadsInv /\ [Next]_vars => ReadsInv'
    BY ReadsStep
<1>3. TypeOK /\ ReadsInv => ReadsBounded
    <2> SUFFICES ASSUME TypeOK, ReadsInv, NEW p \in Paths
                 PROVE  reads[p] <= Cardinality(Goroutines)
        BY DEF ReadsBounded
    <2>1. /\ Cardinality(Ahead(p)) \in Nat /\ Cardinality(Ready(p)) \in Nat
          /\ Cardinality(Goroutines) \in Nat /\ reads[p] \in Nat
          /\ Cardinality(Ready(p)) + Cardinality(Ahead(p)) <= Cardinality(Goroutines)
        BY AheadReady DEF TypeOK
    <2> QED
        BY <2>1 DEF ReadsInv
<1> QED
    BY <1>1, <1>2, <1>3, TypeCorrect, PTL DEF Spec
=============================================================================
