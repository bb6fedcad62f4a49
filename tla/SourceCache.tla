---------------------------- MODULE SourceCache ----------------------------
(***************************************************************************)
(* Reading source files for stack traces (stack.go: readSourceFile and the *)
(* two process-wide variables behind it).                                  *)
(*                                                                         *)
(* Any goroutine that formats an error with a source option may read a     *)
(* file, so calls overlap.  Each of the short functions that hold a mutex  *)
(* is one step; between two of them anything may happen: another goroutine *)
(* may mark the sources available or not, fill the cache, and the file     *)
(* system may change.  What a file says is a version; a new version        *)
(* replaces the file, and an open file keeps the one it was opened on.     *)
(***************************************************************************)
EXTENDS Naturals, FiniteSets

CONSTANTS
    Goroutines,
    Paths,
    Absent,         \* no lines: not in the cache, not read, or not returned
    MaxCalls,       \* bound: calls of readSourceFile
    MaxChanges      \* bound: changes of the file system

ASSUME BoundsAssumption == MaxCalls \in Nat /\ MaxChanges \in Nat
ASSUME GoroutinesAssumption == IsFiniteSet(Goroutines)

VARIABLES
    sourceAvailable,    \* "unset" (the nil pointer), "yes" or "no"
    sourceFileCache,    \* the lines cached for each path
    proc,               \* per goroutine: where it is, its path, the lines it has
    disk,               \* per path: whether it can be opened, and its version
    calls,              \* calls so far
    changes,            \* changes of the file system so far
    reads,              \* history: per path, the times it was read to its end
    failed              \* history: whether an open ever failed for good

vars == <<sourceAvailable, sourceFileCache, proc, disk, calls, changes, reads, failed>>

PCs == {"idle", "check", "lookup", "open", "markYes", "markNo", "scan", "store"}

(* The lines of a version of a file.                                       *)
Whole(p, v) == [path |-> p, version |-> v, whole |-> TRUE]

Lines == [path : Paths, version : 0 .. MaxChanges, whole : BOOLEAN]

ASSUME AbsentAssumption == Absent \notin Lines

File == [state : {"readable", "denied"}, version : 0 .. MaxChanges]

Proc == [pc : PCs, path : Paths \cup {Absent}, lines : Lines \cup {Absent}]

Idle == [pc |-> "idle", path |-> Absent, lines |-> Absent]

Goto(g, pc) == proc' = [proc EXCEPT ![g].pc = pc]

(* readSourceFile returns, with lines or with an error; its caller goes on.*)
Return(g) == proc' = [proc EXCEPT ![g] = Idle]

At(g, pc) == proc[g].pc = pc

world == <<disk, calls, changes>>
ghost == <<reads, failed>>

-----------------------------------------------------------------------------

Init ==
    /\ sourceAvailable = "unset"
    /\ sourceFileCache = [p \in Paths |-> Absent]
    /\ proc = [g \in Goroutines |-> Idle]
    /\ disk \in [Paths -> [state : {"readable", "denied"}, version : {0}]]
    /\ calls = 0
    /\ changes = 0
    /\ reads = [p \in Paths |-> 0]
    /\ failed = FALSE

(* A file is deployed, removed, made unreadable or edited.                 *)
DiskChanges ==
    /\ changes < MaxChanges
    /\ \E p \in Paths, s \in {"readable", "denied"} :
          disk' = [disk EXCEPT ![p] = [state |-> s, version |-> changes + 1]]
    /\ changes' = changes + 1
    /\ UNCHANGED <<sourceAvailable, sourceFileCache, proc, calls, ghost>>

Call(g, p) ==
    /\ At(g, "idle")
    /\ calls < MaxCalls
    /\ calls' = calls + 1
    /\ proc' = [proc EXCEPT ![g] = [pc |-> "check", path |-> p, lines |-> Absent]]
    /\ UNCHANGED <<sourceAvailable, sourceFileCache, disk, changes, ghost>>

checkSourceAvailable(g) ==
    /\ At(g, "check")
    /\ IF sourceAvailable = "no" THEN Return(g) ELSE Goto(g, "lookup")
    /\ UNCHANGED <<sourceAvailable, sourceFileCache, world, ghost>>

getCachedSourceFile(g) ==
    /\ At(g, "lookup")
    /\ IF sourceFileCache[proc[g].path] # Absent THEN Return(g) ELSE Goto(g, "open")
    /\ UNCHANGED <<sourceAvailable, sourceFileCache, world, ghost>>

Open(g) ==
    /\ At(g, "open")
    /\ LET p == proc[g].path
       IN /\ disk[p].state = "readable"
          /\ proc' = [proc EXCEPT ![g].pc = "markYes",
                                  ![g].lines = Whole(p, disk[p].version)]
    /\ UNCHANGED <<sourceAvailable, sourceFileCache, world, ghost>>

(* The file does not exist or may not be read.                             *)
OpenFailsForGood(g) ==
    /\ At(g, "open")
    /\ disk[proc[g].path].state = "denied"
    /\ Goto(g, "markNo")
    /\ failed' = TRUE
    /\ UNCHANGED <<sourceAvailable, sourceFileCache, world, reads>>

(* Every failure to open is taken for a permanent one.                     *)
OpenFailsAlways(g) ==
    /\ At(g, "open")
    /\ Goto(g, "markNo")
    /\ UNCHANGED <<sourceAvailable, sourceFileCache, world, ghost>>

(* Any other error, say too many open files: the call fails, nothing else. *)
OpenFailsForNow(g) ==
    /\ At(g, "open")
    /\ Return(g)
    /\ UNCHANGED <<sourceAvailable, sourceFileCache, world, ghost>>

(* The last verdict stands, not the first.                                 *)
overwritten(verdict) == verdict

(* The first verdict stands.                                               *)
decided(verdict) == IF sourceAvailable = "unset" THEN verdict ELSE sourceAvailable

MarkAvailable(g) ==
    /\ At(g, "markYes")
    /\ sourceAvailable' = decided("yes")
    /\ Goto(g, "scan")
    /\ UNCHANGED <<sourceFileCache, world, ghost>>

(* A file that cannot be opened is looked for again.                       *)
MarkUnavailableAndRetry(g) ==
    /\ At(g, "markNo")
    /\ sourceAvailable' = decided("no")
    /\ Goto(g, "check")
    /\ UNCHANGED <<sourceFileCache, world, ghost>>

MarkUnavailable(g) ==
    /\ At(g, "markNo")
    /\ sourceAvailable' = decided("no")
    /\ Return(g)
    /\ UNCHANGED <<sourceFileCache, world, ghost>>

Scan(g) ==
    /\ At(g, "scan")
    /\ Goto(g, "store")
    /\ reads' = [reads EXCEPT ![proc[g].path] = @ + 1]
    /\ UNCHANGED <<sourceAvailable, sourceFileCache, world, failed>>

(* The lines read before the scanner's error are kept.                     *)
ScanStopsShort(g) ==
    /\ At(g, "scan")
    /\ proc' = [proc EXCEPT ![g].pc = "store", ![g].lines.whole = FALSE]
    /\ UNCHANGED <<sourceAvailable, sourceFileCache, world, ghost>>

(* A line too long for the scanner, or an error of the file system.        *)
ScanFails(g) ==
    /\ At(g, "scan")
    /\ Return(g)
    /\ UNCHANGED <<sourceAvailable, sourceFileCache, world, ghost>>

(* Nothing is cached.                                                      *)
storeNothing(p, lines) == sourceFileCache

stored(p, lines) == [sourceFileCache EXCEPT ![p] = lines]

cacheSourceFile(g) ==
    /\ At(g, "store")
    /\ sourceFileCache' = stored(proc[g].path, proc[g].lines)
    /\ Return(g)
    /\ UNCHANGED <<sourceAvailable, world, ghost>>

(* readSourceFile, once it is called.                                      *)
Step(g) ==
    \/ checkSourceAvailable(g)
    \/ getCachedSourceFile(g)
    \/ Open(g)
    \/ OpenFailsForGood(g)
    \/ OpenFailsForNow(g)
    \/ MarkAvailable(g)
    \/ MarkUnavailable(g)
    \/ Scan(g)
    \/ ScanFails(g)
    \/ cacheSourceFile(g)

Next ==
    \/ \E g \in Goroutines : Step(g) \/ \E p \in Paths : Call(g, p)
    \/ DiskChanges

Spec == Init /\ [][Next]_vars

(* The scheduler runs a goroutine that can run; the mutexes are never held *)
(* across a blocking call.  Callers and the file system owe nothing.       *)
FairSpec == Spec /\ \A g \in Goroutines : WF_vars(Step(g))

-----------------------------------------------------------------------------

TypeOK ==
    /\ sourceAvailable \in {"unset", "yes", "no"}
    /\ sourceFileCache \in [Paths -> Lines \cup {Absent}]
    /\ proc \in [Goroutines -> Proc]
    /\ \A g \in Goroutines :
          /\ ~At(g, "idle") => proc[g].path \in Paths
          /\ proc[g].pc \in {"markYes", "scan", "store"} => proc[g].lines \in Lines
    /\ disk \in [Paths -> File]
    /\ calls \in 0 .. MaxCalls
    /\ changes \in 0 .. MaxChanges
    /\ reads \in [Paths -> Nat]
    /\ failed \in BOOLEAN

(* Source display is switched off only on the word of a file that does not *)
(* exist or may not be read, never for a failure that may pass             *)
(* (stack.go:230-232, 281-283).                                            *)
OffOnlyForGood == sourceAvailable = "no" => failed

(* What the cache holds for a path is what that file once said, to the end *)
(* (stack.go:245-249).                                                     *)
CachedWhole ==
    \A p \in Paths : sourceFileCache[p] # Absent =>
        \E v \in 0 .. changes : sourceFileCache[p] = Whole(p, v)

(* A file is read to its end at most once by each goroutine, however often *)
(* it is asked for: only those that missed the cache before the first of   *)
(* them filled it read it again (stack.go:224-249).                        *)
ReadsBounded == \A p \in Paths : reads[p] <= Cardinality(Goroutines)

(* A file in the cache stays readable once the sources are available: no   *)
(* late failure elsewhere takes it away (stack.go:267-279).                *)
StaysReadable ==
    [][\A p \in Paths :
          sourceAvailable = "yes" /\ sourceFileCache[p] # Absent =>
              sourceAvailable' = "yes" /\ sourceFileCache'[p] # Absent]_vars

(* Every call returns.                                                     *)
CallsReturn == \A g \in Goroutines : ~At(g, "idle") ~> At(g, "idle")
=============================================================================
