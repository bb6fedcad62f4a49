---------------------------- MODULE SourceWindow ----------------------------
(***************************************************************************)
(* The source lines around a frame of a stack (stack.go: FramesAndSource,  *)
(* frameSource, getSourceLines).  Sums wrap at the width of an int.        *)
(***************************************************************************)
EXTENDS Integers, Sequences, SequencesExt

CONSTANT MaxInt

ASSUME MaxIntAssumption == MaxInt \in Nat \ {0}

Larger(a, b)  == IF a > b THEN a ELSE b
Smaller(a, b) == IF a < b THEN a ELSE b

wrapped(n) == IF n > MaxInt THEN n - 2 * (MaxInt + 1) ELSE n

(* A stack: the frames of the program, with the lines their files have,    *)
(* and the settings of StackSource.  A file that cannot be read has none.  *)
Stack(frames, around, depth) ==
    [frames |-> frames, sourceLines |-> around, sourceDepth |-> depth]

(* Lines, lengths and settings are ints; no file has fewer than no lines.  *)
StackTyped(stack) ==
    /\ stack.frames \in Seq(ToSet(stack.frames))
    /\ stack.sourceLines \in Int /\ stack.sourceLines <= MaxInt
    /\ stack.sourceDepth \in Int
    /\ \A i \in DOMAIN stack.frames :
           /\ stack.frames[i].line \in Int
           /\ stack.frames[i].length \in 0 .. MaxInt

Window(lines) == [panics |-> FALSE, lines |-> lines]

NoSource == Window(<<>>)

(* The slice expression lines[start:end] has its bounds crossed.           *)
Panic == [panics |-> TRUE, lines |-> <<>>]

NoLines == [start |-> 0, end |-> 0]

(* The line itself is counted among those before it.                       *)
getSourceLinesFromLine(line, around, length) ==
    IF line < 1 \/ line > length THEN NoLines
    ELSE [start |-> Larger(0, line - around), end |-> Smaller(length, wrapped(line + around))]

(* The bounds of the slice of the file's lines, counted from 0.            *)
getSourceLines(line, around, length) ==
    IF line < 1 \/ line > length THEN NoLines
    ELSE [start |-> Larger(0, line - around - 1), end |-> Smaller(length, wrapped(line + around))]

(* The numbers before the lines are counted apart from the slice.          *)
frameSource(line, around, length) ==
    LET slice == getSourceLines(line, around, length)
        start == Larger(1, line - around)
    IN IF slice.end < slice.start THEN Panic
       ELSE Window([i \in 1 .. slice.end - slice.start |->
                       [number |-> start + i - 1, text |-> slice.start + i,
                        marked |-> start + i - 1 = line]])

(* Whether the frame at a position, counted from 0, is shown with source.  *)
Eligible(stack, i) ==
    /\ stack.sourceLines > 0
    /\ stack.frames[i + 1].file
    /\ stack.sourceDepth = -1 \/ stack.sourceDepth > i

sourceAt(stack, i) ==
    IF Eligible(stack, i - 1)
    THEN frameSource(stack.frames[i].line, stack.sourceLines, stack.frames[i].length)
    ELSE NoSource

Panicking(stack) == {i \in DOMAIN stack.frames : sourceAt(stack, i).panics}

(* What the iterator yields, up to the first frame whose source panics.    *)
FramesAndSource(stack) ==
    [i \in {i \in DOMAIN stack.frames : \A k \in Panicking(stack) : i <= k} |-> sourceAt(stack, i)]

-----------------------------------------------------------------------------

(* The lines of the file at most sourceLines away, each under its number,  *)
(* the frame's own line marked.                                            *)
Around(line, around, length) ==
    LET first == Larger(1, line - around)
        last  == Smaller(length, line + around)
    IN [i \in 1 .. last - first + 1 |->
           [number |-> first + i - 1, text |-> first + i - 1, marked |-> first + i - 1 = line]]

HasSource(stack, i) ==
    /\ Eligible(stack, i - 1)
    /\ 1 <= stack.frames[i].line /\ stack.frames[i].line <= stack.frames[i].length

(* The line and the setting add up to more than the largest int.           *)
Overflowing(stack) ==
    {i \in DOMAIN stack.frames :
        HasSource(stack, i) /\ stack.frames[i].line + stack.sourceLines > MaxInt}

(* Every frame comes with the lines around it, whatever the setting, until *)
(* one overflows, which panics.                                            *)
WindowsExact(stack, sources) ==
    /\ DOMAIN sources = {i \in DOMAIN stack.frames : \A k \in Overflowing(stack) : i <= k}
    /\ \A i \in DOMAIN sources : LET f == stack.frames[i] IN
           sources[i] = IF i \in Overflowing(stack) THEN Panic
                        ELSE IF HasSource(stack, i)
                             THEN Window(Around(f.line, stack.sourceLines, f.length))
                             ELSE NoSource
=============================================================================
