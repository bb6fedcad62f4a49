---------------------------- MODULE ErrorOptions ----------------------------
(***************************************************************************)
(* The options of the package (options.go) and what one of them does to    *)
(* the settings of a definition (option.go).  A field option is told from  *)
(* the others by its op; what it does to the fields is in Definition.      *)
(***************************************************************************)
EXTENDS Integers

Field(k, v)      == [op |-> "field", key |-> k, value |-> v]
NoTrace          == [op |-> "noTrace"]
StackSkip(n)     == [op |-> "stackSkip", skip |-> n]
StackDepth(n)    == [op |-> "stackDepth", depth |-> n]
Formatter(f)     == [op |-> "formatter", fn |-> f]
JSONMarshaler(f) == [op |-> "jsonMarshaler", fn |-> f]
LogValuer(f)     == [op |-> "logValuer", fn |-> f]

StackSource(around, depth) ==
    IF depth = 0
    THEN [op |-> "noop"]
    ELSE [op |-> "stackSource", around |-> IF around < 0 THEN 0 ELSE around, depth |-> depth]

NilFunc == "nil"    \* a formatter, marshaler or valuer that is not set
Funcs == STRING \cup {NilFunc}

(* The options as values, of fields with the given keys and values.        *)
OptionValues(keys, values) ==
    [op : {"field"}, key : keys, value : values]
      \cup [op : {"noTrace", "noop"}]
      \cup [op : {"stackSkip"}, skip : Int]
      \cup [op : {"stackDepth"}, depth : Int]
      \cup [op : {"stackSource"}, around : Nat, depth : Int]
      \cup [op : {"formatter", "jsonMarshaler", "logValuer"}, fn : Funcs]

Settings ==
    [noTrace : BOOLEAN, stackSkip : Int, stackDepth : Int,
     stackSourceLines : Nat, stackSourceDepth : Int,
     formatter : Funcs, jsonMarshaler : Funcs, logValuer : Funcs]

defaultSettings ==
    [noTrace |-> FALSE, stackSkip |-> 0, stackDepth |-> 0,
     stackSourceLines |-> 0, stackSourceDepth |-> 0,
     formatter |-> NilFunc, jsonMarshaler |-> NilFunc, logValuer |-> NilFunc]

applySetting(s, o) ==
    CASE o.op = "noTrace"       -> [s EXCEPT !.noTrace = TRUE]
      [] o.op = "stackSkip"     -> [s EXCEPT !.stackSkip = @ + o.skip]
      [] o.op = "stackDepth"    -> [s EXCEPT !.stackDepth = o.depth]
      [] o.op = "stackSource"   -> [s EXCEPT !.stackSourceLines = o.around,
                                             !.stackSourceDepth = o.depth]
      [] o.op = "formatter"     -> [s EXCEPT !.formatter = o.fn]
      [] o.op = "jsonMarshaler" -> [s EXCEPT !.jsonMarshaler = o.fn]
      [] o.op = "logValuer"     -> [s EXCEPT !.logValuer = o.fn]
      [] OTHER                  -> s

-----------------------------------------------------------------------------

callersSkip  == 4
callersDepth == 32
recoverSkip  == callersSkip + 2

NoStack == [captured |-> FALSE]

Stacks ==
    {NoStack} \cup [captured : {TRUE}, depth : Nat \ {0}, skip : Int,
                    sourceLines : Nat, sourceDepth : Int]

(* The depth of the settings as it is, the default never put in its place. *)
capturedAsSet(s, skip) ==
    IF s.noTrace
    THEN NoStack
    ELSE [captured |-> TRUE, depth |-> s.stackDepth, skip |-> s.stackSkip + skip,
          sourceLines |-> s.stackSourceLines, sourceDepth |-> s.stackSourceDepth]

(* What newError captures for an error of a definition with settings s.    *)
capturedStack(s, skip) ==
    IF s.noTrace
    THEN NoStack
    ELSE [captured    |-> TRUE,
          depth       |-> IF s.stackDepth > 0 THEN s.stackDepth ELSE callersDepth,
          skip        |-> s.stackSkip + skip,
          sourceLines |-> s.stackSourceLines,
          sourceDepth |-> s.stackSourceDepth]
=============================================================================
