# A verification project for errdef

errdef is a Go library for structured errors. An application defines kinds of
errors once, derives factories from them with more options (from a
`context.Context` or given directly), and creates errors that carry a kind,
fields, a stack and causes. The library renders errors, builds the tree of their
causes in spite of cycles, shows source lines, and reads serialized errors back.

This directory holds TLA+ models of the library, TLC runs that check them on
small instances and proofs that TLAPS checks for all values of the constants.
Source positions are given as `file.go:line`, relative to the repository's root.

    tlc -config MCDefinitionFields.cfg MCDefinition.tla
    tlapm DefinitionProofs.tla

`PROJECT.json` lists the runs, the theorems, the source lines of every
definition, the hazards of the code and which properties watch them.

## 1. The system

| Part | Source | State | Operations |
|---|---|---|---|
| Options in a context | `context.go` | a slice of options per context | `ContextWithOptions`, `optionsFromContext` |
| Definitions and factories | `definition.go`, `errdef.go`, `option.go`, `options.go`, `field.go` | `definition` objects that point to a root and to a `fields` map | `Define`, `With`, `WithOptions`, every `applyOption`, `fields.set/clone/All` |
| Errors | `error.go`, `panic.go`, `definition.go` | `definedError`: pointer to its definition, message, cause, stack | `New`, `Errorf`, `Wrap`, `Wrapf`, `Join`, `Recover`, `Unwrap` |
| Identity | `definition.go`, `error.go` | none of its own | `Definition.Is`, `definedError.Is`, extractors through `errors.As` |
| Field values | `field.go`, `redaction.go` | values, redacted values | `Equal`, `NewValue`, extraction |
| Cause tree | `node.go` | map of visited addresses during a construction | `buildNodes`, `buildNode`, `HasCycle`, `Walk` |
| Presentation | `definition.go`, `node.go`, `error.go` | none | formatting, JSON, `slog` values |
| Stacks and sources | `stack.go` | process-wide verdict on sources and cache of files | `newStack`, `readSourceFile`, `getSourceLines` |
| Resolver | `resolver/` | definitions by kind, and in order | `ResolveKind`, `ResolveField`, defaults |
| Unmarshaler, conversion | `unmarshaler/` | configuration | `Unmarshal`, causes, numeric conversions |
| HTTP example | `examples/http_api/` | users, next id, under a lock | handlers, service, repository, middleware |
| Adapters | `examples/zap`, `zerolog`, `sentry`, `gcloud…`, `protobuf` | none | translations of an error |

How they interact: `With` reads the options of a context and applies them to a
clone of the definition; creating an error reads the definition it is created
from and keeps a pointer to it, so that kind, fields and rendering options of an
error are those of the definition for ever; `UnwrapTree` walks the causes, which
may be errors of any package; rendering an error with a source option calls
`readSourceFile`, from whatever goroutine formats it; the unmarshaler asks a
resolver for definitions and builds errors of its own type from them.

What is hard here:

* **Sharing without locks.** Definitions are package variables used by every
  goroutine. Nothing is locked: correctness rests on cloning before writing, on
  writing only before publishing, and on slices and maps never being shared by
  mistake.
* **Order.** Options of a context, then the caller's, through chains of
  derivations; fields ordered by an index that clones carry on.
* **Cycles.** The cause tree recognises cycles by addresses, and uses the same map
  for the path and for the pending end of a cycle.
* **Identity through chains.** Which definition an error matches is found through
  clones of clones, wraps, joins, panics and errors read back, by methods that look
  at different parts of a chain.
* **Process-wide state.** The verdict on sources and the cache are read and
  written under separate short locks, with file operations in between.
* **Boundaries** of numeric conversions and of source windows, where an integer
  wraps or a float lies just beyond a range.
* **Map order.** Fields are read back in the order of a Go map, and the first one
  that fails decides the outcome.
* **Trees in trees.** JSON of an error builds a new cause tree at every defined
  error in the tree it is showing.
* **Requests.** The HTTP example serves them concurrently, hands users out by
  pointer, recovers from panics and shuts down with requests under way.

## 2. The modules

| Module | Models | Kind |
|---|---|---|
| `OptionContext` | `context.go` | component |
| `ErrorOptions` | the options and what each does to a definition's settings | data, shared |
| `Definition` | definitions, fields, factories and errors; extends the two above | component |
| `ErrorTemplate` | what the library promises of them | abstract specification |
| `CauseTree` | `node.go`, the construction | component |
| `SourceCache` | `stack.go`, `readSourceFile` | component |
| `Identity` | `Definition.Is`, `definedError.Is`, `unmarshaledError.Is`, the extractors | component |
| `Resolver` | `resolver/` | component |
| `Conversion` | `unmarshaler/converter.go` | pure operators |
| `Unmarshal` | `unmarshaler/unmarshaler.go`, the fields of the result; extends `Conversion` | component |
| `SourceWindow` | `stack.go`, the lines around a frame | pure operators |
| `Rendering` | text, JSON, log values and walks (`definition.go`, `node.go`); extends `SourceWindow` | component |
| `HttpApi` | `examples/http_api` from the middleware to the repository | component |
| `UserService` | what its users are promised | abstract specification |
| `MCOptionContext`, `MCDefinition`, `MCCauseTree`, `MCIdentity`, `MCResolver`, `MCUnmarshal`, `MCRendering`, `MCHttpApi` | instances | for TLC |
| `DefinitionProofs` (with `OptionContext`), `SourceCacheProofs`, `CauseTreeProofs`, `IdentityProofs`, `RenderingProofs`, `ResolverProofs`, `UnmarshalProofs`, `HttpApiProofs` | theorems | for TLAPS |

Operators whose comment describes a wrong behaviour (`sharedClone`,
`appendedOptions`, `forgetNothing`, `EnterUnchecked`…) stand beside the ones they
distort. They belong to no specification: each is a plausible slip in the code,
with which one of the properties below must fail. `PROJECT.json` lists them under
`mutants`.

Some properties of the runs are conjunctions of parts that are defined and commented
one by one:

| Property | Parts |
|---|---|
| `CauseTree!TypeOK` | shape of the state, `VisitedIsPath` |
| `CauseTree!TreeComplete` | completeness, `NoErrorBelowItself` |
| `CycleMarks` | `HasCycleExact`, `MarkedOnCycle` |
| `MatchesByOrigin` | matching, `IdentityTypeOK` |
| `NoFalseMatch` | `ClaimsAreMatches`, `InstancesDiffer` |
| `ExtractorsAgree` | `ExtractionMatches`, `StackOfOutermost` |
| `FirstWins` | `FirstOfKind`, `FirstWithField` |
| `NothingLost` | the count of fields, `FieldsReadable` |
| `UnknownExactly` | `WhatBelongsIsTyped`, `TypedByRight`, `StrictIsStrict` |
| `CausesKept` | the causes, `UnmarshalTypeOK`, `SentinelsRestored` |
| `DepthFirst` | the order, `RenderingTypeOK` |
| `ShownAsAsked` | `OwnOptionsDecide`, `FieldsAgree` |

### OptionContext

A Go slice is a pointer to an array and a length, so `contexts` holds slices and
`arrays` what they point to. `ContextWithOptions` is the code's `make` and two
copies. The properties are about aliasing: no context's options ever change
(`ContextsImmutable`) and layers keep their order (`ChildExtendsParent`). Calls
without options return the same context and are left out, as is a nil context with
options, which panics in the standard library.

### Definition

`defs` and `fieldStore` are heaps of `definition` and `fields` objects;
`published` is the set of definitions whose pointer a caller has; `errors` are the
errors created, and `call` says what each goroutine is in the middle of. `Define`
and `With` allocate, `applyOption` is one turn of the loop in `applyOptions`, and
`Return` hands the object over: between these steps any other goroutine may act,
as nothing in the code prevents it. `derive` stands for the clone at the
beginning of both `With` and `WithOptions`. A factory may be derived from again:
its dynamic type is still `*definition`, and `clone` provides for it
(`definition.go:237`).

Creating an error only reads shared state and is one step. `Join` keeps what
`errors.Join` keeps, the causes that are not nil, and creates nothing if there is
none. `Recover` is modelled for functions that panic; a value that is not an error
counts as a foreign cause. Messages are not modelled.

Settings are a record with one field per field of the struct, and a stack is what
`newStack` is asked for: depth, skip, source lines and depth.

### ErrorTemplate, and the refinement

The abstract specification knows no pointers, indices or steps: a template is an
origin, a kind, fields and settings, and the order of the fields is told by what comes
before each of them; a derivation issues a new template in one step and is given in closed form (of each setting the last option
wins, skips add up, fields that are assigned move to the end); an error contains
its template by value. `Definition` maps a published definition to the template
`template(d)`, whose fields are what `All` yields, and an error to the template of
the definition it points to. That the second is right is the point: it holds only
because published definitions never change.

### CauseTree

`stack` is the recursion, a frame per call of `buildNodes`; `visited` is the map,
with key `0` (`Slot`) for the address of a cycle that was closed; `tree` is the
set of nodes built, each known by its trail from the root, and `cyclic` those with
`IsCyclic`. The deferred function is `Leave`. The errors' addresses and causes are
chosen in the initial state among `Graphs` and never change: `Unwrap` is taken to
answer the same each time it is called. An address of `NoAddr` stands for the
kinds of value that `reflect` gives no pointer for.

### SourceCache

One goroutine's `readSourceFile` is a sequence of steps; each function that holds a
mutex is one of them. `disk` changes at any time, and an open file keeps the
version it was opened on. `reads` and `failed` are history, for the properties
only.

### Identity

`objects` is the world of error values: definitions and factories, defined errors,
errors read back, panics, errors of other packages. Objects never change and wrap
only older ones, so that the walks of `errors.Is` and `errors.As` are recursive
functions, `chain` and `found`. The actions are all ways in which the library and its callers
make such values; the methods and extractors are operators, and the properties
compare them over every pair of objects. `given` is history: what an object was
made from, independently of what it wraps and of the root it carries.
`MatchesByOrigin` thus compares the code's roots with the actual call of `Define`.
In the run `identity` definitions have one kind, so that nothing but the origin can
tell them apart. What is read back may have any fields and any stack; its causes
may be definitions (`unmarshaler/unmarshaler.go:197`), errors read back or foreign
ones.

### Resolver

`New(defs...)` works in the slice its caller keeps: `slices.CompactFunc` moves what
stays to the front and clears the rest, and the resolver holds on to the front.
`arrays` are the backing arrays, `Assign` is a caller that goes on using its slice,
and several resolvers may be made of one. `disturbed` marks the resolvers whose
caller did so; a call with its definitions written out is a slice that is never
assigned to. Lookups are operators.

### Conversion

A decoded value is tried against the type of a key by one attempt after another.
An operator answers with the *set* of outcomes a build may produce, since Go leaves
open what a float out of range becomes as an integer. Numbers are counted in halves,
so that a fraction is an odd number, and widths and roundings are parameters: the
code's comparison with `float64(math.MaxInt64)` is a comparison with
`Round64[Highest["int64"]]`, which is one more than the highest integer. `Composite`
is what the code's tests of `reflect.Struct`, `Map` and `Slice` let through, `[]byte`
among them: a list for such a key goes through JSON and converts or fails, and a
declared type of bytes or a pointer to them is left to nobody.

`Belongs` says which values a type takes, from `decoder.go:51-72` and not from the
attempts; `Nearly` and `Kept` name what the code takes besides and what it makes of
it, each a case of the list of disagreements in section 3.

### Unmarshal

The decoded data is a tree of nodes. `unmarshal` and `unmarshalCause` call one
another: `stack` has a frame for each node under way, with the fields still to be
visited, and `answer` is what the call that just returned gave. `todo` is a set
because the code ranges over a map, and any key of a definition may come first for
the same reason. A cause that fails is entered a second time without a definition
(`CauseFails`), which is the loop of `unmarshaler.go:188-195`. `Get`, `FindNames`
and `Size` are the methods of the result's fields.

The order of fields and keys may decide whether a call fails as internal, fails as an
unknown field or succeeds. `InternalExactly` therefore has two bounds: what fails in
every order (`SurelyFailing`), which no call survives, and what may fail in some
(`Failing`), without which none fails. Where no order matters the two meet.

### SourceWindow and Rendering

`SourceWindow` gives the slice of lines that `getSourceLines` takes and the numbers
that `frameSource` puts before them, with sums that wrap at the width of an int. If
the line and the setting add up to more than the largest int, the end of the slice is
negative and slicing panics (`Panic`); `FramesAndSource` is cut off at the first frame
that does. `WindowsExact` states what comes with every frame, for every setting, and
which frame panics.

`Rendering` is one recursion for all ways in which an error is shown, chosen by
`mode`. A frame is a node under way: its error, the errors on the path of the tree
it belongs to, its trail from the root, and the next cause. The tree is built before
it is shown; as `CauseTree` has its construction, here its nodes appear when they
are come to. What differs between the modes is where they descend, what they show of
a node, whose own options they obey, and `pathBelow`: a defined error in JSON
marshals itself and starts a tree of its own, whose path is empty. `Break` is a
node whose source panics (`Breaks`): `fmt` recovers the panic of a `Formatter`, so that
what was written stays and the rest is lost. `EveryCauseShown` says so: whatever is
shown is due, and what is due is shown unless the rendering broke off.

### HttpApi and UserService

A request goes through `Arrive` (the middleware), `Handle` (the checks of handler and
service in their order, and the user they allocate), `Lock`, a check and a write in
the repository, `Respond` (`WriteHeader`), `Encode` and `Log`. Users are objects on a
heap and the map holds addresses; the body is encoded from the object after the lock
is gone. `FindByID` is one step, as nothing can write between its lines; a write is
two, so that the lock is what keeps a check true until the write. `Panic` may end any
of these steps: deferred functions release the lock, Logging is skipped, and Recovery
answers, which after the status has been written only adds a body. `EffectAsTold` is
about the status alone, which is all a client has if the body is lost: a success tells
that the write was made and lasts until another request updates or deletes that user, a
refusal (4xx) that nothing of it is ever seen, and a 500 neither. What the replies carry
besides, trace and text, and what the log records are in the model so that it is the
whole handler; each is one assignment, and no property is about them. `Interrupt`,
`Shutdown` and `Timeout` are `main`. `Failing` is the repository's switch, off as
`NewInMemory` has it.

`UserService` knows neither lock nor pointers: it decides each request in one step on
the users of that moment, and later tells what it decided, or that it broke. A
refusal names its reason, which must hold as it is decided; an id is given once; only
a request in a user's own name changes or deletes it. `HttpApi` maps `emailOf` to
what the map's addresses lead to, `decided` to the result of the service, and `told`
to the status and body that were sent.

## 3. What the runs check

| Run | Bounds | Shows |
|---|---|---|
| `option_context` | 5 contexts, 3 options, lists of 1 and 2 | contexts never influence one another; layers in order |
| `definition_fields` | 2 goroutines, 3 definitions, 2 contexts, 2 keys, 2 values, 2 errors, joins of 0–1 | privacy of writers, field order, roots, immutability of definitions and errors |
| `definition_templates` | 1 goroutine, 3 definitions, 2 contexts, every option, 1 error, joins of 0–2 | the refinement, for settings, layers of options and errors |
| `cause_tree` | 3 errors, up to 2 causes each, 12 cause lists, 3 roots; one of the errors tracked or not | termination, shape and cycle marks |
| `source_cache` | 2 goroutines, 2 files, 4 calls, 1 change of the disk | verdict, cache, reads, return of every call |
| `identity` | 4 objects, up to 3 of them definitions, all of one kind; a recovered panic is 2; lists of 0–2 causes, nil among them | roots against origins, what wrapping keeps, what definitions claim, what is extracted |
| `resolver` | 3 definitions, 2 of one kind and 2 of one value; 1 slice of up to 3; 2 resolvers | first wins by kind and field; sharing of the slice |
| `unmarshal` | numbers of 6 bits, floats of 4 and 2; every value against every type; up to 2 fields and 3 keys of 2 names, strict or not; trees of up to 4 nodes and 3 levels, with a default or without | what is kept, typed and refused; when a call fails |
| `rendering` | 4 errors, 6 cause lists, 3 choices of defined errors; every mode; own options at the root or below; ints of 4 bits, files of 0–4 lines, lines 0–5, windows 0–7, so that sums overflow; trees in which the source of the root, a defined error or a foreign one cannot be sliced | same tree in every mode, order, own options, source windows and where they panic, termination |
| `http_api` | 3 requests: one of 15, one of 4, one fixed; 2 users; 1 panic; shutdown at any time | emails, what a status tells of a write, sharing by pointer, no request left waiting, the refinement |

The bounds let the interesting cases happen. Two goroutines and three definitions
give two derivations of one definition at a time, and a derivation of a derivation;
two keys and two values give overwriting and reordering. Five contexts give
siblings, cousins and chains. Three errors give self-loops, two-cycles,
three-cycles, overlapping cycles, shared causes and cycles not through the root;
`<<Nil, c>>` and `<<b, b>>` give nil and repeated causes. `MaxDepth` is above the
depth that a tree of three tracked errors can have, so it cuts nothing off in that
run. Three definitions give a derivation of a derivation, where a root that is only
the parent would show, and two causes a chain whose first match is not the only one.
One slice is enough for resolvers, since separate slices share nothing. Four calls
let a goroutine meet the file it, and the other, has already read. Six bits are the
fewest in which all widths of integers differ and a float64 rounds the highest of
them up; each conversion depends on one value and one type, so one field shows them
all. Four nodes give a cause that fails beside one that does not, above and below
another. Four errors give cycles with and without the root, joins of shared causes
and repeated causes; a source that cannot be sliced is the root's, or that of an error
shown last, in between or more than once. In `http_api` the three requests contend for one email and for
one user: two creations, a creation and an update, an update and a deletion, a read
during both, and a third that waits while another panics with the lock; an id is
given and the new user updated or deleted by the next request.

Two runs expect a violation. Each states what the documentation of the repository
says and shows where the code does something else:

* `rendering_cycle`: JSON of an error in a cycle with a defined error does not end:
  each defined error builds a tree of its own, which knows nothing of the path that
  led to it (`node.go:69`, against `error.go:34-35`). The run `rendering` therefore
  marshals only graphs in which every cycle is of foreign errors (`CyclesForeign`);
  for text, log values and walks it has no such limit.
* `unmarshal_sentinels`: with a default resolver a registered sentinel among the
  causes is not restored (`unmarshaler/unmarshaler.go:233`, against
  `unmarshaler/options.go:81-83`). `SentinelsRestored` states it for every other
  unmarshaler.

The passing run `cause_tree` excludes three things by `Faithful` and
`ValuesAcyclic`: nil pointers; two errors of one address, a struct and its first
field, of which the second would be dropped as a cycle (`node.go:176`); and cycles
through struct values alone, which the code does not recognise (`node.go:173`). Of
marked nodes it claims soundness (`MarkedOnCycle`) and that at least one is marked
when there is a cycle (`HasCycleExact`).

More places where text and code differ, met while modelling and without a run:

* Two pending cycles share the one slot of the map, and the head of the first is not
  marked (`node.go:179`, against `node.go:21`).
* A nil pointer of an error type has the address 0, the key of the slot, and makes
  `HasCycle` true (`node.go:183-187`, against `node.go:53`).
* A definition used as a cause answers for its kind and fields before an
  `errdef.Error` that comes after it (`errdef.go:56`, against `README.md:366`).
* `CompactFunc` leaves a nil in the caller's slice, on which a second
  `resolver.New` panics (`resolver/resolver.go:25`); `NewPanics` is that step.
* `StackSkip` adds up (`option.go:166`; so `ErrorTemplate` states it, and
  `options_test.go:183` wants it), while `With` is said to let later options override
  earlier ones (`definition.go:38`); `StackSource(_, 0)` overrides nothing, as
  `options.go:76` documents.
* `ErrNotFound.Is(restored)` is false for an error that was read back, where
  `errors.Is(restored, ErrNotFound)` is true (`definition.go:205`), so that
  `ClaimsAreMatches` states one direction only.
* A float64 of 2^63 passes the bound of int64 and becomes whatever the machine makes
  of it (`unmarshaler/converter.go:81`, against the range check of
  `unmarshaler/decoder.go:53-54`); `NumbersKept` exempts it as `JustAbove`, so that the
  project shows that no other value does this and not that this one is right.
* An int64 becomes a float64 by rounding (`unmarshaler/converter.go:199`), where
  `unmarshaler/decoder.go:63` says "directly without precision loss": 2^53+1 is
  changed. `Kept` states the rounding.
* An int64 for a float32 is compared with its round trip, which beyond the largest
  int64 is whatever the machine makes of it (`unmarshaler/converter.go:190-194`, against
  "if lossless" in `unmarshaler/decoder.go:62`): the largest int64 may become 2^63.
  `Kept` admits the rounding there only.
* A map or list that does not fit its key, `[]byte` included, fails the whole call with
  `ErrInternal` (`unmarshaler/converter.go:225`), where `unmarshaler/decoder.go:74-75`
  has it kept as an unknown field; `InternalExactly` states what the code does.
* `StackSource` with a large setting makes formatting panic: `line+around` overflows and
  the slice's bounds are crossed (`stack.go:214-216`), where `options.go:72` and
  `README.md:207` promise that many lines around each frame. `fmt` catches the panic,
  and the other frames and causes are not shown; `SourcesExact` and `EveryCauseShown`
  state what the code does.
* Logging wraps Tracing, so that `request_id` in the example's log is always empty
  (`middleware.go:48-58`), and generated ids are the clock's microseconds, which two
  requests may share (`middleware.go:95`, against "unique" in `middleware.go:16`).
* A panic after the status was written leaves a success status with the body of an
  error (`middleware.go:72-78`): `UserService` admits it as an answer that is broken.

### Fairness

`CauseTree` is one goroutine's recursion: weak fairness of its next step says that
it goes on while it can. In `SourceCache` weak fairness of each goroutine's `Step`
says that the scheduler runs it; the mutexes are held for a few instructions and
across no blocking call, so that no goroutine waits for another for ever. `Rendering`
is one goroutine's recursion again. In `HttpApi` weak fairness of each request's
`Serve` says that its goroutine is scheduled and that a lock it waits for and that
stays free is given to it; with finitely many requests a lock that is always released
stays free in the end. `Shutdown` is fair because it polls. Arrivals, panics,
interrupts and the timeout are not fair. Callers and the file system owe nothing: calls and changes of the disk are not fair. The
other components promise no progress of their own.

Deadlock is not checked: every model stops when its bounds are used up, and so does
the code when its callers have nothing more to ask.

## 4. What is proved

Every safety property that a run checks is also a theorem, for all values of the
constants, and so are the two refinements.

| Component | Theorem | Property |
|---|---|---|
| `OptionContext` | `ContextTypeCorrect` | `CtxTypeOK` |
| | `ContextsNeverChange`, `ContextsLayered` | `ContextsImmutable`, `ChildExtendsParent` |
| `Definition` | `HeapTypeCorrect`, `WritersArePrivate` | `TypeOK`, `WritersPrivate` |
| | `PublishedNeverChange`, `ErrorsNeverChange` | `PublishedImmutable`, `ErrorsImmutable` |
| | `RootsHold`, `FieldOrderHolds` | `RootsAreDefined`, `FieldOrder` |
| | `TemplatesImplemented` | `ImplementsTemplates` |
| `CauseTree` | `TypesHold`, `TreesComplete` (assuming `Pointers`) | `TypeOK`, `TreeComplete` |
| | `CyclesMarked` (assuming `Pointers`, `Values`) | `CycleMarks` |
| `SourceCache` | `TypeCorrect`, `OffOnlyForGoodHolds` | `TypeOK`, `OffOnlyForGood` |
| | `CachedWholeHolds`, `ReadsBoundedHolds` | `CachedWhole`, `ReadsBounded` |
| | `StaysReadableHolds` | `StaysReadable` |
| `Identity` | `OriginsDecide`, `MatchesAreReal` | `MatchesByOrigin`, `NoFalseMatch` |
| | `NothingIsHidden`, `OneErrorAnswers` | `CausesStayFound`, `ExtractorsAgree` |
| `Rendering` | `NodesDepthFirst`, `NodesShownAsAsked` | `DepthFirst`, `ShownAsAsked` |
| | `SourcesAreExact` | `SourcesExact` |
| | `CausesAreShown` (assuming `Foreign`) | `EveryCauseShown` |
| `Resolver` | `SlicesTypeCorrect`, `TheFirstWins` | `ResolverTypeOK`, `FirstWins` |
| `Unmarshal` | `NumbersSurvive`, `FieldsSurvive` | `NumbersKept`, `NothingLost` |
| | `UnknownAsItMust`, `InternalAsItMust` | `UnknownExactly`, `InternalExactly` |
| | `CausesSurvive` (assuming `SentinelsNamed`) | `CausesKept` |
| `HttpApi` | `ApiTypeCorrect`, `EmailsAreUnique`, `EffectsAreAsTold` | `ApiTypeOK`, `EmailsUnique`, `EffectAsTold` |
| | `SharedUsersKept` | `SharedUsersUnchanged` |
| | `UserServiceImplemented` | `ImplementsUserService` |

`IdentityInvariant`, `RenderSafe`, `UnmarshalSafe` and `ResolversHold` state the
inductive invariants from which the theorems of their components follow. `CtxTypeOK` and the `TypeOK` of
`SourceCache` are proved and not among the invariants of a run.

### Assumptions

The theorems rest on the named assumptions of the modules, which TLC evaluates in
the runs. They say what Go's types say (`OptionsAssumption`, `OptionListsAssumption`,
`GraphsAssumption`, `AddrsAssumption`, `IdentityAssumption`, the `RequestsAssumption` of `Rendering` and of
`Unmarshal`, `ResolverAssumption`), that the tokens for *nothing* are no values
(`NotSetAssumption`, `AbsentAssumption`, `DistinctAssumption`, `NoneAssumption`), that
bounds are numbers, and besides:

* `StackTyped`, in the `RequestsAssumption` of `Rendering`: settings and the lengths of
  files are ints; nothing is assumed of their sums.
* `GoroutinesAssumption`: finitely many goroutines, to count them.
* `NumbersAssumption` and `HighestAssumption` (`Conversion`): rounding to a float
  keeps the order and is exact at the ends of a range that are powers of two; all of
  the integers are among the numbers.
* `RequestsAssumption` of `Unmarshal`: decoded data is a tree, and maps are finite.
* `SeedAssumption`, `InputsAssumption` (`HttpApi`): the first users have the ids from
  1 on and different emails, and a request to create a user has no id.

Four theorems need what the code does not ensure of its callers, as their hypotheses
say, and each hypothesis is true of the run that checks the property:

* `Pointers`: no error is a nil pointer, and no two errors have one address;
  without it `CycleMarks` and `TreeComplete` are false (section 3).
* `Values`: no cycle is made of struct values alone; `HasCycle` cannot see one.
* `Foreign`: JSON is asked for no tree with a cycle through a defined error; the run
  `rendering_cycle` shows what happens otherwise.
* `SentinelsNamed`: the type and message of a registered sentinel are not empty, and
  none is registered that is written just as a known definition. An error without a
  message is read with a message made up for it (`unmarshaler/unmarshaler.go:179`), and a
  definition is looked for before the sentinels, so that neither would be restored.

### Arguments

**Definitions.** `WritersPrivate` is not inductive by itself: a
definition that is published may be cloned, and unless its field map is known to be
its own, the map could be one that another goroutine writes. `ObjectsPrivate`
therefore adds `FieldMapsOwned`, that *every* definition has its own field map,
published or not. Allocation keeps it since a new map lies above all earlier
references (`AllocateEffect`, from `TypeOK`); an option changes no reference
(`ApplyEffect`). Immutability follows from it in one step: what is published is
built by nobody, and a write goes to an object that is being built and to its map
(`PublishedKept`); an error points to a published definition by `TypeOK`, so it
stands still too (`ErrorKept`). `RootsAreDefined` and `FieldOrder` are inductive
relative to `TypeOK`.

**The refinement of `ErrorTemplate`.** A definition is handed out as one value, but was
built one option at a time while other goroutines went on. `BuiltAsAsked` says that
each definition being built is at any time a template with which its derivation
began, derived in closed form by the options applied so far, and that these options
and the pending ones are together those asked for. It is kept by others because what a
derivation began with is published and a context's options never change
(`BeginsKept`, `OthersKept`), and by the goroutine itself because one option more in
the closed form is one `applyOption` more: the last of each kind of option wins or is
the new one (`ConfiguredLonger`, `PositionsLonger`), skips add up (`TotalSkipLonger`),
and a field that is assigned moves behind all others in both (`OverlaidLonger`,
`SetPuts`, which needs `FieldOrder`). So `Return` is `Define` or `Derive`, creating an
error or a context is the action of that name, and all else is a stutter
(`StepImplements`).

**Contexts.** Every derivation allocates its array, so slices handed out keep what
they look at (`ContextsKept`); layers are a consequence.

**Cause trees.** `TreesInv` says that the stack is a path of causes and that the map
holds that path's addresses (`MapInv`); that everything behind the frames is built but
for nil and the errors above (`BuiltInv`); that the head of a waiting cycle is on the
path (`SlotInv`); and that a cause left out for a cycle has left a mark or has one to
come (`WaitInv`). The last is what the single slot for waiting cycles puts in doubt:
a second cycle may take the slot from the first, whose head is then not marked, and
yet some head is. That `HasCycle` misses no cycle is then by contradiction: if nothing
is marked, nothing was left out, so a node of an error on a cycle has the whole cycle
below it, and the error itself, against `NoErrorBelowItself`.

**Sources.** A goroutine that is about to store holds whole lines of
the path it was called with, and one that is about to mark the sources unavailable
has failed for good. `ReadsInv` counts: until a file is cached, each time it was read
is one of the goroutines about to store it; after that nobody joins those who will
read it, so reads done and reads to come are at most the goroutines.

**Identity.** `IdentityInv` says that a definition is its own root or has the root of
the one definition it was derived from, that objects wrap older ones only, and that
what was given to an error is wrapped by it or, after a panic, one error further in.
Nothing is said of `chain`, `found` and `origin`, which change with every object made:
in each state their equations are shown to have solutions, `chain` as the least closed
set with an object, `origin` as the roots themselves, `found` and the loop of
`errors.Join` up to the least object or position for which there would be none.
Then a definition is matched by what has its root (`IsByRoot`), and roots are origins
(`RootsAreOrigins`).

**Rendering.** Frames are a way down the tree (`WayInv`); each node rendered stands
before the place at which the last frame is (`OrderInv`), which gives the order; the
path of a frame is what is on its trail, less what JSON forgot at a defined error
(`PathInv`), and what was forgotten is not met again if cycles are foreign (`OnlyInv`).
A node whose source panics is the last one shown, and no frame is left (`BreakInv`), so
that what lies behind the frames is rendered unless it broke off (`BuiltInv`). The lines
around a frame are a calculation with sums that wrap, split by whether the window begins
before the file or ends behind it or beyond the largest int: a sum beyond it wraps to a
negative end, below any start (`SourceAtExact`), so that the frames that panic are just
those that overflow (`WindowsAreExact`).

**Resolvers.** Compaction keeps the first element that passes a test the first,
whatever the test (`FirstKept`), and leaves a beginning that is already compact as it
is (`PrefixKept`). So the second call of `New` on a slice, which compacts what the
first has already compacted and filled up with nil, disturbs no resolver there is
(`HoldsStill`).

**Reading back.** A frame has read the names it has visited, one after another in any
order, into fields and unknown fields (`FrameOK`); an answer is explained by the data
below its node (`Explained`: internal just if some value below fails, refused just if
the node itself is); and what is built has every field and cause of its node
(`BuiltOK`). A field that is typed was taken by a key of its name, and what an attempt
takes belongs to the type or nearly, split by the kinds of value and type; what belongs
is taken by some attempt, so that it is not left. A node that is built has none that
must fail, whatever key was asked first (`BuiltIsNotFailing`), and causes are built or
fail in turn, which gives the bounds of `InternalExactly` for every order.

**HTTP example.** A request between check and write holds the lock alone (`LockInv`),
so what it checked is still so (`CheckInv`), whoever panics meanwhile; the user it has
allocated is nobody else's until it is stored (`PrivateInv`); a reply is what the
repository decided (`ReplyInv`). A write that was made stays (`WroteInv`): what a step
does to the same user is the write of another request, which was itself checked under
the lock and is on record (`LastsKept`), and a deleted id is not given again. The refinement is one theorem per action: deciding
happens in the step that writes, or that reads, and everything else is a stutter or
tells what was decided. `CountInv` says that an id is never given twice.

### Only model-checked

* Liveness: `Terminates`, `CallsReturn`, `RenderingEnds`, `EveryRequestAnswered`. The
  prover has no rules for progress under fairness.

## 5. Not modelled

Wording and layout of messages, formats and log records; program counters and
frames, which come from the Go runtime; generated code
(`examples/protobuf/error.pb.go`) and the copying between messages and data around
it; the adapters for loggers and services, which are stateless translations. Values
of fields are opaque, so that aliasing inside them (maps given out by `DetailsFrom`)
and `Equal` over different dynamic types are not seen; neither are slices of
arguments and causes that a caller writes to. What `encoding/json` does with a map
or list is a choice of whether it fits. Stacks that were read back are carried along
and not looked at. The HTTP server itself, its timeouts for reading and writing, and
lost connections are `net/http`'s; `FindByEmail` has no caller.

## 6. Plan

Done: every component of section 1 but the adapters, and the proofs of section 4.

Left: the values of fields, that is `Equal` over dynamic types and what is shared by
reference (`field.go:187`, `options.go:114`, `error.go:135`, `definition.go:174`).
