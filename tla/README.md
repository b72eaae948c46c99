# Polyloft BVM: verification models

TLA+ models of the Polyloft compiler and bytecode virtual machine (Go, `src/`), along
the way a program takes: the parser; the checker's types and what the compiler makes of
classes; the code of statements and expressions; the bytes of instructions and of class
files; the module loader; and the virtual machine with its frames, variables, pool,
futures, channels, isolated tasks and UI tasks. TLC checks every model on small
instances; TLAPS proves, for every instance, the types and all safety invariants of futures,
channels, UI tasks, isolated tasks, local variables, the instance pool, frames, the module
loader and the writing of bytecode, and two refinements.

To check a model: `tlc -config MCConcurrent.cfg MCConcurrent.tla`, and likewise for the
other configurations. To check the proofs: `tlapm FuturesProofs.tla`, and likewise for the
other modules whose name ends in `Proofs`. `PROJECT.json` maps every definition to the lines it
models and lists runs, mutants (a plausible bug that each property catches),
hazards, findings and theorems.

## The system

A program runs through lexer, parser, module loader, semantic checker, compiler
and VM. Everything up to the VM is sequential; the VM runs one program on one
goroutine, except for what `polyloft.concurrent`, the HTTP server and the UI
start.

| component | state | operations | what is hard | what makes it correct |
|---|---|---|---|---|
| futures and threads (`runtime/concurrent_module.go`) | `futureHandle`: completed, cancelled, result, err, done; `threadHandle`: started | complete, fail, cancel, await, start, join; then, catch, finally | goroutines racing for one handle; timeouts; chains of callbacks | settled once; everybody is told the same; failures travel; waits end |
| channels (same file) | closed, a Go channel | send, receive, close | close between the check and the send; parked callers | a FIFO queue that loses nothing; nobody is stranded |
| UI (`runtime/ui_module.go`) | tasks, the loop, the event channel; windows and nodes | post, cancel, run on the UI thread, start and stop the loop, dispatch, emit | batches taken and put back under two locks; a loop stopped in a tick; callbacks that come back | a task runs once or is cancelled, and gets its turn |
| VM isolation (`vm/vm.go`, `value/deepcopy.go`) | `globals`, handles, static fields | `CallClosureIsolated`, `DeepCopy` on the way in and out of handles and channels | which objects two VMs can both reach | tasks share no mutable state but the exceptions the code makes |
| VM locals (`vm/vm.go`) | `locals`, `localRefs`, `stringBuffers`, `hasCells` | get, set, fused arithmetic, append, capture | a variable in three places; slots reused; fused opcodes that skip the abstraction | the frame and its closures agree |
| VM instance pool | `instancePools`, `Frozen` | acquire, recycle | aliases the search does not see | only garbage is recycled |
| VM frames | `frames`, `framePool`, `sp`, handlers, nested loops | call, return, push/pop handler, throw, call back | an error crossing loops, frames and half-evaluated expressions | stack, handlers and pool stay in step; the innermost try catches |
| VM execution | stack, frames, cells, global slots, handlers | one per opcode | the compiler's assumptions must hold when the code runs | every statement leaves the stack as it was |
| VM types and calls | method tables, slots, overloads | type tests, casts, calls by slot, name, super; constructors | types taken apart as text; slots of one class used on another | a call runs the method the declarations name |
| VM values and collections | none | arithmetic, equality, hash, index, slice, iterate | overflow, equal values with different hashes | laws of the operators |
| module loader (`modules/*.go`) | `Cache`, `Loading`, a registry per load | prepare, load, bind, bundle | cycles, diamonds, failures half way; whose names a function sees | each module once, after its imports (in a bundle: in the archive's order); visibility kept |
| bytecode emission (`compiler/compiler.go`, `bytecode/chunk.go`) | the bytes, last opcode, constants | emit, jump, patch, loop, three peepholes | rewrites of bytes that others have offset into; operands that look like opcodes | the bytes decode to what was meant |
| compiler (`compiler/compiler.go`) | scopes, slots, upvalues, constants, types, captured globals, classes | one per syntax node | names known by name alone; slots reused; instructions fused on guessed types; methods numbered across classes | code means what the source means |
| semantic checker (`sema/*.go`) | scopes, types | one per syntax node | assignability by name, declaration and members; recursion through members | what it accepts, the VM accepts; values fit their types; it ends |
| parser (`parser/parser.go`) | cursor, `allowRangeShortcut` | one per production | casts, generic calls, lambdas and indices told apart by reading ahead; suites that end where others go on | nothing dropped; trees read back |
| class files (`classfile/*`, `main.go`) | constant pool, the file | write, read, compile a target | indices into a pool made from unordered maps; a file cut short | round trip; a torn file is refused |
| HTTP, I/O, time, math, crypto, json, sys | none | wrappers of Go's library | callbacks from other goroutines | `callbackMu` |
| lexer, runtime registry, JIT, command line, diagnostics, stdlib sources | - | - | - | - |

Components meet in five places. The parser's trees are what checker and compiler walk.
The compiler's slots, handlers, jumps and class tables are what the VM executes, either
at once or by way of a class file. The VM's opcodes call builtins, and builtins call
closures back in a nested interpreter loop (`callValue`, `invokeInstanceMethod`), or
under `callbackMu` from another goroutine. The concurrent module runs closures on
isolated copies of the VM through `GlobalVMProxy`. The loader compiles and runs modules
to fill the registry that checker and VM read.

## Modules

| module | models | run |
|---|---|---|
| `Promise` | what a future promises (abstract) | - |
| `Futures` | `futureHandle`, `threadHandle` and the goroutines of then, catch, finally; implements `Promise` | `concurrent` |
| `UiTasks` | the UI's task queue, loops, events and `callbackMu` | `concurrent` |
| `FuturesProofs` | proofs about `Futures`, and about `MCConcurrent`, which holds it and `UiTasks` | - |
| `UiTasksProofs` | proofs about `UiTasks` | - |
| `Fifo` | what a channel promises (abstract) | - |
| `Channels` | `channelHandle` over a Go channel; implements `Fifo` | `runtime` |
| `ChannelsProofs` | proofs about `Channels` | - |
| `Isolation` | what VMs and handles copy of each other | `runtime` |
| `LocalCells` | the local variables of a frame | `runtime` |
| `InstancePool` | `acquireInstance` and `tryRecycleLocal` | `runtime`, `recycle` |
| `InstancePoolProofs` | proofs about `InstancePool` | - |
| `Frames` | calls, returns, exceptions, nested loops | `runtime`, `stale_handler` |
| `FramesProofs` | proofs about `Frames` | - |
| `RuntimeProofs` | proofs about `LocalCells` and `Isolation`, and about `MCRuntime`, which holds them and three other parts | - |
| `Loader` | modules: loading, binding, executing, bundling | `loader`, `linkage` |
| `LoaderProofs` | proofs about `Loader` | - |
| `Emitter` | the bytes of instructions and jumps, and the peepholes | `formats` |
| `EmitterProofs` | proofs about `Emitter` | - |
| `Wire`, `ClassPool`, `ClassWriter`, `ClassReader` | the cells of a class file, its constant pool, writing it, reading it | - |
| `CompiledModule` | compiling to a target, with crashes, and running it | `formats` |
| `Grammar`, `SourceGrammar`, `Parser` | the forms of a recursive descent, the productions, the cursor with its look-aheads | - |
| `Printer` | how a tree is written down, and which trees can be told from their text (abstract) | - |
| `ReadText` | texts and trees given to the parser | `formats` |
| `RuntimeTypes` | type names, `matchesType` and casts, choice of overloads | - |
| `Types` | the checker's types and assignability | - |
| `Classes` | `compileClass` and the calls of methods and constructors | - |
| `TypedPrograms` | checker, compiler and VM over the same small programs | `typed`, `returning`, `plan` |
| `Syntax` | the part of the syntax tree that is compiled, and its values | - |
| `Compiler` | from syntax to instructions | - |
| `Meaning` | what a program means, without slots or instructions (abstract) | - |
| `Machine` | the VM that runs what `Compiler` yields, beside `Meaning` | `programs`, `scoping` |
| `Programs` | shorthands for writing programs down | - |

Each `MC...` module instantiates some of them for TLC. `MCConcurrent`, `MCRuntime` and
`MCFormats` hold several components that share no state: a behaviour chooses one of them
at its beginning and leaves the others where they began, so that each is explored whole.
(`MCParser` has the seeds and alphabets of the part of `MCFormats` that reads texts.)

### Concurrency

**Futures.** `completed`, `cancelled`, `result`, `err` and `started` are the Go
fields. A handle that owns a goroutine owns exactly one, so `pc[f]` is where that
goroutine is: awaiting its parent, in its closure, about to deliver. `resolve`
runs under the handle's mutex and is one step, and so is the read at the end of
`await`; what lies between (start's unlock and its `go`, a wake-up and the
closure, the closure and the delivery) is a step of its own. A closure may return
any value, fail, or never return. `answers`, `wins`, `owned` and `calls` are
history. `isDone` and `isAlive` read and are left out.

**Channels.** `Check` is `send` up to its unlock, the `Send...` actions are the Go
channel's side of `ch <- v`; the Go channel (buffer, parked goroutines, panic) is
external and modelled by its language definition. A panic ends the process.

**UiTasks.** What runs under `app.mu` is one step, so `runOnUIThread` is two: it takes
the whole queue, and it puts the rest back. Each runner (a thread, or the goroutine of a
loop) has a stack of activations, because a callback may run tasks or dispatch again; it
then waits for the lock it holds itself, as `callbackMu` is not re-entrant. Every task
reports to the event channel, which has room for `Room` messages and parks the runner
when it is full. A stopped loop may tick once more, since `select` takes either case.
`runs` and `withdrawn` are history.

**Isolation.** An object stands for a whole graph of objects: `DeepCopy` copies a graph
by itself, and its copies share nothing with it. `CallClosureIsolated` copies the globals
of the main VM one at a time, then the closure; between these steps the main VM goes on.
Handles and channels copy what they take in and what they give out. Two things reach
every VM as they are, the static fields of classes and objects that are thrown out of a
task; `published` remembers them, and `NothingShared` is about all others. Nothing is said
of what a Go data race inside a copy yields. A task that is started by a task copies the
globals of the main VM, not of the VM that starts it.

### The virtual machine

**LocalCells.** One frame. A value is a number that every operation changes;
`truth` is what the program last gave the variable. `tainted` marks a variable
whose cell or accumulator an opcode has gone past since its last assignment; the
invariants are about the others. What taints is a fused addition that reads or writes
`locals` although the variable has a cell or an accumulator, an append to a captured
string, an assignment by a closure while the frame has an accumulator, and a loop
variable in a slot whose last owner left either behind. The run `scoping` shows the
first from source to result.

**InstancePool.** References, not fields: which slot, stack entry, caller's frame
or heap object refers to which instance. `escaped` and `reassigned` mark the
instances for which the search for aliases is known to be insufficient. Such an
instance may be in the pool twice and be handed out twice, so it counts as new only when
no entry of it is left.

**Frames.** Programs are left out: the active frame may execute any opcode that
could stand where the compiler knows its expression stack (`depth`) and its open
tries (`open`) to be what they are. `sp` and `handlers` are what the VM made of
it. A nested loop is started by a builtin that calls a closure (`callValue`, which
cleans up after an error and whose caller raises it again), by a builtin that
calls a method (`invokeInstanceMethod`: no cleaning up, raised again) or by an
operator that does (not even raised again).

### Modules and files

**Loader.** Go's recursion is a stack of activations: `stack` holds one for the
entry program and one per `loadModule` (or `initStdlibModule`) under way, each
with the registry it fills; `calling` is an argument on its way down and `reply` a
result on its way up, so that every call, return, binding and error is a step.
`program` is what the sources say, as far as the loader looks at it, `verdict` what
their import graph says of cycles and failures, computed without the loader; what a module
reaches is the least set that has its imports and theirs. A
`registry` maps a name to the module it is from. The search for a path in the file
system, namespaces and type specs are left out.

**Emitter.** Here the chunk is the bytes it is, because the peepholes read bytes:
what they take for an opcode may be an operand. `meant` is a listing kept beside it: for
each instruction of the VM where it starts, what it was to do as plain instructions, and, of
a jump, the entry it is to lead to. When a peephole puts one instruction in the place of
several, their entries are joined, so nothing that was to be done is ever lost from it.
`DecodesAsMeant` takes the bytes apart as the VM does and compares, a fused jump standing for
the plain instructions it does the work of. It has two conditions. `Fits`: slots are bytes,
constants and distances words, and nothing in the compiler checks that. `~misread`, a history
variable: `peepholeLocalLocalCmp` looks at the fifth byte from the end without knowing whether
an instruction starts there, and `peepholeArrayFieldCmp` at the seventh. In `x + c < y`, where
`c` is the eighth constant of the chunk, the fifth is the operand 7, the number of `GET_LOCAL`,
and the rewrite drops the addition.

**Wire, ClassPool, ClassWriter, ClassReader, CompiledModule.** A class file is a sequence
of cells, each with its width, so that a reader who asks for another width has lost its
place; strings and runs of code are one cell each. A layout is data (`Row`, `ListOf`,
`MapOf`), and each record is laid out twice, once as `writeModuleClassFile` puts its
fields down and once as `readModuleClassFile` takes them. The graph of functions and
classes is walked in any of several orders, for Go's maps. `compileTarget` opens the target
first, which empties it, and the cells arrive one by one; it may stop between any two
(a crash, a full disk), another source may be compiled to the same target, and another
process may run the file at any moment. `Kept` names what a class file has no room for.

### Parsing

**Grammar, SourceGrammar, Parser.** `Grammar` has the forms a recursive-descent parser is made
of (a token, an alternative chosen by what comes next, a loop, a list, a fold, a rule, an
attempt that is given up), as data. `SourceGrammar` is `parser.go`, one definition for each
production. `Parser` is the cursor: how a form reads tokens, the look-aheads that go
further than two tokens (`isCastStart`, generic calls, lambdas), the switch
`allowRangeShortcut`, and what is refused for another reason than its next token.

**Printer, ReadText.** `Printer` writes a tree with as few brackets and newlines as the
language allows; `Readable` says which trees are what they look like, from levels of
operators, without the parser. `ReadText` feeds the parser two kinds of texts: all
sequences of tokens over small alphabets, and printed programs that grow from a seed by
putting constructs around it.

### Types, classes, code

**RuntimeTypes, Types, Classes, TypedPrograms.** `Types` are `sema/types.go` and the
assignability of `checker.go`; `RuntimeTypes` is what the VM does with the type names that
reach it as text; `Classes` is what `compileClass` makes of a declaration (fields and slots
numbered so that a number means the same in every subclass, overloads copied down and
replaced, constructors that become a plan) and which function each kind of call runs.
`TypedPrograms` puts them side by side: an expression is the type the checker gives it, the
type name the compiler infers, and the value the VM holds. Its programs declare a line of
classes one by one and either make one call, or send a value on a journey through
bindings, casts, arrays, loops, indices and calls, each taken when the checker accepts it.

**Compiler, Meaning, Machine.** `Compile(program)` follows `compileStmt` and
`compileExpr`: a record holds what the Go struct holds, and there is an operator for
each node and helper. Instructions are tuples with positions instead of distances,
so that `Emitter` and `Compiler` divide the work. `Meaning(program)` is the
reference: an evaluator over environments and cells, written from the documentation
of the language and the tests, not from the compiler. `Machine` runs the compiled
functions, one instruction a step, with the frames, cells, global slots and
handlers of `vm.go`; opcodes that differ only in their operator or in the fusing of
their operands share an action. Left out are classes, strings, collections,
destructuring and iteration over collections.

The modules of the last two groups and the class files compute on data of any depth and use
RECURSIVE operators, so they are for TLC only.

## Runs

| run | bounds | why they are enough |
|---|---|---|
| `concurrent`, futures | 3 handles, 2 callers, 4 calls | a chain of two continuations or two continuations of one future; every race of two calls; one more call to observe |
| `concurrent`, ui | a thread, 2 loops, 2 priorities, slices of 1, room for 1 event, 4 beginnings (3 tasks and a loop, or 2 tasks and 2 loops) | a rest put back while another runner comes by; a loop stopped in a tick and its successor; a full event channel; a callback that comes back |
| `runtime`, locals | 2 slots, values 0..2 | a captured variable and an uncaptured neighbour; old, added and new value differ |
| `runtime`, pool | 2 instances, 2 slots, 2 frames, 2 stack entries, pool of 2 | every alias in a frame and across a call; an instance that is pooled twice; a full pool |
| `runtime`, frames | 3 frames, 3 loops, 2 handlers a frame, 2 operands a frame, stack of 3 | catcher, thrower and a frame between; nested loops; a pending operand under a call |
| `runtime`, channels | 3 callers, 2 sends each, capacities 0 (asked for as -1), 1, 2 | two on one side and one on the other; an order of two messages in a full buffer |
| `runtime`, isolation | the main VM, 2 tasks, 4 objects | a task that starts or feeds another; every holder with an object while a copy is on its way |
| `loader` | 3 files, 2 library modules, 2 imports each, 1 name | self-imports, cycles of two and three, diamonds; a failing module under two importers; a name passed on once, within and across directories |
| `formats`, code | functions of two conditions after 4 statements; left sides local, sum, method, field; up to one `!` | an `if` in a loop and after one, with `else` and `let`; constants and locals with the numbers around 7 |
| `formats`, files | two modules, maps in two orders, uint16 of 64 values, every length of file | closures, repeated constants and a function in its own constants; classes that refer to each other both ways |
| `formats`, text | texts of up to 5 tokens over 6 alphabets; programs of 3 constructs around each other | the shortest texts with a cast, a generic call, a lambda or a dangling suite; an operator between two others |
| `typed` | a line of 3 classes, the first in 6 forms and the others in up to 15, all calls; journeys of 4 steps over 21 types and 5 classes | a method overridden, overloaded and inherited across two generations; a value put into a container, taken out and used |
| `programs` | 2,612 programs: 17 acts in each of 12 contexts in each of 7, as a script and in a function | every statement of the subset inside every other, each loop entered 0 to 4 times |

Symmetry is not used. Deadlock is not checked where the program may simply end, or
wait for ever as the code lets it; `formats`, `programs`, `recycle` and `scoping` check it.

`programs` leaves out what is known not to be compiled as it is meant to be (the
header of `MCMachine` lists it): `MeaningKept` fails on such programs, and three of
them are the run `scoping`. The others were found in the same way while the family
was chosen. A parameter with the name of a script's constant means the constant,
because `resolveInlineConst` looks names up in one table (`compiler.go:3222`); a
compound assignment to a captured or global variable evaluates its value twice and
leaves one of the two on the stack (`compiler.go:331` and `351`); a `break` out of a
`try` keeps its handler (the run `stale_handler`).

What they show, beyond typing:

- `concurrent`: of futures, `AnswersAgree`, `OneWinner` (a `true` from cancel or complete is
  final), `ClosureDiscipline` (a task runs at most once, a then-closure only after
  a success), `ChainOutcome`, `ImplementsPromise`, and under fairness
  `FailureTravels` and `GetComesBack`. Of UI tasks, `TasksAccountedFor` (a task is in one
  place: queued, in one batch, called once, or cancelled) and `TurnComes`.
- `runtime`: `OwnerAndClosuresAgree` and `FlagSound` of local variables;
  `LocalInstancesRecycledSafely` and `FrozenStaysFrozen` of the pool; `CatchIsInnermost`,
  `StackBalanced` and `FramesAccountedFor` of frames; `NothingLost`, `NobodyStranded` (which
  says too that the panic on a closed channel needs a send that overlaps the close) and
  `ImplementsFifo` of channels; `NothingShared` of isolated tasks.
- `loader`: `RunsOnceInOrder` (from source, after its imports: `LoadOrder`; from a bundle, in the
  order of the archive: `BundleOrder`, see below), `VerdictMatchesGraph` (a cycle
  is reported only where there is one, and success means a sound graph),
  `VisibilityKept` (what imports bind, through re-exports too), and `EveryLoadEnds`.
- `formats`: of texts, `NothingDropped` (every token of an accepted text is in its tree, once
  and in its place) and `ReadsBack`; of code, `DecodesAsMeant`; of class files, `RoundTrip`
  (the two modules of the run, in any order of Go's maps, but for what `Kept` says is lost)
  and `TornFileRefused`.
- `typed`: `FitsItsType`, `NothingRefused`, `OverridesReplace`, `SuperGoesUp`,
  `SlotMeansName`, `PlanOfStoresMeansBody` (a constructor made into a plan leaves the fields its
  body would; for constructors that only store, the others are the run `plan`).
- `programs`: `MeaningKept` (what is printed, in that order, and how the program
  ends), `EmptyBetweenStatements` (no path leaves an operand behind or takes one
  too many) and `EveryProgramEnds`.

Six runs end in a violation, of a sentence of the documentation or a comment, which
`PROJECT.json` quotes: `x = x` recycles a live instance (`recycle`); a handler survives a
`break` or `continue` out of its try (`stale_handler`); an imported function reads the
globals of its importer (`linkage`); a closure does not see the variable of its own scope
(`scoping`): the variable of a later block is written to the cell of an earlier one
that had its slot, a function declared in a function is called without its
closure, and `a += a` adds past the cell; the checker compares two classes whose
methods return their own type for ever (`returning`); and a constructor whose one statement is
`this.f += p` becomes a plan that stores `p` over the field's default (`plan`). `InitialValuesKept` of `CompiledModule`
would fail as well, as an invariant of `MCFormats.cfg`: a class that went through a class
file has lost the defaults of its fields and the values of its static ones. No sentence of the
repository says otherwise, so it is no run.

**Fairness.** `Loader` and `Machine` are sequential code that goes on until it
returns, so they have weak fairness of their whole next-state relation. In `Futures` a
caller whose wait is over, a timer that was set, and a goroutine that can wake up or
deliver eventually do, which is what Go's scheduler and timers provide. In `UiTasks` a
runner's own steps have strong fairness: they compete for `callbackMu` (a `sync.Mutex`,
which hands itself to whoever has waited a millisecond), for the event channel (first
come, first served) and for the ticker. Nothing is assumed of the program: that it makes
a call, completes a future, or that a closure or callback returns. `TurnComes` therefore
says under which conditions it holds: the lock is free again and again, and the event
channel is not full for ever. That tasks of a higher priority do not come for ever is a
bound of the model.

## Proofs

For every set of handles, callers, values and errors (`FuturesProofs`; the only
assumption is that the sentinels `NoFuture` and `NoError` are none of the others):

- `TypeCorrect`. `TypeOK` is not inductive: a goroutine could await a handle that
  does not exist, or deliver nothing. `Wired` adds what is missing (an awaiting
  goroutine has a parent, a delivering one an outcome, a finally in its closure an
  outcome to keep, and only threads are being started); `TypeOK /\ Wired` is
  inductive, with one lemma for each half and one step per action.
- `Effects`: every step resolves one handle with a proper outcome, tells somebody
  the outcome of a settled handle, or touches neither. `ResolveSettles` says what
  the first does. The other theorems need no more of the actions than these two.
- `AnswersAlwaysAgree` from `Told` (whatever anybody was told of a handle it still
  answers), `AlwaysOneWinner` directly, and `FuturesImplementPromise`: under the
  mapping `Settled` each step is `Settle`, `Answer` or a stutter.

- `ClosuresDisciplined` and `ChainsPassOn` from `Lives` (what the goroutine of a handle has
  done, given where it is, and that one call of start at most is about to make it) and
  `PassedOn` (what a continuation heard is what its parent answers, its closure was entered
  only for that, and what it delivered is what its handle ended with).

For every set of callers, any capacities and any number of messages (`ChannelsProofs`, from
`BoundsAssumption`):

- `Queued` (each parked caller is in one queue, once, and has a message to send) and `Served`
  (the buffer is within its bounds, callers wait only for what is not there, and whoever may
  still send after a close was past the check before it) are inductive with `TypeOK`;
  `ParkedAreServed` is what they say of `NobodyStranded`.
- `Effects`: what a step does to the messages is one of six moves. `MessagesKept` follows from
  these moves alone, with `Kept` (accepted is handed over followed by buffered), and so does
  `Fifos`, the refinement: each move is a step of the queue or a stutter.

For every set of tasks and number of objects (`RuntimeProofs`, from `IsolationAssumption`): the
places an object can be in are the VMs, the closures and results of handles, and the channel's
buffer. `Exclusive` (an object that was not published is in one of them) and `Known` (what is
given out as it is was published) are inductive with `TypeOK`: every step puts one new object
in one place (`NewObject`), or published ones in any (`OldObjects`). `IsolationHolds` counts.
These lemmas are about the instance of `Isolation` in `MCRuntime`.

For any number of instances, slots, frames and pool entries (`InstancePoolProofs`, from
`PoolAssumption`): `Local` (an untainted instance is in one frame, and on the expression stack only
when that frame is the active one), `Made` (nothing is anywhere before it is allocated) and
`Recycled` (in the pool once and nowhere else) are inductive with `TypeOK`. They give
`LocalInstances` and `StayFrozen`. This is why a search of one frame is enough for the
instances that never left it.

For every set of slots and bound on values (`RuntimeProofs`, its first part): `TypeCorrect`,
`FlagIsSound` and `ClosuresAgree`. `OwnerAndClosuresAgree` is not inductive: it
speaks of what a read returns, not of where the value is. `PlacesInv` adds `InStep`
(the accumulator, the cell and, without either, the slot of an untainted variable
hold its value) and `FlagSound`, and implies both.

For any limits on frames, loops, handlers and operands (`FramesProofs`, from
`FramesAssumption`): `InnermostCatches`, `StackStaysBalanced`, `NoFrameLost`. What the three
say of one moment needs to be known of every frame that waits, so `IInv` is about the whole
stack of frames and the whole stack of loops:

- `FrameFine`: a frame that no jump has left a try of has exactly the handlers of its open
  tries, each with the tries around it; after a jump there are more handlers than tries,
  never fewer, so an open try always has one.
- `Stacked`: the operands of a frame lie below those of the frame it called. `Nested`: loops
  begin one above the other and remember at least the operands of the frame they were called
  from. `Balanced` adds `sp` while code runs.
- `Exact` and `Layered`: nothing lies between the operands of two frames, and a frame below a
  loop was entered in a loop around it. These two stop being true once an operator has
  resumed a frame in a loop that had not called it, and what still holds then
  (`Stacked`, and `sp` at or above the operands) is all that the properties say of that case.
- `OnceOnly`: frames in use and in the pool are all different, and there are as many as were
  made. `Closures`: which frames `callValue` may clean up.

`Greatest` picks the handler that catches: `GreatestOf` and the lemmas after it show that the
highest frame with a handler is the highest one with an open try, unless one was jumped out of.

For any modules, programs and imports (`LoaderProofs`): `RunsOnce`, `ReadyIsSound` and
`NamesStayHidden`, from `LoaderAssumption`. It says that a library module imports library modules
only and does not fail, which is so because they are part of the program's binary; a
project's modules may import and do anything. `IInv` follows the recursion of Go on its stack:

- `Descends`: what is above an activation is reachable from it. So a module found in
  `l.Loading` reaches itself, and the error that is reported is a cycle of the graph.
- `LoadsUnderWay`: `l.Loading` is the stack, and no module is on it twice or in the cache; with
  `CacheSound` (what is in the cache was executed and has its imports in the cache, and the
  graph has no fault under it), nothing is executed twice. `ImportsDone` says that what an
  activation has gone past is in the cache, which gives the order.
- `ExportsVisible` carries the visibility of a declaration through any chain of indexes.
- `ArchiveRead` (what is readable of an archive gets into the cache) and `ArchiveRun` (the files to
  come are the last of the archive, and what has executed is what is readable of the others) say
  for bundles how far the loops of `PrepareFromBundle` are, which gives `BundleOrder`.
- `Calls`, `Phases`, `InitsUnderWay` and `FilesToCome` tie arguments and results on their way to
  who waits for them, and say the same of `initStdlibModule` and the files of a bundle.

That a cached module is sound is an induction over the import graph. It is avoided: `Reachable`
is the least closed set, so it is enough that the cache is closed and has no fault in it.

For any threads, loops, priorities, slices and room (`UiTasksProofs`, from `UiAssumption`):
`TasksAccounted`. `TasksAccountedFor` is not inductive: that a task is in one place does not say
that a batch to be cut is longer than its limit, or has no `app_dispatch` in it. `Placed` says in
terms of four arguments (the queue, what is ahead of each activation, the calls, the
cancellations) that they have no task in common and leave none out; there is one lemma for each
way in which tasks move (`PostPlaces`, `CancelPlaces`, `TakePlaces`, `RequeuePlaces`,
`CallPlaces`, `DispatchPlaces`), whoever moves them, and then one for each action.

For any number of locals, conditions, negations and earlier statements (`EmitterProofs`, from
`EmitterAssumption`): `DecodingIsMeant`. A chunk is `Good` when the entries of its
listing follow one another from the first byte to the last and each is written where it says;
`GoesRight` is about its jumps, and `Pending` about those still to be filled in: the two bytes
to fill are the last of their entry.

- `Extends(v, w)`: `w` is good and goes on from `v`. `EmitGood` says that an instruction extends;
  `TrimGood` and `TrimExtends` that a chunk may be cut where an instruction starts that `v` did
  not have, and still extends `v`. Each operation of the compiler is made of the two.
- `NotFoldGood`, `FieldFused` and `LocalsFused` are the peepholes. From three bytes at which
  instructions do start, `LastThree` finds the three last entries of the listing, which are
  joined. Where a byte was an operand, the step sets `misread`, and nothing is claimed.
- `LeadGood` is `patchJump`: two bytes change, and every entry but one is still written.
- `IInv == Shape /\ (Fits /\ ~misread => Sound)`. A step that begins in a state that does not fit
  shows nothing about `Sound`, so what fits after a step must have fitted before it:
  `FitsBefore`, from `Shape` and `Longer`, which say whatever the operands that chunks, constants
  and locals only grow. A peephole shortens a chunk, but not to below where the condition began.
  TLC checked `IInv` as an invariant of the run before it was proved.

Concatenations of tuples have lemmas of their own (`Two` to `FourInOne`): the prover knows what
their elements are, not that they are equal to a longer tuple.

`MCRuntime` and `MCConcurrent` choose one part of several. `RuntimeProofs` and `FuturesProofs` show
that a behaviour of theirs is one of each part (`...Behaves`) and take the theorems of the parts
over, so that each invariant of the runs `runtime` and `concurrent` is a theorem, `ComponentTypes`
too. The parts that have proof modules are instantiated a second time there, to have their
theorems; `Same...` says that both instances are the same, definition by definition.

Only model-checked: liveness (`FailureTravels`, `GetComesBack`, `TurnComes`,
`EveryLoadEnds`, `EveryProgramEnds`; TLAPS does not do liveness), and what rests on recursion
over syntax, types or cells, which needs induction over data: `MeaningKept`,
`EmptyBetweenStatements`, `RoundTrip`, `TornFileRefused`, `NothingDropped`,
`ReadsBack`, and the six properties of `typed`.

## Where the code goes its own way

Found while modelling, and kept out of the properties' way by a precondition that says so
where it stands, or by the choice of programs. Nothing in the repository contradicts them
clearly enough for a run.

Types (`typed`; `trusted` in `TypedPrograms` and the preconditions of `NothingRefused`):

- The checker lets `nil` pass for an int or a float, which `CAST_INT` refuses (`vm.go:751`);
  it accepts `in` on a tuple or a range (`types.go:817`), and the index of a range by way of
  `Iterable`'s `__get` (`types.go:783`), which the VM does not know (`vm.go:1778` and `1670`);
  `docs/language/builtin-interfaces.md:92-95` lists arrays, maps and strings only.
- An instance of a subclass is not known to implement what only its superclass declares
  (`vm.go:2666`, `compiler.go:2301`). `array<T>` is never tested element by element,
  `tuple<T>` never matches. An integer cast goes through a float64.
- A shorter tuple passes for a longer one, a bare `array`, `map` or `tuple` for a typed one
  (`checker.go:2704-2736`), a number for an int, a class for one with like members,
  and anything out of `any`. What `__get` of a class returns is taken apart once more when it is
  itself an array (`types.go:955`).
- A loop over a range yields floats (`vm.go:1383`) where the checker says int
  (`types.go:964`); `docs/language/types-and-objects.md:42` wants a cast there.
- To a declared interface without members everything that is not callable is assignable
  (`checker.go:2773-2775` and `2797-2811`); the VM's test asks for the declaration.
- A method that is overridden counts as overloaded, for both classes: the checker then
  looks at no arguments of calls by that name.

Calls (`typed`): a call by slot ignores overloads; `InvokeStatic` and `CallBound` fall back
to the number of arguments alone; the computed initialisers of a superclass's fields do not run
for a subclass; a class without constructors runs an inherited one if it inherits two or
more, and none if it inherits one (`compiler.go:2335-2339`, `vm.go:3223`), which
`RunsItsOwnConstructor` states and no run asks. A compound assignment is taken for a plain one when
a constructor is made into a plan (run `plan`), so `PlanOfStoresMeansBody` is about classes whose
own constructors only store; `Compound` names the others.

Parsing (`formats`, the conditions of `Readable`): with a capital `A`, `(A) - x`, `(A, b) - c` and
`(A)(b)` are casts; `a < b > (c)` is a generic call; `x instanceof T < b` is refused; an
`else` or `catch` after a suite that ends in an open inline `if` or `try` belongs to that one.
Annotations on a variable or type at the top level are dropped without a word
(`SkippedAnnotations`; no alphabet of the run has an `@`).

Bytecode (`formats`, the conditions of `DecodesAsMeant`): the peepholes that take an operand for
an opcode (`compiler.go:4690` and `4732`); slots, constants and distances that do not fit are cut
down to their low bytes. A fused jump compares the `Num` of its operands (`vm.go:302-330`)
without a look at their kind, where `LESS_NUM` compares two integers as such (`vm.go:937`):
integers beyond 2^53 that differ may be equal to it. It goes on `>=` where the jump it replaces goes
when `<` is false, so a NaN takes the branch of a condition that does not hold. Numbers are not
modelled, and this is a hazard without a property.

Bundles (`loader`, `BundleOrder`): `PrepareFromBundle` executes the project's modules in the order
of the archive, which is that of their paths, whatever they import, and all of them before the
library's (`loader.go:164-171` and `276-285`). So a module is promised nothing of its imports
when it executes, and top-level code that uses an imported name may fail in a bundle though it runs
from source, where imports come first. In the model that is a file whose fault is `"run"`.
`BundleOrder` says exactly what has executed at each point. The modules of a bundle also
write one map of globals under bare names, private ones included (`loader.go:163-214`,
`vm.go:500`), so two modules that declare a name share what the last one left. `Shared` and
`CallBundled` model it; `VisibilityKept` is about the names that imports bind in a registry of
their own, and does not hold of that map. `ReadsOwnModule` (run `linkage`) fails there as it
does from source.

Class files (`formats`, `Kept` in `CompiledModule`): the defaults of fields, the values of static
ones, `isFinal`, the abstract and record flags and constructor plans are lost; an untyped
parameter comes back as `Void`, `Number` as `Float`; lines and locals are kept modulo 2^16. A
compilation that fails leaves an empty or torn target where a good one may have been
(`main.go:272`).

UI (`concurrent`): between its two locks `runOnUIThread` holds every task, so a cancellation in that
moment is refused for a task that runs later, and tasks of a lower priority may overtake. Its
branch for a missing `GlobalVMProxy` (`ui_module.go:397-400`) is left out: the VM of the program
is put there when it is made, before any of its code runs (`vm.go:91-93`).

## Not modelled, and why

- **Arithmetic, equality, hashing of values.** Pure functions of int64 and float64, which TLC
  has no numbers for; a model with small numbers would not meet their edges.
- **`tryFastMethodCall` and `detectFastMethod`** (`vm.go:2972`): plans taken from the
  bytes of method bodies, which `Classes` leaves out with the bodies. Enums and annotations.
- **Strings, collections, destructuring in `Compiler` and `Machine`**, and their index arithmetic.
  `TypedPrograms` says which operations on them are accepted and what type comes out.
- **The checker's traversal**: scopes, flow of control, switch patterns. Syntax-directed and
  sequential; its rules about types are in `Types`.
- **Lexer, diagnostics, command line, the registry of builtins**: one pass over text, or tables.
- **The UI's windows, nodes and layout**; HTTP, I/O, time, math, crypto, json, sys: wrappers of
  Go's library and of a toolkit.
- **JIT**: the VM does not use it (`vm.go:104-114`).
- **`CallClosure` against `Run`**: a callback from another goroutine takes `callbackMu`, the
  main program does not, so both may be in `executeUntilDepth` of one VM. Every field of the VM is
  then a data race, and any property of `Frames` fails at once.
- **The standard library's sources**: `concurrent/index.pf` is a thin layer over the handles that
  `Futures` and `Channels` model.
