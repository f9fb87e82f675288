# Lullaby: TLA+ models, model checking and proofs

This directory holds formal models of the Lullaby toolchain (the Rust workspace
under `src/`): TLA+ modules translated from the source, TLC configurations that
check them on small instances, and TLAPS proofs of what matters most for every
instance. `PROJECT.json` maps each definition to the source lines it stands for
and lists components, runs, hazards, findings and theorems.

1. [The system](#1-the-system) · 2. [Modules](#2-modules-and-plan) ·
3. [Actor scheduler](#3-the-actor-scheduler) · 4. [Threads](#4-the-threads) ·
5. [Test runner](#5-the-isolated-test-runner) · 6. [Loader](#6-the-module-loader) ·
7. [Optimizer and interpreters](#7-the-optimizer-and-the-interpreters) ·
8. [Frames and pointers](#8-frames-and-raw-pointers) ·
9. [Lifetime check](#9-the-lifetime-check) · 10. [Runs](#10-runs-bounds-fairness) ·
11. [Findings](#11-where-code-and-documents-disagree) · 12. [Proofs](#12-proofs) ·
13. [Not modelled](#13-not-modelled)

## 1. The system

| Component | Source | State it keeps | Operations | What is hard |
|---|---|---|---|---|
| Actor scheduler | `lullaby_runtime/runtime_actor.rs` | actor instances, one FIFO mailbox, reply slots, busy set, running actor, deferred supervision, actors being restarted | spawn, tell, ask, await, join_all, select, pump, drain, supervise | `await` is a nested call of the pump: turns run on top of turns, and may restart, stop or unwind actors lower on the same stack |
| OS threads | `runtime_concurrency.rs`, `runtime_builtins.rs`, `interp_stack.rs` | join slots, channel queues and receiver locks, shared cells | spawn, task_join, async call, await, parallel_map, send, recv, try_recv, mutex and atomic operations | preemption; one handle in several hands; errors and panics crossing threads |
| AST interpreter | `interpreter.rs`, `runtime_eval.rs`, `runtime_env.rs` | call stack, scopes, environments in use, shelved and pooled, heap | evaluation, calls, throw and `try`, `?` | how errors unwind through turns, calls and callbacks; variables moved out of a slot |
| Raw pointers, arenas | `raw_pointer.rs` | frame-tagged regions of addresses, graves, arenas | addr_of, load, store, arena open and alloc | pointers to scopes and frames that are gone or out of reach |
| Module loader | `lullaby_loader` | load stack, set of names being loaded, module table | depth-first import walk, duplicate and visibility checks | cycles and diamonds, one name in two directories, errors in several files |
| Isolated test runner | `lullaby_cli/commands/test_isolate.rs` | last reported test, test in flight, deadline; lines in pipe and channel | start child, read a report line, time out, settle, resume | a timeout racing the child's exit, background processes holding the pipe |
| Semantic checker | `lullaby_semantics` | symbol tables; freed names and alias groups | type a body; follow its copies, frees and sends | what one walk over the text knows of every execution of it |
| IR, optimizer, bytecode VM | `lullaby_ir` | IR module, facts of a pass, frames and operand stack | lower, optimize, compile, run | stale facts in a pass, jumps of nested loops, errors between tiers |
| Native, WASM back ends | `lullaby_ir`, `lullaby_wasm` | none between calls | emit | size; no shared state |
| Lexer, parser, formatter | `lullaby_lexer`, `lullaby_parser` | none | text to tree and back | round trips |
| Diagnostics, CLI, LSP | `lullaby_diagnostics`, `lullaby_cli`, `lullaby_lsp` | open documents (LSP) | render, dispatch | little concurrency |

How they meet: the CLI loads a program (loader → lexer → parser), checks it
(semantics) and hands it to one of three interpreter tiers or to a back end.
Only the AST interpreter runs actors (the IR and bytecode tiers refuse with
L0355, native and WASM skip). All tiers share the join, await and channel code.
Every thread builds its own interpreter, so that heaps and actor tables are
private to a thread; a thread shares only channels, join slots and cells.

What makes each correct:

* **actors** - one turn at a time per actor; each request answered, refused or
  diagnosed, once; a stopped actor stays silent; a restart is not undone by a
  turn that outlives it; every wait ends or is diagnosed, truthfully;
* **threads** - a result is delivered once; an error is not lost by a join;
  joins alone do not deadlock; parallel_map is independent of scheduling;
  channels are FIFO;
* **loader** - each module once, a cycle reported exactly when there is one, and
  no name seen where it is not exported and imported;
* **test runner** - each test reported once, in order, whatever crashes, hangs,
  times out or outlives its test;
* **optimizer, VM** - output, value and error of every run stay the same;
* **lifetime check** - as far as the check follows a name, a use of a freed box is
  reported and no other use is;
* **frames, pointers** - an address reaches the cell it was taken of, as long as
  the variable lives, or is refused; no environment is used twice at once, and no
  value that was moved out is seen missing.

The hazards, each at its line, with the properties aimed at it, are listed in
`PROJECT.json`.

## 2. Modules and plan

| Part | Model | Properties | Instances | Proofs |
|---|---|---|---|---|
| Actors | `Actors`; abstract: `ActorModel` | `ActorsProperties` | `MCActors` | `ActorsStackProofs`, `ActorsTurnProofs`, `ActorsRequestProofs` |
| Threads | `Threads` | `ThreadsProperties` | `MCThreads` | `ThreadsProofs` |
| Test runner | `TestIsolate`; abstract: `SuiteReport` | `TestIsolateProperties` | `MCTestIsolate` | `TestIsolateProofs` |
| Loader | `Loader` | `LoaderProperties` | `MCLoader` | `LoaderProofs` |
| Optimizer, VM | `Ir`, `Optimizer`, `VmCompiler`, `IrInterpreter` | `TiersProperties` | `MCTiers` | - |
| Frames, pointers | `Frames` | `FramesProperties` | `MCFrames` | `FramesProofs` |
| Lifetime check | `Lifetimes` | `LifetimesProperties` | `MCLifetimes` | `LifetimesProofs` |

All seven parts are built and checked, and those with a proof module are proved
about. What could come next, in order of importance:

1. Proofs about the optimizer: a pass over one straight body, which needs facts
   (`Ir`'s walks over trees) that are written without RECURSIVE operators.
2. More of the IR in `Ir` and `IrInterpreter`: `match`, region blocks and places
   (fields, indexes, addresses), which the passes treat as writes.
3. The IR tier's twin of the frames, whose slots are resolved before the run.
4. Workers with their own actor tables (a worker's actors are never drained).

## 3. The actor scheduler

### State

`Actors.tla` keeps the scheduler's own names: `actor_instances`,
`actor_mailbox`, `actor_reply_slots`, `busy_actors`, `pending_supervision`,
`restarting`, `current_actor`. An id is index + 1, and 0 (`Main`) stands for
`current_actor = None`. The `VecDeque` is a set of messages with tickets: the
queue's order is the ticket's. An actor's state is abstracted to the
incarnation it belongs to (0 when `mem::take` has emptied it), which is all that
the properties about restarts tell apart.

`frames` is the Rust stack of nested `run_actor_turn` calls, with the locals
each holds across calls: the state it took out, the `current_actor` it saved,
the futures it waits for, the reply it will publish, the cursor of an
escalation. A frame's `phase` says where it is; only the top one moves.

`incarnation`, `target` and `taken` are history variables, and `throws` counts.

### Actions

User code may do anything a body can: `Spawn`, `Tell`, `Ask`, `Await` (one
future, or the several of a `join_all`), `Select`, `EndTurn`, `Throw`. The
runtime does the rest: `Dispatch`, `AwaitTakes`, `SelectTakes`, `Stall`,
`PublishReply`, the deferred actions at the end of a turn, one action per
branch of `supervise_failure`, and `DrainEnds`. Handles reach other actors in
messages, so who knows whom is a property of the program: `Knows` ranges over
programs.

An actor without an `init` behaves as one whose body is empty. An actor is taken
to have at least one state field (without one, no turn can miss a field). Errors
that mean the checker and the interpreter disagree (L0401, L0402, L0410) are not
modelled. `Throw(k)` is an error caught in frame k: by a `try` there, or for `?`
by any function call there, since a turn does not stop a `?` (only
`invoke_function` does).

### Abstract specification

`ActorModel` is what a user expects: actors with an inbox each, serving one
message at a time, oldest first; a request is queued, served, answered and
consumed, or refused by a stopped actor; restarts and stops happen between
turns. `ActorsProperties!ActorModelSpec` states that the scheduler implements
it. The one concession is `Abandon`: an error that unwinds turns loses their
requests.

### Properties

| Property | Says |
|---|---|
| `SerialTurns` | no actor has two bodies on the stack; the busy set and `current_actor` are what the stack says |
| `RequestsAccounted` | every request has exactly one fate at every moment; only a stopped actor refuses |
| `StoppedIsSilent` | a stopped actor has no turn and no message, and its policy stops |
| `DeferredActionsAgree` | a deferred action waits for a turn that will apply it, and is its policy's |
| `NoStaleState` | a turn never works on, or writes back, the state of an older incarnation |
| `EscalationStopsChain` | every actor an escalation passes is stopped or due to be |
| `QuiescentEnd` | a normal end leaves nothing queued, deferred or unanswered |
| `DiagnosesAreTrue` | L0356, L0359 and L0363 describe the schedule truly |
| `AlwaysEnds` | every run ends or is diagnosed |

Where an error has unwound turns (`throws > 0`) some of these are weaker: that
is the third finding's territory, and the conditions say so.

## 4. The threads

`Threads.tla` models threads that spawn, join, map, send and receive. A Task and
a Future are one thing: a slot with the `JoinHandle` until somebody takes it.
`knows` is the set of handles a thread can reach: those among its arguments,
those of the threads it started, and those in values it awaited. `phase` says
where in the runtime a thread is; `lock` and `recv` are apart because the
receiver's mutex is held across the blocking `recv`. `parallel_map`'s joining loop
(`map`) and the wait of `thread::scope` for the handles the loop dropped (`scope`)
are apart because the loop stops at the first error; a dropped worker that
panicked makes the scope itself panic (`DroppedPanicked`). A thread that cannot
be started panics its caller (`SpawnPanics`, `MapPanics`). The process ends with
main, whatever other threads do.

A thread ends with `ok`, `throw` (L0420, which `try` catches), `fault` (any other
error) or `panic` (which its joiner sees as L0401, a fault).

Every channel of the program exists from the start (`chan_new` makes an empty
queue and a free lock) and any thread may use it. The std library's channel and
lock are modelled by what the code relies on: a FIFO queue, a mutex with no
fairness.

| Property | Says |
|---|---|
| `JoinsWellFounded` | among any threads, one can reach none of the others: waiting in a circle is impossible |
| `HandleTakenOnce` | a handle is in its slot or was given to exactly one joiner |
| `FaultsSurface` | a thread that ended normally waited for no thread that faulted |
| `MapIsOrdered` | parallel_map's error is the first in input order; nobody outlives the scope |
| `ChannelsAreFifo` | received then queued is what was sent, in order; one receiver at a time |
| `ValuesReachReceivers` | a value sent is received while somebody waits |
| `AlwaysEnds` | programs that only join and map end |

## 5. The isolated test runner

`lullaby test` runs the suite in child processes. `TestIsolate.tla` has a parent
(`run_isolated`, `run_batch`), the child of the current batch, the thread that
reads its pipe into a channel, and a background process a test may have left.

* The **child** compiles the file again (`Compile`: it may find another number of
  tests than the parent, `SuiteSizes`), writes `start` and a result for each test
  and a final `done`; it may die wherever a test runs or has left threads behind,
  hang in a test, or end before the first one (`FailEarly`).
* The **reader** moves one line at a time. It sees the end of the pipe when nobody
  can write to it any more; a background process can, unless the child has taken
  the channel out of its stdin before any test ran (`SlotAfterTake`).
* The **parent** hears lines, judges tests, and settles the test in flight when
  the channel is disconnected (`Disconnected`), when the deadline passes and the
  child is found dead (`LateAndDead`) or is killed (`LateAndKilled`). `Reap` fails
  the first test of a batch that made no progress. A new batch has a new pipe
  and a new channel; what was still in the old ones is lost.

A deadline may pass whenever the parent waits on an empty channel: time is not
modelled, a step of the child may take any. Whether there is a limit at all
(`--timeout 0`) is chosen at the start.

`SuiteReport` is what a user is promised: one verdict per test, in order, no end
before the last, or an error if no child can be started. `SuiteSpec` states that
the runner implements it.

| Property | Says |
|---|---|
| `ReportInvariant` | what the parent has heard, what channel and pipe hold and what the child has written are consecutive lines of one list (proved; no run) |
| `SuiteSpec` | the refinement of `SuiteReport` |
| `VerdictsAreTrue` | a pass or a fail is printed only for a test that returned so in the child being listened to; a test is called crashed only when its process is dead and, if no limit is set, had not reported it |
| `NeverRerun` | a test that has a verdict is not started again |
| `AlwaysEnds` | the command ends, unless a test hangs and there is no limit |

The condition on limits in `VerdictsAreTrue` is the code's: when a deadline passes
and the child has just died, lines it wrote may still be in the pipe; they are
not read, and the test in flight is called crashed though it may have passed.

## 6. The module loader

`Loader.tla` is `load_program` and `load_library_project`: `roots` are the files
`load_module` is called with from outside, `call` the file it is being called
with, `stack` its activations with the imports each has left, `modules` and
`visiting` the loader's own. A file is a directory and a name; what it says is
kept as far as the loader looks: readable, parsable, imports, names declared,
exported and used. A use is a `call`, for every place the collectors look at, or a
`value`, for those they do not. `left` is history.

| Property | Says |
|---|---|
| `LoadingInvariant` | `visiting` is the stack, no module is loaded twice, each module on the stack is imported by the one below (proved; no run) |
| `ImportsLeftFirst` | what passes has no import cycle: modules are left after all they import |
| `AcceptedIsVisible` | an accepted program has no name twice, and modules use only names they declare or import |
| `VerdictIsExact` | the result is what a declarative definition says: missing and broken files, cycles, names |
| `Terminates` | the load ends |

`VerdictIsExact` is stated for projects in which a name stands for one file, in a
directory that is searched (`Plain`); the other properties for all. Outside
`Plain` the code does what section 11 lists.

## 7. The optimizer and the interpreters

`Ir.tla` has programs as trees: integers of a small width, variables, operators,
calls; `let`, assignment, `return`, `if`, `while`, `for`, `loop`, `break`,
`continue`, `throw` and `try`. `Optimizer.tla` is a machine whose state is the
program and the passes still to come, one action per pass: inlining, constant
folding, common subexpressions, loop-invariant motion, copy propagation, dead
code. `VmCompiler.tla` compiles a function to instructions and jumps.
`IrInterpreter.tla` runs programs, in either tier: the tree walk, or (`useVm`)
the VM for functions that compile and the walk for the others (those with
`throw` or `try`), which call each other. A run is its output, value and error;
`Fuel` bounds loop turns.

| Property | Says |
|---|---|
| `PassesKeepMeaning` | each pass keeps output, value and error for every argument, unless: a `let` reads the name it declares (common subexpressions), a loop variable hides another variable (loop-invariant motion), the condition of a `while` is rewritten (copy propagation) |
| `TiersAgree` | the VM does what the walk does, before, between and after passes, unless a `for` shares its counter |
| `TypeOK` | reads and assignments stay in scope |

The exceptions are shapes of programs for which the code does *not* keep the
meaning: drop one, and TLC shows a program. Section 10 lists them.

## 8. Frames and raw pointers

`Frames.tla` is the AST interpreter between two expressions: which frames are
active, which environment each has, and what addresses mean. A frame runs its
`body`, has made a `call`, is in a `builtin` that calls back (with the variable it
moved out), or in an `await`, in which turns run. Functions take an environment
from `env_pool` and give it back on a normal return only; closures and turns make
their own. When an address has been taken (`shelf_needed`), a caller's environment
is on `env_shelf` while it waits, and a hollow one stands in its place: the
swap, its undoing and what errors do to both are the actions' own steps. `raised`
is an error on its way up, one frame a step.

An environment is scopes with ids and bindings by entry number, as in
`runtime_env.rs`, where a slot is all an address knows of a variable. `born`, which
no code looks at, numbers the bindings, so that "the same variable" has a
meaning: `taken` records of which binding and cell each address was handed out.
Values are left out, but for the placeholder of a move (`hole`). A `Store` that
changes only a value is no step.

| Property | Says |
|---|---|
| `ShelfIsPaired` | the shelf holds, in order, the environments of the frames that shelved; each frame gets its own back; none serves two frames or is in the pool meanwhile |
| `DerefIsHonest` | an address reaches the cell it was taken of, or is refused |
| `PointersFollowLifetimes` | it is reached exactly while its variable lives, from its own frame and all above, but for frames that await; later accesses are refused as dangling while the graves last |
| `HolesAreOwed` | a placeholder belongs to a builtin under way, or to one that failed |
| `TypeOK` | types; the graves are bounded |

## 9. The lifetime check

`Lifetimes.tla` is `walk_lifetimes` (L0350) with its `FreedTracker`: one action per
kind of statement. The body is not fixed: `Next` writes any body, so that a run
covers all of them up to a number of statements. `tracker` is the tracker's two
maps, `enclosing` the blocks the walk is in with what held at their start,
`reported` what the last statement was reported for.

Beside it runs an oracle, `boxes`: which names hold one box, and which free killed
it, on an execution that follows the text. The walk goes over every block with a
clone of the tracker and drops it at the end (`TrackerAfter`). The execution may
have skipped the block (`LeaveSkipped`: a branch, a `while`, a `for`, an arm, a
`catch`, the rest of a `try`) or have run it (`LeaveRan`), and the body of `loop`,
`unsafe` and `region` it has always run. `faults` are the dead boxes the last
statement read or freed again.

The check is an approximation, and the actions include what it does not follow:

| Action | Form | Why the check is wrong about it |
|---|---|---|
| `SelfCopy` | `p = p` | taken for a rebinding |
| `StorePart` | `s.f = v`, `s[i] = v`, with `v` a name or new | taken for `s = v`; reads in the path are not looked at |
| `CopyUnseen` | `q = s.f`, `q = identity(p)`, `q = c ? p : r`, two parameters that are one box | an alias it does not see |
| `FreeUnseen` | `let x = dealloc(p)`, `dealloc(s.f)`, a callee that frees | a free it does not see |
| `OpenBinder` | the variable of `for`, `for ... in` or `catch`, a binding of an arm, a parameter of a closure | a new variable that may hide a name; the tracker is not told |
| `LeaveRan` | a block that ran | its frees and bindings are dropped |
| `Use` with `captured` | a call of a closure | its captures are read where no name is written |

`untracked` collects the names of every box such a form changed, until the name is
bound again, and `overlooked` the reads the last statement made where the walk does
not look. `written` are the names bound in the innermost block: one of them may be a
variable of the block, which ends with it, so that after a block that ran nothing is
claimed of them and of those they share a box with.

| Property | Says |
|---|---|
| `GroupsAreBoxes` | among the names outside `untracked`, the alias groups are the names of one box, and a name is freed exactly when its box is, by the free that is named |
| `ReportsAreTheFaults` | of the names outside `untracked`, read outside `overlooked`, each statement is reported for exactly those whose box is dead |

So both properties speak of bodies, or of names in a body, for which the check is
exact: those bound, copied, freed and read by the forms it knows, at any depth of
blocks the execution skips. They fail as soon as one of the forms in the table is
no longer excluded (only `written` is a caution), and section 11 says for each what
the program does instead.

## 10. Runs, bounds, fairness

| Run | Instance | Shows |
|---|---|---|
| `actor_requests` | 3 actors of which two ask each other, 3 messages, 2 asks, waits on 2 futures, one throw, Stop | turns, requests, unwinding and the refinement under nested waits |
| `actor_escalation` | a chain of 3, 3 messages, 2 asks, all policies but Stop | supervision across three levels, deferral included; diagnoses; termination |
| `spurious_deadlock` | 3 actors, 4 messages, 3 asks | finding 1 |
| `caught_error_loses_state` | 2 actors, one throw | finding 2 |
| `threads` | 3 threads, maps of up to 2, one channel, 2 values | joins, maps and channels |
| `test_isolate` | 3 tests, children that find 2, 3 or 4 | the test runner |
| `module_loader` | all import graphs of 3 modules in one directory; all of 2 names in 2 directories; all uses of a name among 3 modules | the loader |
| `tiers` | about 2,200 programs, each through two pipelines, inputs -1, 0, 1 | passes and tiers |
| `optimizer_copies` | the same programs, copy propagation alone | finding 3 |
| `frames` | a scalar and an array of 2, 3 frames, 2 bindings, 2 blocks, 1 grave | frames and pointers |
| `frames_placeholder` | 2 frames | finding 4 |
| `lifetimes` | bodies of 4 statements, 3 pointers, an aggregate, blocks 2 deep, all forms | alias groups, reports |

Bounds. Three actors are what an escalation needs to pass one actor and stop at
another, and what a reply needs to depend on a third; three messages are one in
progress, one overtaken and one overtaking; two requests are needed for one to
be answered while another is refused, and two futures for `select` to choose (in
`actor_requests`; in `actor_escalation` a wait is for one future, and that
`DiagnosesAreTrue` holds of `select` over several is what `DiagnosesCorrect` proves).
`Knows` has cycles where nesting matters and is a chain where supervision does.
Three threads are a creator and two it starts, which join, map, send or receive
against each other or against it; two map workers can fail in either order. Three tests are one reported, one in flight and one to resume at, and
children find fewer, as many and more. Three frames are a caller, a callee and one
that gets the callee's environment from the pool; two bindings are a variable
and one that takes its place in the scope, the frame or the block; one grave is
enough to lose one. Three modules make a cycle that is not a
pair, a diamond needs two imports a module, and two directories make a name
ambiguous. The programs of `MCTiers` are families, one for each thing a pass can
get wrong: every two statements out of a set between two declarations of a
straight body; computing again after a statement; every two statements in each
kind of loop; loops in loops; errors, caught and not, in loops and not; a variable
with a temporary's name. Integers of three bits are enough to wrap. Three pointers are
a group that one name leaves; four statements make it of three names, leave it,
free it or use it, or do two of these across two blocks. A report is a matter of the
state before its statement, about which `GroupsAreBoxes` says everything, and the
theorems have no bounds. Every bound
is a constant named in the module, and only bounds how much a program does.

Fairness. `Actors!FairSpec` is weak fairness of the whole next-state relation:
one thread, which runs as long as it can. Each operation a body performs is
counted by a bound, so this also says that bodies do not compute forever, which
is an assumption about programs. `Threads!FairSpec` is weak fairness for each
thread's waits in the runtime (the OS schedules every thread) and for the end of
its body (the same assumption). No fairness of mutexes is assumed: std promises
none. `TestIsolate!FairSpec` is weak fairness of the child, of the reader and of
the parent: the OS runs them, and a deadline, where there is one, passes. Nothing
is assumed of hung tests and of background processes. `Loader!FairSpec` is weak
fairness of the walk, a loop without waiting.

Deadlock checking is off where the system may stop: in `threads` a `recv` on a
channel nobody sends on hangs, and the code makes no promise about it (`AlwaysEnds`
is stated for programs in which nobody receives for ever); in `frames` a program
is over when its bounds are spent; in `lifetimes` a body ends.

The operators named `Mutant...` are deliberate mistakes: each is a plausible bug
in the operator that follows it, used by no action, and listed in
`PROJECT.json` with the property that catches it.

## 11. Where code and documents disagree

Shown by runs:

1. **L0356 without a cycle** (`spurious_deadlock`). Documents call L0356 a
   request cycle. The scheduler reports it whenever the top of the stack cannot
   move, also when the actor that owes the reply is only suspended lower on the
   stack. Example: main asks 1, tells 2 and awaits 1; 1 asks 3 and awaits; the
   pump runs 2 on top of 1's turn (its message is older than 3's); 2 asks 1 and
   awaits; the pump runs 3, which answers 1. Now 1 could go on, finish, and serve
   2, but 2 is on top, 1 is busy, nothing is deliverable: L0356, although 2 waits
   for 1 and 1 for nobody.
2. **A caught error loses an actor's state** (`caught_error_loses_state`). The
   error path of a turn does not write the state back, on the ground that the
   program is ending; but a `try`, or a function boundary for `?`, lower on the
   stack can catch it. The actor's next turn ends in L0403.
3. **Copies in a loop's condition** (`optimizer_copies`). Copy propagation
   rewrites the condition of a `while` with aliases that hold before the loop
   only: `let x = a`, `while x < 2`, `x = x + 1` becomes `while a < 2` and does
   not end.
4. **A moved-out variable is seen** (`frames_placeholder`). `x = list_map(x, f)`
   moves `x` out of its slot, on the ground that a builtin cannot fail in a way
   that can be caught; but `list_map`, `list_filter`, `list_reduce`, `sort_by` and
   `parallel_map` call back, and `f` may throw. In the `catch`, `x` is `void`.

Seen while modelling, most of them the reason of a condition in a property:

* `task_join` and `await` take the handle before they wait, so that another
  holder of the same Task or Future gets void at once, though the thread runs
  (`runtime_concurrency.rs:377-387`, whose comment says "Already joined").
  `concurrency_design.md:104` has it wait.
* `await` does not put the frame's environment on the shelf
  (`runtime_eval.rs:288-294`): an address of one of its variables is refused in the
  turns that run meanwhile, with the L0459 that "indicates an interpreter dispatch
  path that does not shelve its calling frame" (`raw_pointer.rs:149`). The checker
  keeps pointers out of messages, so that the address has to get there as an
  integer, through `ptr_to_int` (`PointersFollowLifetimes`).
* While `x = list_reduce(l, x, f)` runs, `f` can read the placeholder through a
  pointer to `x`, without any error (`Owed` in `HolesAreOwed`).
* A `let` that declares a name anew from the old one: the expression it held is
  reused as if it spoke of the new variable (`ir_optimizer_cse.rs:76-104`;
  `SelfLet`).
* Loop-invariant motion takes a loop variable that hides an outer one for the outer
  one (`ir_optimizer_licm.rs:113-134`, `164-167`; `LoopVariableShadows`).
* The VM's `for` counts in the variable's own slot and compiles the end and the
  step after declaring it; the walk keeps a counter of its own
  (`bytecode_vm.rs:340-366`, `ir_interpreter.rs:889-890`; `CounterIsShared`),
  though `lib.rs:2676` says that results are identical.
* `try_recv` takes the receiver's mutex, which a blocked `recv` holds
  (`runtime_builtins.rs:168`), though `concurrency_design.md:99` calls it
  non-blocking.
* A module is known by its name alone: a library module whose name was loaded
  from another directory is not loaded, against the comment at
  `loader.rs:181-186`; an import may mean a module already loaded before the
  importer's own directory is looked at (`loader.rs:362-366`); a cycle may be
  reported between two files that only share a name.
* Names read as variables, and those in actor handlers, constant initialisers and
  assignment targets, are not collected, so that a private name used there is
  not reported (`loader.rs:518-532`).
* A test whose last lines were in the pipe when the deadline found its child dead is
  called crashed, also when it had passed (`test_isolate.rs:526`).
* The body of a `loop`, an `unsafe` or a `region` block, which always runs, is walked
  over a clone of the tracker as a branch is: `unsafe: dealloc(p)` and then
  `dealloc(p)` is not reported, nor is a use of `p` after a `loop` that frees it
  (`semantics/lib.rs:2875-2879`), against `lullaby_memory_management.md:31` and the
  comment at `lib.rs:2665`. A branch that ran is forgotten likewise, which the
  comment at `semantics_lifetime_alias.rs:52-55` means; and `q = p` in a block that
  ran is forgotten with it, so that a use of `q` after `dealloc(p)` passes.
* The variable of a `for` or `for ... in`, the name of a `catch`, the bindings of a
  match arm and the parameters of a closure are new variables (`lib.rs:2620-2621`,
  `2650-2651`, `2727-2729`), of which the tracker is not told (`2857-2887`,
  `2955-2962`). When one hides a name that was freed, its uses are L0350s of a live
  value: `dealloc(p)` and then `for p from 1 to 3` with a use of `p`. When it hides a
  name that has aliases, a free of it kills those for the rest of the block.
* A `let` in a block hides an outer name, but is recorded as a rebinding of that name
  and forgotten at the end of the block. For a block that is skipped or conditional
  that is right; after one that ran nothing is claimed of the name (`written`).
* What an assignment's path reads is never checked: after `dealloc(p)`,
  `xs[load(p)] = 1` passes (`lib.rs:2820-2823` walks only the value).
* A call of a closure reads what it has captured; only the closure's own text is
  checked, where it is written (`lib.rs:2960-2962`).
* A free is recorded only where the call with a plain variable is the whole
  expression statement or returned value (`lib.rs:2824-2836`, `4254-4268`): after
  `let x = dealloc(p)`, `dealloc(s.f)` or a callee that frees its argument, `p` counts
  as live, though `let x = dealloc(p)` is straight-line code. Aliases through calls,
  aggregates and conditional expressions are not seen either; for calls and
  aggregates `semantics_lifetime_alias.rs:29-39` says so.
* `p = p` takes `p` out of its alias group (`semantics_lifetime_alias.rs:76-82`):
  after `q = p`, `p = p`, `dealloc(p)` a use of `q` is not reported.
* `s.f = p` is recorded as `s = p` (`lib.rs:2820-2823`), so that after `dealloc(p)`
  every use of `s` is an error, though `semantics_lifetime_alias.rs:29-33` says that
  stores into aggregates are not tracked. And `s.f = alloc(8)` is recorded as a
  rebinding of `s`: it leaves the group of those it was copied from or to.

## 12. Proofs

All constants are arbitrary: naturals (`BoundsAssumption`, `ThreadBounds`,
`SuiteAssumption`), any variables with positive strides and natural numbers of
cells (`FramesAssumption`), names of pointers and of aggregates that are disjoint and
neither of the two marks `Fresh` and `Live` (`LifetimesAssumption`), the four policies (`PoliciesAssumption`), any set of projects
of the right type (`ProjectsAssumption`) on a disk of finitely many directories and
names, which are numbers since the loader only compares them
(`NamesAssumption`); `Knows` and `Chan` are unrestricted.

* `ActorsStackProofs`: `TypeCorrect`, `StackCorrect`, `SerialTurnsCorrect` and
  `SilentCorrect`. `TypeOK` is inductive because `Frame` carries the few facts a
  step needs (a wait has something to wait for; only main's frame is of actor 0).
  `SerialTurns` is not inductive: ending a turn restores a *saved* `current_actor`, which is
  right only if every frame's saved value names the innermost live actor below
  it; and a fresh id must be nobody's. `StackInvariant` (`StackOK` and
  `OnlySpawnedNamed`) says both, is inductive, and implies `SerialTurns`. The
  lemmas say what pushing, popping, replacing the top and unwinding to a frame do
  to `StackOK`; each action is one of these. `SilentCorrect` is
  `[](StoppedIsSilent /\ PoliciesAgree)`: `PoliciesAgree`, the strengthening, says
  that a deferred action is the policy's own. That nobody starts a turn of a
  stopped actor rests on the pump's guard and on the busy guard of
  `apply_or_defer`.
* `ActorsTurnProofs`: `DisciplineCorrect`, `DeferredActionsCorrect`,
  `NoStaleStateCorrect`. `StackDiscipline` says what is below the top of the stack:
  code that runs, or a turn whose deferred restart runs right above it; and that
  `restarting` is the set of actors whose init is being re-run, each once. With
  it, a turn whose actor has an action deferred is on the stack and will reach
  the end that applies it (`ActionsAreDue`), and a restart finds its actor with no
  turn that could write an older state back.
* `ActorsRequestProofs`, first half: `RequestsCorrect`, `QuiescentEndCorrect`,
  `DiagnosesCorrect`, `EscalationCorrect`. `RequestsAccounted` counts, and a count is
  not inductive; `RequestsInvariant` says who holds a slot: a queued message, or
  the one turn that serves it, holds a slot that is pending, not consumed, and
  its alone (`QueuedOnce`, `ServedOnce`), what the slots say is true (`SlotsTell`),
  and a slot that is pending and not consumed is held unless an error unwound a
  turn (`NoneLost`). A step either leaves service as it is (`SameService`, which
  pushing, popping and replacing the top of the stack all do) or is one of send,
  dispatch, publish, take, stop and unwind, with a lemma each. A normal end and
  L0356 rest on the pump's guard: with nothing deliverable, what is queued is for
  an actor mid-turn, and on an empty stack nobody is. For the escalation,
  `EscalationInvariant` says that supervisors are older than whom they spawned, so
  that whoever the failure has passed is above the cursor on the chain. `Chain` is
  the least set closed under supervisors, which needs no induction.
* `ActorsRequestProofs`, second half: `RefinementCorrect`, `Spec => ActorModelSpec`. There is
  one lemma per abstract step, saying what becomes of an actor's status and inbox
  and of a request's fate, and one per action, saying which of these it is:
  `Throw` abandons the turns it unwinds and the requests they served; stopping
  is a step only if the actor was living; whatever moves no message, reply, stop
  or turn is a stutter (`NothingSeen`). That `Dispatch`, which takes the first
  deliverable message of the *global* queue, takes the *oldest of its actor's*, is
  where the queue's order is used; that a send joins the back of an inbox needs
  `TicketsSent`. The other invariants above are what the abstract guards need: a
  message is taken, a restart or a stop done, only between turns.
* `ActorsRequestProofs`, third part, and likewise at the end of `TestIsolateProofs` and
  `LoaderProofs`: why every run ends, said without liveness, in three theorems.
  `NeverStuckCorrect`: until the end, one of the steps the program owes can be
  taken (the disjuncts of `NeverStuck` are those steps' guards).
  `EveryStepUsesUpCorrect`: every step makes the tuple `Remaining` less, comparing
  its first difference. `NoEndlessDescent`: `Remaining` is always a tuple of
  numbers, and every set of such tuples has one than which none is less (by the
  library's theorem on lexicographic products). For actors, `NeverStuck` is where
  requests, policies and the stack meet: a pump with deliverable messages has a
  first one; a climbing failure has a supervisor with a policy, and a restart does
  not find its own init already running below it. What is used up is the budget of
  user code, then messages, replies not consumed, turns, restarts due, frames, the
  phase of the top frame, and the cursor of a failure, which only climbs to older
  supervisors. That a restart, which pushes a frame, uses something up needs that
  it retires a turn or one that was due. For the test runner it rests on the child's
  stdin slot: once a test runs the slot is the null device, so nothing a test
  leaves behind keeps the pipe open (`Placed`), and the end of the pipe comes; a
  background process's own steps are the only ones that use up nothing. For the
  loader, among roots left there is a first in the order they are listed in,
  and a module is counted loaded before its imports are followed, so that a cycle
  cannot feed it.
* `ThreadsProofs`, first half: `TypeCorrect`, `JoinsAreOrdered`,
  `JoinsNeverDeadlock`.
  `JoinsWellFounded` says well-foundedness without a rank: any set of threads has
  a member that reaches no member. Starting a thread or the workers of a map
  puts new threads below the creator and above what it passed on; awaiting adds
  only edges that were paths. The strengthening (`WaitsAreReached`,
  `OnlyStartedReached`, `EndingsKnown`) says that threads wait only for what they
  reach and that a thread not started is reached by nobody.
* `ThreadsProofs`, second half: `MapsAreOrdered`, `FaultsAlwaysSurface`,
  `HandlesAreTakenOnce`, `ChannelsStayFifo`, from one inductive invariant `Handed`
  on top of `TypeCorrect`. `MapInv` says how far a map has got: the workers it
  has joined, and in its scope those before the first failure, succeeded; a crew
  is a run of consecutive threads. `FaultInv` adds to `FaultsSurface` the threads
  that still run, `SlotInv` to `HandleTakenOnce` that handles are of threads that
  exist, `ChannelInv` to `ChannelsAreFifo` that who receives does so from a
  channel. All of them need that only threads that ended have results, which stay.
* `ThreadsProofs`, end: `OnlyRecvStopsCorrect` and `NoWakeUpIsLost`. Thread programs may
  hang, so here the question is what can stop them. Take any set of live threads
  that contains whoever its members wait for, in a join, in a map or for a mutex:
  by `JoinsWellFounded` one of them waits for no member, so it can go on, or it
  waits for a mutex, whose holder is a member and in `recv` (`ChannelsAreFifo`): that
  one goes on unless its channel is empty. `Going` adds that main lives as long as
  the program does, so that the set of all live threads is not empty.
* `TestIsolateProofs`: `TypeCorrect`, `ReportIsAligned`, `ImplementsSuite`,
  `ResultsTrue`, `NoRerun`, `CrashExact`. One invariant carries all: lines are
  numbered, two to a test, and there is a number `h` at which the parent stands
  (`Place`) such that channel, then pipe, then the child follow without a gap
  (`Aligned`); with it, where the parent's locals stand (`ParentPlaced`) and that
  results in flight are true (`LinesTrue`). Tests the parent does not know leave
  it standing at the end while lines go on, hence the disjunct of `Aligned`. That
  a verdict is about the next test, which is the refinement, follows from the
  head of the channel being line `h`.
* `LoaderProofs`, first half: `TypeCorrect`, `StackIsVisiting`, `AcceptedIsAcyclic`,
  `AcceptedNamesVisible`. That a module is not loaded twice needs that the call
  under way is of a name not being visited, which the test before the call
  gives; that `visiting.remove` is right needs the stack's names to be distinct.
  `OrderSoFar` strengthens `ImportsLeftFirst` to the middle of the walk: without
  a complaint, what is not being visited has left behind its imports, and what is
  has them behind it, ahead of it, or just underway. `AcceptedNamesVisible` adds
  what the last check of names leaves.
* `LoaderProofs`, second half: `WalkIsExact` and from it `VerdictCorrect`,
  `Spec => []VerdictIsExact`. `VerdictInvariant` says of every moment of the walk, in a
  `Plain` project, what the verdict says of its end. The walk comes only to files
  that are reached (`WalkIsReached`); what it reports is so (`ReportsAreTrue`), a
  cycle because each module on the stack is reached from those below it
  (`StackClimbs`) and the one reported is on the stack; whatever a root or a
  loaded module leads to is loaded, reported or still ahead (`NothingForgotten`);
  modules are left once, and behind the good files they import if no cycle was
  reported (`CyclesAreSeen`); and names are looked at only if nothing structural
  was found (`NamesDecide`). When the walk ends nothing is ahead, so what it
  handled is closed under `Leads`: it is all of `Reached`. A cycle that was not
  reported would have to be left behind itself. `Closure` is the *least* closed
  set, not a fixpoint computed in rounds, so that this is two inclusions and
  needs no induction.
* `FramesProofs`, first half: `TypeCorrect`, `ShelfPaired`, `DerefHonest`. Two invariants.
  `StackOK` pairs shelf and stack for *any* stack, shelf and pool (`Count`, `Own`),
  so that a call, which shelves and then enters, or a return, which leaves and
  then wakes, is two steps of it; it adds to `ShelfIsPaired` that ids are below
  the next one and that scopes of an environment have distinct ids. `Flow` is the
  action property that makes pointers honest: an environment after a step has a
  new id, or comes from one with the same id of which it keeps the bindings of
  every scope that is not new (`Grows`). Hence a slot that names one place
  (`Settled`) never names another, which is what a pointer and an arena need;
  `PointersInv` says so of all that were handed out, and that regions do not
  meet. The places a step can hand out are those of the running environment
  (`Handles`).
* `FramesProofs`, second half: `HolesOwed` and `PointersCorrect`. Both need to know
  of every frame, not of the stack as a whole, what a step does to it: `Advances`
  says that the first frames go on (`GoesOn`: same id and environment, no place that
  was not there but a fresh one, no new debt) and that at most one is entered on
  top; `AdvanceStep` proves it of each action. `HolesOwed` is then immediate:
  `HolesInv` names the frame that owes. `PointersCorrect` rests on `PlacesInv`: no two
  places were born alike (`BirthsInv`), so that an address is of one place only; a
  region's frame is on the stack and, when it is suspended in a call or a builtin,
  on the shelf (`RegionsPlaced`, the place where the code's test for "any regions"
  before shelving is justified); whoever holds an address of a place that lives
  has its region (`PlacesMapped`), which a return could only break by dropping
  another frame's, excluded by frame ids (`IdsInv`). `Remembered` says what becomes
  of the rest: every region of a frame that returns is among `ByAge` and stays in the
  quarantine unless that is full.
* `LifetimesProofs`: `TypeCorrect`, `GroupsCorrect`, `ReportsCorrect`, for bodies with any
  number of names, statements and nested blocks, all forms allowed; what is proved is
  the properties with their exclusions, of names in `untracked` and reads in
  `overlooked`, not that the check is exact. First what each
  operation of the tracker and of the boxes does, name by name (`IsDetached`, `IsBound`,
  `IsFreed`; `IsRebound`, `FreeingIs`); then one lemma per statement that it keeps
  `Keeps`, the inductive invariant, which is said of a tracker, boxes and left-out
  names, since it must hold as well of what every enclosing block was entered with:
  the end of a block puts that back. It adds to `GroupsAreBoxes` what a later step
  could disturb. Groups are symmetric also between names that are left out
  (`Matched`): `detach` takes a name only out of the groups it knows of itself. A box
  is left out as a whole (`Closed`). And in the group of a name that is followed,
  the only left-out names are aggregates it was stored in (`Agrees`), so that no free
  can come to it through one; this rests on only pointers being freed. The reports
  follow: what `check_freed_uses` reads is the box's own state.

Model-checked only: the liveness properties themselves. The prover has neither
fairness nor ENABLED, so that TLC checks `AlwaysEnds`, `Terminates` and
`ValuesReachReceivers` on the instances of section 10, while for all constants what
is proved is their safety half, above. The step between, that a weakly fair run
that always has a step and cannot descend for ever ends, is the usual argument and
not machine-checked here. Where that half would be void none is stated: a thread's
user code may loop and poll for ever, so there is no measure for threads, only
that nothing but an empty channel stops them.

Everything about
the optimizer and the tiers stays with TLC: trees are walked by RECURSIVE
operators, so that `Ir`, `Optimizer`, `VmCompiler`, `IrInterpreter` and
`TiersProperties` hold no theorem, and their `TypeOK`, `TiersAgree` and
`PassesKeepMeaning` are checked on the programs of `MCTiers` only.

## 13. Not modelled

The models cover the parts whose correctness is a question of order, sharing,
failure or of facts that go stale. They are a small part of the text: most of the
93,000 lines are translations from one data type to another, without state that
outlives a call, where a model would be as long as the code.

* Back ends (native, WASM; a third of the code): emission of instructions and
  object files, tested by running the result.
* Semantic checker: typing of each form of the language and each builtin, which
  types are copied, moved or not sendable, use after a send (L0353, L0357); lexer, parser, formatter:
  text to tree and back, tested by golden files.
* Of the lifetime check, and assumed of a body: it starts with a live box of its own
  for every name (two parameters that are one box are a `CopyUnseen` at the start); a
  name holds a box, or an aggregate, throughout; an expression is the set of its
  mentions that the walk visits, whether or not it is evaluated (`?:`, a closure's
  body); the body of a loop is followed once, later rounds only as far as further
  statements stand for them; `break`, `continue`, `return` and `throw` do not end the
  path, and the walk ignores them too; a pattern with several bindings is several
  blocks, one in the other; `rc_release` gives its handle up, also when clones
  remain. Not modelled: compound assignment (numbers) and `asm`.
* Of the runtime: collections, strings, numeric builtins, files, sockets and
  processes; mutex and atomic cells (each operation is one call under one lock, or
  one atomic instruction).
* Of raw pointers: paths into structs, `ptr_offset` beyond an array (unchecked by
  definition), the heap of `alloc`, volatile accesses as such, the IR tier's twin.
* Of the IR: lowering, `match`, region blocks, `asm`, closures, async calls,
  aggregates and their places, numbering of slots for the walk; panics of debug
  builds on overflow (folding and `for` counters, modelled as wrapping); the
  recursion limit.
* Of threads: the release profile, which aborts the process on a panic
  (`Cargo.toml:33-36`). The model is of a build that unwinds, as tests and debug builds
  do; where it aborts, nothing after a panic is ever seen.
* Of the loader: a name declared twice in one module, since `declares` is a set
  (`check_duplicate_names`, `loader.rs:469-491`, reports that L0391 as well); the editor's overlay (another source of text), the merge (a
  concatenation) and the manifest (the search directories).
* Of the test runner: wording, tracebacks, discovery of test names.
* Channels being dropped: a `Chan` holds a sender of its own, so "closed" never
  happens while anybody can look. Poisoned locks: a guard is never held across
  code that can panic.
* Diagnostics, command line, language server: rendering, dispatch, and one loop
  that analyses whole files.
