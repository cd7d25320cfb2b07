# A TLA+ verification of HP-HL

HP-HL is a compiled language: `hphlc` translates a program to x64 assembly or
to LLVM and links it with a runtime written in C; a debug adapter, a language
server and a package manager come with it. This directory holds TLA+ models of
the runtime (scheduler, channels, barriers, maps, exceptions and locks, the
collector, the debugger), of the debug session, of the package manager, and of
the passes of the compiler from the parser to both back ends. TLC checks them on
small instances and TLAPS proves theorems for every instance: about the models of the
runtime (scheduler, regions, barrier, channel, ring, handle table, maps, exceptions and
locks, collector, debugger), of the debug session, of the package manager and of the
import loader. Paths in this file are relative to the repository; `rt/` stands for `compiler/src/runtime/`, and
in the models of the compiler paths are relative to `compiler/src/`.

## 1. The system

### Components

| component | state it keeps | operations | modelled in |
|---|---|---|---|
| task scheduler, `rt/concurrency/concurrency.c` 52-495 | ring of queued tasks, `hphl_pending`, records (`hphl_all`), region pool and per-thread block stacks, three condition variables | spawn, worker loop, `Wait`, region begin and join, drain, cancel | `TaskFifo`, `TaskRing`, `TaskPool` |
| channels, same file 497-610 | ring of slots, two condition variables | `Send`, `Receive` | `ChannelFifo`, `Channel` |
| barriers 808-862 | count, generation | `Wait` | `BarrierRounds`, `Barrier` |
| handle table 864-948 | open semaphores, events, barriers | creation, destruction, exit | `HandleTrack` |
| maps, `rt/collections/collections.c` | slots with a mark, count | put, get, remove, clear, growth | `KeyMap`, `OpenMap` |
| exceptions, `rt/core/core.c` 726-837, `codegen/expr_hir.cpp`, `irgen/irgen.cpp` | chain of handler records, per thread (LLVM) or per process (x64) | try, catch, throw | `Unwind` |
| object locks, `concurrency.c` 1-50 | 64 striped spinlocks | `lock` blocks | `Unwind` |
| garbage collector, `rt/gc/gc.c` | young and old tables, root slots, headers (generation, mark, card), remembered set, grey list, cache of blocks | register roots, allocate, write barrier, minor, major | `Gc` |
| debugger runtime, `rt/debug/debug.c` | stop slots with events, claim on the pipe, pause request, step modes, break- and watchpoints | trap, stop, command loop | `Debugger` |
| debug adapter, `dap/` | session flags, queue of runtime lines, queue of requests, breakpoints | DAP requests | `Session` |
| import loader, `loader/loader.cpp`, modules and aliases in `semantic/semantic.cpp` | visited files, merged program; modules, aliases, dependencies | load, resolve, analyse names | `Imports` |
| package manager, `loader/pkgfetch.cpp`, commands in `main.cpp` | registry, cache shared by all projects, lockfile, manifest | publish, install, resolution of a build | `Packages` |
| parser, `frontend/parser.cpp` | position in the tokens, pending attributes | one function per construct | `Parse`, `MCParse` |
| semantic analysis, `semantic/semantic.cpp` | scopes, flags of locals, context of the function | one walk over each body | `Flow`, `FlowRun` |
| lowering and optimiser, `hir/` | the tree; temporaries, stack of loops and switches | lower, fold, eliminate | `Hir`, `Lower`, `AstRun`, `Sugar`, `HirOpt` |
| MIR, `mir/mir.cpp` | blocks, dominators, versions of names | build, place phis, rename | `Mir` |
| back ends, `codegen/`, `irgen/irgen.cpp` | where a value waits (r10, slots, stack), labels | emit an expression, a statement | `X64`, `Llvm`, `Compile` |
| coop scheduler, allocators, `rt/core` 12-110, `rt/alloc` | ready list; arenas, bins | spawn, run, yield; alloc, free, reset | no, section 7 |
| strings, images, sockets, language server, JSON, messages, cryptography, command line, self-hosted compiler, editor extension, tools | see `PROJECT.json` | | no, section 7 |

### How they interact

- A parallel block or `spawn` compiles to calls of the scheduler. Inside a task
  a block is a *region* (`hphl_region_begin`/`_join`); outside it is
  `hphl_join_tasks`, which also ends Main (`codegen/stmt_ast.cpp` 503-522).
- A thread that waits for a task runs it inline if it is still queued, and a
  region barrier runs any queued task. Hence an executor has a *stack* of
  activations, and everything kept per thread (the current-task slot, the block
  stack, the x64 handler chain) is shared by activations that know nothing of
  each other. Exceptions unwind across them.
- All scheduler state is under one critical section, `hphl_q_cs`; three
  condition variables and one per region are signalled from it.
- An allocation may start a minor collection; compiled code registers root
  slots on entry and pops them on exit, and tests two header bits in front of
  each pointer store (`codegen/expr_hir.cpp` 1607-1639).
- Compiled code calls the debugger's trap on each line. A stopped thread reads
  commands from a pipe whose other end is the adapter; workers register with
  the debugger when the pool starts. The adapter matches an answer to a command
  by taking the next line that is not an event.
- A program goes parser, loader (which parses what is imported), semantic
  analysis, lowering, optimiser, back end. The tree is shared: each pass rewrites
  it in place. Functions with constructs the lowering does not take go straight
  from the syntax tree to x64, so the language has two meanings in the code, and
  a third in LLVM.
- An install fills a cache that later builds of any project read; the lockfile
  of a project says which version and which hash it means.

### What is hard

Interleavings of threads around the unlocked look of `Send`, the stealing
joiners and the claim of the debugger's pipe; wake-ups that could be lost
between a test and a sleep; barriers that may wait for their own caller; rings
that wrap and grow; pools and slots that are recycled; the two copies (list and
header bit) of the remembered set, and generations that outlive the block they
were set for; handlers and locks that a jump may skip. In the tools: a debug
protocol without numbers, in which an answer may come after it was given up; a
cache and an index written file by file. In the compiler: sugar that becomes
statements *before* the statement it stood in; values that wait in a register
while other code runs; analyses that follow the order of the text where the
program follows loops; a parser that tries a reading, changes the tokens and
goes back. `PROJECT.json` lists each of these at its line under "hazards", with
the properties that cover it or the reason why none does.

## 2. The plan

Order of work, most important behaviour first. Done: 1 to 12.

1. **Scheduler.** `TaskFifo` (abstract queue), `TaskRing` (the ring implements
   it), `TaskPool` (everything around the queue); proofs of its invariants.
2. **Synchronisation.** `Channel` against `ChannelFifo`; `Barrier` against
   `BarrierRounds` with a proof of the refinement; `HandleTrack`.
3. **Exceptions and locks.** `Unwind`, both back ends.
4. **Collector.** `Gc`: roots, barrier, minor and major collections.
5. **Debugger.** `Debugger`: stops, claim, commands.
6. First proofs: `TaskPoolProofs`, `SyncProofs` (the barrier).
7. **Collections**: `OpenMap`, open addressing with tombstones, refining `KeyMap`.
8. **Packages**. **Imports**: cycles, diamonds, aliases.
9. **Session**: the adapter's conversation, beside `Debugger` in `MCDebug`.
10. **Back end**: `Hir`, `HirOpt`, `X64`, `Llvm`, `Mir`, `Compile`.
11. **Lowering**: `AstRun`, `Lower`, `Sugar`. **Front**: `Parse`, `Flow`.
12. More proofs: `DebuggerProofs`, `GcProofs`, `UnwindProofs`, in `TaskPoolProofs` the
    regions, in `SyncProofs` the channel, the ring, the handle table and the maps; the
    session; `PackagesProofs`, `ImportsProofs`.

Open: one root table shared by several threads, and temporaries, in `Gc`; the coop
scheduler; lists, slices and allocators; types and classes in `Flow` and `Lower`;
breakpoints on functions and data in `Session`.

## 3. The models

Each module says at its top what a step is. In the concurrent ones a step is the
code between two points where another thread can act: a region under one critical
section, an interlocked operation, or an unlocked read that is used later. The
models of passes have inputs instead of interleavings: a behaviour begins with
one input and takes it through the pass, and the properties compare what comes
out with a reference. Operators whose comment says "a mutation" or "mutant" are
variants of the definition after them with a plausible mistake; nothing uses
them, and `PROJECT.json` pairs each property with one that breaks it.

### The runtime

**TaskFifo, TaskRing.** `TaskFifo` is a queue with removal from the middle. In
`TaskRing` the state is `hphl_queue`, `hphl_q_cap`, `_head`, `_tail`, `_count`;
`Push` is the end of `hphl_spawn_task_ex` with its growth, `Pop` what workers
and joiners do, `Take` the search and shift of `hphl_wait_task`, `Reset` the
end of `hphl_join_tasks`. The refinement mapping reads the window of the ring.

**TaskPool.** The queue is a sequence here (that is what `TaskRing` is for).
`stack[e]` holds the activations of an executor, each with the runtime call it
is in; `blocks[e]` is the region stack of the thread, `base` in an activation
how deep it was when the activation began. Bodies of tasks are arbitrary: an
activation on top may call whatever `MainOps` or `TaskOps` allow, as often as
the bounds allow. Two variables are not in the code: `handles`, the handles a
body can name, and `lex`, the block a task is written in; they make it possible
to say which tasks a barrier is *for*. Left out: results and their captures
(data), the start of the pool under `hphl_boot_mutex`, the environment limits.

**ChannelFifo, Channel.** `Look` and `Allocate` are the unlocked reads of
`Send`; a failing allocation is the choice 0. `Put` installs the larger ring if
it is still larger, else waits if full *and* the sender has no ring of its own,
as the code does.

**BarrierRounds, Barrier.** The abstract barrier lets groups of exactly `Need`
threads go. The detailed one has the counter, the generation, the local copy of
it in each call, wake-ups of all and spurious ones.

**HandleTrack.** Creating a handle and entering it, leaving and closing it are
separate steps, since the system may give the value of a closed handle to
another thread in between. Only the owner destroys a handle, and exit starts
when no call is under way.

**Unwind.** `stack[t]` is the nest of open blocks of a thread: calls, tries,
locks, tasks run inline. The back end is chosen in the initial state: records on
the heap and a chain per thread, or records in the frame (so their address is
the thread and the depth) and one chain for the process. `frame` is the saved
stack pointer of a record; a throw that finds it gone, or in another thread, is
`lost`. A `Jump` leaves for good: a return leaves its call, a break or a continue the
try blocks between it and its loop, and the code goes over the ends of the tries in
between (`expr_hir.cpp` 585-592, 634) as the LLVM code does (`irgen.cpp` 779-795).
Constants switch what semantic analysis allows: nested locks are only warned about
(`Nests`), all three jumps out of a try are allowed (`JumpsInTry`,
`semantic/semantic.cpp` 1874-1884), try in functions called by tasks is not refused
(`TasksThrow`). Payloads and catch types are left out; a try has one catch.

**KeyMap, OpenMap.** A map of the runtime as its table of slots: a search starts
at the key's hash, goes past tombstones and ends at an empty slot; `Put` grows
the table when it is three quarters full (tombstones do not count) and puts the
keys in again. The mapping reads the occupied slots as a function. The last
call with its result is part of the state, so that a wrong *answer* is seen.

**Gc.** One program over a set of addresses, root slots that are registered and
popped in stack order, and assignments between slots and fields. The trace is
a step per grey object, although nothing else runs during it: `MajorIsExact`
then speaks of the end of the real work list. `Pressure` says when the program
calls `gc_pressure()`. A freed block may come back from the cache with the header
it had. Left out: the pointer map, the bins of the cache, the table of permanent
roots, the global card table (compiled code never writes it, so the collector's
scans of it find nothing), release by count, temporaries, other threads.

**Debugger.** `pc` is where a thread is in a trap; `slotOf`, `owner` and
`event` are the table of stopped threads; `loopTid` the claim. The adapter is
its requests continue, step and pause, and its sudden end; it answers a stop
only while it shows one (`shown`), which is what `DapServer` does. `granted` is
not in the code: the threads that a command has resumed since they stopped.
Left out: tables of breakpoints and watchpoints (whether a line stops is a free
choice), reading and writing variables, connecting, `ensure_cs`.

**MCSync** runs `Barrier`, `Channel`, `TaskRing`, `HandleTrack` and `OpenMap` beside
each other in one run; a behaviour is about one of them. They share no state.

### The tools

**Session.** Client, adapter and a program of one thread. `cmds` is the pipe,
`lines` the queue of lines of the program, `reqs` the queue of requests; the
thread of the adapter takes a line first and a request otherwise, as `loop.inc`
does. A command that waits for its answer takes the next line, whatever it is
(`dap/runtime.inc` 223). A breakpoint's condition is read by a command to
the stopped program; a stop whose condition fails, or whose hit count is not reached, is
continued. `Sets` are the sets of lines a client may ask for. Of the client's
variables `wanted` is the set of lines last asked for, `ever` all lines that ever
were, and `visits` how often the program has stopped at each line since the last
request: a client that has asked for a condition somewhere may meet a stop that is passed
over, so from then on it does not read while the program runs. `Odd` names what
the client must not do for the properties to hold: let an answer come after the
adapter gave up ("late"), ask for the threads of a running program ("threads"),
read while the adapter passes over a stop ("blind"). Left out: function and data
breakpoints, formatting, framing.

**MCDebug** puts `Session` and `Debugger` in one run: one thread with the whole
conversation, several threads with the commands only.

**Packages** compares versions, matches ranges, and
has a registry (index and tarballs), the cache, projects with manifest and
lockfile; publish, install and build are sequences of steps, one per file
written, and `Faults` chooses what may go wrong in a behaviour: a network that
loses or spoils an answer ("network"; a lost `.sig` or `.pub` is taken as unsigned), a
crash after any step, a version published again, an edited manifest, a clone or checkout
of git that fails ("checkout"), a project that comes with a lockfile of versions this
cache does not have ("lockfile"). `git` is what is in the directory of a package's clone:
nothing, the commit asked for, another one (the full clone came through and its checkout
did not) or half a clone, into which git does not clone again. A directory with a manifest
and a HEAD counts as a hit, whichever commit it has. A clone is one step; a repository
without a manifest and a `rev-parse` that fails after a clone are left out. Several
publishers and clients may be at work; `met` notes the packages of which two publishes
ran at a time. An index is modelled as what a reader gets of its file: the versions and
hashes written, or none while it is being written and after a crash there.

### The compiler

**Imports.** `loadRec` as a stack of frames over projects of files
in several directories, imports by name, path and package. A path is the list of its
segments, so that one file has many (`..` and what it takes back), and `Canonical` is
`lexically_normal`. The reference is the graph of files: what a file leads to is the
least set closed under imports (`Beyond`). Then the analysis that follows: the clash of
aliases, the declared dependencies, and the search for a cycle among them one call of
`visit` at a time, `walk` being the modules on the way (grey) and `black` those done.
`ByName`, `ByPath`, `File` and `Mod` write down projects (`MCImports` lists families).

**Parse.** `Parse` is the recursive descent of `parser.cpp` over tokens, with its
places of lookahead and going back, as functions from a state (position, tokens,
pending attributes) to a state and a tree. `MCParse` has the reference, which writes
the tokens of a tree by the documented grammar, and takes trees of every kind,
alone and in pairs, and each of their token sequences with a token missing,
doubled or wrong.

**Flow, FlowRun.** `Flow` is the one walk of the checker over a body, with the
members of `Semantic` that change during it; `FlowRun` is the set of paths
through the body with the faults met on each. `MCFlow` compares them on all
bodies of a few statements: an alarm stands for a fault on some path, a fault
on every path is refused. Among the statements are those that hold a body of their
own: lambdas, tasks with and without a value, parallel blocks and loops, `match`; and
contracts, which the checker walks before (`require`) and around (`ensure`) the body.
On the paths a lock block gives its lock back only at its end, as the code does: a
return, a break, a continue or a throw out of it keeps the lock. Forms on which the
checker and the paths are known to differ are added by name (`FlowOdd`), each with a row
in section 6; so are readings of the parser that are not the grammar's (`Odd` of
`MCParse`).

**Hir, AstRun, Lower, Sugar.** `Hir` is the typed tree and what its operators
compute on words of `W` bits. `AstRun` runs a syntax tree as the code made
straight from it does; `Lower` is the lowering; `Sugar` compares the two runs:
calls made, end and value. Constructs known not to survive are *quirks*; a run
takes the functions whose quirks are in `Quirks`.

**HirOpt, X64, Llvm, Compile.** `HirOpt` folds and removes. `X64` and `Llvm`
evaluate a body in the order in which their code does, with what waits where
(r10, the operand's own slot, the stack; both operands of `&&`). `Compile` takes
a body through the passes and, after each, compares the outcome with that of the
source, of the other back end, and of the wasm variant. Quirks again name where
the back ends part.

**Mir.** The three-address form made of the optimised body (only
dumped, `--dump-mir`), its flow graph, dominators, phis and renaming, and a meaning of
blocks, to be compared with that of the body.

**MCFront** runs `Sugar`, `Imports`, `Parse` and `Flow` in one run; a behaviour is
about one of them.

## 4. The runs

`tlc -workers 2 -config <cfg> <module>`; the cfg of a run has its name in camel
case. Each ends within five minutes.

| run, module | what it shows | bounds and why they suffice |
|---|---|---|
| `pool_blocks`, TaskPool | `RegionsExact`: slots and counters of regions are right; `OnePlace`: a task is queued once or runs once; `JoinIsBarrier`: a block ends when its own tasks have | 4 tasks on 2 workers and Main, 2 nested blocks, 3 slots: a joiner steals a task that opens a block itself; depth 1 makes the depth limit happen |
| `pool_tasks`, TaskPool | `NoLostWakeup`; `NoDanglingRecord`: nobody queues, runs or awaits a freed record, and no living task has a handle to one; `Termination` | 3 tasks, 2 workers and Main, 2 nested blocks, 6 slots (one for every block that can be open, as in the code); Main drains in the middle, between its spawns and waits, while tasks wait for their children and a third task runs |
| `sum`, MCSync | barrier: `ImplementsRounds`, `NoLostWakeup`; channel, ring and map implement their abstract forms: `ChannelIsFifo`, `RingIsFifo`, `MapIsFunction`; `HandlesExact`: the table is the open handles, exit closes each once; `AllThrough`: all pass the barrier, all messages arrive | 4 threads, 3 rounds (a thread comes back two generations later); 6 messages, rings of 1 to 4 (growth twice, and failing), ONE sender, two receivers; 4 records in 3 slots, so the window wraps at every offset; 4 handle values in a table of 3; 3 keys with one hash in 4 slots that grow to 8 |
| `unwind`, Unwind | `HandlersExact`: the chain is the nest of tries, records are freed once; `LandsAtHome`: a throw lands in its own thread, in a frame that still exists; `Serialized`: locks exclude | 2 threads, a nest of 4, both back ends, one task inline, two stripes |
| `gc`, Gc | `RootsLive`: what a variable reaches stays; `OldToYoungRemembered`; `MajorIsExact`: a major frees the unreachable and nothing else | 3 objects, 3 slots, collection from 2 objects on: garbage cycles, promotion, reuse, growth past the limit |
| `debug`, MCDebug | the session: `RepliesMatch`: a command gets its own answer; `ShownIsTrue`: what is shown is so, and a stop shown as a breakpoint is at a line asked for, with its condition true and its hit count reached; `BreakpointsAsAsked`: the lines last asked for are armed, and exactly they while at most two lines ever were; `AllEnds`: every stop and request ends. Threads: `SoleReader`: one reads the pipe; `StopsExact`: slots and events are of one stop, no resume is lost, a command reaches its stop | 3 stops and 4 requests on 3 lines, one with a condition, two with a hit count of two, asked for in 4 sets (none, either of two, all): the clearing loop with three lines, a count that a new request starts again; Main and 2 workers in 2 slots (one too few) |
| `compile`, MCCompile | `MeaningKept`: the optimiser changes no outcome; `BackEndsAgree`: x64, LLVM and wasm code do the same; `Balanced`: locks and handlers are; `BodyWhole`: no name without its declaration, passes end; `MirFaithful`: blocks, phis and versions are right | words of 5 bits (overflow and every boundary), expressions of up to three operators in every kind of statement, 3 environments |
| `packages`, MCPackages | `BuildsWhole`: what an install leaves is whole; `OnlySigned`; `LockExact`: the lockfile has the versions asked for, their hashes, and the commits of clones; `InstallTakes`: the best version, or what a frozen lockfile says; `IndexExact`: every index is sorted, and of a package on which no two publishes met it is complete and true | 2 packages, 2 versions (pre-releases that compare by number and by word), 2 contents. Part `project`: one publisher, 2 publishes, 2 installs, one fault of any kind at any step. Part `registry`: 2 publishers at once, 3 publishes, with a crash and a second publish of a version |
| `front`, MCFront | `SugarKept`: lowering keeps the meaning and postconditions; `LoadsExactly`: a project is accepted when it can be loaded, each file once, dependencies first, and then an alias means one module in it and a cycle of declared dependencies is refused exactly when there is one; `ParsesBack`: the parser reads back what the grammar writes and loses nothing; `AlarmsAreReal`, `FaultsRefused`: the flow checks and the paths agree | all graphs of 4 files with two imports each; all trees of the listed kinds, and their damaged forms; all bodies of a statement, a nest and a statement over the names an analysis is about |
| `channel_two_senders`, Channel (ChannelTwo) | *violated*: a message is overwritten | two senders |
| `gc_default_age`, Gc (GcDefault) | *violated*: a reachable object is freed | 4 objects, promotion at 2 |
| `compile_r10`, MCCompile (CompileR10) | *violated*: `x - ++y` loses `x` | the bodies of `compile` with that quirk |

Three runs put parts that share no state side by side (`sum`, `debug`, `front`): a
variable `part` says in the initial state which of them a behaviour is about, and
a property about one part says nothing of the others. In `packages` the two values of
`part` are two ways to use the system: a project that installs while one publisher
works, and the registry alone with two of them. A property that gathers
several is a conjunction of definitions of the part's own module (for instance
`StopsExact` in `Debugger`), each with its comment there. The properties of
`compile`, and those about `Sugar`, `Parse` and `Flow` in `front`, are about steps
(`[][...]_vars`): they compare what a pass has just put into the primed variables with
the reference, so that the reference is evaluated once for each result.

`gc` calls `gc_pressure()` only while nothing is remembered, `unwind` has no
return, break or continue out of a try block, no assignment to a lock target, no two
objects on a stripe and no try in tasks of x64, `pool_tasks` lets a task wait for its own
children only and lets Main not wait for a task whose record its own drain has freed (the
row `HandlesLive`), the ring of `sum` does not grow, `packages` claims nothing of the
index of a package on which two publishes met, and `compile`, `front`, `packages` and `debug` leave out
quirks, odd forms and faults. Each of these has a row in section 6, with the property it
breaks: outside these limits the code breaks the same properties. The quirks are those of
`Compile.cfg` and of `MCSugar`, the forms the `FlowOdd` of `MCFlow` and the `Odd` of
`MCParse`; what a program must have for a quirk is written down once, in `QuirksOf` of
`Compile` and `Sugar`, and the run takes every body of its families that has none.

**Deadlock** is checked in `gc`, which never stops, and in `pool_blocks`, which
stutters when the process has ended (`Gone`); `CHECK_DEADLOCK FALSE` stands where
a behaviour ends because a bound is used up (messages sent, rounds passed,
handles closed, the input compiled) or everybody is asleep for want of input.
In `pool_tasks` the property `Termination` takes the place of the deadlock check.

**Fairness** is weak, per thread, for `Step` or `Call` as a whole: the threads
are threads of the operating system and critical sections and condition
variables of Windows let a waiting thread in eventually; nothing is promised
about *which* call a body makes. No fairness is given to spurious wake-ups, to
the debugger's user, or to a particular sender. In `Session` the program and the
adapter are fair, the client is not obliged to ask. The models of `Packages`,
the collector and the passes are about safety only and state no fairness.

## 5. What is proved

`tlapm <module>` checks every proof; each theorem is for any value of the
constants that satisfies the named assumption.

**TaskPoolProofs** (any number of tasks, workers, slots and open blocks, any
queue capacity, every combination of what bodies may call; from
`PoolAssumption`). The argument has two layers.

- `TypeCorrect`: `TypeOK` is not inductive alone, since popping a block stack
  needs it to be non-empty. `Frames` is what makes it so: an activation was
  begun with no more blocks open than are open now, so an activation closes
  only blocks that it opened itself.
- `Invariance`: `IInv == TypeOK /\ Frames /\ Queue /\ Stacks /\ PendingExact /\ Waiters`.
  `Queue`: a queued task is queued once, and exactly the queued tasks have that
  status. `Stacks`: a running task is in one activation of one executor, and
  Main's own code is at the bottom of its stack. `PendingExact`: the counter is
  the number of live tasks, which needs the two before it to count a task once.
  `Waiters`: a record somebody waits for is live or done, not freed. The last
  two meet at `hphl_join_tasks`: it frees every record when the counter is 0,
  and only because the counter is exact is no task queued, running or waited
  for at that moment. From `IInv` follow `PendingIsExact` and `OnePlaceSafe`, and with
  `Named` also `NoDanglingRecordSafe`: a living task that inherited no handle has handles
  to its own children only, and these are living or done when the drain comes.

The second half of the module is about regions (the theorems have the form `SlotsEnough /\ Spec
=> ...`: the pool has a slot for every block that can be open at a time. The code has
512 for 9 threads of depth 32; with fewer the free list would run empty while slots are
in use and be filled again with all of them, since that test comes before the one that
ends the program. The run `pool_blocks` meets the hypothesis with 3 slots for 3 executors of
depth 1 and `pool_tasks` with 6 for depth 2). `RegionInv` is built on the invariant of
`TaskPoolProofs` and has four parts. `Slots`: a free slot is held by no one, a held one
by one open block of one executor (or by an executor about to put it back), none is
lost. `Counts`: the count of a slot is the number of live tasks charged to it, and 0
when no block has it. `Putters`: only the top of a stack gives a slot back. `Sleepers`:
on whichever condition an executor sleeps, it has something to wait for; it needs the
two before it, since a slot that is given back and taken again must not be the one
somebody still sleeps on. From it follow `RegionsExactSafe`, `NoLostWakeupSafe`, and
with `PartsOnly` (tasks spawn only the parts of their own blocks; else a stolen task's
spawn is charged to another's block, section 6) `JoinWaitsForAll`.

**SyncProofs** (about the specification `SyncSpec` of `MCSync`, each theorem about one
part; from `BarrierAssumption` and `PartsAssumption`).

- The barrier, for any finite set of threads and any group size. `BarrierInvariance`:
  `IInv` adds to `NoLostWakeup` that the counter is the number of threads waiting for
  the generation under way and that released threads hold older ones (`Behind`).
  `BarrierRefines`: every step of `Barrier` is a step of `BarrierRounds` or a stutter.
  The run `sum` checks one instance where all threads form a group; the theorem also
  covers more threads than a group needs.
- The channel, for any capacity, number of messages and receivers. `ChannelRefines`:
  with `OneSender` every step is one of `ChannelFifo` or a stutter. `CInv` says that the
  tail is `count` places after the head (`Turn`), the window has messages only, a ring
  brought into the critical section is larger than the channel's, and a sender that
  sleeps has none. The last two are what the unlocked look puts at risk: with two
  senders they fail, and so does the theorem (`channel_two_senders`).
- The ring of the task queue, for any capacity. `RingRefines`: with `RingFits` (it never
  has to grow; growth loses tasks, section 6) push, pop and removal from the middle are
  those of `TaskFifo`, wherever the window wraps.
- The table of handles, for any number of threads, handles and entries. `HandlesKept`:
  `HInv` follows a handle from its creation over the hand of its thread into the table
  and back, so that what is entered is what is open, less what was skipped for want of
  room and what is in a hand at the moment.
- The maps, for any keys, values, hash function and capacities. `MapRefines`: every
  step of `OpenMap` is a step of `KeyMap`, a function from keys to values. `MInv`
  (`Sound`) says of the table that no key is in two slots and that the search for a key
  that is in gets to its slot before an empty one (`Reached`). Removal keeps that
  because it leaves a tombstone; a put keeps it because it goes on to the end of the
  search before it takes the first tombstone. Growth is proved by induction over the
  old slots: after each round the new table is `Sound`, has no tombstone, and holds
  what the slots passed held. There an empty slot is always left, since the new table
  is twice as large.

**UnwindProofs** (any number of threads, objects, stripes, open blocks). `TypeCorrect`
holds for all constants. `LocksExclude` needs `~Reassigns`: every open lock block holds
the stripe of its object, alone (`Locked`). `HandlersAreTries` and `ThrowsLandAtHome`
need `Disciplined`: no return, break or continue out of a try block and no try in tasks
of x64, where the code is known to fail (section 6). `HandlerInv` says that the chain is
the nest of open try blocks, that the record of a try points back to its block, on the
stack where the back end keeps it there (`Rooted`), and that the records in use on the
heap are those of open tries; a throw then pops to a block of its own thread, and what it
skips is freed.

**DebuggerProofs** (any set of workers, any number of slots and of commands in the
pipe, from `DebuggerAssumption`).
`DebuggerInvariance`: `IInv` adds to `TypeOK`, `SoleReader`, `SlotsExact` and
`GrantsArrive` what makes them inductive. `Birth`: the workers register together.
`GrantedStopped`: only a thread that has a slot is resumed. `ShownReads`: the stop
the adapter shows is that of the reader, and nothing in the pipe has answered it yet.
`OneResume`: at most one resume is in the pipe, it is for the thread that reads, and
its stop is shown no more; without it a second command could reach the pipe while
the claim passes on, and be read by another thread. From `IInv` follow `ReadsAlone`
and `StopsKept`.

The second half of the module is about the session, in the specification `DebugSpec`
of `MCDebug` (any lines, conditions, counts, number of stops and requests). The
theorems assume `Odd = {}`: with any member of it the client does what the session
does not bear and the properties fail (section 6). `SessionInvariance`: a step of any
party leaves `SInv`, which says where everything is.

- `ViewIs`, `GoingIs`, `ArrivesIs`: the client thinks the program runs exactly when a
  resume waits or is in the pipe, the program runs or has ended, its stop is among the
  lines, or the adapter tests a condition; of these one is the case at a time, and
  behind a resume or a stop the pipe has nothing but pauses, which a stopped program
  ignores. `FramesIs`: otherwise the frames of the adapter are those of the stop.
- `PcIs`: an adapter that waits has its answer coming (`AnswerDue`): either the
  command is in the pipe and no line can come before its answer, or the answer is the
  only line. That is why the next line that is not an event is the right one although
  nothing is numbered. From it follows `RepliesKept`.
- `OrderIs`: no request for threads or breakpoints waits behind a resume, and unless a
  resume comes between them no reading waits behind breakpoints, whose confirmation, a
  line `ok`, it would take for its answer. `ReadsAre`, `StepsAsked`: who reads while the
  program runs never asked for a condition, only an adapter that passes over stops keeps
  old frames, and a stop that ends a step is one the client asked for. From these and
  `ViewIs` follows that what is shown and read is of the stop the program stands at.
- `ArmedIs`: the runtime's table, after the breakpoint commands still in the pipe
  (`OnAfter`), is the adapter's. From it follows `TablesKept`, for any number of lines.
- After the end of the session (`quit`) only `Over` is left.

`ShownKept` adds `MeantIs`. `HitsAre`: the adapter has counted no more hits of a line than
the program has stopped there since the client last asked, a stop still on its way to the
adapter being one less; a hit count that is reached in the adapter is therefore reached in
the program. `CondIs` carries that over the test of a condition, and `ShownDue` says it of
the stop the client sees, until it edits the breakpoints.

`BreakpointsKept` adds `WantedIs`: the last request for breakpoints that waits is what
the client wants, or the adapter has at least it, and nothing else while at most two lines
were ever asked for. The theorem is for any number of lines; that with three the runtime
may have more than was asked for is part of what it states (`armed` between `wanted` and
`ever`), since the loop that switches the old breakpoints off runs over the vector
`sendBp` erases from and of three one may stay (section 6). That loop, a recursive
function of the model, is followed by induction over its rounds (`RoundsKeep`).

**GcProofs** (any number of objects, fields and root slots, any thresholds; the
theorems have the form `Limits /\ Spec => ...` where `Limits` says that promotion comes
at the first collection and that `gc_pressure` is not called while something is
remembered: outside it the statements are false, section 6). `GcInvariance`: `IInv`
holds the two records of what is remembered together (`CardExact`, also for free
blocks, which come back with the header they had), the compiled barrier and the
table of old objects (`OldHasBit`), and says what holds in the middle of a collection:
`Remembers` outside the trace, `MinorMarks` and `MajorMarks` for what the trace has
passed, `MarkedReached` for nothing being marked that cannot be reached. `Closed`, no
object points to a freed one whether or not it can be reached, is what a pop of a
slot or a store needs; `RootsLive` alone is not inductive. From it follow
`VariablesLive`, `BarrierComplete` and `MajorExact`, the last comparing the marks at
the end of the work list with the least set closed under fields.

**PackagesProofs** (any packages, versions, ranges, contents, clients and publishers, any
set of faults in any number; from `PackagesAssumption`). Five theorems hold for all
constants:

- `PackagesTypes`, `SortedIndex`, `LocksCover` follow from `ShapeInv`, which says of every
  state what indexes, commands and lockfiles are made of (`Shapes`), of an install between
  two steps that the entries it has written and the dependencies still to do are those of
  its manifest (`Runs`), and of all entries, written or about to be, that their version is
  in range (`Locks`). That an index is sorted rests on `compareSemVer` being the order of a
  dictionary on the parts of a version, a strict total order: transitive through
  pre-releases of different lengths, and never 0 for two versions.
- `InstallsTake` (a step property): the choice of `resolveVersion` is followed by induction
  over the candidates, each the best of those before it.
- `IndexIsExact`. `RegistryInv`: of a package on which no two publishes met, from the
  moment the tarball is written to the moment the index is, the index is right about every
  version but the one on its way (`Tells`), and only one publish is at it. Two publishes
  that meet on a package write one index back and lose a version (section 6).

The others need that commands do not meet, and say so in a hypothesis: `OnePublisher`,
that one publish runs at a time, `OneClient`, that one install does. Without `OneClient` the
statements are false (section 6, rows of MCPackages): two installs share the temporary
file and the directory being unpacked. The run `packages` checks, as its part `project`, the
instance with one of each, and `IndexIsExact` with two publishers as its part `registry`.

- `SignedOnly` (`OneClient`). `SignedInv` follows a body from the answer to the temporary
  file, back from the file and into the directory.
- `BuildsAreWhole` and `LockIsExact` (both). `HashInv`: what is past the comparison of
  hashes has the hash the index or the lockfile named, of a tarball that is not spoilt.
  `CacheInv`: a directory of the cache is empty, whole, or being unpacked by the one install
  that is at it, and then what is there and what is to come are the files of one content.
  `FoundInv`: what an entry names is in the cache. `TrueInv`: where nothing is published
  again, the hash in an index, in an entry and on an install's way, the files in the cache
  and the tarball of the registry are of the same content. `CommitInv`: an entry of a clone
  names the commit asked for, since a clone that is there came with it. Each part is stated
  without the faults that break it (a crash, an edit, a second publish, a lockfile brought
  along, for the commits a failed checkout); lost and spoilt answers break none, and a
  failed clone or checkout none but the last.

**ImportsProofs** (any project: any files, directories, packages, imports and spellings of
paths; from `ImportsAssumption`). `ProjectsLoad`: what the loader accepts is exactly what
can be loaded, and a loaded program has each file once and after all it leads to; in an
accepted one the name that a file gives to an import means that module, and a program is
refused for a cycle of dependencies exactly when its modules declare one. The theorem has
three hypotheses. `ByFile`: whether the editor holds a text, and which, does not depend
on how the path to the file is written; it holds of every project with no open editor,
and the code looks a text up by the path as written (`loader/loader.cpp` 115).
`Reserved`: no file declares a module with a library module's name; without it the
statement is false (row `StdNamed` of section 6). `OneBlock`: blocks that say of one
module what it depends on agree, in one file and in files of different modules; without
it the statement is false (row `TwoBlocks`), since the first block is kept. All the
projects that the run `front` loads satisfy the last two. The argument, in six layers:

- *Paths.* `Normal` is a recursive function over the segments, followed by induction.
  `NormalOver`: the normal form of a path behind another depends on the normal form of the
  first only; `NormalAgain`: normal paths are normal. From them follows `ResolveAlike`: an
  import leads to the same file, and as often to none, however the path of the importing
  file was written, though the loader searches beside that path as it is written.
- *The graph.* Hence the graph of files, stated over canonical paths, is the one that the
  loader walks over written ones. `Reached` is the least closed set, so that it is
  transitive, and what a file reaches is itself and what its imports reach.
- *The invariant* `LInv`: the loader has refused a project that cannot be loaded, or
  `Goes`, which holds on through the analysis. `StackOK`: the frames are a path of the graph, without a repetition, and of each
  the imports passed are loaded. `LoadedOK`: what is loaded is whole, closed under imports
  and does not lead to itself; that is why a file met again needs no second visit.
  `ModulesOK`: the files seen have a module name each, and these are the names taken.
  `DeclsOK`: the declarations are those of the files loaded, in order. `StageOK`: what
  each stage of the recursion knows.
- *Refusals.* A cycle is met when the file to enter is on the stack, which is a path of the
  graph; a name is taken only by another file that main leads to. Conversely, when the
  stack is empty what is loaded is closed and has main in it, so it is the program.
- *What is noted of the files* (`NamesOK`). Each file seen has its module (`FilesOK`); of
  each import passed the alias is there with the module it leads to (`AliasesOK`); and of
  each block with dependencies in the files seen the module has an entry, which is the
  block of some file (`DepsOK`). With `OneBlock` the entries then are the graph that all blocks declare.
- *The search* (`SearchOK`, and with it `RInv`), on any graph. `WalkOK`: the grey modules are a path,
  each after the one before, and what a module has passed is done, unknown, or the next
  one on the path. `BlackOK`: what is done is closed, and nothing of it is after itself.
  So a grey module met again is after itself; a module that is left has all its
  dependencies among the black, a closed set without it; and when no root is left, those
  outside the black depend on nothing.

`SeqLemmas` holds what the proofs need about sequences: appending, the last
element, replacing one, taking the first, removing the i-th; which of these keep a
sequence free of repetitions, and what they do to its range. `SetInduction` is
induction over the numbers with a set in place of a predicate; it follows from the
well-foundedness of < in the library, and carries the loops that the models write as
recursive functions.

Every safety invariant of a run that is not about a pass of the compiler is stated by a
theorem.

**Beyond the prover**: liveness under fairness (`Termination`, `AllThrough`, `AllEnds`),
ENABLED, and the models of passes, which are written with RECURSIVE operators over
trees.

## 6. Where the code and its documentation disagree

Three runs expect a violation and are the listed findings (`cc` is
`rt/concurrency/concurrency.c`).

- `channel_two_senders`: a sender that came with a ring of its own skips the
  test for a full ring and may write over the oldest message, `cc` 563.
- `gc_default_age`: with promotion at the second collection, a child found
  through the remembered set stays young and the set is emptied, so the next
  minor frees it although it is reachable, `rt/gc/gc.c` 1088.
- `compile_r10`: the left operand of an operator waits in r10 while the right one is
  evaluated, and the code of `++` and `--` (`codegen/expr_hir.cpp` 2977-2987) and of a
  remainder by a power of two (2883) uses r10, so that `x - ++y` loses `x`, 2796.

The rows below are not runs of the project. Each names a property of a module that
TLC finds violated once the constants are changed as written (the others as in
the module's run); the property says what a comment, a document, the other back end or a
neighbouring line says of the program.

### The runtime

| module, constants | property | what the code does | what is said |
|---|---|---|---|
| TaskPool: 2 tasks, 1 worker, bodies spawn and wait | `SelfIsCurrent` | after a task run inline the current-task slot is cleared, so the task beneath no longer sees its cancellation, cc:207 | cc:179-180 |
| TaskPool: 3 tasks, Main opens blocks, tasks spawn and open blocks | `NestedSpawnCounted` | a spawn is charged to the region on top of the *thread's* stack, which a stolen task inherits, cc:329 | cc:103-104 |
| TaskPool: 3 tasks, 1 worker, `Capture = TRUE`, tasks wait and open blocks | `NoWaitOnOwnStack` | a barrier steals a task that waits for the task beneath it on the same stack, cc:471: neither can go on | cc:463-464 |
| TaskPool: `Capture = TRUE`, tasks may drain | `DrainSparesItsCaller` | a block in a function that a task *calls* is compiled to the drain of the whole pool (`codegen/stmt_ast.cpp` 506, 521), which waits for its own caller, cc:419 | `tests/positive/nested.hphl` 5-6 |
| TaskPool: `Capture = TRUE`, Main spawns, waits and drains | `HandlesLive` | the records are freed while a handle to one can still be used, cc:427 | cc:71 |
| TaskPool: 4 tasks, Main spawns, tasks open blocks | `NoJoinerAsleepWithWork` | a spawn wakes workers only, not a joiner that sleeps for want of work, cc:351 | cc:102-103 |
| TaskRing: `InitCap = 2`, `MaxLive = 4`, 4 tasks | `SpawnKeepsPending` | growth of the full ring leaves the wrapped part where it was; the next task overwrites the oldest, cc:337 | cc:335 |
| Channel: `PerSender = 3`, `InitCap = 2` | `FixedCapacity` | `Send` on a full channel grows it instead of blocking, cc:549 | cc:498-499 |
| HandleTrack: `Cap = 3`, 3 handles | `ExitInReverse` | removal moves the last entry into the hole, so exit does not close in reverse order of creation, cc:906 | cc:916 |
| Unwind: `Backends = {"x64"}`, `TasksThrow = TRUE` | `LandsAtHome` | the chain of x64 is one variable for all threads: a throw lands in another's try, `codegen/expr_hir.cpp` 661 | `docs/stdlib/runtime.md` 987 |
| Unwind: `JumpsInTry = TRUE` | `ChainIsStack` and `LandsAtHome` | return, break and continue out of a try block leave its record on the chain, `expr_hir.cpp` 634 and 585-592, `irgen/irgen.cpp` 779-795; a later throw lands in a block that is closed | `runtime.md` 947 |
| Unwind: as in `unwind` | `LocksAreBlocks` | a throw out of a `lock` block keeps the lock, `expr_hir.cpp` 732 | `semantic/semantic.cpp` 2015 |
| Unwind: `Stripes = {{o1, o2}}`, one thread | `NoSelfWait` | nested locks of two objects on one stripe wait for themselves, cc:23 | cc:4-6 |
| Unwind: `Reassigns = TRUE` | `Serialized` | the target of a lock is evaluated again at its end; assigned meanwhile, another stripe is released, `expr_hir.cpp` 732 | cc:4-6 |
| Unwind: `TasksThrow = TRUE` | `PendingIsRunning` | a throw through a task run inline skips its bookkeeping: it stays pending for ever, cc:204 | cc:167 |
| Gc: 4 objects, 2 slots, `Pressure = "any"` | `OldToYoungRemembered` | `gc_pressure` empties the remembered set but keeps the card bits in the headers, so the barrier skips those objects from then on, `gc.c` 1204 | `gc.c` 929-931 |
| Debugger: `MaxCmds = 2` | `OnlyCommandsResume` | an event left from an earlier stop of a recycled slot resumes a thread that no command resumed, `debug.c` 977 | `debug.c` 95-97 |
| Debugger: `MaxCmds = 2` | `NobodyStranded` | a closed pipe releases the reader and nobody else: the other stopped threads sleep on, `debug.c` 957 | `debug.c` 956, 958 |

### The tools

| module, constants | property | what the code does |
|---|---|---|
| Session: `Odd = {"late"}` | `RepliesMatch` | an answer that comes after the adapter gave up is read as the answer to the next command, `dap/runtime.inc` 223 |
| Session: `Odd = {"threads"}` | `RepliesMatch` | the list of threads is asked of a running program too; a stop that comes meanwhile is read as its answer |
| Session: `Odd = {"blind"}` | `ReadsAtStop` | while the adapter passes over a stop it keeps the frames of the old one and reads from a running program, `dap/loop.inc` 114 |
| Session: as in `debug`, `armed = wanted` in place of the last conjunct | `BreakpointsAsAsked` | the old breakpoints are switched off in a loop over the vector that `sendBp` erases from; of three lines one is passed over and stays armed after none was asked for, `dap/handlers.inc` 81-86 |
| MCPackages: `Faults = {"crash"}`, or two clients and no fault | `InstallThenBuild` | a directory that has a manifest counts as installed, whether or not the files after it were written, `loader/pkgfetch.cpp` 1338 |
| MCPackages: `Faults = {"checkout"}` | `CommitTrue` | a full clone whose checkout failed stays in the cache with the commit it came with, and counts as a hit the next time, 785-801, 814 |
| MCPackages: `Faults = {"lockfile"}` | `InstallThenBuild` | an entry of a lockfile that came with the project counts as taken although the cache does not have its version, 1532-1537 |
| MCPackages: `Faults = {"edit"}` | `LockSatisfies` | a version in the lockfile is kept although the manifest asks for another by now, 1459 |
| MCPackages: `Faults = {"republish"}`, two clients | `LockShaTrue` | the hash locked is that of the index, also when the cache has the files of an earlier tarball, 1338 |
| MCPackages: two publishers, no fault | `VersionsStay` of all packages | two publishes of one package read the index and write it back: one version is lost, 1173 |
| MCImports: `Projects <- Captures` | `NameKept` | an alias holds in the whole program and takes the name of a module from files that did not ask for it, `semantic/semantic.cpp` 1271 |
| MCImports: `Projects <- ByAliases` | `DepsAcyclicByAlias` | the search for cycles does not follow a dependency named by its alias, 702 |
| MCImports: `Projects <- TwoBlocks` | `DepsAcyclic` | of two blocks of one module in a file the dependencies of the second are dropped, `loader/loader.cpp` 159 |
| MCImports: `Projects <- StdNamed` | `LoadsExactly` | a user's file may declare a module with a library's name; imported before the library, both are loaded as that module, `loader/loader.cpp` 50 |

For these modules the constants besides are those of small files of one family
(`OneName`, `OneManifest` and so on in `MCPackages`), and the specification is `Spec`,
or `ImportsSpec` for the loader and what follows it.

### The compiler

Properties under `[][...]_sugarVars`, `_flowVars`, `_vars` as in `MCFront`.

| module, constant | property | what the code does |
|---|---|---|
| MCCompile: `Quirks = {"plain"}` | `BackEndsAgree` | x64 applies a policy (wrap, checked, saturate) to every operator, `codegen/expr_hir.cpp` 2926; LLVM to compound assignment, `++` and `--` only, `irgen/irgen.cpp` 3549-3644 |
| MCCompile: `Quirks = {"policy"}` | `BackEndsAgree` and `BodyWhole` | the check of a policy stands between load and store, a call while the address waits in r10, `codegen/expr_hir.cpp` 1713-1728 |
| MCCompile: `Quirks = {"usat"}` | `BackEndsAgree` | saturation of unsigned values compares them as signed ones on x64, `codegen/expr_ast.cpp` 972-1008 |
| MCCompile: `Quirks = {"unsigned"}` | `MeaningKept` and `BackEndsAgree` | division and comparison of unsigned constants are folded as signed, `hir/hirOpt.cpp` 147 |
| MCCompile: `Quirks = {"tobool"}` | `MeaningKept` and `BackEndsAgree` | a cast to bool is three things: what `hir/hirOpt.cpp` 244-275 folds, nothing (`codegen/expr_hir.cpp` 3021), the low bit (`irgen/irgen.cpp` 4082) |
| MCCompile: `Quirks = {"twice"}` | `BackEndsAgree` | LLVM emits the operands of a derived `==` a second time, `irgen/irgen.cpp` 3400-3460 |
| MCCompile: `Quirks = {"logic"}` | `BackEndsAgree` and `MirFaithful` | LLVM evaluates both sides of `&&` and of the other short-circuit operator, `irgen/irgen.cpp` 3400; in the three-address form the result is unset when the left side decides, `mir/mir.cpp` 246-283 |
| MCCompile: `Quirks = {"r10"}` | `BackEndsAgree` | the finding `compile_r10` |
| MCCompile: `Quirks = {"hidden"}` | `BackEndsAgree` | the search for calls in a right operand does not see those of casts, index checks, property getters, comparators and checked policies, `codegen/emit_helpers.cpp` 228: the left operand waits in r10 over them |
| MCCompile: `Quirks = {"reload"}` | `BackEndsAgree` | x64 reads a variable on the left again after the call on the right, `codegen/expr_hir.cpp` 2803 |
| MCCompile: `Quirks = {"order"}` | `BackEndsAgree` and `MirFaithful` | x64 evaluates the value of a compound assignment and then the target, `codegen/expr_hir.cpp` 1640; LLVM the target and then the value, `irgen/irgen.cpp` 3966 |
| MCCompile: `Quirks = {"again"}` | `BackEndsAgree` | LLVM evaluates the index in the target of a compound assignment twice, `irgen/irgen.cpp` 2251, 3722, 3966 |
| MCCompile: `Quirks = {"bounds"}` | `BackEndsAgree` and `BodyWhole` | LLVM does not check the index of a fixed array, `irgen/irgen.cpp` 2505 |
| MCCompile: `Quirks = {"property"}` | `BackEndsAgree` | a compound assignment to a property sets the plain value on x64, `codegen/expr_hir.cpp` 1413-1440 |
| MCCompile: `Quirks = {"loopvar"}` | `BodyWhole` | the bound of a loop is taken from its test although the body assigns the variable, and index checks are left out, `codegen/emit_helpers.cpp` 306-325 |
| MCCompile: `Quirks = {"trap"}` | `MeaningKept` | a local never used is removed with an initialiser that would trap, `hir/hirOpt.cpp` 61-110, 719 |
| MCCompile: `Quirks = {"tuple"}` | `MeaningKept` and `BodyWhole` | the search for names does not look into a tuple literal, so a local used only there is removed, `hir/hirOpt.cpp` 533-607 |
| MCCompile: `Quirks = {"once"}` | `MeaningKept` | `do { ... break; } while (false)` becomes its body, whose break then means the loop around, `hir/hirOpt.cpp` 434 |
| MCCompile: `Quirks = {"tail"}` | `BackEndsAgree` | a self tail call writes its parameters one by one, and a later argument reads the new ones, `codegen/calls.cpp` 604 |
| MCCompile: `Quirks = {"leak"}` | `BackEndsAgree` and `Balanced` | return, break and continue out of try leave the handler, `codegen/expr_hir.cpp` 585-634, `irgen/irgen.cpp` 779-795 |
| MCCompile: `Quirks = {"locked"}` | `Balanced` | return, break, continue and throw out of `lock`, and a call in it that throws, keep the lock, `codegen/expr_hir.cpp` 732 |
| MCCompile: `Quirks = {"relock"}` | `BackEndsAgree` and `Balanced` | a try body with a lock block, already closed, and then a throw: the variant for wasm gives the lock back once more, `irgen/irgen.cpp` 1698 |
| MCCompile: `Quirks = {"param"}` | `MirFaithful` | a parameter assigned in one block has no phi, since its first definition is not counted, `mir/mir.cpp` 691 |
| MCCompile: `Quirks = {"late"}` | `MirFaithful` | the name of an operand is read when its operator is, after the other operand has changed it, `mir/mir.cpp` 55-160 |
| MCCompile: `Quirks = {"derived"}` | `MirFaithful` | the comparator of a struct is lost in the three-address form |
| MCCompile: `Quirks = {"step"}` | `MirFaithful` | `++` and `--` come out as `~` |
| MCCompile: `Quirks = {"typed"}` | `MirFaithful` | the types of operators, policies and unsigned, are lost |
| MCSugar: `Quirks = {"hoist"}` | `SugarKept` | sugar of a later operand runs before earlier operands, `hir/hir.cpp` 1349 |
| MCSugar: `{"short"}` | `SugarKept` | sugar on the right of `&&` runs whatever the left says |
| MCSugar: `{"loopcond"}` | `SugarKept` | sugar in the condition of a loop runs once, before it |
| MCSugar: `{"forinit"}` | `SugarKept` | sugar in the first part of `for` leaves its variable in an inner scope, 369 |
| MCSugar: `{"switchbreak"}` | `SugarKept` | break and continue inside a switch that stands in the same loop are dropped, wherever they stand, 262 |
| MCSugar: `{"nullref"}` | `SugarKept` | `??` on a reference or list: the lowering tests for null, the code made from the tree reads a tag that these have not, 1234 |
| MCSugar: `{"selfinit"}` | `SugarKept` | a declaration that reads the outer variable of its own name reads itself; so does `result` |
| MCSugar: `{"ensure"}`, `{"tryensure"}` | `SugarKept` and `EnsuresChecked` | sugar in a postcondition is evaluated before `result` has its value, 435; `?` returns past the postconditions, 1385 |
| MCFlow: `FlowOdd = {"readset"}`, `{"partsout"}`, `{"dobreak"}` | `OutsAssigned` | an out parameter counts as set by `r = r`, by one part of a parallel block, and by a loop left before |
| MCFlow: `{"andout"}` | `OutsAssigned` | `c && f(out r)` counts as setting `r`, whatever `c` says |
| MCFlow: `{"matchout"}` | `OutsAssigned` | the arms of a `match` are checked one after another without a merge: what one arm sets counts for all, 5009 |
| MCFlow: `{"switchall"}` | `AlarmsAreReal` | what all cases of a switch set is not counted |
| MCFlow: `{"lockout"}` | `AlarmsAreReal` | what a lock block sets is not counted; on purpose, 2015 |
| MCFlow: `{"ensureout"}` | `AlarmsAreReal` | an `ensure` that reads an out parameter is checked before the body has set it |
| MCFlow: `{"switchmove"}` | `AlarmsAreReal` and `CertainFaultRefused` | moves, nulls and what is set to an object again in one case of a switch are held for the next, 2278 |
| MCFlow: `{"valuedmove"}` | `AlarmsAreReal` and `CertainFaultRefused` | moves and nulls in a lambda, a task with a value or an arm are not undone, 2417 |
| MCFlow: `{"spawnnull"}` | `AlarmsAreReal` and `CertainFaultRefused` | a null set, or removed, in a task or a parallel part, which has its own copy, is held for what follows |
| MCFlow: `{"restore"}` | `AlarmsAreReal` | `a = new ...` does not end the move of `a` |
| MCFlow: `{"renew"}` | `AlarmsAreReal` | `a = new ...` does not end that the arena of `a` was reset |
| MCFlow: `{"elsereset"}` | `AlarmsAreReal` | a reset in one branch, case or task is held for the others |
| MCFlow: `{"alias"}` | `ArenaStays` and `CertainFaultRefused` | an arena object leaves through a second name |
| MCFlow: `{"stalebranch"}` | `AlarmsAreReal` | a lock block in one branch, case or task makes what is read in another stale |
| MCFlow: `{"two"}`, `{"shadow"}` | `AlarmsAreReal` | stale locks of one function, and moves in an inner scope, are held for the next |
| MCFlow: `{"nestedlock"}` | `CertainFaultRefused` | only the innermost lock is known: in `lock(o) { lock(p) { ... } }` a read of `o` does not count, and a stale one later is accepted, 6731-6739 |
| MCFlow: `{"lockthrow"}` | `LocksLeft` | a lock block with a call that throws is accepted and keeps its lock (`codegen/expr_hir.cpp` 732), though 2015 calls it a try/finally |
| MCFlow: `{"propagate"}` | `LocksLeft` | `?` inside `lock` is accepted, though `return` there is refused, 1919 |
| MCFlow: `{"valuedlock"}` | `LocksLeft` and `CertainFaultRefused` | `return` inside `lock` in a lambda or a task with a value is accepted, since those branches come before the veto, 1887, 1906, 1928 |
| MCParse: `Odd = {"paren"}` | `ParsesBack` | `(a < b) * 1` is read as a cast to a type `a<b` and refused, `frontend/parser.cpp` 2544 |
| MCParse: `{"scan"}` | `ParsesBack` | `a < b` followed much later by `> (` is read as a call with type arguments, 2110 |
| MCParse: `{"cast"}` | `ParsesBack` | `return (int) a;` is read as the beginning of a tuple and refused, 1761 |
| MCParse: `{"arrow"}` | `ParsesBack` | `return () => a;` is read as the beginning of a tuple and refused, 1768-1776, though 2252 lists `() => 42` |
| MCParse: `{"policy"}` | `ParsesBack` | `const heap int a = 1;` in a body is refused: the test that is meant for `pool`, whether a declaration goes on, stands over `const`, `readonly` and `volatile` too and does not know the other policies, 1502-1513, though 1345-1350 reads one after `const` |
| MCParse: `{"try"}` | `ParsesBack` | `a? - b` is read as the question mark of `a ? x : y`, since a minus begins an operand for 2245 and not for the comment of 2217-2219 |
| MCParse: `{"inc"}` | `ParsesBack` | `a ? ++b : 1` and `a ? await b : c` are read as `a?`, since `++` and `await` begin no operand for 2234-2249 |
| MCParse: `{"sign"}` | `LostNothing` | a minus in front of a path in a pattern is dropped, 2646 |
| MCParse: `{"pending"}` | `NothingPending` | `compiletime` before what is no function stays pending and marks the next one, 453, 727 |

The quirks are those of `QuirksOf` and `MirQuirksOf` in `Compile`, all of them; the rows
of MCFlow without a file are about `semantic/semantic.cpp`, those of MCParse about
`frontend/parser.cpp`. Beside its `Odd` forms `MCParse` leaves out one more thing: damaged
functions that return a tuple, since the parser drops the names of a tuple's elements, on
purpose (documentation, `frontend/parser.cpp` 1054-1066), so that `LostNothing` fails on them.

## 7. What is not modelled

`PROJECT.json` lists every component with its reason; in short:

- *Cooperative async scheduler* (`rt/core/core.c` 12-110): nothing the compiler emits
  calls it. As it stands `hphl_coop_run` takes tasks last in first out, calls the body
  of a task that yielded again from its beginning, and a yield can make the ready list
  cyclic, so there is no behaviour to state properties of.
- *Memory*: allocators (arithmetic on addresses in one thread), lists, slices and
  tuples (copies of memory; a slice reserves 8 bytes an item and copies by its size).
- *Conversions and wrappers*: strings, images, sockets, lexer, JSON, messages,
  command line, translation of positions in the language server: no state that outlives
  a call. Cryptography: numbers of 256 bits and more.
- *Types, generics, overloads, classes, interfaces* in semantic
  analysis: checks of a node against tables that are complete before.
- *Selection of instructions, registers, layout, debug tables* in the back ends, the
  calls into the LLVM library, floats.
- *Other programs*: the self-hosted compiler, the editor extension, build tools; tests
  and documents, which serve as evidence of what is intended.

In the modelled parts these are left out or bounded by name: in `Gc` several
mutators on one root table and values waiting in unregistered temporaries (both are
hazards without a property in `PROJECT.json`); in `Unwind` payloads and types of
catches; in `Debugger` the tables of breakpoints; in `Session` breakpoints on
functions and data, the label of a stop that a pause asked for, the end of input of
the adapter; in `Packages` the steps inside git (a clone is one step), yank, search,
transitive dependencies (not fetched by the code), an index cut short; in `Parse`
the lexer, positions and the limit of nesting; in `Mir` objects, strings and the printer.

Three parts of modelled files are abstracted throughout: values of the
program's data, failure of `malloc` except where the code goes on after it
(`Channel`), and the memory model of the processor: an interlocked operation or
a critical section is one step in a total order.
