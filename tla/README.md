# jit-signal-engine: TLA+ models and proofs

The engine compiles a small signal language (`sma(mid(AAPL), 20) > ...`) to
native code with LLVM and evaluates it tick by tick. The same signal can be run
by an interpreter, by scalar JIT code that calls the runtime, by JIT code with
the operator state lowered into it, by warm-specialised code without warm-up
guards, and by a vectorised kernel over many symbols. Around that sit a lock-free
ingest ring, tiered compilation, an on-disk module cache shared by processes, a
sharded multi-threaded evaluation, and gradients of signals in their parameters,
symbolic, interpreted and compiled, from which a calibrator fits them.

This directory models the language from tokens to ticks and the parts that keep
state or run concurrently, checks them with TLC and proves the most important
results with TLAPS.
`PROJECT.json` holds the machine-readable index: which definition models which
lines, which run checks which property, which mutation of the code each property
catches.

Paths below are relative to the repository; engine code is in `src/`, drivers in
`bench/` and `cli/`.

## 1. Inventory

| Component | Code | State | Operations | What makes it correct |
|---|---|---|---|---|
| SPSC ring | `src/spsc_ring.h` | two free-running indices, a shadow of each, slots | `try_push`, `try_pop`, `size_approx` | no slot is touched by both threads, never overfull, FIFO |
| Ingest pipeline | `bench/spsc_jit_pipeline_bench.cpp` | ring, `producer_done`, event stream | feed loop, eval loop, shutdown | every event evaluated once and in order, both threads end |
| Window statistics | `src/runtime.*`, `src/interpreter.cpp`, lowered emitters in `src/jit_compiler.cpp` | ring buffer, running sum, mean and M2 | push and query of sma, rolling_std, zscore | value of the window, the same in all backends |
| Rolling extrema | same files | monotonic deque of value and index | push with eviction | extremum of the window, no overrun |
| Paired windows, vwap, lag | same files | two rings with running sums; a delay line | push, query | value of the window, the same in all backends |
| Recurrences | same files | last value(s) | ema, ema_alpha, crosses, kalman1d | closed form over the history |
| SignalContext and prewarm | `src/runtime.*` | per-node arrays, cached base pointers, lowered mirrors, sensitivities, parameters | `EnsureNodeCapacity`, `PrewarmSignalContext`, `SetParameters` | pointers not stale, each node has storage |
| Node ids, evaluation | `src/signal_program.cpp`, `src/interpreter.cpp`, `src/jit_compiler.cpp` | node ids, per-node states, emitted values | id allocation with sharing, tree walk, emission | backends agree; shared values dominate their uses |
| Module cache, compile entry points | `src/jit_compiler.cpp` | cache directory, ORC symbols, compiled pointers, diagnostics | five `Compile*` calls | the pointer published is the code that was asked for |
| Tiered JIT | `src/jit_compiler.cpp` | active function, promoted flag, warm-up threshold | `Compile`, `Promote`, `CurrentFunction` | promotion cannot be observed in the results |
| Sharded evaluation | `src/multithread_eval.*`, `bench/multithread_scaling_benchmark.cpp` | one arena per thread, markets, outputs | shard, evaluate, join | a partition; equal to the sequential loop |
| Parser, type check, folding | `src/parser.*`, `src/type_check.*`, `src/constant_fold.*` | none across calls | parse a line, check, fold | ill-formed programs and no others are rejected; folding preserves evaluation |
| Formatter | `src/dsl_formatter.*` | none | print a program | what it prints parses to the same tree |
| Signal inlining | `src/signal_program.cpp` | visit marks | depth-first search, substitution | cycles are reported; meaning is preserved |
| Symbol table | `src/runtime.*` | names and ids | register, look up, bind | bounded by `kMaxInstruments`; all passes use the same id |
| Autodiff and gradients | `src/autodiff.*`, `src/runtime.cpp`, gradient emission in `src/jit_compiler.cpp` | a sensitivity per call and parameter | symbolic derivative, forward interpreter, gradient code | the derivative of the value, the same on all paths |
| Calibration | `cli/jitse_calibrate.cpp` | one arena per parameter and pass, Adam moments | objective and gradient, Adam loop | the gradient is that of the objective |
| Command line | `src/main.cpp`, `cli/jitse_fmt.cpp`, `cli/jitse_lint.cpp` | local | drive the passes | ids, context and code belong to one program |
| Lexer, AST printer, histogram, profiler, benchmarks, fuzzers | `src/lexer.*`, `src/ast_printer.cpp`, `bench/`, `fuzz/` | local | text, measurement | tests |

How they interact. A program is parsed, inlined, given node ids and bound to
symbol ids; `PrewarmSignalContext` walks it and prepares one `SignalContext` per
symbol. `JitCompiler` emits code from the same tree, or loads it from the cache,
and publishes a function pointer. Emitted code reaches the context through base
pointers that the context caches, so code, context and ids have to agree.
`TieredProgramJit` holds two compilers and an atomic pointer that evaluators load
on each tick. The drivers feed market events to evaluators either through the
SPSC ring (two threads) or by sharding the symbols (one arena per thread).

What is hard here: the ring's memory ordering and stale shadow indices; the
shutdown race of the pipeline; promotion while evaluators run; processes that
share a cache directory and may die; five implementations of each operator that
must stay in step over warm-up, wrap-around and NaN; sharing of node ids under
conditionals; storage that moves while code holds pointers to it; a derivative
computed in four places, each beside a state that has to stay in step with it.
The full list,
with lines and with the properties aimed at each, is under `hazards` in
`PROJECT.json`.

## 2. Modules

| Module | Models | Checked by |
|---|---|---|
| `Fifo` | abstract bounded queue | refinement target |
| `SpscRing` | the ring, one step per memory access | `spsc_pipeline`, `SpscPipelineProofs` |
| `SpscPipeline` | extends `SpscRing` with the feed and eval threads | `spsc_pipeline`, `SpscPipelineProofs` |
| `Doubles` | exact integers with NaN, and C's comparisons on them | used by `WindowCall` |
| `WindowCall` | a call with a window: its period, whether its code is specialised | used by `RingStats`, `PairWindow` |
| `Ieee` | exact rationals with NaN and infinities, sums and products | used by `Recurrences`, `MonoDeque`, `Expressions`; laws in `IeeeProofs` |
| `RingStats` | sma, rolling_std, zscore in five implementations | `windows`, `WindowProofs` |
| `PairWindow` | vwap, rolling_corr, rolling_beta, lag | `windows`, `WindowProofs` |
| `Windows` | composes the two: all window operators on one stream | `windows`, `WindowProofs` |
| `Recurrences` | ema, ema_alpha, crosses, kalman1d, with backend swaps | `recurrences`, `RecurrencesProofs` |
| `MonoDeque` | the deques of rolling_min and rolling_max (operators) | `gradients`, `GradientsProofs` |
| `Gradients` | every stateful call with its sensitivity, tick by tick | `gradients`, `GradientsProofs` |
| `Expressions` | trees, and what operators compute at run time | used by the five below |
| `Dsl` | parser, type check, constant folding, formatter | `program` |
| `SignalProgram` | programs of several lines: parsing, inlining, node ids, symbol ids | `program` |
| `ExprEval` | interpreter, scalar and vector emission and execution | `program` |
| `Autodiff` | symbolic, interpreted and compiled gradients; the objective of calibration | `program` |
| `Program` | composes the five: a source goes through all passes and is ticked on all backends | `program`, `all_signals` |
| `TieredJit` | compile, promote and racing evaluators | `tiered_jit`, `JitProofs` |
| `ShardedEval` | shards, worker threads, joins | `sharded_eval`, `ShardedEvalProofs` |
| `ModuleCache` | compile entry points over a shared directory | `module_cache`, `cache_key`, `JitProofs` |
| `SignalContext` | storage, prewarm, parameters of one context | `signal_context`, `gradient_slots`, `SignalContextProofs` |

`MC*` modules give the constants their values; their `.cfg` files name the
specification and the properties.

### How state and actions correspond to the code

**SpscRing.** `head`, `tail`, `cachedHead`, `cachedTail`, `slots` are the members
of the class. `try_push` is load-or-decide, reload, write, publish; `try_pop`
mirrors it. An acquire load may return any value the other index had since this
thread last saw it, so the model does not assume sequential consistency for the
indices. `knownHead` and `knownTail` are ghosts that remember what has been
acquired; `SlotRaceFree` is stated with them: an access to a slot must be ordered
after the other side's last use of it. Indices are taken modulo `W = N * Laps`,
so wrap-around of the 64-bit counters is a reachable case.

**SpscPipeline.** The feed thread pushes `1..Total`, retries when full, then sets
`producer_done`; the eval thread pops, and on an empty ring reads
`producer_done` and then `empty_approx()` before it leaves. Pacing and latency
stamps are left out.

**RingStats, PairWindow, Recurrences.** One action is one tick. For the windows
the same sample goes to the interpreter's state, to the opaque runtime calls and to the
lowered arrays, each with the code of that implementation; `Windows` gives it to
the operators of both modules and promotes them together, since specialised code is a property of the
whole compiled module. In `Recurrences` one context is ticked by the backend
whose turn it is (`Swap`), on the arrays that this backend uses. Results are compared
with a reference computed from the last samples, or from the whole history, kept as a ghost. Arithmetic is
exact, with one NaN that behaves as in C (all comparisons false).
Rounding is therefore outside the models: they show that the formulas and the
bookkeeping are right, not that the floating-point error is small. Square roots
are not taken; variances are compared.

**Gradients** (with **MonoDeque**). One behaviour is one call, chosen in `Init` with
who evaluates it: the gradient interpreter on states that their first use sets
up, gradient code on prewarmed states, or, for the extrema, lowered code. A tick
feeds a dual number, the operand's value and its derivative, and advances the
state of the call (`primal`) and its sensitivity (`grad`), each by its own code.
What the call returns is compared with the batch definition over dual numbers.
Where the code divides by a deviation the model gives the result multiplied by
it, so no root is needed. `cut` is a ghost: the clamp has changed the
derivative of M2 since the last refresh.

**Program.** `source` is what the author wrote, as trees. `Parse`, `Inline` and
`Prepare` are the passes in the order in which every driver calls them; each
either yields the next program or throws (`rejected`). `Parse` sees tokens, with
all parentheses, so that it is the formatter and not the model that has to know
about precedence. `Prepare` allocates ids, registers and binds symbols, and
compiles. `Tick` runs interpreter, scalar code, vector code and, per parameter,
forward and compiled gradients on contexts of their own with one market.
`Meaning` defines the value and the derivative of a source over the history of
markets, by structural recursion and without ids, states or caches; it is what
the outputs are compared with. lag by one stands for the stateful operators,
which differ in their arithmetic (the modules above) and not in when they are
evaluated; `mid` for the market fields; `abs` for the stateless functions.

**Dsl, SignalProgram, ExprEval, Autodiff** hold the passes as operators. A parse
error is position 0; a pass that throws yields `Rejected`. Emission threads the
cache of values by node id and the basic block each was built in; code that
reuses a value from a block that does not dominate the use is what
`verifyFunction` rejects.

**TieredJit.** The control thread compiles, waits until the evaluators have done
`WarmupTicks`, compiles the specialised version and publishes it in the order
of the code; evaluators load the pointer, run the tick and count. `agrees` is a
ghost that compares each answer with that of baseline code.

**ShardedEval.** Every thread walks its shard, feeding the market and running the
code for each symbol on its own arena, between a start gate and a join.

**ModuleCache.** Each compiler is a process. A compile call is the sequence of
in-memory lookup, file read, build, open, chunk writes, rename and ORC
hand-over. Names map to inodes, because a descriptor keeps its inode
after a rename. A file is a sequence of chunks, in which truncation and later
writes leave holes. Processes may crash, and opens and writes may fail. Two ghosts
serve the properties: `shared`, the names whose temporary file two processes had
open at once, and `served`, whether a call's code was built, loaded from disk or found in memory.

**SignalContext.** Array lengths, capacities and ages of states instead of their
values; a base pointer is identified by the length of the array when it was
taken. Actions are prewarming of the next signal, `SetParameters`, and ticks by
interpreter, lowered and gradient code.

## 3. Runs

| Run | Bounds | Why they are enough |
|---|---|---|
| `spsc_pipeline` | 10 events, 4 slots, indices modulo 8 | more events than slots and than index values: full, empty, wrap-around and stale loads all occur; the proofs remove the bounds |
| `windows` | windows 1 to 3, samples {0, 1, 4, NaN}, second operand {0, 1, 2} | no tick bound: the state space is finite, so refreshes and wraps recur, with NaN at each position of the window; zero volumes and flat series make every denominator zero |
| `recurrences` | 4 ticks, x below, at and above y, NaN, both noise settings | a cross needs three ticks; closed forms have no longer memory |
| `tiered_jit` | 2 evaluators, 5 calls | one call of every kind that the two warm-up analyses tell apart |
| `sharded_eval` | 1 to 7 symbols, 1 to 4 threads, 2 passes | every remainder, fewer symbols than threads |
| `program` | three families of programs (below), 3 ticks, prices 0 and 1, at most 2 instruments | lag by one needs two ticks to be warm and a third to see a wrong push |
| `all_signals` | the same programs, 2 ticks, ids as `main.cpp --all-signals` assigns them | two ticks tell two states apart |
| `gradients` | windows 1 to 3, 4 to 7 ticks | more than two windows: rings have turned and a refresh has followed a slide; ties with different derivatives, negative derivatives, NaN operands, valid and invalid noises |
| `module_cache` | 3 processes, 3 compiles, 2 chunks, 1 crash, 1 binding | a writer, a second writer and a reader of one key; a plain compile before and after a gradient one |
| `cache_key` | 2 processes, 2 compiles, 2 bindings | one text, two symbol tables |
| `signal_context` | 2 signals, one operator of each family, one call repeated before the last, 0 to 2 parameters, ages capped at 2 | growth within and between signals, a step back to a smaller id, parameters changed before and after |
| `gradient_slots` | the same without the last call, so that the program ends on the repeated one | one node above the last id |

The programs of `program`: all trees of height two over lag, `+`, conditionals
and `&&`, alone, joined, as branches and as two signals; three signals that refer
to each other, to undefined names, in cycles, and to instruments named like
signals; formulas with operators of every precedence level over two parameters,
constants (also ones closer than the tolerance) and a market read.

`recurrences`, `program`, `all_signals` and `gradients` bound the number of ticks and so may stop, which is why
their configurations do not check for deadlock; all others do.

What the passing runs show:

- `spsc_pipeline`: the ring has no slot race, is never overfull, implements
  `Fifo`; events are evaluated in feed order, none is lost by the
  shutdown test, both threads end. The ring's invariants are checked here under
  one particular client and proved for any.
- `windows`: every operator has the value of its window in every backend. Once a
  sample was NaN, the running sums of sma and zscore stay NaN in interpreter, runtime call
  and lowered code alike, and rolling_std of interpreter and runtime call is right again
  at most two windows later. The two implementations that part from the
  interpreter after a NaN, the SIMD sma and lowered rolling_std, are checked on
  streams of numbers only.
- `recurrences`: closed forms over the whole history, in the interpreter, in
  runtime calls, when these two take turns on one context, in lowered code and in the
  specialised code that takes over from it. A cross fires once per excursion. Left out are contexts on which lowered code
  takes turns with the others, and ema_alpha once a runtime call has met an alpha that changed.
- `tiered_jit`: unguarded code runs on full rings only, results do not depend on
  the tier, `IsPromoted()` implies the swap.
- `sharded_eval`: shards tile the symbols, no symbol is shared, each join leaves
  what the sequential loop would.
- `program`: a program is rejected if and only if it is ill-formed (a name given
  twice, a type error, a default that is no constant, an undefined name, a cycle, a captured
  instrument, too many instruments), so in particular every reused SSA value
  dominates its use. What the interpreter answers is what the source means,
  unless state stands in a branch or a folded equality was within the tolerance.
  Scalar code and interpreter agree in outputs and states for every program;
  vector code whenever each state in a branch is shared with a call outside it.
  Forward and compiled gradients agree on every program and are the derivative
  of the source; symbolic gradients agree with them; objective and gradient of
  calibration are those of the source, and it gives up exactly when a value is
  not finite. Formatting parses back, but for the two cases below.
- `gradients`: every sensitivity is the derivative of the batch definition, in
  interpreter and gradient code, except for rolling_std and zscore between an
  activation of the clamp and the next refresh. The deques always have room for
  their push, and answer extremum and derivative of the latest sample that
  attains it. Noises of kalman1d that the interpreter refuses are ticked but left out of the property.
- `module_cache`: every pointer published is the code asked for (for one symbol
  binding), even when two processes write one temporary file. A file under its
  final name never shrinks, and it is whole wherever a process died, unless two
  had its temporary file open at once. `LastCacheHit()` tells modules
  loaded from those built, `LastIRPostOpt()` never has the code of an earlier
  call, and a gradient that calls the runtime links exactly if its compiler had
  compiled nothing else before.
- `signal_context`: base pointers are current whenever code runs, prewarmed nodes
  are prepared in both layouts, tick indices count samples (in the runtime
  states until a context in use is prewarmed again), and in a program that ends
  on its largest id gradient slots exist for every node and parameter.

### Fairness

- `SpscPipeline`: weak fairness of both threads, that is, a running thread runs,
  and strong fairness of "the
  reload sees room" and "the reload sees an element". Both threads retry in a
  loop, and C++ asks that a store become visible to later loads in finite time
  ([intro.progress]); without it a thread could read the same old
  index for ever.
- No other module assumes fairness: their properties are safety properties.

### Findings

Three runs state what the repository says and end in a violation; the
quotations are under `findings` in `PROJECT.json`.

- `cache_key` (`jit_compiler.cpp:315`): the emitter bakes symbol ids into the code,
  but the key holds symbol names only. The same text bound against another
  symbol table is served code that reads other instruments.
- `all_signals` (`main.cpp:155`): ids are allocated per signal, so they restart at
  1, and all signals are compiled together. The emission cache, which relies on
  ids that are unique in the program, answers a call with the value of another
  signal's call. With two signals, `lag(mid(A), 1)` and `lag(mid(B), 1)`,
  compiled code answers both with the first. Drivers that use
  `AllocateProgramNodeIds` are covered by `program`.
- `gradient_slots` (`runtime.cpp:869`): operators carry sensitivities "in
  additional per-`(node_id, param_id)` state slots" (`ARCHITECTURE.md:300`), but their
  storage is resized to fit the node at hand, smaller ones included, so it fits the
  node visited last. A program that ends on a repeated call, whose shared id is not the largest,
  `ema(x, 2) + kalman1d(x, q, r) + ema(x, 2)`, leaves no slot for the kalman1d.

Other places where comments or documents differ from the code. The models follow the code
and reach these states; the property named leaves the case out, so a green
run says nothing of it, and holds of the rest.

| Where | The repository says | The code does | Left out of |
|---|---|---|---|
| `multithread_eval.cpp:18` | "last shard takes remainder" (`multithread_eval.h:17`) | the first shards take one more each | `ShardsTile` (sizes) |
| `jit_compiler.cpp:1929` | "stateful ops are rejected up front" (`jit_compiler.cpp:1931`) | vector code advances states of the branch not taken | `VecMatchesIfAliased` |
| `runtime.cpp:924` | "swapping one for the other is safe at any tick" (`ARCHITECTURE.md:205`) | lowered code has state arrays of its own | `EmaOfHistory`, `CrossOncePerExcursion`, `KalmanOfHistory` (`Unmixed`) |
| `runtime.cpp:1290` | ema_alpha "uses the supplied `alpha` directly" (`docs/dsl-reference.md:76`) | the runtime call keeps the alpha stored on the first tick | `EmaOfHistory` (`AlphaSettled`) |
| `jit_compiler.cpp:1307` | "The interpreter is the spec" (`ARCHITECTURE.md:183`) | lowered rolling_std does not recover from a NaN | `StdIsWindowDeviation` |
| `runtime.cpp:1304` | same | SIMD sma recovers from a NaN, the interpreter does not | `SmaIsWindowMean` |
| `jit_compiler.cpp:355` | "written atomically" (`jit_compiler.h:261`) | one temporary name per key: with two writers, a rename can publish a half-written file | `CacheInv` (`shared`) |
| `jit_compiler.cpp:3761` | `LastCacheHit()` is of the most recent `CompileProgram*` call (`jit_compiler.h:279`) | a vectorised compile and a hit in memory leave it alone, `DisableModuleCache` resets it | `CacheInv` (`served`) |
| `jit_compiler.cpp:3108` | `LastIRPostOpt()` has a value after a hit (`jit_compiler.cpp:3337`) | empty after an in-memory hit and after a gradient loaded from disk | `CacheInv` (`served`) |
| `jit_compiler.cpp:363` | "Errors are silent" (`jit_compiler.cpp:349`) | a write error ends the process (action `WriteFails`) | none |
| `runtime.cpp:1041` | "idempotent on repeated prewarm" (`runtime.cpp:924`) | a second prewarm restarts lowered states and tick indices, not the runtime's deques | `ContextInv` |
| `runtime.cpp:300`, `autodiff.cpp:476` | "if unclamped `m2 > 0`, use the normal derivative above; if the clamp activates, take the branch derivative `m2' = 0`" (`docs/autodiff_design.md:404`) | the derivative itself is clamped when it is negative: samples 0, 1, 2 with derivatives 0, 0, -1 and period 2 give 0, until the next refresh | `WindowSensitivities` |
| `dsl_formatter.cpp:37` | output "parses to a structurally-equal AST" (`dsl_formatter.h:3`) | a disjunction whose right operand is a conjunction is printed without parentheses, and the parser, which has one left-associative level for both, reads it the other way round; an operand of a logical operator folded to a literal no longer type-checks | `RoundTrips` |
| `jit_compiler.cpp:3674` | no order of compile calls is excluded (`jit_compiler.h`) | a gradient compile after another compile of the same `JitCompiler` does not link | none: `GradientLinksIfFirst` says when |
| `runtime.cpp:1766` | "The interpreter is the spec" (`ARCHITECTURE.md:183`) | the interpreter throws for invalid kalman1d noises, gradient code goes on | `RecurrenceSensitivities` (`ValidNoise`) |

## 4. Proofs

All proofs are for the specifications as TLC checks them, for every value of the
constants that the named assumptions allow.

**SpscPipelineProofs, the ring**, for every `N >= 2`, every number of laps `>= 2`,
any values. The inductive invariant is

- `TypeOK`: indices below `W`, slots hold values;
- `RingOrder`: read backwards from `head`, modulo `W`, the indices stand in the order
  `cachedTail`, `tail`, `cachedHead`, `knownHead`, `head`, the first and the last
  at most `N` apart;
- `Guarded`: past the full test the producer knows of a free slot, past the empty
  test the consumer knows of an element;
- `Carried`: a value written and not yet published, or read and not yet returned,
  is the one of the call.

`NeverOverfull` (a store finds fewer than `N` elements) is not inductive: it follows only because the shadow is behind
the live tail, which is why `RingOrder` speaks of the shadows. A first group of
lemmas settles the modular arithmetic (`Dist`, `Plus`, distinct slots at
distances below `N`) so that the steps themselves need no division. From the
invariant: `RaceFreedom`, `NoOverfullPublish`, and `RingIsFifo`, where the
publishing store is `Fifo`'s push, the store of `tail` its pop, and everything else
stutters.

**JitProofs, tiering**, for every program, any number of evaluators. The invariant adds
to the types that the ticks done are counted (`Counted`), that specialised code is
only about once the rings are full (`AboutWhenWarm`) and the order of the two
stores (`PublishOrder`). The heart of it is that the warm-up threshold is the
maximum over a set that contains every call the specialiser strips of its guard;
that a maximum exists is a lemma by well-founded minimality. From it:
`SpecialisedRunsWarm`, `TieringInvisible`, `PromotionPublished`.

**SpscPipelineProofs, the threads**, for every number of events. The pipeline takes one step the
ring does not, the acquire load of `producer_done`, so the ring's invariant is
carried over with that step added. With it, `PipeInv` and `NothingLost` are
inductive together: what has been applied, what is in the ring and what is
still to be fed are consecutive runs of one stream, and an eval thread past its
shutdown test has seen the last publication. Results: `FeedOrder`,
`NoEventLost`, `PipelineRaceFree`, `PipelineIsFifo`.

**ShardedEvalProofs**, for all sets of sizes and thread counts. Lemmas on `\div` and
`%` give the bounds of a shard; the invariant says that each thread stays in
its own; `SymbolsNotShared` follows because shards are disjoint, and
`ShardsAlwaysTile`, that they join up and cover everything, from the arithmetic alone. `ShardingInvisible` adds what each
thread has left behind itself: arenas, markets and outputs below its cursor are
those of this pass, those from it on are those of the last one; at a join
every symbol is below the cursor of the thread that owns it.

**JitProofs, the module cache**, for any number of processes, programs, chunks, compiles and
crashes. The hypothesis `AllBindAlike` says that all compilers bind symbols
alike; it cannot be dropped, since `cache_key` is the counterexample without it.
`SentinelAssumption` only says that the model's markers are no modules. The
invariant has one part for each process (what its call has in hand, what its
diagnostics say, what ORC knows, what can still link) and one for the files: each
belongs to one name, holds modules of that name, and is under a temporary
or a cached name but not both. Two processes writing one temporary file are the
hard case: what they write is for the same name and, under the hypothesis, the
same. A name that never had two writers at once (`OneWriter`) is simpler: the one
process that has its temporary file open knows what it has written (`Written`), and
no other descriptor reaches the file it renames, so that what is published is whole. Results: `CacheServes`, `CacheAlwaysOK`, `GradientLinking` and, as an action
property, `CachedFilesGrow`.

**SignalContextProofs**, for every program (`ProgramAssumption`: its signals are walks
over calls, and ids that are equal belong to equal calls) and any order of use.
The invariant is
`ContextInv` with the progress of the prewarm loop (each signal before the
cursor has been prepared and not been undone since) and `GradientSlotsInRange`, which speaks of programs that end on their largest id. A
walk is a recursive function over the visits; that it prepares each of them and
undoes none is proved by the least-number principle. Results: `ContextAlwaysOK`,
`WarmedAlwaysFits`, `GradientSlotsAlwaysFit`.

**GradientsProofs, the extrema**, for every period and every stream of their calls, NaN
included. `ExtremaInv` describes the deque by the history: its entries are samples of the
window in the order of time, none of them would be popped by the next one, nor
by any later one with only numbers between, and every sample that only numbers
have followed is beaten by an entry of its time or later. The conditions on NaN
are what makes it inductive: a NaN neither pops nor is popped by comparison, so the
deque may answer wrongly while one is in the window, but is right again once
it has left. Results: `DequeHasRoom` (the
push comes before the eviction and so needs one place more than the window) and
`ExtremaAlwaysOfWindow`.

**WindowProofs, vwap, lag and pairs**, for every period and every stream of integers
and NaN. The invariant `PairInv` says that each ring holds the window, oldest first from
`head`, and that each running sum is the sum over exactly these entries, or NaN
for good in the sums a NaN has entered. `LagAlwaysPast` needs the rings only,
specialised code without a count included. `VwapAlwaysOfWindow` needs that a sum of
positive volumes is positive, so the guard for a zero denominator never fires on
a full window. `PairStatsAlwaysOfWindow` shows that the one-pass formula
`n * sum(xy) - sum(x) * sum(y)` is the two-pass covariance and that a variance is never
negative, so `<= 0` in the guards means a flat series.

**WindowProofs, sma, rolling_std and zscore**, for the same streams. `StatsInv` says
of every implementation what its state is of the window: the rings hold it,
running sums add up exactly its entries, and Welford's moment, scaled so that
it stays an integer, is the sum of squared deviations: adding a sample and
removing the oldest are two lemmas on sums. A NaN makes a sum not a number for
good; in interpreter and runtime the moments are computed afresh once every
window, from a ring that by then may be clean, so the invariant counts how many
slides a NaN and the next refresh are away. Specialised code keeps no count; it is entered with full rings, and rings
stay full. Results: `SmaAlwaysWindowMean`, `StdAlwaysWindowDeviation`,
`ZscoresAlwaysAgree`. `WindowsImplementsParts` carries both groups over to the
program that has all the operators: its steps are steps of each, so
`WindowsAlwaysRight` follows.

**IeeeProofs**, exact arithmetic for every fraction. The closed forms of recurrences
and sensitivities divide, so their proofs need the laws of arithmetic for
fractions in lowest terms. Euclid's algorithm (the recursive function `gcd`) ends
with a common divisor that scales with its arguments, hence equal numbers have
one fraction (`RatEqual`), and the operations of `Ieee` commute, associate and
distribute. Sums and products of any length are recursive functions (`FoldSteps`)
with common factors taken out (`SumScales`) and sums of sums (`SumAdds`). Means and
moments of a set of numbers are given by its sums, over a common denominator.

**RecurrencesProofs**, for every period, alpha in lowest terms between 0 and 1, noises
`q >= 0` and `r > 0`, every stream and every order of backends in which lowered
code takes all ticks or none. With one more
sample each weight of the exponential mean is discounted once more
(`WeightDiscounted`), so the mean blends (`MeanBlends`); the update of the filter's
variance is the one of the information form (`VarianceUpdates`), and without process
noise the gain is `1/n` and the estimate the mean (`MeanUpdates`). The invariant
`RecInv` says of the state arrays of the backends in use that they remember the
whole history; specialised code, which does not test for a first tick, needs
that there was one. Its hypotheses `Unmixed` and `AlphaSettled` speak of the history, and a
history that violates one of them goes on doing so, so the invariant is inductive under them. Results: `EmaAlwaysOfHistory`, `CrossesOncePerExcursion`,
`KalmanAlwaysOfHistory`.

**GradientsProofs, ema, kalman1d and crosses**, for every history and all parameters
that are numbers, noises with `q >= 0` and `r > 0`. The references are written in dual numbers: the derivative of
a power is `m a^(m-1) a'`, of a quotient the quotient rule. The lemmas show that
duals obey the laws of arithmetic, that the power rule agrees with repeated
products (`DualPowerSteps`), and that a dual sum has common factors
(`DualSumScales`); hence the mean of one more sample is a blend of duals
(`EmaNext`), and the code's sensitivity step is that blend (`EmaBlends`), with the
term for alpha's own derivative. For kalman1d each dual is written `u/w` with the
derivative `z/w^2`, a form kept by sums and quotients: the code's gain and
variance with their derivatives, computed by the quotient rule, are those of the
information form (`KalmanFollows`). The variance must be known to stay positive,
which is what keeps the two guards of the code from firing, and so is part of
the invariant `SensInv`. Results: `SensitivityInvariance`,
`RecurrenceSensitivitiesAlways`.

**GradientsProofs, the windows**, for every period and every history of operands that
are finite numbers or, in `x`, NaN (`RealAssumption`). The history is read as two
series, of values and of derivatives. `Held` says that a ring holds the last `p` of a
series, whatever the number of pushes; a running sum is the sum of the window
until the first NaN and NaN from then on (`SumPush`). For lag and sma that is
enough, since the sensitivity is the same operator on the derivatives. For the
pairs five sums run; the centred moments and their derivatives, computed from
sums, are the sums of products of deviations of the definition (`MomentIsSum`),
and the quotient rule does the rest. rolling_std and zscore are the long part.
Adding a sample, removing the oldest (`MomentGrows`, `MomentShrinks`) and both for
products with derivatives are identities between fractions with a common
denominator; the refresh sums the ring in the order of its places and not of
time (`Turned`, `RingTotal`) and finds the same moments (`WelfordRefreshed`). After a
NaN the running moments are wrong until a refresh that sees a clean ring, so the
invariant claims them only when `Trusted`: no NaN ever, or none in the window and in
as many ticks before it as slid since the last refresh. A moment is a sum of
squares, so the clamp of `m2` never fires (`WelfordClamped`); the clamp of its derivative
does, which the ghost `cut` records and a refresh undoes. The invariant of all
these states is `WinInv`. Results: `WindowInvariance`, `WindowSensitivitiesAlways`.

Induction over data. The library's induction theorems cannot be instantiated by
the installed provers, but that every set of numbers that is not empty has a least element is a fact
about sets, and follows from `WFMin` and `NatLessThanWellFounded`. Where a proof
needs induction (sums in `WindowProofs`, Euclid's algorithm and folds in
`IeeeProofs`, walks in `SignalContextProofs`,
deques in `GradientsProofs`, maxima in `JitProofs`) it takes the least
counterexample, or the set of numbers for which the claim holds. That a
recursive function satisfies its equation is proved the same way, by partial
functions that exist and agree (`TotalExists`, `TotalUnique`, and likewise for `gcd`,
folds and variances).

`NeverOverfull`, `PromotedMeansSwapped` and the invariant of `ShardedEval` are not
listed in a run: the theorems show them for all instances.

Only model-checked:

- `PipelineEnds`, a liveness property: fairness is outside the prover.
- The properties of `Program`: its passes are RECURSIVE operators over trees, with
  which the prover loses its SMT backend.

## 5. Not modelled

- Floating-point rounding, the sign of zero, and the Adam loop of calibration
  (square roots, convergence): numerical.
- Lexer (models start from tokens), AST printer, arguments and files of the
  command line, histogram, profiler: text and I/O.
- The default mode of `main.cpp`, which numbers and prewarms the selected signal only but
  compiles all: the ids that the emitter then invents depend on the order of
  emission, and the outputs of the other signals are not shown.
- Plain and gradient ticks mixed on one context: no driver does it, and the code
  gives it no meaning (plain code does not advance sensitivities).
- LLVM itself: `ModuleCache` treats the optimised module as a function of what is
  compiled; hash collisions of the 64-bit key are excluded.
- `Compile()` of a tiered program while evaluators run, which its header excludes.
- Arenas of several symbols in one context array and their resizing.
- Paced feeding and latency accounting of the pipeline driver.
- Benchmarks and fuzzers other than the two drivers with threads of their own.

## 6. Plan

Done: the concurrent core (ring, pipeline, tiering, sharding); all stateful
operators and their sensitivities; the language from tokens to ticks on every
backend, with its gradients; the cache; the context; the theorems above.

Next, in this order:

1. `SignalContext`: arenas of several symbols and their resizing, which moves
   contexts; a second prewarm of rolling extrema together with their values.
2. `PacedFeed`: the latency that the driver reports against the one its comment
   describes.
