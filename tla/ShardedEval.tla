---------------------------- MODULE ShardedEval ----------------------------
(***************************************************************************)
(* Evaluating a universe of symbols on several threads: ComputeSymbolShard *)
(* and EvaluateSymbolShard (src/src/multithread_eval.cpp), driven pass by  *)
(* pass with a join in between as in RunOnePassShard and RunBenchmark      *)
(* (src/bench/multithread_scaling_benchmark.cpp).  markets and outputs are *)
(* shared and indexed by symbol; each thread has an arena of its own,      *)
(* indexed from 0.  A market is known by its number of events, a context   *)
(* by the symbol it was fed with and how often.                            *)
(***************************************************************************)
EXTENDS Integers, FiniteSets

CONSTANTS Sizes, ThreadCounts,   \* what n_symbols and n_threads may be
          MaxPasses              \* bound on the passes before the deadline

ASSUME ShardAssumption == /\ Sizes \subseteq Nat
                          /\ ThreadCounts \subseteq Nat \ {0}   \* 0 throws
                          /\ MaxPasses \in Nat

VARIABLES n, threads,
          pass,       \* passes started
          pos, at,    \* per thread: its symbol, and whether it is to feed or to run it
          market,     \* per symbol: events applied
          arena,      \* per thread and local index: a SignalContext
          out         \* per symbol: what fn wrote

vars == <<n, threads, pass, pos, at, market, arena, out>>

Symbols == 0 .. n - 1
Workers == 0 .. threads - 1

-----------------------------------------------------------------------------
Base == n \div threads
Rem == n % threads

\* Mutant: a shard starts as if no shard before it had one symbol more.
BeginFlat(t) == t * Base

Begin(t) == t * Base + (IF t < Rem THEN t ELSE Rem)

\* Mutant: the remainder is not handed out.
EndNoExtra(t) == Begin(t) + Base

End(t) == Begin(t) + Base + (IF t < Rem THEN 1 ELSE 0)
Size(t) == End(t) - Begin(t)

NoSymbol == -1
NoContext == [sym |-> NoSymbol, ticks |-> 0]
Mixed == -2

\* Events and samples are counted from the end of the single-threaded warm-up,
\* which runs in an arena of its own.
Init == /\ n \in Sizes /\ threads \in ThreadCounts
        /\ threads <= n                       \* else RunBenchmark throws
        /\ pass = 0
        /\ pos = [t \in Workers |-> End(t)] /\ at = [t \in Workers |-> "feed"]
        /\ market = [s \in Symbols |-> 0]
        /\ arena = [t \in Workers |-> [l \in 0 .. Size(t) - 1 |-> NoContext]]
        /\ out = [s \in Symbols |-> <<0, 0>>]

Finished(t) == pos[t] = End(t)
Joined == \A t \in Workers : Finished(t)

\* The workers of the next pass are started; those of the last are joined.
StartPass == /\ Joined /\ pass < MaxPasses
             /\ pass' = pass + 1
             /\ pos' = [t \in Workers |-> Begin(t)]
             /\ UNCHANGED <<n, threads, at, market, arena, out>>

\* The simulator's event goes into the symbol's market.
Feed(t) == /\ ~Finished(t) /\ at[t] = "feed"
           /\ market' = [market EXCEPT ![pos[t]] = @ + 1]
           /\ at' = [at EXCEPT ![t] = "run"]
           /\ UNCHANGED <<n, threads, pass, pos, arena, out>>

Fed(ctx, s) == [sym |-> IF ctx.sym \in {NoSymbol, s} THEN s ELSE Mixed,
                ticks |-> ctx.ticks + 1]

\* Mutant: all symbols of a shard share one context.
LocalFirst(t) == 0

Local(t) == pos[t] - Begin(t)

\* fn(&m, &thread_arena, local_s, outputs + global_s * osp)
Run(t) == /\ ~Finished(t) /\ at[t] = "run"
          /\ arena' = [arena EXCEPT ![t][Local(t)] = Fed(@, pos[t])]
          /\ out' = [out EXCEPT ![pos[t]] = <<market[pos[t]], arena'[t][Local(t)].ticks>>]
          /\ pos' = [pos EXCEPT ![t] = @ + 1]
          /\ at' = [at EXCEPT ![t] = "feed"]
          /\ UNCHANGED <<n, threads, pass, market>>

\* The deadline has passed.
Stop == Joined /\ pass = MaxPasses /\ UNCHANGED vars

Next == StartPass \/ Stop \/ \E t \in Workers : Feed(t) \/ Run(t)

Spec == Init /\ [][Next]_vars

-----------------------------------------------------------------------------
Context == [sym : {NoSymbol, Mixed} \cup Nat, ticks : Nat]

TypeOK == /\ n \in Nat /\ threads \in Nat \ {0} /\ pass \in Nat
          /\ pos \in [Workers -> Nat]
          /\ at \in [Workers -> {"feed", "run"}]
          /\ market \in [Symbols -> Nat]
          /\ out \in [Symbols -> Nat \X Nat]
          /\ DOMAIN arena = Workers
          /\ \A t \in Workers : arena[t] \in [0 .. Size(t) - 1 -> Context]

Shard(t) == Begin(t) .. End(t) - 1

\* A worker stays inside its shard.
InShard == \A t \in Workers : pos[t] \in Begin(t) .. End(t)

\* How often worker t has fed and has run symbol s of its shard.
Runs(t, s) == IF s < pos[t] THEN pass ELSE pass - 1
Feeds(t, s) == IF s = pos[t] /\ at[t] = "run" THEN pass ELSE Runs(t, s)

\* In the middle of a pass, a worker has dealt with the symbols before its
\* position, not with those after it, and with half of the one it is at.
InPass ==
  \A t \in Workers :
    /\ Finished(t) => at[t] = "feed"
    /\ ~Finished(t) => pass > 0
    /\ \A s \in Shard(t) :
         /\ market[s] = Feeds(t, s)
         /\ out[s] = <<Runs(t, s), Runs(t, s)>>
         /\ arena[t][s - Begin(t)] =
              [sym |-> IF Runs(t, s) = 0 THEN NoSymbol ELSE s, ticks |-> Runs(t, s)]

IndInv == TypeOK /\ InShard /\ InPass

\* No two threads are ever at the same symbol, so that neither a market nor
\* an output is touched by two of them.
NoSharedSymbol ==
  \A t, u \in Workers : (t # u /\ ~Finished(t) /\ ~Finished(u)) => pos[t] # pos[u]

\* The shards tile [0, n_symbols) in order, whatever the remainder: the first
\* begins at the first symbol, each at the end of the one before it, and the
\* last ends at the last symbol.  Nothing is said of which shards are larger.
ShardsTile ==
  /\ Begin(0) = 0 /\ End(threads - 1) = n
  /\ \A t \in Workers : t + 1 \in Workers => End(t) = Begin(t + 1)

\* Sharding is invisible: at every join each symbol has had one evaluation
\* per pass, on a context that never saw another symbol's samples, just as
\* EvaluateAllSymbolsSequential would have done.
AsSequential ==
  Joined =>
    /\ \A s \in Symbols : out[s] = <<pass, pass>> /\ market[s] = pass
    /\ \A t \in Workers : \A l \in 0 .. Size(t) - 1 :
         pass > 0 => arena[t][l].sym = Begin(t) + l
=============================================================================
