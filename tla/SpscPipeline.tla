---------------------------- MODULE SpscPipeline ----------------------------
(***************************************************************************)
(* The live-ingest pipeline of src/bench/spsc_jit_pipeline_bench.cpp: a    *)
(* feed thread pushes every event of a pool through the ring, retrying     *)
(* when it is full, and raises producer_done; an eval thread pops events,  *)
(* applies each to the MarketState and runs the compiled program on it.    *)
(* The events are their positions 1 .. Total in events_pool.               *)
(***************************************************************************)
EXTENDS SpscRing

CONSTANT Total   \* total_events, warmup included

ASSUME TotalAssumption == Total \in Nat \ {0} /\ Values = 1 .. Total

VARIABLES i,          \* the producer's loop counter: events pushed
          done,       \* producer_done
          cstate,     \* where the consumer is in its loop
          processed,  \* its loop counter, stored into consumer_processed
          market      \* the event last applied to MarketState

loopVars == <<i, done, cstate, processed, market>>
pipeVars == <<vars, loopVars>>

PipeInit ==
  /\ Init
  /\ i = 0 /\ done = FALSE
  /\ cstate = "pop" /\ processed = 0 /\ market = 0

-----------------------------------------------------------------------------
(* The producer: for (i < total_events) while (!try_push(ie)); done = true *)

FeedCall == i < Total /\ PushCall(i + 1) /\ UNCHANGED loopVars

\* Mutant: an event that finds the ring full is dropped.
FeedFullDrops == PushFull /\ i' = i + 1 /\ UNCHANGED <<done, cstate, processed, market>>

FeedFull == PushFull /\ UNCHANGED loopVars
FeedRoom == PushRoom /\ UNCHANGED loopVars
FeedWrite == PushWrite /\ UNCHANGED loopVars

FeedPublish == /\ PushPublish
               /\ i' = i + 1
               /\ UNCHANGED <<done, cstate, processed, market>>

\* Mutant: producer_done is never raised.
FeedFinishSilent == /\ ppc = "idle" /\ i = Total /\ ~done
                    /\ UNCHANGED pipeVars

FeedFinish == /\ ppc = "idle" /\ i = Total /\ ~done
              /\ done' = TRUE
              /\ UNCHANGED <<vars, i, cstate, processed, market>>

-----------------------------------------------------------------------------
(* The consumer: for (processed < total_events) *)

EvalCall == cstate = "pop" /\ processed < Total /\ PopCall /\ UNCHANGED loopVars

EvalSome == PopSome /\ UNCHANGED loopVars
EvalRead == PopRead /\ UNCHANGED loopVars

EvalEmpty == /\ PopEmpty
             /\ cstate' = "check"
             /\ UNCHANGED <<i, done, processed, market>>

\* producer_done.load(acquire) returns false, if only because the store is
\* not visible yet: pause and continue.
EvalNotDone == /\ cstate = "check"
               /\ cstate' = "pop"
               /\ UNCHANGED <<vars, i, done, processed, market>>

\* The load returns true; it orders every push before what follows.
AcquireDone == /\ cstate = "check" /\ done
               /\ cstate' = "empty"
               /\ knownHead' = head
               /\ UNCHANGED <<head, tail, cachedTail, cachedHead, slots, knownTail,
                              ppc, pval, cpc, out, got>>
               /\ UNCHANGED <<i, done, processed, market>>

\* if (ring->empty_approx()) break;
SizeApprox(h) == Dist(h, tail)

\* Mutant: a raised producer_done is taken for an empty ring.
EvalEmptyAssumed ==
  /\ cstate = "empty"
  /\ cstate' = "stopped"
  /\ UNCHANGED <<vars, i, done, processed, market>>

EvalEmptyApprox ==
  /\ cstate = "empty"
  /\ \E h \in Loads(knownHead, head) :
       cstate' = IF SizeApprox(h) = 0 THEN "stopped" ELSE "pop"
  /\ UNCHANGED <<vars, i, done, processed, market>>

EvalRelease == /\ PopRelease
               /\ cstate' = "apply"
               /\ UNCHANGED <<i, done, processed, market>>

\* The event goes into market.instruments, then fn(&market, &arena, ...).
EvalApply == /\ cstate = "apply"
             /\ market' = got
             /\ processed' = processed + 1
             /\ cstate' = IF processed' = Total THEN "stopped" ELSE "pop"
             /\ UNCHANGED <<vars, i, done>>

-----------------------------------------------------------------------------
\* Both threads joined.
Joined == done /\ cstate = "stopped"
Stop == Joined /\ UNCHANGED pipeVars

Feed == FeedCall \/ FeedFull \/ FeedRoom \/ FeedWrite \/ FeedPublish \/ FeedFinish
Eval == \/ EvalCall \/ EvalSome \/ EvalRead \/ EvalEmpty \/ EvalNotDone
        \/ AcquireDone \/ EvalEmptyApprox \/ EvalRelease \/ EvalApply

PipeNext == Feed \/ Eval \/ Stop

\* Each thread is scheduled, and a store becomes visible to the other thread
\* in finite time: a load repeated for ever does not stay stale for ever.
PipeFairness == /\ WF_pipeVars(Feed) /\ WF_pipeVars(Eval)
                /\ SF_pipeVars(FeedRoom) /\ SF_pipeVars(EvalSome)

PipeSpec == PipeInit /\ [][PipeNext]_pipeVars /\ PipeFairness

-----------------------------------------------------------------------------
\* The ring is in order (its IndInv is checked here as well, since the acquire
\* load of producer_done orders head_ too); the loops stay within their pools.
PipeTypeOK == /\ TypeOK
              /\ i \in 0 .. Total /\ processed \in 0 .. Total /\ market \in 0 .. Total
              /\ done \in BOOLEAN
              /\ cstate \in {"pop", "check", "empty", "apply", "stopped"}

\* Events are applied one by one in the order of the feed, none twice and
\* none skipped, and each evaluation sees the event just popped.
InFeedOrder == market = processed

\* The events popped: those processed, and the one about to be applied.
Popped == IF cstate = "apply" THEN processed + 1 ELSE processed

\* The ring holds exactly the events pushed and not yet popped, in order;
\* the one popped and not yet applied is the next in the feed.
InFlight == /\ Popped <= i
            /\ queue = [k \in 1 .. i - Popped |-> Popped + k]
            /\ cstate = "apply" => got = processed + 1 /\ processed < Total

\* Where the two loops stand: inside try_push(events_pool[i]) and try_pop only
\* within their bounds, producer_done raised only after the last push, and
\* empty_approx called only with every push ordered before it.
LoopsInStep == /\ ppc # "idle" => pval = i + 1 /\ i < Total
               /\ cpc # "idle" => cstate = "pop" /\ processed < Total
               /\ done => ppc = "idle" /\ i = Total
               /\ cstate = "empty" => done /\ knownHead = head

\* All of the above.
PipeInv == PipeTypeOK /\ InFeedOrder /\ InFlight /\ LoopsInStep

\* The consumer leaves its loop only when every event has been evaluated:
\* the two-step test `producer_done, then empty_approx' cannot lose events
\* that were pushed between the failed try_pop and the load of the flag.
NothingLost == cstate = "stopped" => processed = Total

\* Both threads come to an end: neither spins for ever on a full or an
\* empty ring.
PipelineEnds == <>Joined
=============================================================================
