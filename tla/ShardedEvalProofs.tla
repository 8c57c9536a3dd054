------------------------- MODULE ShardedEvalProofs -------------------------
(***************************************************************************)
(* For every number of symbols and of threads: the shards tile the         *)
(* universe, no two threads are ever at the same symbol, and at every join *)
(* each symbol has been evaluated as one thread would have done it.        *)
(***************************************************************************)
EXTENDS ShardedEval, TLAPS

\* Whole division: n = Base * threads + Rem.
LEMMA Division ==
  ASSUME n \in Nat, threads \in Nat \ {0}
  PROVE  /\ Base \in Nat /\ Rem \in 0 .. threads - 1
         /\ n = threads * Base + Rem
BY DEF Base, Rem

\* Multiples of a natural number are ordered like their factors.
LEMMA Multiples ==
  ASSUME NEW a \in Nat, NEW t \in Nat, NEW u \in Nat, t < u
  PROVE  /\ t * a \in Nat /\ u * a \in Nat
         /\ t * a + a <= u * a
<1>1. (u - t - 1) * a \in Nat
  OBVIOUS
<1>2. u * a = t * a + a + (u - t - 1) * a
  OBVIOUS
<1>3. t * a \in Nat /\ u * a \in Nat
  OBVIOUS
<1> QED BY <1>1, <1>2, <1>3

\* The bounds of a shard.
LEMMA Bounds ==
  ASSUME n \in Nat, threads \in Nat \ {0}, NEW t \in Workers
  PROVE  /\ Begin(t) \in Nat /\ End(t) \in Nat
         /\ End(t) = Begin(t) + Base + (IF t < Rem THEN 1 ELSE 0)
         /\ Begin(t) <= End(t)
<1>1. Base \in Nat /\ Rem \in Nat
  BY Division
<1>2. t \in Nat
  BY DEF Workers
<1>3. t * Base \in Nat
  BY <1>1, <1>2
<1>4. Begin(t) \in Nat
  BY <1>1, <1>2, <1>3 DEF Begin
<1>5. End(t) = Begin(t) + Base + (IF t < Rem THEN 1 ELSE 0)
  BY DEF End
<1> QED BY <1>1, <1>4, <1>5

\* A shard ends before any later one begins.
LEMMA ShardsOrdered ==
  ASSUME n \in Nat, threads \in Nat \ {0}, NEW t \in Workers, NEW u \in Workers, t < u
  PROVE  End(t) <= Begin(u)
<1>1. Base \in Nat /\ Rem \in Nat
  BY Division
<1>2. t \in Nat /\ u \in Nat
  BY DEF Workers
<1>3. t * Base \in Nat /\ u * Base \in Nat /\ t * Base + Base <= u * Base
  BY <1>1, <1>2, Multiples
<1> QED BY <1>1, <1>2, <1>3 DEF Begin, End

\* The shards tile the universe, for every n_symbols and n_threads
\* (multithread_eval.cpp:15-20).
LEMMA Tiling ==
  ASSUME n \in Nat, threads \in Nat \ {0}
  PROVE  ShardsTile
<1>1. Base \in Nat /\ Rem \in 0 .. threads - 1 /\ n = threads * Base + Rem
  BY Division
<1>2. Begin(0) = 0
  BY <1>1 DEF Begin
<1>3. End(threads - 1) = n
  <2>1. (threads - 1) * Base + Base = threads * Base
    BY <1>1
  <2>2. (threads - 1) * Base \in Nat
    BY <1>1
  <2>3. threads - 1 >= Rem
    BY <1>1
  <2> QED BY <1>1, <2>1, <2>2, <2>3 DEF Begin, End
<1>4. ASSUME NEW t \in Workers, t + 1 \in Workers
      PROVE  End(t) = Begin(t + 1)
  <2>1. t \in Nat
    BY DEF Workers
  <2>2. (t + 1) * Base = t * Base + Base
    BY <1>1, <2>1
  <2>3. t * Base \in Nat
    BY <1>1, <2>1
  <2> QED BY <1>1, <2>1, <2>2, <2>3 DEF Begin, End
<1> QED BY <1>2, <1>3, <1>4 DEF ShardsTile

-----------------------------------------------------------------------------
(* Which symbols a worker may touch *)

\* A shard lies inside the universe.
LEMMA ShardInside ==
  ASSUME n \in Nat, threads \in Nat \ {0}, NEW t \in Workers
  PROVE  Shard(t) \subseteq Symbols /\ Shard(t) \subseteq Nat
<1>1. threads - 1 \in Workers /\ t \in Nat /\ t <= threads - 1
  BY DEF Workers
<1>2. End(threads - 1) = n /\ End(t) \in Nat /\ Begin(t) \in Nat
  BY Tiling, Bounds DEF ShardsTile
<1>3. End(t) <= n
  <2>1. CASE t = threads - 1
    BY <1>2, <2>1
  <2>2. CASE t < threads - 1
    <3>1. End(t) <= Begin(threads - 1)
      BY <1>1, <2>2, ShardsOrdered
    <3>2. Begin(threads - 1) \in Nat /\ Begin(threads - 1) <= End(threads - 1)
      BY <1>1, Bounds
    <3> QED BY <1>2, <3>1, <3>2
  <2> QED BY <1>1, <2>1, <2>2
<1> QED BY <1>2, <1>3 DEF Shard, Symbols

\* No symbol is in two shards.
LEMMA ShardsApart ==
  ASSUME n \in Nat, threads \in Nat \ {0}, NEW t \in Workers, NEW u \in Workers, t # u,
         NEW s \in Shard(t)
  PROVE  s \notin Shard(u)
<1>1. /\ t \in Nat /\ u \in Nat /\ s \in Nat
      /\ Begin(t) \in Nat /\ End(t) \in Nat /\ Begin(u) \in Nat /\ End(u) \in Nat
      /\ Begin(t) <= s /\ s < End(t)
  BY Bounds, ShardInside DEF Workers, Shard
<1>2. CASE t < u
  <2>1. End(t) <= Begin(u)
    BY <1>2, ShardsOrdered
  <2> QED BY <1>1, <2>1 DEF Shard
<1>3. CASE u < t
  <2>1. End(u) <= Begin(t)
    BY <1>3, ShardsOrdered
  <2> QED BY <1>1, <2>1 DEF Shard
<1> QED BY <1>1, <1>2, <1>3

\* Whole division by a positive number.
LEMMA Quotient ==
  ASSUME NEW a \in Nat, NEW d \in Nat, d > 0
  PROVE  \E q \in Nat : q * d <= a /\ a < q * d + d
<1>1. a \div d \in Nat /\ a % d \in 0 .. d - 1 /\ a = (a \div d) * d + (a % d)
  OBVIOUS
<1> DEFINE q == a \div d
<1>2. q \in Nat /\ q * d \in Nat
  BY <1>1
<1>3. q * d <= a /\ a < q * d + d
  BY <1>1, <1>2
<1> QED BY <1>2, <1>3

\* Every symbol is in some shard: the first Rem shards hold Base + 1 symbols
\* each, the others Base.
LEMMA ShardsCover ==
  ASSUME n \in Nat, threads \in Nat \ {0}, NEW s \in Symbols
  PROVE  \E t \in Workers : s \in Shard(t)
<1> DEFINE b == Base  r == Rem
<1>1. b \in Nat /\ r \in 0 .. threads - 1 /\ n = threads * b + r /\ r \in Nat
  BY Division
<1>2. s \in Nat /\ s < n
  BY DEF Symbols
<1>3. r * (b + 1) \in Nat /\ r * (b + 1) = r * b + r /\ r * b \in Nat
  BY <1>1
<1>4. CASE s < r * (b + 1)
  <2>0. b + 1 \in Nat /\ b + 1 > 0
    BY <1>1
  <2>1. PICK q \in Nat : q * (b + 1) <= s /\ s < q * (b + 1) + (b + 1)
    BY <1>2, <2>0, Quotient, Zenon
  <2>2. q < r
    <3> SUFFICES ASSUME q >= r PROVE FALSE
      BY <1>1
    <3>1. (q - r) * (b + 1) \in Nat
      BY <1>1
    <3>2. q * (b + 1) = r * (b + 1) + (q - r) * (b + 1)
      BY <1>1
    <3> QED BY <1>2, <1>3, <1>4, <2>1, <3>1, <3>2
  <2>3. q \in Workers
    BY <1>1, <2>2 DEF Workers
  <2>4. q * (b + 1) = q * b + q /\ q * b \in Nat
    BY <1>1
  <2>5. Begin(q) = q * b + q /\ End(q) = q * b + q + b + 1
    BY <2>2, <2>4, <1>1 DEF Begin, End
  <2>6. s \in Shard(q)
    BY <1>1, <1>2, <2>1, <2>4, <2>5 DEF Shard
  <2> QED BY <2>3, <2>6
<1>5. CASE s >= r * (b + 1)
  <2> DEFINE a == s - r * (b + 1)
  <2>1. a \in Nat
    BY <1>2, <1>3, <1>5
  <2>2. (threads - r) * b = threads * b - r * b /\ threads * b \in Nat
    BY <1>1
  <2>3. a < (threads - r) * b
    BY <1>1, <1>2, <1>3, <1>5, <2>2
  <2>4. b > 0
    <3> SUFFICES ASSUME b = 0 PROVE FALSE
      BY <1>1
    <3>1. (threads - r) * b = 0
      BY <1>1
    <3> QED BY <2>1, <2>3, <3>1
  <2> HIDE DEF a
  <2>5. PICK q \in Nat : q * b <= a /\ a < q * b + b
    BY <1>1, <2>1, <2>4, Quotient
  <2>6. q < threads - r
    <3> SUFFICES ASSUME q >= threads - r PROVE FALSE
      BY <1>1
    <3>1. (q - (threads - r)) * b \in Nat
      BY <1>1
    <3>2. q * b = (threads - r) * b + (q - (threads - r)) * b
      BY <1>1
    <3>3. q * b \in Nat /\ (threads - r) * b \in Nat
      BY <1>1
    <3> QED BY <2>1, <2>3, <2>5, <3>1, <3>2, <3>3
  <2>7. r + q \in Workers
    BY <1>1, <2>6 DEF Workers
  <2>8. (r + q) * b = r * b + q * b /\ q * b \in Nat
    BY <1>1
  <2>9. Begin(r + q) = r * b + q * b + r /\ End(r + q) = r * b + q * b + r + b
    BY <2>8, <1>1, <1>3 DEF Begin, End
  <2>10. s = a + r * b + r
    BY <1>1, <1>2, <1>3, <2>1 DEF a
  <2>11. s \in Shard(r + q)
    BY <1>1, <1>2, <1>3, <2>1, <2>5, <2>8, <2>9, <2>10 DEF Shard
  <2> QED BY <2>7, <2>11
<1> QED BY <1>2, <1>3, <1>4, <1>5

-----------------------------------------------------------------------------
(* The inductive invariant *)

\* The universe and its shards do not change.
LEMMA Fixed ==
  ASSUME [Next]_vars
  PROVE  /\ n' = n /\ threads' = threads
         /\ Workers' = Workers /\ Symbols' = Symbols
         /\ \A t : /\ Begin(t)' = Begin(t) /\ End(t)' = End(t)
                  /\ Size(t)' = Size(t) /\ Shard(t)' = Shard(t)
<1>1. n' = n /\ threads' = threads
  BY DEF Next, StartPass, Stop, Feed, Run, vars
<1> QED BY <1>1 DEF Workers, Symbols, Begin, End, Size, Shard, Base, Rem

\* What the types and the position say of a worker that is not finished.
LEMMA WorkerAt ==
  ASSUME TypeOK, InShard, NEW t \in Workers, ~Finished(t)
  PROVE  /\ pos[t] \in Shard(t) /\ pos[t] \in Symbols /\ pos[t] \in Nat
         /\ Local(t) \in 0 .. Size(t) - 1
         /\ arena[t][Local(t)] \in Context
<1>1. n \in Nat /\ threads \in Nat \ {0} /\ pos[t] \in Nat
  BY DEF TypeOK
<1>2. Begin(t) \in Nat /\ End(t) \in Nat
  BY <1>1, Bounds
<1>3. Begin(t) <= pos[t] /\ pos[t] < End(t)
  BY <1>1, <1>2 DEF InShard, Finished
<1>4. pos[t] \in Shard(t)
  BY <1>1, <1>2, <1>3 DEF Shard
<1>5. pos[t] \in Symbols
  BY <1>1, <1>4, ShardInside
<1>6. Local(t) \in 0 .. Size(t) - 1
  BY <1>1, <1>2, <1>3 DEF Local, Size
<1> QED BY <1>1, <1>4, <1>5, <1>6 DEF TypeOK

\* Before the first pass no worker is outside its shard and nothing has been
\* evaluated.
LEMMA InitInv == Init => IndInv
<1> SUFFICES ASSUME Init PROVE IndInv
  OBVIOUS
<1>1. n \in Nat /\ threads \in Nat \ {0}
  BY ShardAssumption DEF Init
<1>2. \A t \in Workers : /\ Begin(t) \in Nat /\ End(t) \in Nat /\ Begin(t) <= End(t)
                         /\ Shard(t) \subseteq Symbols
  BY <1>1, Bounds, ShardInside
<1>3. TypeOK
  BY <1>1, <1>2 DEF Init, TypeOK, Context, NoContext
<1>4. InShard
  BY <1>2 DEF Init, InShard
<1>5. ASSUME NEW t \in Workers
      PROVE  /\ Finished(t) /\ at[t] = "feed"
             /\ \A s \in Shard(t) : Runs(t, s) = 0 /\ Feeds(t, s) = 0
  BY <1>2 DEF Init, Finished, Runs, Feeds, Shard
<1>6. ASSUME NEW t \in Workers, NEW s \in Shard(t)
      PROVE  arena[t][s - Begin(t)] = NoContext /\ market[s] = 0 /\ out[s] = <<0, 0>>
  <2>1. s - Begin(t) \in 0 .. Size(t) - 1
    BY <1>2 DEF Shard, Size
  <2> QED BY <1>2, <2>1 DEF Init
<1>7. InPass
  BY <1>5, <1>6 DEF InPass, NoContext
<1> QED BY <1>3, <1>4, <1>7 DEF IndInv

\* Types and positions: a worker moves forward by one, and only when it is not
\* at its end.
LEMMA StepPlace == TypeOK /\ InShard /\ [Next]_vars => TypeOK' /\ InShard'
<1> SUFFICES ASSUME TypeOK, InShard, [Next]_vars PROVE TypeOK' /\ InShard'
  OBVIOUS
<1>1. n \in Nat /\ threads \in Nat \ {0} /\ pass \in Nat
  BY DEF TypeOK
<1>2. \A t \in Workers : Begin(t) \in Nat /\ End(t) \in Nat /\ Begin(t) <= End(t)
  BY <1>1, Bounds
<1>3. CASE StartPass
  <2>1. TypeOK'
    BY <1>1, <1>2, <1>3, Fixed DEF TypeOK, StartPass
  <2>2. InShard'
    BY <1>2, <1>3, Fixed DEF InShard, StartPass
  <2> QED BY <2>1, <2>2
<1>4. ASSUME NEW t \in Workers, Feed(t) PROVE TypeOK' /\ InShard'
  <2>1. pos[t] \in Symbols /\ market[pos[t]] \in Nat
    BY <1>4, WorkerAt DEF Feed, TypeOK
  <2>2. market' \in [Symbols -> Nat] /\ at' \in [Workers -> {"feed", "run"}]
    BY <1>4, <2>1 DEF Feed, TypeOK
  <2> QED BY <1>4, <2>2, Fixed DEF Feed, TypeOK, InShard
<1>5. ASSUME NEW t \in Workers, Run(t) PROVE TypeOK' /\ InShard'
  <2>1. /\ pos[t] \in Symbols /\ pos[t] \in Nat /\ pos[t] \in Shard(t)
        /\ Local(t) \in 0 .. Size(t) - 1
        /\ arena[t][Local(t)] \in Context
    BY <1>5, WorkerAt DEF Run
  <2> DEFINE c == Fed(arena[t][Local(t)], pos[t])
  <2>2. c \in Context /\ c.ticks \in Nat
    BY <2>1 DEF Fed, Context
  <2>3. arena' = [arena EXCEPT ![t] = [arena[t] EXCEPT ![Local(t)] = c]]
    BY <1>5 DEF Run
  <2> HIDE DEF c
  <2>4. /\ DOMAIN arena' = Workers
        /\ \A u \in Workers : arena'[u] \in [0 .. Size(u) - 1 -> Context]
        /\ arena'[t][Local(t)] = c
    BY <2>1, <2>2, <2>3 DEF TypeOK
  <2>5. out' = [out EXCEPT ![pos[t]] = <<market[pos[t]], c.ticks>>]
    BY <1>5, <2>4 DEF Run
  <2>6. out' \in [Symbols -> Nat \X Nat]
    BY <2>1, <2>2, <2>5 DEF TypeOK
  <2>7. pos' = [pos EXCEPT ![t] = pos[t] + 1] /\ at' = [at EXCEPT ![t] = "feed"]
    BY <1>5 DEF Run
  <2>8. TypeOK'
    BY <1>5, <2>1, <2>4, <2>6, <2>7, Fixed DEF Run, TypeOK
  <2>9. ASSUME NEW u \in Workers PROVE pos'[u] \in Begin(u) .. End(u)
    BY <1>2, <2>1, <2>7 DEF TypeOK, InShard, Shard
  <2>10. InShard'
    BY <2>9, Fixed DEF InShard
  <2> QED BY <2>8, <2>10
<1>6. CASE Stop \/ UNCHANGED vars
  BY <1>6, Fixed DEF Stop, vars, TypeOK, InShard
<1> QED BY <1>3, <1>4, <1>5, <1>6 DEF Next

\* Each step of a pass leaves every symbol where the positions say it is: the
\* shards are apart, so that a worker disturbs no symbol of another.
LEMMA StepPass == IndInv /\ [Next]_vars => InPass'
<1> SUFFICES ASSUME IndInv, [Next]_vars, NEW u \in Workers
             PROVE  /\ Finished(u)' => at'[u] = "feed"
                    /\ ~Finished(u)' => pass' > 0
                    /\ \A s \in Shard(u) :
                         /\ market'[s] = Feeds(u, s)'
                         /\ out'[s] = <<Runs(u, s)', Runs(u, s)'>>
                         /\ arena'[u][s - Begin(u)] =
                              [sym |-> IF Runs(u, s)' = 0 THEN NoSymbol ELSE s,
                               ticks |-> Runs(u, s)']
  BY Fixed DEF InPass
<1> USE DEF IndInv
<1>1. n \in Nat /\ threads \in Nat \ {0} /\ pass \in Nat
  BY DEF TypeOK
<1>2. \A t \in Workers : /\ Begin(t) \in Nat /\ End(t) \in Nat /\ Begin(t) <= End(t)
                         /\ Shard(t) \subseteq Symbols /\ Shard(t) \subseteq Nat
                         /\ pos[t] \in Nat
  BY <1>1, Bounds, ShardInside DEF TypeOK
<1>3. /\ Finished(u) => at[u] = "feed"
      /\ ~Finished(u) => pass > 0
      /\ \A s \in Shard(u) :
           /\ market[s] = Feeds(u, s)
           /\ out[s] = <<Runs(u, s), Runs(u, s)>>
           /\ arena[u][s - Begin(u)] =
                [sym |-> IF Runs(u, s) = 0 THEN NoSymbol ELSE s, ticks |-> Runs(u, s)]
  BY DEF InPass
<1>4. CASE StartPass
  <2>1. Finished(u) /\ at[u] = "feed" /\ at' = at /\ pass' = pass + 1 /\ pos'[u] = Begin(u)
    BY <1>3, <1>4 DEF StartPass, Joined
  <2>2. \A s \in Shard(u) : Runs(u, s) = pass /\ Feeds(u, s) = pass
    BY <1>2, <2>1 DEF Finished, Runs, Feeds, Shard
  <2>3. \A s \in Shard(u) : Runs(u, s)' = pass /\ Feeds(u, s)' = pass
    BY <1>1, <1>2, <2>1 DEF Runs, Feeds, Shard
  <2> QED BY <1>1, <1>3, <1>4, <2>1, <2>2, <2>3 DEF StartPass
<1>5. ASSUME NEW t \in Workers, Feed(t),
             NEW s \in Shard(u)
      PROVE  market'[s] = Feeds(u, s)' /\ Runs(u, s)' = Runs(u, s)
  <2>1. pos[t] \in Shard(t) /\ pos[t] \in Symbols /\ s \in Symbols
    BY <1>2, <1>5, WorkerAt DEF Feed
  <2>2. /\ market' = [market EXCEPT ![pos[t]] = market[pos[t]] + 1]
        /\ at' = [at EXCEPT ![t] = "run"] /\ pos' = pos /\ pass' = pass
        /\ at[t] = "feed" /\ ~Finished(t)
    BY <1>5 DEF Feed
  <2>3. Runs(u, s)' = Runs(u, s)
    BY <2>2 DEF Runs
  <2>4. CASE s = pos[t]
    <3>1. u = t
      BY <1>1, <1>5, <2>1, <2>4, ShardsApart
    <3>2. market[s] = pass - 1
      <4>1. Feeds(u, s) = pass - 1
        BY <1>2, <2>2, <2>4, <3>1 DEF Feeds, Runs
      <4> QED BY <1>3, <1>5, <4>1
    <3>3. Feeds(u, s)' = pass
      BY <2>2, <2>4, <3>1 DEF Feeds, TypeOK
    <3> QED BY <1>1, <2>1, <2>2, <2>3, <2>4, <3>2, <3>3 DEF TypeOK
  <2>5. CASE s # pos[t]
    <3>1. Feeds(u, s)' = Feeds(u, s)
      BY <2>2, <2>3, <2>5 DEF Feeds, TypeOK
    <3> QED BY <1>3, <1>5, <2>1, <2>2, <2>3, <2>5, <3>1 DEF TypeOK
  <2> QED BY <2>4, <2>5
<1>6. ASSUME NEW t \in Workers, Feed(t)
      PROVE  /\ Finished(u)' => at'[u] = "feed"
             /\ ~Finished(u)' => pass' > 0
  BY <1>3, <1>6, Fixed DEF Feed, Finished, TypeOK
<1>7. ASSUME NEW t \in Workers, Run(t)
      PROVE  /\ Finished(u)' => at'[u] = "feed"
             /\ ~Finished(u)' => pass' > 0
  <2>1. pass > 0
    BY <1>7 DEF Run, InPass
  <2> QED BY <1>3, <1>7, <2>1, Fixed DEF Run, Finished, TypeOK
<1>8. ASSUME NEW t \in Workers, Run(t), NEW s \in Shard(u)
      PROVE  /\ market'[s] = Feeds(u, s)'
             /\ out'[s] = <<Runs(u, s)', Runs(u, s)'>>
             /\ arena'[u][s - Begin(u)] =
                  [sym |-> IF Runs(u, s)' = 0 THEN NoSymbol ELSE s,
                   ticks |-> Runs(u, s)']
  <2> DEFINE p == pos[t]  c == Fed(arena[t][Local(t)], p)
  <2>1. /\ p \in Shard(t) /\ p \in Symbols /\ p \in Nat /\ s \in Symbols /\ s \in Nat
        /\ Local(t) \in 0 .. Size(t) - 1 /\ Local(t) = p - Begin(t)
    BY <1>2, <1>8, WorkerAt DEF Run, Local
  <2>2. /\ arena' = [arena EXCEPT ![t] = [arena[t] EXCEPT ![Local(t)] = c]]
        /\ pos' = [pos EXCEPT ![t] = p + 1] /\ at' = [at EXCEPT ![t] = "feed"]
        /\ market' = market /\ pass' = pass /\ at[t] = "run" /\ ~Finished(t)
    BY <1>8 DEF Run
  <2>3. arena'[t][Local(t)] = c
    BY <2>1, <2>2 DEF TypeOK
  <2>4. out' = [out EXCEPT ![p] = <<market[p], c.ticks>>]
    BY <1>8, <2>3 DEF Run
  <2>5. CASE s = p
    <3>1. u = t
      BY <1>1, <1>8, <2>1, <2>5, ShardsApart
    <3>2. /\ pass > 0 /\ market[s] = pass /\ Runs(t, s) = pass - 1
          /\ arena[t][Local(t)] = [sym |-> IF Runs(t, s) = 0 THEN NoSymbol ELSE s,
                                   ticks |-> Runs(t, s)]
      BY <1>2, <1>3, <1>8, <2>1, <2>2, <2>5, <3>1 DEF Feeds, Runs
    <3>3. c = [sym |-> s, ticks |-> pass]
      BY <1>1, <2>1, <2>5, <3>2 DEF Fed, NoSymbol
    <3>4. Runs(u, s)' = pass /\ Feeds(u, s)' = pass
      BY <1>1, <2>1, <2>2, <2>5, <3>1 DEF Runs, Feeds, TypeOK
    <3>5. out'[s] = <<pass, pass>>
      BY <2>1, <2>4, <2>5, <3>2, <3>3 DEF TypeOK
    <3>6. arena'[u][s - Begin(u)] = [sym |-> s, ticks |-> pass]
      BY <2>1, <2>3, <2>5, <3>1, <3>3
    <3> HIDE DEF c
    <3> QED BY <1>1, <2>2, <3>2, <3>4, <3>5, <3>6
  <2>6. CASE s # p
    <3>1. Runs(u, s)' = Runs(u, s) /\ Feeds(u, s)' = Feeds(u, s)
      <4>1. CASE u # t
        <5>1. pos'[u] = pos[u] /\ at'[u] = at[u]
          BY <2>2, <4>1 DEF TypeOK
        <5> QED BY <2>2, <5>1 DEF Runs, Feeds
      <4>2. CASE u = t
        <5>1. pos'[u] = p + 1 /\ at'[u] = "feed" /\ pos[u] = p
          BY <2>2, <4>2 DEF TypeOK
        <5>2. s < p + 1 <=> s < p
          BY <2>1, <2>6
        <5> QED BY <2>2, <2>6, <5>1, <5>2 DEF Runs, Feeds
      <4> QED BY <4>1, <4>2
    <3>2. out'[s] = out[s] /\ market'[s] = market[s]
      BY <2>1, <2>2, <2>4, <2>6 DEF TypeOK
    <3>3. arena'[u][s - Begin(u)] = arena[u][s - Begin(u)]
      <4>1. CASE u # t
        BY <2>2, <4>1 DEF TypeOK
      <4>2. CASE u = t
        <5>1. s - Begin(u) # Local(t)
          BY <1>2, <2>1, <2>6, <4>2
        <5>2. arena'[t] = [arena[t] EXCEPT ![Local(t)] = c]
          BY <2>2 DEF TypeOK
        <5>3. arena[t] \in [0 .. Size(t) - 1 -> Context]
          BY DEF TypeOK
        <5>4. s - Begin(u) \in 0 .. Size(t) - 1
          BY <1>2, <1>8, <4>2 DEF Shard, Size
        <5> HIDE DEF c
        <5> QED BY <4>2, <5>1, <5>2, <5>3, <5>4
      <4> QED BY <4>1, <4>2
    <3> QED BY <1>3, <1>8, <3>1, <3>2, <3>3
  <2> QED BY <2>5, <2>6
<1>9. CASE Stop \/ UNCHANGED vars
  BY <1>3, <1>9, Fixed DEF Stop, vars, Finished, Runs, Feeds
<1>10. ASSUME NEW t \in Workers, Feed(t), NEW s \in Shard(u)
       PROVE  out'[s] = out[s] /\ arena'[u][s - Begin(u)] = arena[u][s - Begin(u)]
  BY <1>10 DEF Feed
<1>11. CASE \E t \in Workers : Feed(t)
  BY <1>3, <1>5, <1>6, <1>10, <1>11
<1>12. CASE \E t \in Workers : Run(t)
  BY <1>7, <1>8, <1>12
<1> QED BY <1>4, <1>9, <1>11, <1>12 DEF Next

-----------------------------------------------------------------------------
(* What the invariant gives *)

\* Threads inside their shards are not at one symbol.
LEMMA Apart == IndInv => NoSharedSymbol
<1> SUFFICES ASSUME IndInv, NEW t \in Workers, NEW u \in Workers, t # u,
                    ~Finished(t), ~Finished(u)
             PROVE  pos[t] # pos[u]
  BY DEF NoSharedSymbol
<1>1. pos[t] \in Shard(t) /\ pos[u] \in Shard(u)
  BY WorkerAt DEF IndInv
<1> QED BY <1>1, ShardsApart DEF IndInv, TypeOK

\* At a join every symbol of every shard is up to date, and every symbol is
\* in a shard.
LEMMA Sequential == IndInv => AsSequential
<1> SUFFICES ASSUME IndInv, Joined PROVE AsSequential
  BY DEF AsSequential
<1>1. n \in Nat /\ threads \in Nat \ {0} /\ pass \in Nat
  BY DEF IndInv, TypeOK
<1>2. ASSUME NEW t \in Workers, NEW s \in Shard(t)
      PROVE  /\ market[s] = pass /\ out[s] = <<pass, pass>>
             /\ pass > 0 => arena[t][s - Begin(t)].sym = s
  <2>1. Finished(t) /\ at[t] = "feed" /\ Begin(t) \in Nat /\ End(t) \in Nat
    BY <1>1, Bounds DEF Joined, IndInv, InPass
  <2>2. Runs(t, s) = pass /\ Feeds(t, s) = pass
    BY <2>1, <1>2 DEF Runs, Feeds, Finished, Shard
  <2>3. /\ market[s] = Feeds(t, s)
        /\ out[s] = <<Runs(t, s), Runs(t, s)>>
        /\ arena[t][s - Begin(t)] =
             [sym |-> IF Runs(t, s) = 0 THEN NoSymbol ELSE s, ticks |-> Runs(t, s)]
    BY <1>2 DEF IndInv, InPass
  <2> QED BY <1>1, <2>2, <2>3
<1>3. \A s \in Symbols : out[s] = <<pass, pass>> /\ market[s] = pass
  BY <1>1, <1>2, ShardsCover
<1>4. ASSUME NEW t \in Workers, NEW l \in 0 .. Size(t) - 1, pass > 0
      PROVE  arena[t][l].sym = Begin(t) + l
  <2>1. Begin(t) \in Nat /\ End(t) \in Nat
    BY <1>1, Bounds
  <2>2. Begin(t) + l \in Shard(t) /\ (Begin(t) + l) - Begin(t) = l
    BY <1>4, <2>1 DEF Shard, Size
  <2>3. arena[t][(Begin(t) + l) - Begin(t)].sym = Begin(t) + l
    BY <1>2, <1>4, <2>2
  <2> QED BY <2>2, <2>3
<1> QED BY <1>3, <1>4 DEF AsSequential

-----------------------------------------------------------------------------
(* Theorems *)

\* Workers stay inside their shards (EvaluateSymbolShard's loop bounds) and
\* every symbol is as far as its worker's position says.
THEOREM StaysInShard == Spec => []IndInv
<1>1. IndInv /\ [Next]_vars => IndInv'
  BY StepPlace, StepPass DEF IndInv
<1> QED BY InitInv, <1>1, PTL DEF Spec

\* No two threads are ever at the same symbol.
THEOREM SymbolsNotShared == Spec => []NoSharedSymbol
BY StaysInShard, Apart, PTL

\* ComputeSymbolShard's shards tile [0, n_symbols) in order.
THEOREM ShardsAlwaysTile == Spec => []ShardsTile
<1>1. IndInv => ShardsTile
  BY Tiling DEF IndInv, TypeOK
<1> QED BY <1>1, StaysInShard, PTL

\* However the threads interleave, at every join each symbol has had one
\* evaluation per pass on a context of its own: the sharded evaluation is
\* EvaluateAllSymbolsSequential.
THEOREM ShardingInvisible == Spec => []AsSequential
BY StaysInShard, Sequential, PTL
=============================================================================
