------------------------------ MODULE Candles ------------------------------
(***************************************************************************)
(* The candle aggregator of the indexer (indexer/src/candles): one (asset, *)
(* interval) series.  It polls the oracle's latest price, folds it into    *)
(* the open bucket and persists the bucket when the next one begins; a     *)
(* fresh table is seeded from an external history once.  The process may   *)
(* restart at any time, a write may fail, polls may miss ticks.            *)
(***************************************************************************)
EXTENDS Integers, Sequences, FiniteSets

CONSTANTS Sec, Offset,      \* interval length and alignment, in seconds
          Prices,           \* price observations
          MaxTs, MaxStops,  \* bounds: last timestamp, restarts
          MaxPolls          \* bound: observations folded per bucket

ASSUME CandlesConstants ==
    /\ Sec \in Nat \ {0} /\ Offset \in Int /\ Prices \subseteq Nat
    /\ {MaxTs, MaxStops, MaxPolls} \subseteq Nat

VARIABLES tick,      \* the oracle's latest observation [ts, price]
          bucket,    \* <<>> or the BucketState in memory
          candles,   \* the table: bucket start -> [src, o, h, l, c]
          seeded,    \* start() has run its seed in this process
          obs,       \* history: the prices folded so far, per bucket, in order
          stops

candleVars == <<tick, bucket, candles, seeded, obs, stops>>

\* The JavaScript remainder keeps the sign of the dividend
Rem(a, b) == IF a >= 0 THEN a % b ELSE -((-a) % b)
BucketStart(ts) == ts - Rem(Rem(ts - Offset, Sec) + Sec, Sec)

HighOf(a, b) == IF a > b THEN a ELSE b
LowOf(a, b) == IF a < b THEN a ELSE b

FreshBucket(b, p, owned) == [bucket |-> b, o |-> p, h |-> p, l |-> p, c |-> p, owned |-> owned]

StepBucketOwningFirst(prev, b, p) ==
    IF prev = <<>> \/ b > prev[1].bucket THEN <<FreshBucket(b, p, TRUE)>>
    ELSE IF b < prev[1].bucket THEN prev
    ELSE <<[prev[1] EXCEPT !.h = HighOf(p, @), !.l = LowOf(p, @), !.c = p]>>

\* stepBucket's new state: the first bucket is not owned, an older observation is ignored
StepBucket(prev, b, p) ==
    IF prev = <<>> THEN <<FreshBucket(b, p, FALSE)>>
    ELSE IF b > prev[1].bucket THEN <<FreshBucket(b, p, TRUE)>>
    ELSE IF b < prev[1].bucket THEN prev
    ELSE <<[prev[1] EXCEPT !.h = HighOf(p, @), !.l = LowOf(p, @), !.c = p]>>

Closes(prev, b) == prev # <<>> /\ b > prev[1].bucket /\ prev[1].owned

Row(s) == [src |-> "native", o |-> s.o, h |-> s.h, l |-> s.l, c |-> s.c]

CandlesInit ==
    /\ tick \in [ts : {1}, price : Prices]
    /\ bucket = <<>>
    /\ candles = <<>>
    /\ seeded = FALSE
    /\ obs = <<>>
    /\ stops = 0

\* The oracle publishes a later observation (external)
OracleTick ==
    /\ \E d \in 1..2, p \in Prices :
          /\ tick.ts + d <= MaxTs
          /\ tick' = [ts |-> tick.ts + d, price |-> p]
    /\ UNCHANGED <<bucket, candles, seeded, obs, stops>>

\* start(): seed an empty series up to the bar in progress, or go on without a seed
SeedFromBinance ==
    /\ ~seeded
    /\ seeded' = TRUE
    /\ \/ /\ candles = <<>>
          /\ \E p \in Prices :
                candles' = [b \in {BucketStart(tick.ts) - Sec, BucketStart(tick.ts)} |->
                              [src |-> "seed", o |-> p, h |-> p, l |-> p, c |-> p]]
       \/ UNCHANGED candles
    /\ UNCHANGED <<tick, bucket, obs, stops>>

Write(b, r) == [k \in DOMAIN candles \union {b} |-> IF k = b THEN r ELSE candles[k]]

\* poll(): the state is stepped before the write, so a failed write loses the bucket
PollLatest ==
    /\ seeded
    /\ LET b == BucketStart(tick.ts)
       IN  /\ bucket' = StepBucket(bucket, b, tick.price)
           /\ obs' = [k \in DOMAIN obs \union {b} |->
                         IF k # b THEN obs[k] ELSE IF b \in DOMAIN obs THEN Append(obs[b], tick.price)
                         ELSE <<tick.price>>]
           /\ Len(obs'[b]) <= MaxPolls
           /\ \/ /\ Closes(bucket, b)
                 /\ candles' = Write(bucket[1].bucket, Row(bucket[1]))
              \/ UNCHANGED candles
    /\ UNCHANGED <<tick, seeded, stops>>

\* The process ends and starts again: the bucket in memory is lost
RestartAggregator ==
    /\ stops < MaxStops
    /\ stops' = stops + 1
    /\ bucket' = <<>>
    /\ seeded' = FALSE
    /\ UNCHANGED <<tick, candles, obs>>

CandlesNext == OracleTick \/ SeedFromBinance \/ PollLatest \/ RestartAggregator

----------------------------------------------------------------------------
SetMax(S) == CHOOSE x \in S : \A y \in S : x >= y
SetMin(S) == CHOOSE x \in S : \A y \in S : x <= y
Seen(b) == {obs[b][i] : i \in DOMAIN obs[b]}

\* A native bar is the OHLC of every observation any process made in its bucket: one that a
\* process joined half way through, after a restart, is never persisted as native
\* (bucketing.ts stepBucket: emitting it would record a wrong open)
NativeBarsWhole ==
    \A b \in DOMAIN candles : candles[b].src = "native" =>
        candles[b] = [src |-> "native", o |-> obs[b][1], c |-> obs[b][Len(obs[b])],
                      h |-> SetMax(Seen(b)), l |-> SetMin(Seen(b))]

\* A bucket contains the observation and lies on the interval's grid, before the first
\* aligned instant too (bucketing.ts bucketStart: the weekly offset)
BucketContainsTick ==
    LET b == BucketStart(tick.ts)
    IN  b <= tick.ts /\ tick.ts < b + Sec /\ (b - Offset) % Sec = 0

\* A chart bar is true to the trades of exactly its own interval (aggregator.ts, bucketing.ts)
BarsWhole == NativeBarsWhole /\ BucketContainsTick
=============================================================================
