------------------------------- MODULE Health -------------------------------
(***************************************************************************)
(* The keeper's local copy of the market's arithmetic                      *)
(* (scripts/keeper/src/health.ts): which positions are worth a             *)
(* liquidation simulation, when an ADL probe is worth its cost, and the    *)
(* order of the ADL walk; and the gateway's own copy of that order, the    *)
(* queue it shows the traders (api/src/services/adlQueue.ts).  Integer     *)
(* division truncates towards zero, as BigInt's does.  A state is one      *)
(* sample of the inputs.                                                   *)
(***************************************************************************)
EXTENDS Integers, FiniteSets, Sequences, SequencesExt

CONSTANTS Precision, BasisPoints,   \* scales
          MmBps, Buffer,            \* maintenance margin, CANDIDATE_BUFFER
          TriggerBps, ClearBps,     \* ADL hysteresis
          Sizes, Entries, Collaterals, Marks, Fundings, Coverages

ASSUME HealthConstants ==
    /\ {Precision, BasisPoints, MmBps, Buffer, TriggerBps, ClearBps} \subseteq Nat \ {0}
    /\ TriggerBps <= ClearBps

VARIABLE sample

Div(x, y) == IF x >= 0 THEN x \div y ELSE -((-x) \div y)
Pos(x) == IF x > 0 THEN x ELSE 0

CalculatePnl(p, price) ==
    IF p.entry = 0 THEN 0
    ELSE Div(p.size * (IF p.long THEN price - p.entry ELSE p.entry - price), p.entry)

PositionMargin(p, price, owed) == p.collateral + CalculatePnl(p, price) - owed
MaintenanceMargin(size) == Div(size * MmBps, BasisPoints)

CrossesLiquidationPrice(p, price) ==
    p.liq > 0 /\ IF p.long THEN price <= p.liq ELSE price >= p.liq

IsUnderwater(p, price, owed) ==
    CrossesLiquidationPrice(p, price) \/ PositionMargin(p, price, owed) < MaintenanceMargin(p.size)

NoBuffer(p, price) ==
    CrossesLiquidationPrice(p, price) \/ PositionMargin(p, price, 0) < MaintenanceMargin(p.size)

IsLiquidationCandidate(p, price) ==
    CrossesLiquidationPrice(p, price) \/ PositionMargin(p, price, 0) < MaintenanceMargin(p.size) * Buffer

CrossEquity(pool, ps, price) ==
    pool + FoldSeq(LAMBDA p, sum : sum + p.collateral + CalculatePnl(p, price), 0, ps)

IsCrossLiquidationCandidate(pool, ps, price) ==
    ps # <<>> /\ CrossEquity(pool, ps, price)
                    < Buffer * FoldSeq(LAMBDA p, sum : sum + MaintenanceMargin(p.size), 0, ps)

AdlRank(pnl, p) == IF pnl <= 0 \/ p.collateral <= 0 THEN 0 ELSE Div(pnl * BasisPoints, p.collateral) * p.leverage

\* Quantity per side with one truncation per position, as the market books it
AssetPayableUpnl(ps, price) ==
    LET qty(long) == FoldSeq(LAMBDA p, sum : IF p.long = long /\ p.entry > 0 THEN sum + Div(p.size * Precision, p.entry)
                                             ELSE sum, 0, ps)
        notional(long) == FoldSeq(LAMBDA p, sum : IF p.long = long /\ p.entry > 0 THEN sum + p.size ELSE sum, 0, ps)
    IN  IF price <= 0 THEN 0
        ELSE Pos(Div(price * qty(TRUE), Precision) - notional(TRUE))
             + Pos(notional(FALSE) - Div(price * qty(FALSE), Precision))

AdlFlagDecision(payable, coverage, active) ==
    IF ~active
    THEN IF payable > 0 /\ coverage * BasisPoints < payable * TriggerBps THEN "activate" ELSE "hold"
    ELSE IF payable = 0 \/ coverage * BasisPoints >= payable * ClearBps THEN "clear" ELSE "hold"

\* Winners only, best score first, the lower id on a tie
RankAdlCandidates(ps, price) ==
    LET score(p) == AdlRank(CalculatePnl(p, price), p)
    IN  SortSeq(SelectSeq(ps, LAMBDA p : CalculatePnl(p, price) > 0),
                LAMBDA x, y : score(x) > score(y) \/ (score(x) = score(y) /\ x.id < y.id))

\* The gateway's ranking of the winners, in fifths
RankAdlQueue(ps, mark) ==
    LET score(p) == Div(CalculatePnl(p, mark) * BasisPoints, p.collateral) * p.leverage
        winners == SortSeq(SelectSeq(ps, LAMBDA p : p.entry > 0 /\ p.collateral > 0 /\ CalculatePnl(p, mark) > 0),
                           LAMBDA x, y : score(x) > score(y) \/ (score(x) = score(y) /\ x.id < y.id))
        fifth(i) == ((i - 1) * 5) \div Len(winners) + 1
    IN  [i \in DOMAIN winners |->
            [id |-> winners[i].id, rank |-> i, quintile |-> IF fifth(i) > 5 THEN 5 ELSE fifth(i)]]

\* The positions whose ledger entry is there and decodes; the others drop out without a word
HydrateFromLedger(ps, there) == SelectSeq(ps, LAMBDA p : p.id \in there)

\* A projection without positions is an empty queue, an unreadable chain or oracle a degraded one
AdlQueue(ps, there, mark, readable) ==
    IF ps = <<>> \/ ~readable THEN [degraded |-> ps # <<>>, rows |-> <<>>]
    ELSE [degraded |-> FALSE, rows |-> RankAdlQueue(HydrateFromLedger(ps, there), mark)]

SamplePosition == [size : Sizes, entry : Entries, collateral : Collaterals, long : BOOLEAN]
AsPosition(q, id) == [size |-> q.size, entry |-> q.entry, collateral |-> q.collateral, long |-> q.long,
                      liq |-> 0, leverage |-> Div(q.size, q.collateral), id |-> id]

SampleOf(q1, q2, price, owed, coverage) ==
    [ps |-> <<AsPosition(q1, 1), AsPosition(q2, 2)>>, price |-> price, owed |-> owed,
     coverage |-> coverage, active |-> FALSE]

HealthInit ==
    \E q1, q2 \in SamplePosition, price \in Marks, owed \in Fundings, coverage \in Coverages :
        sample = SampleOf(q1, q2, price, owed, coverage)

\* The flag follows the decision of the probe it pays for
Probe ==
    LET dec == AdlFlagDecision(AssetPayableUpnl(sample.ps, sample.price), sample.coverage, sample.active)
    IN  dec # "hold" /\ sample' = [sample EXCEPT !.active = dec = "activate"]

HealthNext == Probe

----------------------------------------------------------------------------
\* P2-9: as long as the funding a position owes is at most its maintenance margin, the buffered
\* prefilter simulates every position and every account the contract would liquidate
PrefilterMissesNothing ==
    /\ \A i \in 1..2 :
          LET p == sample.ps[i]
          IN  sample.owed <= MaintenanceMargin(p.size) /\ IsUnderwater(p, sample.price, sample.owed)
                 => IsLiquidationCandidate(p, sample.price)
    /\ LET mm == MaintenanceMargin(sample.ps[1].size) + MaintenanceMargin(sample.ps[2].size)
       IN  sample.owed <= mm /\ CrossEquity(0, sample.ps, sample.price) - sample.owed < mm
              => IsCrossLiquidationCandidate(0, sample.ps, sample.price)

\* The side-clamped estimate that decides whether a probe is worth its cost never promises more
\* than the winners are owed one by one, beyond one truncated unit each
PayableNeverOverstated ==
    AssetPayableUpnl(sample.ps, sample.price)
        <= Pos(CalculatePnl(sample.ps[1], sample.price)) + Pos(CalculatePnl(sample.ps[2], sample.price))
           + 2 * Div(sample.price + Precision - 1, Precision)

\* The queue a trader is shown is the walk the keeper makes: the same positions in the same order,
\* the first in the first fifth and none in an earlier fifth than the one before it; and a queue
\* that is empty without being degraded, every entry read, means that nobody wins
QueueIsTheWalk ==
    \A there \in SUBSET {1, 2}, readable \in BOOLEAN :
        LET q == AdlQueue(sample.ps, there, sample.price, readable)
            walk == RankAdlCandidates(HydrateFromLedger(sample.ps, there), sample.price)
        IN  /\ ~q.degraded => [i \in DOMAIN q.rows |-> q.rows[i].id] = [i \in DOMAIN walk |-> walk[i].id]
            /\ \A i \in DOMAIN q.rows : q.rows[i].quintile >= IF i = 1 THEN 1 ELSE q.rows[i-1].quintile
            /\ q.rows # <<>> => q.rows[1].quintile = 1
            /\ ~q.degraded /\ q.rows = <<>> /\ there = {1, 2} =>
                  \A i \in {1, 2} : CalculatePnl(sample.ps[i], sample.price) <= 0

\* One set of inputs never makes the flag go on and off again
NoFlapping == [][sample.active => sample'.active]_sample

\* The arithmetic the keeper and the gateway do for themselves errs on the safe side of the
\* contract's, and both rank the winners alike (health.ts, adlQueue.ts)
LocalMathSafe == [](PrefilterMissesNothing /\ PayableNeverOverstated /\ QueueIsTheWalk) /\ NoFlapping
=============================================================================
