------------------------------ MODULE MCKeeper ------------------------------
(***************************************************************************)
(* The keeper's parts on small instances.  A behaviour is of one part: the *)
(* parts meet only through the chain and the state file, which each of     *)
(* them models for itself.                                                 *)
(***************************************************************************)
EXTENDS KeeperTx, Discovery, Keeper, Publisher, Duties, Health

CONSTANT Parts
VARIABLE part

\* Ids are issued on one side only: the sides are walked and judged independently
PositionIds == [s \in {"position", "order"} |-> IF s = "position" THEN 2 ELSE 0]

KeepTx == UNCHANGED <<discoveryVars, keeperVars, publisherVars, dutyVars, sample, part>>
KeepDiscovery == UNCHANGED <<txVars, keeperVars, publisherVars, dutyVars, sample, part>>
KeepScan == UNCHANGED <<txVars, discoveryVars, publisherVars, dutyVars, sample, part>>
KeepPublish == UNCHANGED <<txVars, discoveryVars, keeperVars, dutyVars, sample, part>>
KeepDuties == UNCHANGED <<txVars, discoveryVars, keeperVars, publisherVars, sample, part>>
KeepHealth == UNCHANGED <<txVars, discoveryVars, keeperVars, publisherVars, dutyVars, part>>

\* A part that does not run stands in one of its initial states
Some(S) == CHOOSE x \in S : TRUE
MCInit ==
    /\ part \in Parts
    /\ TxInit /\ DiscoveryInit /\ PublisherInit /\ DutiesInit
    /\ IF part = "scan" THEN KeeperInit ELSE StartWith({})
    /\ IF part = "health" THEN HealthInit
       ELSE sample = SampleOf(Some(SamplePosition), Some(SamplePosition), Some(Marks), Some(Fundings), Some(Coverages))
    /\ part # "discovery" => mode = "legacy"
    /\ part # "duties" => duty = "funding"

MCNext ==
    \/ part = "tx" /\ TxNext /\ KeepTx
    \/ part = "discovery" /\ DiscoveryNext /\ KeepDiscovery
    \/ part = "scan" /\ KeeperNext /\ KeepScan
    \/ part = "publish" /\ PublisherNext /\ KeepPublish
    \/ part = "duties" /\ DutiesNext /\ KeepDuties
    \/ part = "health" /\ HealthNext /\ KeepHealth

\* The loop awaits one call after the other and every call times out, so it always goes on
mcVars == <<txVars, discoveryVars, keeperVars, publisherVars, dutyVars, sample, part>>
MCFairness ==
    /\ WF_mcVars(part = "tx" /\ WriteStep /\ KeepTx)
    /\ WF_mcVars(part = "discovery" /\ DiscoveryStep /\ KeepDiscovery)
    /\ WF_mcVars(part = "scan" /\ KeeperStep /\ KeepScan)
MCSafe == MCInit /\ [][MCNext]_mcVars
MCSpec == MCSafe /\ MCFairness

\* What must eventually happen does: a write returns, a live id is seen or paged, what is
\* liquidatable is liquidated, a triggered order is served, winners the pool cannot cover are
\* closed (index.ts main loop: every cycle is awaited and every call of it times out)
KeeperLive == WriteReturns /\ SeenOrPaged /\ LiquidatedInTheEnd /\ OrdersServed /\ WinnersDeleveraged
=============================================================================
