----------------------------- MODULE MCIndexer -----------------------------
(***************************************************************************)
(* The indexer's parts on small instances.  A behaviour is of one part:    *)
(* the pollers, the candle aggregator or the migration runner share no     *)
(* state, so their interleavings add nothing.                              *)
(***************************************************************************)
EXTENDS Indexer, Candles, Migrations

VARIABLE part

Event(led, con, topic, ids, amt, tx) ==
    [led |-> led, con |-> con, topic |-> topic, ids |-> ids, amt |-> amt, tx |-> tx, garbled |-> FALSE]
Garbled(e) == [e EXCEPT !.garbled = TRUE]

\* A position is liquidated in part, then closed in part, then cross liquidated
Trading == <<Event(1, "market", "position_opened", {1}, 3, 1),
             Event(2, "market", "position_partial_liq", {1}, 1, 2),
             Event(2, "market", "position_reduced", {1}, 1, 3),
             Event(3, "market", "cross_liq", {1}, 0, 4)>>

\* A leader closes a position in one transaction; an order event the decoder cannot read
Closing == <<Event(1, "market", "position_opened", {2}, 2, 1),
             Garbled(Event(2, "market", "order_placed", {}, 0, 2)),
             Event(2, "market", "position_closed", {2}, 0, 3),
             Event(2, "factory", "leader_close", {2}, 1, 3)>>

\* A relative credit before the claim that zeroes it, and a settlement of the pool
Referral == <<Event(1, "referral", "code_created", {}, 0, 1),
              Event(2, "referral", "trade_recorded", {}, 2, 2),
              Event(2, "referral", "claimed", {}, 2, 2),
              Event(3, "lpVault", "pnl_settled", {}, 1, 3)>>

\* A vault whose leader trades between deposits
Funds == <<Event(1, "factory", "vault_created", {}, 0, 1),
           Event(2, "factory", "leader_open", {}, -1, 2),
           Event(2, "factory", "deposit", {}, 2, 3)>>

AllStreams == {Trading, Closing, Referral, Funds}

Parts == {"poller", "candles", "migrations"}
MCInit == /\ Init /\ CandlesInit /\ MigrationsInit
          /\ part \in Parts
          /\ part # "poller" => stream = CHOOSE s \in Streams : TRUE
          /\ part # "candles" => tick.price = 1

PollerOnly == part = "poller" /\ UNCHANGED <<candleVars, migrationVars, part>>
MCNext == \/ Next /\ PollerOnly
          \/ CandlesNext /\ part = "candles" /\ UNCHANGED <<vars, migrationVars, part>>
          \/ MigrationsNext /\ part = "migrations" /\ UNCHANGED <<vars, candleVars, part>>

mcVars == <<vars, candleVars, migrationVars, part>>
MCFairness == /\ \A p \in Pollers : /\ WF_mcVars(Poll(p) /\ PollerOnly)
                                    /\ WF_mcVars(Boot(p) /\ PollerOnly)
              /\ WF_mcVars(Replay /\ PollerOnly)
              /\ WF_mcVars(EndReindex /\ PollerOnly)
              /\ WF_mcVars(Publish /\ PollerOnly)
MCSpec == MCInit /\ [][MCNext]_mcVars /\ MCFairness

\* Events reach the archive, a dead letter or a recorded gap (poll.ts loop: an error is logged
\* and the iteration retried until the process stops)
PollerCatchesUp == part = "poller" => EventuallyAccounted
=============================================================================
