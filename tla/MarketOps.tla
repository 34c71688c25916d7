----------------------------- MODULE MarketOps ------------------------------
(***************************************************************************)
(* The isolated-margin bookkeeping of the trading contract                 *)
(* (contracts/market/src/lib.rs and storage.rs) as operators from a market *)
(* record to a market record.  A transaction composes several of them and  *)
(* the vault's operators (VaultOps); module Market turns the compositions  *)
(* into actions.                                                           *)
(*                                                                         *)
(* A market record m has the fields                                        *)
(*   cash              USDC the market contract holds (token balance)      *)
(*   pool              the vault, a pool record of VaultOps                *)
(*   positions         open positions by id; a deleted row has no id here  *)
(*   position_counter  last id given out                                   *)
(*   listed            TraderPositions: ids of each trader                 *)
(*   open_positions    OpenPositionCount                                   *)
(*   orders            every order ever placed, rows are never deleted     *)
(*   links             <<type, position, order>>: attached close orders    *)
(*   peaks             TrailingStopPeak by order id                        *)
(*   open_orders, orders_of   OpenOrderCount and OrderCountOf              *)
(*   total_long, total_short  open interest over all assets                *)
(*   exposure          per asset: lk, sk size over entry price, ls, ss     *)
(*                     size, of the long and of the short side             *)
(*   adl               assets under auto-deleveraging                      *)
(*   overpaid          history: USDC liquidations took from the custody of *)
(*                     other traders                                       *)
(***************************************************************************)
EXTENDS VaultOps, Sequences

CONSTANTS
  Config,             \* MarketConfig, the fields the model uses
  VaultConfig,        \* configuration record of the vault (module Vault)
  PRECISION, FEE_PRECISION

EntryTypes == {"LimitEntry", "StopLimit"}
CloseTypes == {"StopLoss", "TakeProfit", "TrailingStop"}

(* i128 division truncates toward zero. *)
Quot(a, b) == IF a >= 0 THEN a \div b ELSE -((-a) \div b)

calculate_position_size(collateral, leverage) == collateral * leverage

-----------------------------------------------------------------------------
(* Value of a position.  size is the part of it that is valued; cum is the   *)
(* asset's cumulative funding index.                                         *)

calculate_pnl(pos, size, mark) ==
  Quot(size * (IF pos.dir = "Long" THEN mark - pos.entry ELSE pos.entry - mark),
       pos.entry)

(* Positive: the position pays; negative: it receives. *)
calculate_cumulative_funding(pos, size, cum) ==
  LET raw == Quot(size * (cum - pos.entry_cum), PRECISION)
  IN  IF pos.dir = "Long" THEN raw ELSE -raw

NetPnl(pos, size, mark, cum) ==
  calculate_pnl(pos, size, mark) - calculate_cumulative_funding(pos, size, cum)

Equity(pos, mark, cum) == pos.collateral + NetPnl(pos, pos.size, mark, cum)

(* Entry price moved by the margin factor; the ratio form serves positions   *)
(* whose collateral no longer is size / leverage.                            *)
LiquidationPrice(entry, factor, dir, mm_bps) ==
  LET step == Quot(entry * (factor - (mm_bps * PRECISION) \div BASIS_POINTS), PRECISION)
  IN  IF dir = "Long" THEN entry - step ELSE entry + step

calculate_liquidation_price(entry, leverage, dir, mm_bps) ==
  LiquidationPrice(entry, PRECISION \div leverage, dir, mm_bps)

liquidation_price_from_ratio(entry, collateral, size, dir, mm_bps) ==
  LiquidationPrice(entry, (collateral * PRECISION) \div size, dir, mm_bps)

should_liquidate(pos, mark) ==
  IF pos.dir = "Long" THEN mark <= pos.liq ELSE mark >= pos.liq

should_liquidate_with_funding(pos, mark, cum, mm_bps) ==
  \/ should_liquidate(pos, mark)
  \/ Equity(pos, mark, cum) < BpsOf(pos.size, mm_bps)

-----------------------------------------------------------------------------
(* Open interest *)

exposure_upnl(e, mark) ==
  (mark * e.lk) \div PRECISION - e.ls + e.ss - (mark * e.sk) \div PRECISION

KDelta(size, entry) == (size * PRECISION) \div entry

Grown(e, dir, size, k) ==
  IF dir = "Long" THEN [e EXCEPT !.lk = @ + k, !.ls = @ + size]
                  ELSE [e EXCEPT !.sk = @ + k, !.ss = @ + size]

(* Decreases saturate at zero. *)
Shrunk(e, dir, size, k) ==
  IF dir = "Long" THEN [e EXCEPT !.lk = Floor0(@ - k), !.ls = Floor0(@ - size)]
                  ELSE [e EXCEPT !.sk = Floor0(@ - k), !.ss = Floor0(@ - size)]

WithExposure(m, asset, e, mark, release) ==
  [m EXCEPT !.exposure = [m.exposure EXCEPT ![asset] = e],
            !.pool = sync_exposure(@, asset, exposure_upnl(e, mark), release)]

(* adjust_oi with increase = true: nothing is released in the vault. *)
IncreaseOi(m, asset, dir, size, entry) ==
  WithExposure(
    [m EXCEPT !.total_long = IF dir = "Long" THEN @ + size ELSE @,
              !.total_short = IF dir = "Short" THEN @ + size ELSE @],
    asset, Grown(m.exposure[asset], dir, size, KDelta(size, entry)), entry, 0)

(* Faulty variant: the aggregate shrinks by size over the closing price. *)
DecreaseOiAtMark(m, asset, dir, size, entry, mark) ==
  WithExposure(
    [m EXCEPT !.total_long = IF dir = "Long" THEN Floor0(@ - size) ELSE @,
              !.total_short = IF dir = "Short" THEN Floor0(@ - size) ELSE @],
    asset, Shrunk(m.exposure[asset], dir, size, KDelta(size, mark)), mark, size)

(* adjust_oi with increase = false. *)
DecreaseOi(m, asset, dir, size, entry, mark) ==
  WithExposure(
    [m EXCEPT !.total_long = IF dir = "Long" THEN Floor0(@ - size) ELSE @,
              !.total_short = IF dir = "Short" THEN Floor0(@ - size) ELSE @],
    asset, Shrunk(m.exposure[asset], dir, size, KDelta(size, entry)), mark, size)

SideOi(e, dir) == IF dir = "Long" THEN e.ls ELSE e.ss

reserve_with_vault(m, asset, dir, size) ==
  LET e == m.exposure[asset]
      skew == e.ls - e.ss
  IN  CanReserve(m.pool, VaultConfig, asset, size, SideOi(e, dir) + size,
                 skew, IF dir = "Long" THEN skew + size ELSE skew - size)

-----------------------------------------------------------------------------
(* Orders.  Statuses: Pending, Executed, Cancelled, CancelledSlippage.       *)

Pending(m) == {o \in DOMAIN m.orders : m.orders[o].status = "Pending"}
PendingOf(m, trader) == {o \in Pending(m) : m.orders[o].trader = trader}

(* update_order_status for each id of a set: a counter falls only with an    *)
(* order that was Pending.                                                   *)
update_order_status(m, ids, status) ==
  [m EXCEPT !.orders = [o \in DOMAIN m.orders |->
                          IF o \in ids THEN [m.orders[o] EXCEPT !.status = status]
                                       ELSE m.orders[o]],
            !.open_orders = Floor0(@ - Cardinality(ids \cap Pending(m))),
            !.orders_of = [t \in DOMAIN m.orders_of |->
               Floor0(m.orders_of[t] - Cardinality(ids \cap PendingOf(m, t)))]]

(* save_order of a new row. *)
StoreOrder(m, order) ==
  [m EXCEPT !.orders = Append(@, order),
            !.open_orders = @ + 1,
            !.orders_of = [m.orders_of EXCEPT
                             ![order.trader] = m.orders_of[order.trader] + 1]]

Linked(m, id) == {o \in DOMAIN m.orders :
                    \E type \in CloseTypes : <<type, id, o>> \in m.links}
HasLink(m, type, id) == \E o \in DOMAIN m.orders : <<type, id, o>> \in m.links

DropPeaks(m, ids) ==
  [m EXCEPT !.peaks = [o \in DOMAIN m.peaks \ ids |-> m.peaks[o]]]
DropLink(m, type, id) ==
  [m EXCEPT !.links = {l \in m.links : ~(l[1] = type /\ l[2] = id)}]

(* Faulty variant: attached orders stay pending. *)
cancel_position_orders_forgotten(m, id, skip) ==
  [m EXCEPT !.links = {l \in m.links : l[2] # id}]

(* The order being executed is skipped; its status is its caller's.          *)
cancel_position_orders(m, id, skip) ==
  LET ids == Linked(m, id) \ {skip}
      n == DropPeaks(update_order_status(m, ids, "Cancelled"), ids)
  IN  [n EXCEPT !.links = {l \in m.links : l[2] # id}]

-----------------------------------------------------------------------------
(* Positions *)

delete_position(m, id) ==
  LET t == m.positions[id].trader
  IN  [m EXCEPT !.positions = [i \in DOMAIN m.positions \ {id} |-> m.positions[i]],
                !.listed = [m.listed EXCEPT ![t] = m.listed[t] \ {id}],
                !.open_positions = Floor0(@ - 1)]

(* Faulty variant: the id is not taken. *)
StorePositionUncounted(m, pos) ==
  LET id == m.position_counter + 1
  IN  [m EXCEPT !.positions = [i \in DOMAIN m.positions \cup {id} |->
                                 IF i = id THEN pos ELSE m.positions[i]],
                !.listed = [m.listed EXCEPT
                              ![pos.trader] = m.listed[pos.trader] \cup {id}],
                !.open_positions = @ + 1]

(* save_position of a new row. *)
StorePosition(m, pos) ==
  LET id == m.position_counter + 1
  IN  [m EXCEPT !.positions = [i \in DOMAIN m.positions \cup {id} |->
                                 IF i = id THEN pos ELSE m.positions[i]],
                !.position_counter = id,
                !.listed = [m.listed EXCEPT
                              ![pos.trader] = m.listed[pos.trader] \cup {id}],
                !.open_positions = @ + 1]

credit_vault_receipt(p, amount) ==
  IF amount > 0 THEN receive_loss(p, amount) ELSE p
fund_vault_buffer(p, amount) ==
  IF amount > 0 THEN fund_buffer(p, VaultConfig, amount) ELSE p
record_bad_debt(p, amount) == IF amount > 0 THEN draw_buffer(p, amount) ELSE p

flag_adl_on_shortfall(m, asset, net, paid) ==
  [m EXCEPT !.adl = [m.adl EXCEPT
                       ![asset] = m.adl[asset] \/ (net > 0 /\ paid < net)]]

(* Faulty variant: the loss is not capped by the position's own collateral. *)
LossOwedUncapped(net, collateral) == IF net < 0 THEN -net ELSE 0

LossOwed(net, collateral) == IF net < 0 THEN Least(-net, collateral) ELSE 0

(* The money of a close, full or partial, of a part that carries collateral: *)
(* the vault pays a gain, the part's own collateral pays a loss, then the    *)
(* keeper, and the trader gets what is left.                                 *)
SettleClosed(m, pos, collateral, net, keeper_fee) ==
  LET paid == SettlePaid(m.pool, net)
      owed == LossOwed(net, collateral)
      fee_paid == Least(keeper_fee, collateral - owed)
      to_trader == collateral - owed - fee_paid + paid
      settled == IF net > 0 THEN settle_pnl(m.pool, pos.trader, net) ELSE m.pool
      booked == record_bad_debt(settled, -(collateral + net))
  IN  [flag_adl_on_shortfall(m, pos.asset, net, paid) EXCEPT
         !.pool = credit_vault_receipt(TransferIn(booked, owed), owed),
         !.cash = @ + paid - owed - Floor0(fee_paid) - Floor0(to_trader)]

settle_isolated_close(m, id, mark, cum, keeper_fee, skip) ==
  LET pos == m.positions[id]
      paid == SettleClosed(m, pos, pos.collateral, NetPnl(pos, pos.size, mark, cum),
                           keeper_fee)
      released == DecreaseOi(paid, pos.asset, pos.dir, pos.size, pos.entry, mark)
  IN  delete_position(cancel_position_orders(released, id, skip), id)

CollateralClosed(pos, close_size) == (pos.collateral * close_size) \div pos.size

settle_partial_close(m, id, mark, cum, close_size, keeper_fee) ==
  LET pos == m.positions[id]
      part == CollateralClosed(pos, close_size)
      paid == SettleClosed(m, pos, part, NetPnl(pos, close_size, mark, cum), keeper_fee)
      released == DecreaseOi(paid, pos.asset, pos.dir, close_size, pos.entry, mark)
  IN  [released EXCEPT
         !.positions = [m.positions EXCEPT
            ![id] = [pos EXCEPT !.size = pos.size - close_size,
                                !.collateral = pos.collateral - part]]]

(* Opposite legs are closed one after the other in list order.               *)
Leg(S, n) == CHOOSE i \in S : Cardinality({j \in S : j < i}) = n - 1

CloseLeg(m, S, n, mark, cum) ==
  IF n <= Cardinality(S) THEN settle_isolated_close(m, Leg(S, n), mark, cum, 0, 0)
                         ELSE m

MAX_NET_LEGS == 4

CloseLegs(m, S, mark, cum) ==
  CloseLeg(CloseLeg(CloseLeg(CloseLeg(m, S, 1, mark, cum), S, 2, mark, cum),
                    S, 3, mark, cum), S, 4, mark, cum)

(* finalize_open: the row, its open interest, and the trading fee: the       *)
(* referrer's pot comes out of the protocol's cut, the rest of the cut fills *)
(* the buffer, and what remains of the fee is the LPs'.                      *)
finalize_open(m, pos, fee, referrer_payout) ==
  LET opened == IncreaseOi(StorePosition(m, pos), pos.asset, pos.dir, pos.size, pos.entry)
      cut == BpsOf(fee, Config.protocol_fee_bps)
      rest == cut - Least(referrer_payout, cut)
      routed == IF rest > 0
                  THEN route_protocol_fee(TransferIn(opened.pool, rest), VaultConfig, rest)
                  ELSE opened.pool
  IN  [opened EXCEPT
         !.pool = credit_vault_receipt(TransferIn(routed, fee - cut), fee - cut),
         !.cash = @ - fee]

-----------------------------------------------------------------------------
(* Liquidation *)

TrancheSize(pos) == BpsOf(pos.size, Config.partial_liq_tranche_bps)

(* The tranche's share of the loss, at most the collateral. *)
TrancheDebit(pos, net) ==
  Least(BpsOf(Floor0(-net), Config.partial_liq_tranche_bps), pos.collateral)

(* Faulty variant: the penalty is not bounded by the tranche's equity. *)
TranchePenaltyUnbounded(pos, net) ==
  Least(BpsOf(TrancheSize(pos), Config.liquidation_penalty_bps),
        pos.collateral - TrancheDebit(pos, net))

(* Bounded by the tranche's share of the equity and by the collateral left.  *)
TranchePenalty(pos, net) ==
  Floor0(Least(Least(BpsOf(TrancheSize(pos), Config.liquidation_penalty_bps),
                     BpsOf(pos.collateral + net, Config.partial_liq_tranche_bps)),
               pos.collateral - TrancheDebit(pos, net)))

TrancheLeft(pos, net) ==
  pos.collateral - TrancheDebit(pos, net) - TranchePenalty(pos, net)

(* A large position that is not bankrupt loses a tranche first, unless       *)
(* nothing would be left behind it.                                          *)
TakesTranche(pos, net) ==
  /\ pos.collateral + net > 0
  /\ Config.partial_liq_tranche_bps > 0
  /\ pos.size > Config.partial_liq_min_notional
  /\ pos.size - TrancheSize(pos) > 0
  /\ TrancheLeft(pos, net) > 0

LiquidateTranche(m, id, mark, cum, mm_bps, now) ==
  LET pos == m.positions[id]
      net == NetPnl(pos, pos.size, mark, cum)
      debit == TrancheDebit(pos, net)
      penalty == TranchePenalty(pos, net)
      reward == BpsOf(penalty, Config.penalty_keeper_share_bps)
      to_buffer == penalty - reward
      received == credit_vault_receipt(TransferIn(m.pool, debit + to_buffer), debit)
      paid == [m EXCEPT !.pool = fund_vault_buffer(received, to_buffer),
                        !.cash = @ - (debit + to_buffer) - reward]
      size == pos.size - TrancheSize(pos)
      left == TrancheLeft(pos, net)
      released == DecreaseOi(paid, pos.asset, pos.dir, TrancheSize(pos), pos.entry, mark)
  IN  [released EXCEPT
         !.positions = [m.positions EXCEPT
            ![id] = [pos EXCEPT
               !.size = size,
               !.collateral = left,
               !.liq = liquidation_price_from_ratio(pos.entry, left, size, pos.dir, mm_bps),
               !.partial_liq_ts = now]]]

(* Full liquidation of a position with equity left: penalty to keeper and    *)
(* buffer, the residual equity back to the trader, the loss to the LPs.      *)
SeizeSolvent(m, pos, equity) ==
  LET penalty == Least(BpsOf(pos.size, Config.liquidation_penalty_bps), equity)
      keeper_cut == BpsOf(penalty, Config.penalty_keeper_share_bps)
      buffer_cut == penalty - keeper_cut
      refund == equity - penalty
      to_vault == Floor0(pos.collateral - keeper_cut - refund)
      received == credit_vault_receipt(TransferIn(m.pool, to_vault), to_vault - buffer_cut)
  IN  [m EXCEPT
         !.pool = IF to_vault > 0 THEN fund_vault_buffer(received, buffer_cut) ELSE m.pool,
         !.cash = @ - to_vault - keeper_cut - refund,
         !.overpaid = @ + (to_vault + keeper_cut + refund - pos.collateral)]

(* Faulty variant: the buffer's share is credited to the LPs as well. *)
SeizeBankruptTwice(m, pos, equity) ==
  LET booked == record_bad_debt(m.pool, -equity)
      received == credit_vault_receipt(TransferIn(booked, pos.collateral), pos.collateral)
  IN  [m EXCEPT !.pool = fund_vault_buffer(received,
                  BpsOf(pos.collateral, Config.insurance_buffer_share_bps)),
                !.cash = @ - pos.collateral]

(* Full liquidation of a bankrupt position: the gap is booked as bad debt    *)
(* and all of the collateral goes to the vault.                              *)
SeizeBankrupt(m, pos, equity) ==
  LET booked == record_bad_debt(m.pool, -equity)
      buffer_cut == BpsOf(pos.collateral, Config.insurance_buffer_share_bps)
      received == credit_vault_receipt(TransferIn(booked, pos.collateral),
                                       pos.collateral - buffer_cut)
  IN  [m EXCEPT !.pool = fund_vault_buffer(received, buffer_cut),
                !.cash = @ - pos.collateral]

KeeperCut(pos, equity) ==
  IF equity > 0
    THEN BpsOf(Least(BpsOf(pos.size, Config.liquidation_penalty_bps), equity),
               Config.penalty_keeper_share_bps)
    ELSE 0

(* The bounty tops the keeper's cut up from the insurance buffer. *)
LiquidateFull(m, id, mark, cum) ==
  LET pos == m.positions[id]
      equity == Equity(pos, mark, cum)
      seized == IF equity > 0 THEN SeizeSolvent(m, pos, equity)
                              ELSE SeizeBankrupt(m, pos, equity)
      released == DecreaseOi(seized, pos.asset, pos.dir, pos.size, pos.entry, mark)
      gone == delete_position(cancel_position_orders(released, id, 0), id)
      topup == Config.min_liq_bounty - KeeperCut(pos, equity)
  IN  [gone EXCEPT !.pool = IF topup > 0 THEN pay_bounty(@, topup) ELSE @]
=============================================================================
