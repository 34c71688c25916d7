------------------------------- MODULE Market -------------------------------
(***************************************************************************)
(* The trading contract (contracts/market/src/lib.rs), isolated margin:    *)
(* positions, conditional orders, liquidation, auto-deleveraging and the   *)
(* pause modes, together with the vault it settles against.                *)
(*                                                                         *)
(* One action is one transaction that commits; a call that errs reverts    *)
(* and changes nothing.  The oracle is external: every transaction reads   *)
(* some price of Prices (get_oracle_price refuses stale and deviant prices *)
(* by reverting), and get_smoothed_price some price or none.  Trading fees *)
(* and referral payouts are any of Fees and Payouts: the fee tiers choose  *)
(* the amount, not where it goes.  Acceptable-price bounds only refuse.    *)
(***************************************************************************)
EXTENDS MarketOps

CONSTANTS
  MAX_OPEN_POSITIONS_TOTAL, MAX_OPEN_POSITIONS_PER_TRADER,
  MAX_OPEN_ORDERS_TOTAL, MAX_OPEN_ORDERS_PER_TRADER,
  FULL_FREEZE_MAX_SECS,
  InitialLiquidity, InitialBuffer,     \* LP deposit and seeded buffer at the start
  InitialRisk,                         \* set_asset_risk calls of the deployment
  (* inputs of the entry points *)
  Prices, Collaterals, Leverages, Fees, Payouts, CloseSizes, Amounts,
  OrderTypes, Triggers, Tolerances, TimesInForce, Trails, RiskParams,
  FundingSteps, NoeAmounts, PauseModes, Halts,
  (* bounds of the instance *)
  MaxPositions, MaxOrders, MaxCollateral, MaxFunding, MaxTime

VARIABLES
  m,             \* market and vault records, see MarketOps
  cum_funding,   \* cumulative funding index of each asset
  halted,        \* AssetHalted
  risk,          \* AssetRisk, for the configured assets
  risk_epoch,    \* RiskEpochTs, 0 before the ladder
  pause_mode, pause_since,
  now            \* ledger timestamp

adminVars == <<halted, risk, risk_epoch>>
vars == <<m, cum_funding, adminVars, pause_mode, pause_since, now>>

Dirs == {"Long", "Short"}

ASSUME MarketAssumption ==
  /\ IsFiniteSet(Assets)
  /\ PRECISION \in Nat \ {0} /\ FEE_PRECISION \in Nat \ {0}
  /\ InitialLiquidity \in Nat \ {0} /\ InitialBuffer \in Nat
  /\ ConfigOK(VaultConfig)                  \* what the vault's setters leave

ASSUME InputAssumption ==
  /\ Prices \subseteq Nat \ {0}
  /\ Collaterals \subseteq Nat \ {0} /\ Leverages \subseteq Nat \ {0}
  /\ Fees \subseteq Nat /\ Payouts \subseteq Nat
  /\ CloseSizes \subseteq Nat \ {0} /\ Amounts \subseteq Nat \ {0}
  /\ FundingSteps \subseteq Int /\ NoeAmounts \subseteq Nat \ {0}
  /\ PauseModes \subseteq {1, 2} /\ Halts \subseteq BOOLEAN

ASSUME OrderInputAssumption ==
  /\ OrderTypes \subseteq {"LimitEntry", "StopLimit", "StopLoss", "TakeProfit",
                           "TrailingStop"}
  /\ Triggers \subseteq Nat \ {0}
  /\ Tolerances \subseteq Nat \ {0} /\ Trails \subseteq Nat \ {0}
  /\ \A x \in Tolerances : x <= 10000
  /\ \A x \in Trails : x <= 5000
  /\ TimesInForce \subseteq {"GTC", "IOC", "PostOnly"}

(* AssetRiskParams::is_valid. *)
RiskOK(r) ==
  /\ r.im_bps \in 400..BASIS_POINTS /\ r.mm_bps = r.im_bps \div 2
  /\ r.max_leverage \in 1..(BASIS_POINTS \div r.im_bps)
  /\ r.max_position_size \in Nat \ {0}

ASSUME RiskAssumption ==
  /\ \A r \in RiskParams : RiskOK(r)
  /\ DOMAIN InitialRisk \subseteq Assets
  /\ \A a \in DOMAIN InitialRisk : RiskOK(InitialRisk[a])

(* validate_config. *)
ASSUME ConfigAssumption ==
  /\ Config.min_collateral \in Nat \ {0}
  /\ Config.max_leverage \in 1..100 /\ Config.max_position_size \in Nat
  /\ Config.maintenance_margin_bps \in 0..(BASIS_POINTS - 1)

ASSUME LiquidationAssumption ==
  /\ Config.partial_liq_tranche_bps \in 0..(BASIS_POINTS - 1)
  /\ Config.partial_liq_min_notional \in Nat
  /\ Config.partial_liq_cooldown_secs \in Nat
  /\ Config.liquidation_penalty_bps \in 0..(BASIS_POINTS - 1)
  /\ Config.penalty_keeper_share_bps \in 0..BASIS_POINTS
  /\ Config.insurance_buffer_share_bps \in 0..BASIS_POINTS
  /\ Config.min_liq_bounty \in Nat

ASSUME AdlAndFeeAssumption ==
  /\ Config.adl_trigger_ratio_bps \in Nat
  /\ Config.adl_clear_ratio_bps \in Nat
  /\ Config.adl_clear_ratio_bps >= Config.adl_trigger_ratio_bps
  /\ Config.adl_compensation_bps \in 0..100
  /\ Config.keeper_fee_base \in Nat /\ Config.keeper_fee_deci_bps \in 0..15
  /\ Config.protocol_fee_bps \in Nat /\ Config.protocol_fee_bps <= 5000

NoExposure == [lk |-> 0, ls |-> 0, sk |-> 0, ss |-> 0]

InitialPool ==
  [cash |-> InitialLiquidity + InitialBuffer, total_usdc |-> InitialLiquidity,
   total_fees |-> 0, buffer |-> InitialBuffer, shortfall_reserve |-> 0,
   shortfall |-> 0, shortfall_owed |-> [t \in Traders |-> 0],
   cum_shortfall |-> 0, cum_shortfall_repaid |-> 0,
   cum_covered |-> 0, cum_lp_absorbed |-> 0,
   reserved_payout |-> 0, asset_pnl |-> [a \in Assets |-> 0],
   unrealized_pnl |-> 0, circulating |-> InitialLiquidity]

Init ==
  /\ m = [cash |-> 0, pool |-> InitialPool,
          positions |-> [i \in {} |-> 0], position_counter |-> 0,
          listed |-> [t \in Traders |-> {}], open_positions |-> 0,
          orders |-> <<>>, links |-> {}, peaks |-> [o \in {} |-> 0],
          open_orders |-> 0, orders_of |-> [t \in Traders |-> 0],
          total_long |-> 0, total_short |-> 0,
          exposure |-> [a \in Assets |-> NoExposure],
          adl |-> [a \in Assets |-> FALSE], overpaid |-> 0]
  /\ cum_funding = [a \in Assets |-> 0]
  /\ halted = [a \in Assets |-> FALSE]
  /\ risk = InitialRisk
  /\ risk_epoch = IF DOMAIN InitialRisk = {} THEN 0 ELSE 1
  /\ pause_mode = 0 /\ pause_since = 0
  /\ now = 1

-----------------------------------------------------------------------------
(* A transaction commits if the vault's receipt check accepted its credits   *)
(* and the market could pay what it transferred.  The check follows every    *)
(* credit, the last one is the strictest, and steps without a credit leave   *)
(* the difference it tests alone.                                            *)
Commits(n) == CashCovers(n.pool) /\ n.cash >= 0

Commit(n) ==
  /\ Commits(n)
  /\ m' = n
  /\ UNCHANGED <<cum_funding, adminVars, pause_since, now>>

effective_mode ==
  IF pause_mode = 2 /\ now >= pause_since + FULL_FREEZE_MAX_SECS THEN 1
                                                                 ELSE pause_mode

(* The gates write the degraded mode back. *)
require_can_increase_risk == effective_mode = 0 /\ pause_mode' = effective_mode
require_can_reduce_risk == effective_mode <= 1 /\ pause_mode' = effective_mode
Ungated == pause_mode' = pause_mode

require_asset_open(a) == ~halted[a]

RiskKnown(a) == risk_epoch = 0 \/ a \in DOMAIN risk

effective_open_limits(a) ==
  IF risk_epoch = 0
    THEN [leverage |-> Config.max_leverage, size |-> Config.max_position_size,
          mm_bps |-> Config.maintenance_margin_bps]
    ELSE [leverage |-> Least(risk[a].max_leverage, BASIS_POINTS \div risk[a].im_bps),
          size |-> risk[a].max_position_size, mm_bps |-> risk[a].mm_bps]

mm_bps_for(pos) ==
  IF risk_epoch = 0 \/ pos.opened < risk_epoch \/ pos.asset \notin DOMAIN risk
    THEN Config.maintenance_margin_bps
    ELSE risk[pos.asset].mm_bps

HasRoom(n, trader) ==
  /\ Cardinality(n.listed[trader]) < MAX_OPEN_POSITIONS_PER_TRADER
  /\ n.open_positions < MAX_OPEN_POSITIONS_TOTAL

-----------------------------------------------------------------------------
(* Opening *)

NewPosition(trader, a, dir, size, collateral, leverage, mark) ==
  [trader |-> trader, asset |-> a, dir |-> dir, size |-> size,
   collateral |-> collateral, entry |-> mark,
   liq |-> calculate_liquidation_price(mark, leverage, dir,
                                       effective_open_limits(a).mm_bps),
   entry_cum |-> cum_funding[a], opened |-> now, partial_liq_ts |-> 0]

Opposite(n, trader, a, dir) ==
  {i \in n.listed[trader] : n.positions[i].asset = a /\ n.positions[i].dir # dir}

Gross(n, S) == Total([i \in S |-> n.positions[i].size])

ValidEntry(a, collateral, leverage) ==
  /\ collateral >= Config.min_collateral
  /\ RiskKnown(a)
  /\ leverage <= effective_open_limits(a).leverage
  /\ calculate_position_size(collateral, leverage) <= effective_open_limits(a).size

(* do_open: opposite legs are closed first and the remainder is opened.      *)
OpenPosition(trader, a, dir, collateral, leverage, mark, fee, payout) ==
  LET legs == Opposite(m, trader, a, dir)
      asked == calculate_position_size(collateral, leverage)
      size == asked - Gross(m, legs)
      margin == IF legs = {} THEN collateral ELSE (collateral * size) \div asked
      netted == CloseLegs(m, legs, mark, cum_funding[a])
      reserved == [netted EXCEPT !.pool = reserve_for_position(@, size),
                                 !.cash = @ + margin]
  IN  /\ require_can_increase_risk
      /\ require_asset_open(a)
      /\ ~m.adl[a]
      /\ ValidEntry(a, collateral, leverage)
      /\ legs # {} => /\ Cardinality(legs) <= MAX_NET_LEGS
                      /\ size > 0
                      /\ margin >= Config.min_collateral
      /\ reserve_with_vault(netted, a, dir, size)
      /\ fee < margin
      /\ HasRoom(netted, trader)
      /\ Commit(finalize_open(reserved,
                  NewPosition(trader, a, dir, size, margin - fee, leverage, mark),
                  fee, payout))

-----------------------------------------------------------------------------
(* Closing and margin *)

ClosePosition(id, mark) ==
  /\ require_can_reduce_risk
  /\ Commit(settle_isolated_close(m, id, mark, cum_funding[m.positions[id].asset], 0, 0))

(* Asking for the whole size closes the position. *)
ClosePositionPartial(id, close_size, mark) ==
  LET pos == m.positions[id]
      cum == cum_funding[pos.asset]
  IN  /\ require_can_reduce_risk
      /\ \/ /\ close_size = pos.size
            /\ Commit(settle_isolated_close(m, id, mark, cum, 0, 0))
         \/ /\ close_size < pos.size
            /\ pos.collateral - CollateralClosed(pos, close_size) >= Config.min_collateral
            /\ Commit(settle_partial_close(m, id, mark, cum, close_size, 0))

Remargined(id, collateral) ==
  LET pos == m.positions[id]
      liq == liquidation_price_from_ratio(pos.entry, collateral, pos.size, pos.dir,
                                          mm_bps_for(pos))
  IN  [m.positions EXCEPT ![id] = [pos EXCEPT !.collateral = collateral,
                                              !.liq = Floor0(liq)]]

AddCollateral(id, amount) ==
  /\ Ungated
  /\ Commit([m EXCEPT !.cash = @ + amount,
                      !.positions = Remargined(id, m.positions[id].collateral + amount)])

RemoveCollateral(id, amount, mark) ==
  LET pos == m.positions[id]
      left == pos.collateral - amount
  IN  /\ require_can_increase_risk
      /\ left > 0
      /\ left >= pos.size \div Config.max_leverage
      /\ left + NetPnl(pos, pos.size, mark, cum_funding[pos.asset])
           > BpsOf(pos.size, mm_bps_for(pos))
      /\ Commit([m EXCEPT !.cash = @ - amount, !.positions = Remargined(id, left)])

-----------------------------------------------------------------------------
(* Liquidation.  smoothed = 0 stands for no answer of the price ring.        *)

CoolingDown(pos) ==
  pos.partial_liq_ts > 0 /\ now - pos.partial_liq_ts < Config.partial_liq_cooldown_secs

Liquidatable(pos, mark) ==
  should_liquidate_with_funding(pos, mark, cum_funding[pos.asset], mm_bps_for(pos))

Liquidate(id, mark, smoothed) ==
  LET pos == m.positions[id]
      cum == cum_funding[pos.asset]
      net == NetPnl(pos, pos.size, mark, cum)
  IN  /\ require_can_reduce_risk
      /\ Liquidatable(pos, mark)
      /\ pos.collateral + net > 0 =>
           /\ ~CoolingDown(pos)
           /\ smoothed # 0 => Liquidatable(pos, smoothed)
      /\ \/ /\ TakesTranche(pos, net)
            /\ Commit(LiquidateTranche(m, id, mark, cum, mm_bps_for(pos), now))
         \/ /\ ~TakesTranche(pos, net)
            /\ Commit(LiquidateFull(m, id, mark, cum))

-----------------------------------------------------------------------------
(* Auto-deleveraging *)

PayableUpnl(e, mark) ==
  Floor0((mark * e.lk) \div PRECISION - e.ls) + Floor0(e.ss - (mark * e.sk) \div PRECISION)

(* The flag after a check: hysteresis between the trigger and clear ratios.  *)
AdlAfterCheck(a, mark) ==
  LET payable == PayableUpnl(m.exposure[a], mark)
      coverage == m.pool.buffer + m.pool.total_usdc
  IN  IF m.adl[a]
        THEN ~(\/ payable = 0
               \/ coverage * BASIS_POINTS >= payable * Config.adl_clear_ratio_bps)
        ELSE /\ payable > 0
             /\ coverage * BASIS_POINTS < payable * Config.adl_trigger_ratio_bps

CheckAdlTrigger(a, mark) ==
  /\ Ungated
  /\ Commit([m EXCEPT !.adl = [m.adl EXCEPT ![a] = AdlAfterCheck(a, mark)]])

AdlClose(id, mark) ==
  LET pos == m.positions[id]
      cum == cum_funding[pos.asset]
      closed == settle_isolated_close(m, id, mark, cum, 0, 0)
      comp == BpsOf(pos.size, Config.adl_compensation_bps)
  IN  /\ Ungated
      /\ m.adl[pos.asset]
      /\ NetPnl(pos, pos.size, mark, cum) > 0
      /\ Commit([closed EXCEPT !.pool = IF comp > 0 THEN pay_from_buffer(@, comp) ELSE @])

SyncAssetPnl(a, mark) ==
  /\ Ungated
  /\ Commit([m EXCEPT !.pool =
               sync_exposure(@, a, exposure_upnl(m.exposure[a], mark), 0)])

-----------------------------------------------------------------------------
(* Orders: placing and cancelling *)

Met(above, price, reference) ==
  IF above THEN price >= reference ELSE price <= reference

HasOrderRoom(trader) ==
  /\ m.orders_of[trader] < MAX_OPEN_ORDERS_PER_TRADER
  /\ m.open_orders < MAX_OPEN_ORDERS_TOTAL

EntryOrder(trader, a, type, dir, collateral, leverage, trigger, above, limit, tol, ro) ==
  [trader |-> trader, asset |-> a, type |-> type, dir |-> dir,
   collateral |-> collateral, leverage |-> leverage, trigger |-> trigger,
   above |-> above, limit |-> limit, trail |-> 0, tolerance |-> tol,
   reduce_only |-> ro, phase |-> 0, position_id |-> 0, status |-> "Pending"]

(* A fresh entry increases risk, a reduce-only one reduces it. *)
PlacementGate(a, ro) ==
  IF ro THEN require_can_reduce_risk
        ELSE require_can_increase_risk /\ require_asset_open(a)

(* Post-only is refused when it would fill; immediate-or-cancel that would   *)
(* not fill is refunded at once and leaves a cancelled row.                  *)
PlaceLimitOrder(trader, a, dir, collateral, leverage, trigger, above, tol, tif, ro, mark) ==
  LET order == EntryOrder(trader, a, "LimitEntry", dir, collateral, leverage, trigger,
                          above, 0, tol, ro)
  IN  /\ PlacementGate(a, ro)
      /\ ValidEntry(a, collateral, leverage)
      /\ tif = "PostOnly" => ~Met(above, mark, trigger)
      /\ \/ /\ tif = "IOC" /\ ~Met(above, mark, trigger)
            /\ Commit([m EXCEPT !.orders =
                         Append(@, [order EXCEPT !.status = "Cancelled"])])
         \/ /\ tif = "IOC" => Met(above, mark, trigger)
            /\ HasOrderRoom(trader)
            /\ Commit(StoreOrder([m EXCEPT !.cash = @ + collateral], order))

PlaceStopLimitOrder(trader, a, dir, collateral, leverage, trigger, limit, above, tol, ro) ==
  /\ PlacementGate(a, ro)
  /\ ValidEntry(a, collateral, leverage)
  /\ HasOrderRoom(trader)
  /\ Commit(StoreOrder([m EXCEPT !.cash = @ + collateral],
              EntryOrder(trader, a, "StopLimit", dir, collateral, leverage, trigger,
                         above, limit, tol, ro)))

(* The common tail of set_stop_loss, set_take_profit and place_trailing_stop. *)
Attached(id, type, trigger, above, limit, trail, tol) ==
  LET pos == m.positions[id]
      order == [trader |-> pos.trader, asset |-> pos.asset, type |-> type,
                dir |-> pos.dir, collateral |-> 0, leverage |-> 0,
                trigger |-> trigger, above |-> above, limit |-> limit,
                trail |-> trail, tolerance |-> tol, reduce_only |-> FALSE,
                phase |-> 0, position_id |-> id, status |-> "Pending"]
  IN  [StoreOrder(m, order) EXCEPT
         !.links = @ \cup {<<type, id, Len(m.orders) + 1>>}]

CanAttach(id, type) ==
  /\ require_can_reduce_risk
  /\ ~HasLink(m, type, id)
  /\ HasOrderRoom(m.positions[id].trader)

SetStopLoss(id, trigger, tol) ==
  LET pos == m.positions[id]
  IN  /\ CanAttach(id, "StopLoss")
      /\ IF pos.dir = "Long" THEN trigger < pos.entry ELSE trigger > pos.entry
      /\ Commit(Attached(id, "StopLoss", trigger, pos.dir = "Short", 0, 0, tol))

(* A positive limit makes it a take-limit. *)
SetTakeProfit(id, trigger, limit, tol) ==
  LET pos == m.positions[id]
  IN  /\ CanAttach(id, "TakeProfit")
      /\ IF pos.dir = "Long" THEN trigger > pos.entry ELSE trigger < pos.entry
      /\ limit > 0 => IF pos.dir = "Long" THEN limit \in pos.entry..trigger
                                          ELSE limit \in trigger..pos.entry
      /\ Commit(Attached(id, "TakeProfit", trigger, pos.dir = "Long", limit, 0, tol))

WithPeak(n, o, price) ==
  [n EXCEPT !.peaks = [i \in DOMAIN n.peaks \cup {o} |->
                         IF i = o THEN price ELSE n.peaks[i]]]

PlaceTrailingStop(id, trail, tol, mark) ==
  /\ CanAttach(id, "TrailingStop")
  /\ Commit(WithPeak(Attached(id, "TrailingStop", 0, m.positions[id].dir = "Short", 0,
                              trail, tol),
                     Len(m.orders) + 1, mark))

UpdateTrailingPeak(o, mark) ==
  /\ Ungated
  /\ o \in DOMAIN m.peaks
  /\ m.orders[o].type = "TrailingStop" /\ m.orders[o].status = "Pending"
  /\ IF m.orders[o].dir = "Long" THEN mark > m.peaks[o] ELSE mark < m.peaks[o]
  /\ Commit(WithPeak(m, o, mark))

(* USDC an order holds while it is pending. *)
Refund(order) == IF order.type \in EntryTypes THEN order.collateral ELSE 0

(* Faulty variant: the order is dropped without a refund. *)
WithdrawnOrderUnrefunded(o, status) == update_order_status(m, {o}, status)

(* An order leaves the book unfilled: refund, peak and link go with it.      *)
WithdrawnOrder(o, status) ==
  LET order == m.orders[o]
      peakless == IF order.type = "TrailingStop" THEN DropPeaks(m, {o}) ELSE m
      unlinked == IF order.type \in CloseTypes
                    THEN DropLink(peakless, order.type, order.position_id)
                    ELSE peakless
  IN  [update_order_status(unlinked, {o}, status) EXCEPT !.cash = @ - Refund(order)]

CancelOrder(o) ==
  /\ Ungated
  /\ m.orders[o].status = "Pending"
  /\ Commit(WithdrawnOrder(o, "Cancelled"))

-----------------------------------------------------------------------------
(* Orders: execution by a keeper *)

order_ref_price(o) ==
  LET order == m.orders[o]
      gap == (m.peaks[o] * order.trail) \div 10000
  IN  CASE order.type = "StopLimit" /\ order.phase = 1 -> order.limit
        [] order.type = "TakeProfit" /\ order.limit > 0 -> order.limit
        [] order.type = "TrailingStop" /\ o \in DOMAIN m.peaks ->
             IF order.dir = "Long" THEN m.peaks[o] - gap ELSE m.peaks[o] + gap
        [] OTHER -> order.trigger

(* Protective closes are judged on the smoothed price, when there is one. *)
SmoothedEval(order) ==
  \/ order.type \in {"StopLoss", "TrailingStop"}
  \/ order.type = "TakeProfit" /\ order.limit = 0

enforce_slippage_band(order) ==
  \/ order.type = "LimitEntry"
  \/ order.type = "StopLimit" /\ order.phase = 1
  \/ order.type = "TakeProfit" /\ order.limit > 0

SlippageBps(reference, mark) ==
  IF reference > 0 THEN (Abs(mark - reference) * 10000) \div reference ELSE 0

OutOfBand(o, mark) ==
  /\ enforce_slippage_band(m.orders[o])
  /\ SlippageBps(order_ref_price(o), mark) > m.orders[o].tolerance

(* Faulty variant: an entry may be executed whenever a close may. *)
ExecutableInPause(o, mark, smoothed) ==
  LET order == m.orders[o]
      eval == IF SmoothedEval(order) /\ smoothed # 0 THEN smoothed ELSE mark
  IN  /\ order.status = "Pending"
      /\ require_can_reduce_risk
      /\ Met(order.above, eval, order_ref_price(o))

(* The common head of execute_order. *)
Executable(o, mark, smoothed) ==
  LET order == m.orders[o]
      eval == IF SmoothedEval(order) /\ smoothed # 0 THEN smoothed ELSE mark
  IN  /\ order.status = "Pending"
      /\ IF order.type \in EntryTypes /\ ~order.reduce_only
           THEN require_can_increase_risk /\ require_asset_open(order.asset)
           ELSE require_can_reduce_risk
      /\ Met(order.above, eval, order_ref_price(o))

calculate_keeper_order_fee(size) ==
  Config.keeper_fee_base + (size * Config.keeper_fee_deci_bps) \div FEE_PRECISION

ExecuteOutOfBand(o, mark, smoothed) ==
  /\ Executable(o, mark, smoothed)
  /\ OutOfBand(o, mark)
  /\ Commit(WithdrawnOrder(o, "CancelledSlippage"))

(* The stop of a stop-limit is hit: its limit phase begins. *)
ExecuteStopPhase(o, mark) ==
  /\ Executable(o, mark, 0)
  /\ m.orders[o].type = "StopLimit" /\ m.orders[o].phase = 0
  /\ Commit([m EXCEPT !.orders = [m.orders EXCEPT
                                    ![o] = [m.orders[o] EXCEPT !.phase = 1]]])

FillsEntry(o, mark) ==
  /\ Executable(o, mark, 0)
  /\ ~OutOfBand(o, mark)
  /\ m.orders[o].type \in EntryTypes
  /\ m.orders[o].type = "StopLimit" => m.orders[o].phase = 1

StillLegal(order) ==
  /\ RiskKnown(order.asset)
  /\ order.leverage <= effective_open_limits(order.asset).leverage
  /\ calculate_position_size(order.collateral, order.leverage)
       <= effective_open_limits(order.asset).size

(* execute_limit_entry, the fill.  Unlike do_open it does not look at the    *)
(* deleveraging flag.                                                        *)
ExecuteEntry(o, mark, fee, payout) ==
  LET order == m.orders[o]
      size == calculate_position_size(order.collateral, order.leverage)
      keeper_fee == calculate_keeper_order_fee(size)
      reserved == [m EXCEPT !.pool = reserve_for_position(@, size)]
      opened == finalize_open(reserved,
                  NewPosition(order.trader, order.asset, order.dir, size,
                              order.collateral - fee - keeper_fee, order.leverage, mark),
                  fee, payout)
      stamped == [opened EXCEPT !.cash = @ - keeper_fee,
                                !.orders = [opened.orders EXCEPT
                                   ![o] = [order EXCEPT !.position_id = opened.position_counter]]]
  IN  /\ FillsEntry(o, mark)
      /\ ~order.reduce_only
      /\ StillLegal(order)
      /\ reserve_with_vault(m, order.asset, order.dir, size)
      /\ fee + keeper_fee < order.collateral
      /\ HasRoom(m, order.trader)
      /\ Commit(update_order_status(stamped, {o}, "Executed"))

(* An entry that became illegal is refunded and cancelled, and execute_order *)
(* then writes Executed over the cancellation.                               *)
ExecuteIllegalEntry(o, mark) ==
  /\ FillsEntry(o, mark)
  /\ ~m.orders[o].reduce_only
  /\ ~StillLegal(m.orders[o])
  /\ Commit(update_order_status(WithdrawnOrder(o, "Cancelled"), {o}, "Executed"))

(* The largest opposite position, the oldest of them. *)
ReduceTarget(S) ==
  CHOOSE i \in S : \A j \in S :
    \/ m.positions[j].size < m.positions[i].size
    \/ m.positions[j].size = m.positions[i].size /\ i <= j

(* Reduce-only: refund, then reduce the target or close it when the rest     *)
(* would be dust.                                                            *)
ExecuteReduceOnly(o, mark) ==
  LET order == m.orders[o]
      intended == calculate_position_size(order.collateral, order.leverage)
      keeper_fee == calculate_keeper_order_fee(intended)
      targets == Opposite(m, order.trader, order.asset, order.dir)
      id == ReduceTarget(targets)
      pos == m.positions[id]
      cum == cum_funding[order.asset]
      refunded == [m EXCEPT !.cash = @ - Refund(order)]
      dust == pos.collateral - CollateralClosed(pos, intended) < Config.min_collateral
      reduced == IF intended >= pos.size \/ dust
                   THEN settle_isolated_close(refunded, id, mark, cum, keeper_fee, o)
                   ELSE settle_partial_close(refunded, id, mark, cum, intended, keeper_fee)
  IN  /\ FillsEntry(o, mark)
      /\ order.reduce_only
      /\ \/ /\ targets # {}
            /\ Commit(update_order_status(reduced, {o}, "Executed"))
         \/ /\ targets = {}
            /\ Commit(update_order_status(WithdrawnOrder(o, "Cancelled"), {o}, "Executed"))

(* A stop-loss, take-profit or trailing stop closes its position. *)
ExecuteClose(o, mark, smoothed) ==
  LET order == m.orders[o]
      id == order.position_id
      pos == m.positions[id]
      peakless == IF order.type = "TrailingStop" THEN DropPeaks(m, {o}) ELSE m
  IN  /\ order.type \in CloseTypes
      /\ Executable(o, mark, smoothed)
      /\ ~OutOfBand(o, mark)
      /\ id \in DOMAIN m.positions
      /\ Commit(update_order_status(
                  settle_isolated_close(peakless, id, mark, cum_funding[pos.asset],
                                        calculate_keeper_order_fee(pos.size), o),
                  {o}, "Executed"))

-----------------------------------------------------------------------------
(* Funding, the admin, the vault's other users and the clock *)

(* apply_funding moves the index of every configured asset by its rate; the  *)
(* velocity model that sets the rate is abstracted to any of FundingSteps.   *)
ApplyFunding(step) ==
  /\ require_can_reduce_risk
  /\ cum_funding' = [a \in Assets |->
       cum_funding[a] + (IF a \in DOMAIN risk THEN step[a] ELSE 0)]
  /\ UNCHANGED <<m, adminVars, pause_since, now>>

(* Voids the pending funding of the given positions, in a full freeze only.  *)
ReseedFunding(ids) ==
  /\ effective_mode = 2
  /\ Ungated
  /\ Commit([m EXCEPT !.positions = [i \in DOMAIN m.positions |->
       IF i \in ids
         THEN [m.positions[i] EXCEPT !.entry_cum = cum_funding[m.positions[i].asset]]
         ELSE m.positions[i]]])

Pause(mode) ==
  /\ pause_mode' = mode /\ pause_since' = now
  /\ UNCHANGED <<m, cum_funding, adminVars, now>>

Unpause ==
  /\ pause_mode' = 0 /\ pause_since' = now
  /\ UNCHANGED <<m, cum_funding, adminVars, now>>

SetAssetHalt(a, value) ==
  /\ halted' = [halted EXCEPT ![a] = value]
  /\ UNCHANGED <<m, cum_funding, risk, risk_epoch, pause_mode, pause_since, now>>

SetAssetRisk(a, params) ==
  /\ risk' = [x \in DOMAIN risk \cup {a} |-> IF x = a THEN params ELSE risk[x]]
  /\ risk_epoch' = IF risk_epoch = 0 THEN now ELSE risk_epoch
  /\ UNCHANGED <<m, cum_funding, halted, pause_mode, pause_since, now>>

(* The rest of the vault's entry points is module Vault's; these two change  *)
(* what the market's next settlement finds.                                  *)
ClaimShortfall(trader) ==
  /\ Ungated
  /\ m.pool.shortfall_owed[trader] > 0 /\ ClaimPay(m.pool, trader) > 0
  /\ Commit([m EXCEPT !.pool = claim_shortfall(@, trader)])

LpWithdraw(noe) ==
  LET gross == calculate_usdc_for_withdrawal(noe, m.pool)
      net == gross - WithdrawFee(VaultConfig, gross)
  IN  /\ Ungated
      /\ noe <= m.pool.circulating /\ m.pool.circulating > 0
      /\ net > 0
      /\ m.pool.cash - net >= m.pool.reserved_payout + m.pool.shortfall_reserve
      /\ Commit([m EXCEPT !.pool = Withdrawn(@, VaultConfig, gross, noe)])

Tick ==
  /\ now' = now + 1
  /\ UNCHANGED <<m, cum_funding, adminVars, pause_mode, pause_since>>

-----------------------------------------------------------------------------
PositionStep ==
  \/ \E t \in Traders, a \in Assets, dir \in Dirs, c \in Collaterals,
        lev \in Leverages, mark \in Prices, fee \in Fees, payout \in Payouts :
       /\ m.position_counter < MaxPositions
       /\ OpenPosition(t, a, dir, c, lev, mark, fee, payout)
  \/ \E id \in DOMAIN m.positions, mark \in Prices : ClosePosition(id, mark)
  \/ \E id \in DOMAIN m.positions, size \in CloseSizes, mark \in Prices :
       ClosePositionPartial(id, size, mark)
  \/ \E id \in DOMAIN m.positions, amount \in Amounts : AddCollateral(id, amount)
  \/ \E id \in DOMAIN m.positions, amount \in Amounts, mark \in Prices :
       RemoveCollateral(id, amount, mark)

PlacementStep ==
  \/ \E t \in Traders, a \in Assets, dir \in Dirs, c \in Collaterals, lev \in Leverages,
        trigger \in Triggers, above, ro \in BOOLEAN, tol \in Tolerances :
       \/ /\ "LimitEntry" \in OrderTypes
          /\ \E tif \in TimesInForce, mark \in Prices :
               PlaceLimitOrder(t, a, dir, c, lev, trigger, above, tol, tif, ro, mark)
       \/ /\ "StopLimit" \in OrderTypes
          /\ \E limit \in Triggers :
               PlaceStopLimitOrder(t, a, dir, c, lev, trigger, limit, above, tol, ro)
  \/ \E id \in DOMAIN m.positions, tol \in Tolerances :
       \/ /\ "StopLoss" \in OrderTypes
          /\ \E trigger \in Triggers : SetStopLoss(id, trigger, tol)
       \/ /\ "TakeProfit" \in OrderTypes
          /\ \E trigger \in Triggers, limit \in Triggers \cup {0} :
               SetTakeProfit(id, trigger, limit, tol)
       \/ /\ "TrailingStop" \in OrderTypes
          /\ \E trail \in Trails, mark \in Prices : PlaceTrailingStop(id, trail, tol, mark)

OrderStep ==
  \/ Len(m.orders) < MaxOrders /\ PlacementStep
  \/ \E o \in DOMAIN m.orders : CancelOrder(o)

KeeperStep ==
  \/ \E id \in DOMAIN m.positions, mark \in Prices, smoothed \in Prices \cup {0} :
       Liquidate(id, mark, smoothed)
  \/ \E o \in DOMAIN m.orders, mark \in Prices :
       \/ UpdateTrailingPeak(o, mark)
       \/ \E smoothed \in Prices \cup {0} : ExecuteOutOfBand(o, mark, smoothed)
       \/ ExecuteStopPhase(o, mark)
       \/ \E fee \in Fees, payout \in Payouts : ExecuteEntry(o, mark, fee, payout)
       \/ ExecuteIllegalEntry(o, mark)
       \/ ExecuteReduceOnly(o, mark)
       \/ \E smoothed \in Prices \cup {0} : ExecuteClose(o, mark, smoothed)
  \/ \E a \in Assets, mark \in Prices : CheckAdlTrigger(a, mark)
  \/ \E id \in DOMAIN m.positions, mark \in Prices : AdlClose(id, mark)
  \/ \E a \in Assets, mark \in Prices : SyncAssetPnl(a, mark)
  \/ \E step \in [DOMAIN risk -> FundingSteps] : ApplyFunding(step)

VaultStep ==
  \/ \E t \in Traders : ClaimShortfall(t)
  \/ \E noe \in NoeAmounts : LpWithdraw(noe)

AdminStep ==
  \/ \E mode \in PauseModes : Pause(mode)
  \/ PauseModes # {} /\ Unpause
  \/ \E ids \in SUBSET DOMAIN m.positions : ids # {} /\ ReseedFunding(ids)
  \/ \E a \in Assets, value \in Halts : SetAssetHalt(a, value)
  \/ \E a \in Assets, params \in RiskParams : SetAssetRisk(a, params)

Bounds ==
  /\ m.position_counter <= MaxPositions
  /\ Len(m.orders) <= MaxOrders
  /\ \A a \in Assets : Abs(cum_funding[a]) <= MaxFunding
  /\ \A i \in DOMAIN m.positions : m.positions[i].collateral <= MaxCollateral
  /\ now <= MaxTime

Next == (PositionStep \/ OrderStep \/ KeeperStep \/ VaultStep \/ AdminStep \/ Tick)
        /\ Bounds'

Spec == Init /\ [][Next]_vars

-----------------------------------------------------------------------------
(* Types: no custody, count or price is negative, every row belongs to a     *)
(* known trader and asset and every open position has size and collateral.   *)
PositionOK(pos) ==
  /\ pos.trader \in Traders /\ pos.asset \in Assets /\ pos.dir \in Dirs
  /\ pos.size \in Nat \ {0} /\ pos.collateral \in Nat \ {0}
  /\ pos.entry \in Nat \ {0} /\ pos.liq \in Int /\ pos.entry_cum \in Int
  /\ pos.opened \in Nat /\ pos.partial_liq_ts \in Nat

OrderOK(order) ==
  /\ order.trader \in Traders /\ order.asset \in Assets /\ order.dir \in Dirs
  /\ order.type \in EntryTypes \cup CloseTypes
  /\ order.collateral \in Nat /\ order.leverage \in Nat
  /\ order.trigger \in Nat /\ order.limit \in Nat /\ order.trail \in Nat
  /\ order.above \in BOOLEAN /\ order.reduce_only \in BOOLEAN
  /\ order.tolerance \in Nat /\ order.phase \in {0, 1}
  /\ order.position_id \in Nat
  /\ order.status \in {"Pending", "Executed", "Cancelled", "CancelledSlippage"}

TypeOK ==
  /\ m.cash \in Nat /\ m.overpaid \in Nat
  /\ m.position_counter \in Nat /\ DOMAIN m.positions \subseteq 1..m.position_counter
  /\ \A i \in DOMAIN m.positions : PositionOK(m.positions[i])
  /\ \A o \in DOMAIN m.orders : OrderOK(m.orders[o])
  /\ m.adl \in [Assets -> BOOLEAN] /\ halted \in [Assets -> BOOLEAN]
  /\ cum_funding \in [Assets -> Int]
  /\ pause_mode \in 0..2 /\ pause_since \in Nat /\ now \in Nat

(* What the market owes to the owners of open positions and of pending       *)
(* entry orders.                                                             *)
MarginHeld(n) == Total([i \in DOMAIN n.positions |-> n.positions[i].collateral])
OrdersHeld(n) ==
  Total([o \in DOMAIN n.orders |->
           IF n.orders[o].status = "Pending" THEN Refund(n.orders[o]) ELSE 0])

(* The market's USDC is exactly the collateral of open positions and of      *)
(* pending entry orders, less what liquidations overpaid: no close, netting, *)
(* fill, refund or tranche spends another trader's custody, and none leaves  *)
(* money behind.                                                             *)
Custody == m.cash + m.overpaid = MarginHeld(m) + OrdersHeld(m)

SizeOf(n, S) == Total([i \in S |-> n.positions[i].size])
Side(n, a, dir) == {i \in DOMAIN n.positions :
                      n.positions[i].asset = a /\ n.positions[i].dir = dir}

(* The vault's reservation and the market's open interest totals are the     *)
(* sums of the open sizes: saturating decreases never saturate.              *)
OpenInterestExact ==
  /\ m.pool.reserved_payout = SizeOf(m, DOMAIN m.positions)
  /\ m.total_long = SizeOf(m, {i \in DOMAIN m.positions : m.positions[i].dir = "Long"})
  /\ m.total_short = SizeOf(m, {i \in DOMAIN m.positions : m.positions[i].dir = "Short"})
  /\ \A a \in Assets : /\ m.exposure[a].ls = SizeOf(m, Side(m, a, "Long"))
                       /\ m.exposure[a].ss = SizeOf(m, Side(m, a, "Short"))

KOf(n, S) == Total([i \in S |-> KDelta(n.positions[i].size, n.positions[i].entry)])

(* Partial closes round the size-over-entry aggregates down, so they can     *)
(* only stay above the sum over the open positions.                          *)
ExposureCoversPositions ==
  \A a \in Assets : /\ m.exposure[a].lk >= KOf(m, Side(m, a, "Long"))
                    /\ m.exposure[a].sk >= KOf(m, Side(m, a, "Short"))

(* What the pool reserves and marks follows the open positions: see the two  *)
(* parts.                                                                    *)
BooksFollowPositions == OpenInterestExact /\ ExposureCoversPositions

(* The live counters and per-trader lists are exact, through double status   *)
(* writes and bulk cancels.                                                  *)
CountersExact ==
  /\ m.open_positions = Cardinality(DOMAIN m.positions)
  /\ m.open_orders = Cardinality(Pending(m))
  /\ \A t \in Traders :
       /\ m.orders_of[t] = Cardinality(PendingOf(m, t))
       /\ m.listed[t] = {i \in DOMAIN m.positions : m.positions[i].trader = t}

(* No zombies: a pending close order is linked to an open position of its    *)
(* owner, every link leads to such an order, one of each type per position,  *)
(* and exactly the pending trailing stops have a peak.                       *)
NoZombieOrders ==
  /\ \A o \in Pending(m) : m.orders[o].type \in CloseTypes =>
       /\ m.orders[o].position_id \in DOMAIN m.positions
       /\ m.positions[m.orders[o].position_id].trader = m.orders[o].trader
       /\ <<m.orders[o].type, m.orders[o].position_id, o>> \in m.links
  /\ \A l \in m.links :
       /\ l[3] \in Pending(m)
       /\ m.orders[l[3]].type = l[1] /\ m.orders[l[3]].position_id = l[2]
       /\ \A k \in m.links : k[1] = l[1] /\ k[2] = l[2] => k = l
  /\ DOMAIN m.peaks = {o \in Pending(m) : m.orders[o].type = "TrailingStop"}

(* The order book and its indexes agree, through every way a position or an  *)
(* order can end: see the two parts.                                         *)
OrderBookExact == CountersExact /\ NoZombieOrders

(* A tranche liquidation never moves the position towards bankruptcy: equity *)
(* over size does not fall, up to one unit of rounding, and collateral stays *)
(* behind the rest.                                                          *)
TrancheHelps ==
  \A i \in DOMAIN m.positions, mark \in Prices :
    LET p == m.positions[i]
        cum == cum_funding[p.asset]
        q == LiquidateTranche(m, i, mark, cum, mm_bps_for(p), now).positions[i]
    IN  Liquidatable(p, mark) /\ TakesTranche(p, NetPnl(p, p.size, mark, cum)) =>
          (Equity(q, mark, cum) + 1) * p.size >= Equity(p, mark, cum) * q.size

(* The way out never reverts: at every price an open position can be closed, *)
(* and one that is due can be liquidated, whatever LPs withdrew and earlier  *)
(* winners took.  The exception is LiquidationSelfFunded's: funding income   *)
(* that lifts the equity of a position over its collateral.                  *)
WayOutCommits ==
  \A i \in DOMAIN m.positions, mark \in Prices :
    LET p == m.positions[i]
        cum == cum_funding[p.asset]
    IN  m.overpaid = 0 =>
          /\ Commits(settle_isolated_close(m, i, mark, cum, 0, 0))
          /\ Liquidatable(p, mark) /\ Equity(p, mark, cum) <= p.collateral =>
               Commits(IF TakesTranche(p, NetPnl(p, p.size, mark, cum))
                         THEN LiquidateTranche(m, i, mark, cum, mm_bps_for(p), now)
                         ELSE LiquidateFull(m, i, mark, cum))

(* The comment in liquidate: what goes to the vault is "Provably positive at *)
(* trigger", so keeper and trader are paid from the position's own           *)
(* collateral.                                                               *)
LiquidationSelfFunded == m.overpaid = 0

OpenInterest(a) == m.exposure[a].ls + m.exposure[a].ss

(* While trading is paused or an asset is halted its open interest does not  *)
(* grow, also not through an order that was placed before.                   *)
NoNewExposureWhenClosed ==
  [][\A a \in Assets : effective_mode # 0 \/ halted[a] =>
       OpenInterest(a)' <= OpenInterest(a)]_vars
=============================================================================
