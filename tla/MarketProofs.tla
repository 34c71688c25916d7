---------------------------- MODULE MarketProofs ----------------------------
(***************************************************************************)
(* Proofs about Market for every set of traders and assets, every          *)
(* configuration, price, fee and order.                                    *)
(*                                                                         *)
(* A market record is typed in four parts, and what the market holds for   *)
(* its traders is compared with what it owes them by one number, Surplus.  *)
(* Each operator of MarketOps has a lemma that says which parts it keeps   *)
(* and by how much it moves the surplus; a transaction composes operators  *)
(* whose moves cancel.                                                     *)
(***************************************************************************)
EXTENDS Market, PoolProofs, SequenceTheorems, WellFoundedInduction

MarketFields ==
  {"cash", "pool", "positions", "position_counter", "listed", "open_positions",
   "orders", "links", "peaks", "open_orders", "orders_of", "total_long",
   "total_short", "exposure", "adl", "overpaid"}

PositionFields ==
  {"trader", "asset", "dir", "size", "collateral", "entry", "liq", "entry_cum",
   "opened", "partial_liq_ts"}

ExposureFields == {"lk", "ls", "sk", "ss"}

OrderRows ==
  [trader : Traders, asset : Assets, type : EntryTypes \cup CloseTypes, dir : Dirs,
   collateral : Nat, leverage : Nat, trigger : Nat, above : BOOLEAN, limit : Nat,
   trail : Nat, tolerance : Nat, reduce_only : BOOLEAN, phase : {0, 1},
   position_id : Nat,
   status : {"Pending", "Executed", "Cancelled", "CancelledSlippage"}]

-----------------------------------------------------------------------------
(* The four parts of a well-typed market record. *)

MoneyOK(n) ==
  /\ DOMAIN n = MarketFields
  /\ n.cash \in Int /\ n.overpaid \in Nat
  /\ PoolInv(n.pool)

RowOK(pos) == DOMAIN pos = PositionFields /\ PositionOK(pos)

(* Every row has an id that was given out, and stands in its owner's list.   *)
PositionsOK(n) ==
  /\ n.position_counter \in Nat
  /\ DOMAIN n.positions \subseteq 1..n.position_counter
  /\ \A i \in DOMAIN n.positions : RowOK(n.positions[i])
  /\ DOMAIN n.listed = Traders
  /\ \A t \in Traders :
       n.listed[t] = {i \in DOMAIN n.positions : n.positions[i].trader = t}

(* Only close orders are attached to positions: cancelling what is attached  *)
(* never drops a refund.                                                     *)
OrdersOK(n) ==
  /\ n.orders \in Seq(OrderRows)
  /\ \A o \in DOMAIN n.orders :
       n.orders[o].type \in EntryTypes => n.orders[o].collateral > 0 /\ n.orders[o].leverage > 0
  /\ \A l \in n.links :
       l[3] \in DOMAIN n.orders /\ n.orders[l[3]].type \in CloseTypes

BooksOK(n) ==
  /\ n.total_long \in Nat /\ n.total_short \in Nat
  /\ DOMAIN n.exposure = Assets
  /\ \A a \in Assets : /\ DOMAIN n.exposure[a] = ExposureFields
                       /\ n.exposure[a].lk \in Nat /\ n.exposure[a].ls \in Nat
                       /\ n.exposure[a].sk \in Nat /\ n.exposure[a].ss \in Nat
  /\ n.adl \in [Assets -> BOOLEAN]

MarketOK(n) == MoneyOK(n) /\ PositionsOK(n) /\ OrdersOK(n) /\ BooksOK(n)

(* What the market has beyond what it owes. *)
Surplus(n) == n.cash + n.overpaid - MarginHeld(n) - OrdersHeld(n)

RiskOKAll ==
  /\ DOMAIN risk \subseteq Assets
  /\ \A a \in DOMAIN risk : RiskOK(risk[a])
  /\ risk_epoch \in Nat

ClockOK ==
  /\ cum_funding \in [Assets -> Int]
  /\ halted \in [Assets -> BOOLEAN]
  /\ pause_mode \in 0..2 /\ pause_since \in Nat /\ now \in Nat

(* The inductive invariant. *)
MInv ==
  /\ MarketOK(m) /\ m.cash >= 0 /\ Surplus(m) = 0
  /\ RiskOKAll /\ ClockOK

-----------------------------------------------------------------------------
(* Values are integers. *)

LEMMA Scales == PRECISION \in Nat \ {0} /\ FEE_PRECISION \in Nat \ {0}
BY MarketAssumption

(* The configuration's rates and amounts. *)
LEMMA RateBase ==
  /\ BASIS_POINTS \in Nat \ {0}
  /\ \A x : x \in 0..(BASIS_POINTS - 1) => x \in 0..BASIS_POINTS
  /\ \A x : x \in 0..BASIS_POINTS => x \in Nat
<1>1. BASIS_POINTS \in Nat \ {0}
  BY DEF BASIS_POINTS
<1> QED
  BY <1>1

LEMMA MarginValues ==
  /\ Config.min_collateral \in Nat \ {0} /\ Config.max_leverage \in Nat \ {0}
  /\ Config.maintenance_margin_bps \in 0..BASIS_POINTS
BY ConfigAssumption, RateBase

LEMMA LiquidationValues ==
  /\ Config.partial_liq_tranche_bps \in 0..BASIS_POINTS
  /\ Config.liquidation_penalty_bps \in 0..BASIS_POINTS
  /\ Config.penalty_keeper_share_bps \in 0..BASIS_POINTS
  /\ Config.insurance_buffer_share_bps \in 0..BASIS_POINTS
  /\ Config.min_liq_bounty \in Nat
BY LiquidationAssumption, RateBase

LEMMA FeeValues ==
  /\ Config.adl_compensation_bps \in 0..BASIS_POINTS
  /\ Config.protocol_fee_bps \in 0..BASIS_POINTS
  /\ Config.keeper_fee_base \in Nat /\ Config.keeper_fee_deci_bps \in Nat
<1>1. 100 < BASIS_POINTS /\ 5000 < BASIS_POINTS
  BY DEF BASIS_POINTS
<1> QED
  BY <1>1, AdlAndFeeAssumption, RateBase

LEMMA QuotType ==
  ASSUME NEW a \in Int, NEW b \in Nat \ {0}
  PROVE  Quot(a, b) \in Int
BY DEF Quot

LEMMA NetPnlType ==
  ASSUME NEW pos, RowOK(pos), NEW size \in Nat, NEW mark \in Nat, NEW cum \in Int
  PROVE  NetPnl(pos, size, mark, cum) \in Int
<1>1. pos.entry \in Nat \ {0} /\ pos.entry_cum \in Int
  BY DEF RowOK, PositionOK
<1> DEFINE move == IF pos.dir = "Long" THEN mark - pos.entry ELSE pos.entry - mark
           drift == cum - pos.entry_cum
<1>2. move \in Int /\ drift \in Int
  BY <1>1
<1>3. size * move \in Int /\ size * drift \in Int
  BY <1>2
<1>4. calculate_pnl(pos, size, mark) \in Int
  BY <1>1, <1>3, QuotType DEF calculate_pnl
<1>5. Quot(size * drift, PRECISION) \in Int
  BY <1>3, QuotType, Scales
<1>6. calculate_cumulative_funding(pos, size, cum) \in Int
  BY <1>5 DEF calculate_cumulative_funding
<1> QED
  BY <1>4, <1>6 DEF NetPnl

LEMMA LiquidationPriceType ==
  ASSUME NEW entry \in Int, NEW factor \in Int, NEW dir, NEW mm_bps \in Nat
  PROVE  LiquidationPrice(entry, factor, dir, mm_bps) \in Int
<1>1. PRECISION \in Nat \ {0}
  BY Scales
<1>2. mm_bps * PRECISION \in Nat
  BY <1>1
<1>3. (mm_bps * PRECISION) \div BASIS_POINTS \in Int
  BY <1>2 DEF BASIS_POINTS
<1>4. entry * (factor - (mm_bps * PRECISION) \div BASIS_POINTS) \in Int
  BY <1>3
<1>5. Quot(entry * (factor - (mm_bps * PRECISION) \div BASIS_POINTS), PRECISION) \in Int
  BY <1>1, <1>4, QuotType
<1> QED
  BY <1>5 DEF LiquidationPrice

LEMMA RatioPriceType ==
  ASSUME NEW entry \in Int, NEW collateral \in Nat, NEW size \in Nat \ {0}, NEW dir,
         NEW mm_bps \in Nat
  PROVE  liquidation_price_from_ratio(entry, collateral, size, dir, mm_bps) \in Int
<1>1. collateral * PRECISION \in Nat
  BY Scales
<1>2. (collateral * PRECISION) \div size \in Int
  BY <1>1
<1> QED
  BY <1>2, LiquidationPriceType DEF liquidation_price_from_ratio

LEMMA LeveragePriceType ==
  ASSUME NEW entry \in Int, NEW leverage \in Nat \ {0}, NEW dir, NEW mm_bps \in Nat
  PROVE  calculate_liquidation_price(entry, leverage, dir, mm_bps) \in Int
<1>1. PRECISION \div leverage \in Int
  BY Scales
<1> QED
  BY <1>1, LiquidationPriceType DEF calculate_liquidation_price

(* Maintenance margins and limits, of the ladder or of the configuration.    *)
LEMMA RiskValues ==
  ASSUME RiskOKAll
  PROVE  /\ \A pos : mm_bps_for(pos) \in Nat
         /\ \A a : RiskKnown(a) => effective_open_limits(a).mm_bps \in Nat
<1>1. Config.maintenance_margin_bps \in Nat
  BY MarginValues, RateBase
<1>2. \A a \in DOMAIN risk : risk[a].mm_bps \in Nat
  <2>1. \A x \in 400..BASIS_POINTS : x \div 2 \in Nat
    BY RateBase
  <2> QED
    BY <2>1 DEF RiskOKAll, RiskOK
<1> QED
  BY <1>1, <1>2 DEF mm_bps_for, effective_open_limits, RiskKnown

(* A keeper's fee is never negative. *)
LEMMA KeeperFeeType ==
  ASSUME NEW size \in Nat
  PROVE  calculate_keeper_order_fee(size) \in Nat
<1>1. size * Config.keeper_fee_deci_bps \in Nat /\ FEE_PRECISION \in Nat \ {0}
      /\ Config.keeper_fee_base \in Nat
  BY FeeValues, Scales
<1>2. (size * Config.keeper_fee_deci_bps) \div FEE_PRECISION \in Nat
  BY <1>1, DivBound
<1> QED
  BY <1>1, <1>2 DEF calculate_keeper_order_fee

(* The closed part's collateral is a part of the whole. *)
LEMMA CollateralClosedRange ==
  ASSUME NEW pos, RowOK(pos), NEW close_size \in Nat, close_size <= pos.size
  PROVE  /\ CollateralClosed(pos, close_size) \in Nat
         /\ CollateralClosed(pos, close_size) <= pos.collateral
<1>1. pos.collateral \in Nat /\ pos.size \in Nat \ {0}
  BY DEF RowOK, PositionOK
<1>2. pos.collateral * close_size \in Nat /\ pos.collateral * close_size <= pos.collateral * pos.size
  BY <1>1
<1>3. ASSUME NEW c \in Nat, NEW s \in Nat \ {0}, NEW k \in Nat, k <= c * s
      PROVE  (k \div s) \in Nat /\ (k \div s) <= c
  BY <1>3
<1> QED
  BY <1>1, <1>2, <1>3 DEF CollateralClosed

-----------------------------------------------------------------------------
(* What an operator leaves alone. *)

SamePositions(n, q) ==
  q.positions = n.positions /\ q.position_counter = n.position_counter /\ q.listed = n.listed

SameOrders(n, q) == q.orders = n.orders /\ q.links = n.links

SameBooks(n, q) ==
  /\ q.total_long = n.total_long /\ q.total_short = n.total_short
  /\ q.exposure = n.exposure /\ q.adl = n.adl

OpenInterestOf(n, a) == n.exposure[a].ls + n.exposure[a].ss

(* Open interest does not grow, in any asset. *)
NoGrowth(n, q) == \A a \in Assets : OpenInterestOf(q, a) <= OpenInterestOf(n, a)

LEMMA NoGrowthTransitive ==
  ASSUME NEW n, NEW q, NEW r, BooksOK(n), BooksOK(q), BooksOK(r), NoGrowth(n, q), NoGrowth(q, r)
  PROVE  NoGrowth(n, r)
BY DEF BooksOK, NoGrowth, OpenInterestOf

LEMMA SameKeeps ==
  ASSUME NEW n, NEW q
  PROVE  /\ SamePositions(n, q) /\ PositionsOK(n) => PositionsOK(q) /\ MarginHeld(q) = MarginHeld(n)
         /\ SameOrders(n, q) /\ OrdersOK(n) => OrdersOK(q) /\ OrdersHeld(q) = OrdersHeld(n)
         /\ SameBooks(n, q) /\ BooksOK(n) => BooksOK(q) /\ NoGrowth(n, q)
<1>1. SamePositions(n, q) /\ PositionsOK(n) => PositionsOK(q) /\ MarginHeld(q) = MarginHeld(n)
  BY DEF SamePositions, PositionsOK, MarginHeld
<1>2. SameOrders(n, q) /\ OrdersOK(n) => OrdersOK(q) /\ OrdersHeld(q) = OrdersHeld(n)
  BY DEF SameOrders, OrdersOK, OrdersHeld
<1>3. SameBooks(n, q) /\ BooksOK(n) => BooksOK(q) /\ NoGrowth(n, q)
  BY DEF SameBooks, BooksOK, NoGrowth, OpenInterestOf
<1> QED
  BY <1>1, <1>2, <1>3

(* What is held for traders is a natural number. *)
LEMMA PositionsFinite ==
  ASSUME NEW n, PositionsOK(n)
  PROVE  IsFiniteSet(DOMAIN n.positions)
<1>1. IsFiniteSet(1..n.position_counter)
  BY FS_Interval DEF PositionsOK
<1> QED
  BY <1>1, FS_Subset DEF PositionsOK

LEMMA MarginHeldType ==
  ASSUME NEW n, PositionsOK(n)
  PROVE  MarginHeld(n) \in Nat
<1>1. [i \in DOMAIN n.positions |-> n.positions[i].collateral] \in [DOMAIN n.positions -> Nat]
  BY DEF PositionsOK, RowOK, PositionOK
<1> QED
  BY <1>1, PositionsFinite, TotalType DEF MarginHeld

LEMMA OrdersFinite ==
  ASSUME NEW n, OrdersOK(n)
  PROVE  IsFiniteSet(DOMAIN n.orders)
<1>1. Len(n.orders) \in Nat /\ DOMAIN n.orders = 1..Len(n.orders)
  BY DEF OrdersOK
<1> QED
  BY <1>1, FS_Interval

(* What an order holds. *)
HeldBy(order) == IF order.status = "Pending" THEN Refund(order) ELSE 0

LEMMA HeldByType ==
  ASSUME NEW order \in OrderRows
  PROVE  HeldBy(order) \in Nat /\ Refund(order) \in Nat
BY DEF HeldBy, Refund, OrderRows

LEMMA OrdersHeldType ==
  ASSUME NEW n, OrdersOK(n)
  PROVE  OrdersHeld(n) \in Nat
<1>1. \A o \in DOMAIN n.orders : n.orders[o] \in OrderRows
  BY DEF OrdersOK
<1>2. [o \in DOMAIN n.orders |-> IF n.orders[o].status = "Pending" THEN Refund(n.orders[o]) ELSE 0]
         \in [DOMAIN n.orders -> Nat]
  BY <1>1, HeldByType DEF HeldBy
<1> QED
  BY <1>2, OrdersFinite, TotalType DEF OrdersHeld

-----------------------------------------------------------------------------
(* The pool's calls, as the market makes them. *)

LEMMA CreditKeeps ==
  ASSUME NEW p, PoolInv(p), NEW amount \in Int
  PROVE  PoolInv(credit_vault_receipt(p, amount))
<1> SUFFICES ASSUME amount > 0 PROVE PoolInv(receive_loss(p, amount))
  BY DEF credit_vault_receipt
<1> DEFINE q == receive_loss(p, amount)
<1>1. PoolOK(q)
  BY DEF PoolInv, PoolOK, PoolFields, receive_loss
<1> QED
  BY <1>1 DEF PoolInv, PoolOK, PoolFields, receive_loss

LEMMA FundKeeps ==
  ASSUME NEW p, PoolInv(p), NEW amount \in Int
  PROVE  PoolInv(fund_vault_buffer(p, amount))
<1> SUFFICES ASSUME amount > 0 PROVE PoolInv(fund_buffer(p, VaultConfig, amount))
  BY DEF fund_vault_buffer
<1> DEFINE share == route_shortfall_share(p, VaultConfig, amount)
           q == [p EXCEPT !.shortfall_reserve = @ + share, !.buffer = @ + (amount - share)]
<1>1. BpsOf(amount, VaultConfig.shortfall_inflow_bps) \in Nat
      /\ BpsOf(amount, VaultConfig.shortfall_inflow_bps) <= amount
  <2>1. VaultConfig.shortfall_inflow_bps \in 0..BASIS_POINTS
    BY MarketAssumption, ConfigRates
  <2> QED
    BY <2>1, BpsOfRange
<1>2. p.shortfall \in Int /\ p.shortfall_reserve \in Nat /\ p.shortfall_reserve <= p.shortfall
  BY DEF PoolInv, PoolOK
<1>3. share \in Nat /\ share <= amount /\ p.shortfall_reserve + share <= p.shortfall
  BY <1>1, <1>2 DEF route_shortfall_share, Floor0, Least
<1>4. fund_buffer(p, VaultConfig, amount) = q
  BY DEF fund_buffer
<1> HIDE DEF share
<1>5. PoolOK(q)
  BY <1>3 DEF PoolInv, PoolOK, PoolFields
<1>6. PoolInv(q)
  BY <1>3, <1>5 DEF PoolInv, PoolOK, PoolFields
<1> QED
  BY <1>4, <1>6

LEMMA BadDebtKeeps ==
  ASSUME NEW p, PoolInv(p), NEW amount \in Int
  PROVE  PoolInv(record_bad_debt(p, amount))
BY DrawKeeps DEF record_bad_debt

LEMMA ArrivalKeeps ==
  ASSUME NEW p, PoolInv(p), NEW amount \in Nat
  PROVE  PoolInv(TransferIn(p, amount))
BY TransferInKeeps

(* What an operator that moves money only leaves alone. *)
MoneyOnly(n, q) ==
  /\ DOMAIN q = MarketFields
  /\ SamePositions(n, q) /\ SameOrders(n, q) /\ SameBooks(n, q)

LEMMA MoneyOnlyKeeps ==
  ASSUME NEW n, MarketOK(n), NEW q, MoneyOnly(n, q),
         PoolInv(q.pool), q.cash \in Int, q.overpaid \in Nat
  PROVE  /\ MarketOK(q) /\ NoGrowth(n, q)
         /\ MarginHeld(q) = MarginHeld(n) /\ OrdersHeld(q) = OrdersHeld(n)
<1>1. MoneyOK(q)
  BY DEF MoneyOK, MoneyOnly
<1> QED
  BY <1>1, SameKeeps DEF MarketOK, MoneyOnly

-----------------------------------------------------------------------------
(* Settlement takes exactly the collateral of the settled part out of the    *)
(* market's balance, whatever the price was.                                 *)
LEMMA SettleClosedMoves ==
  ASSUME NEW n, MarketOK(n), NEW pos, RowOK(pos), NEW collateral \in Nat, NEW net \in Int,
         NEW keeper_fee \in Nat
  PROVE  LET q == SettleClosed(n, pos, collateral, net, keeper_fee)
         IN  /\ MarketOK(q) /\ SamePositions(n, q) /\ SameOrders(n, q) /\ NoGrowth(n, q)
             /\ q.cash = n.cash - collateral /\ q.overpaid = n.overpaid
             /\ q.exposure = n.exposure
<1> DEFINE paid == SettlePaid(n.pool, net)
           owed == LossOwed(net, collateral)
           fee_paid == Least(keeper_fee, collateral - owed)
           to_trader == collateral - owed - fee_paid + paid
           settled == IF net > 0 THEN settle_pnl(n.pool, pos.trader, net) ELSE n.pool
           booked == record_bad_debt(settled, -(collateral + net))
           credited == credit_vault_receipt(TransferIn(booked, owed), owed)
           adl == [n.adl EXCEPT ![pos.asset] = n.adl[pos.asset] \/ (net > 0 /\ paid < net)]
           cash == n.cash + paid - owed - Floor0(fee_paid) - Floor0(to_trader)
           q == SettleClosed(n, pos, collateral, net, keeper_fee)
<1>0. /\ PoolInv(n.pool) /\ PoolOK(n.pool) /\ n.cash \in Int /\ n.overpaid \in Nat
      /\ pos.trader \in Traders /\ pos.asset \in Assets
  BY DEF MarketOK, MoneyOK, RowOK, PositionOK, PoolInv
<1>1. paid \in Nat
  BY <1>0 DEF SettlePaid, Floor0, Least, Spendable, PoolOK
<1>2. owed \in Nat /\ owed <= collateral
  BY DEF LossOwed, Least
<1>3. fee_paid \in Nat /\ fee_paid <= collateral - owed
  BY <1>2 DEF Least
<1>4. to_trader \in Nat
  BY <1>1, <1>2, <1>3
<1>5. cash = n.cash - collateral /\ cash \in Int
  BY <1>0, <1>1, <1>2, <1>3, <1>4 DEF Floor0
<1>6. PoolInv(settled)
  BY <1>0, SettleKeeps
<1>7. PoolInv(booked)
  BY <1>6, BadDebtKeeps
<1>8. PoolInv(credited)
  BY <1>2, <1>7, ArrivalKeeps, CreditKeeps
<1>9. adl \in [Assets -> BOOLEAN]
  BY <1>0, Zenon DEF MarketOK, BooksOK
<1>10. q = [[n EXCEPT !.adl = adl] EXCEPT !.pool = credited, !.cash = cash]
  BY <1>0 DEF SettleClosed, flag_adl_on_shortfall, MarketOK, MoneyOK, MarketFields
<1> HIDE DEF paid, owed, fee_paid, to_trader, settled, booked, credited, adl, cash, q
<1>11. /\ DOMAIN q = MarketFields /\ q.pool = credited /\ q.cash = cash /\ q.adl = adl
       /\ q.overpaid = n.overpaid /\ q.exposure = n.exposure
       /\ q.total_long = n.total_long /\ q.total_short = n.total_short
       /\ SamePositions(n, q) /\ SameOrders(n, q)
  BY <1>10 DEF MarketOK, MoneyOK, MarketFields, SamePositions, SameOrders
<1>12. MoneyOK(q)
  BY <1>0, <1>5, <1>8, <1>11 DEF MoneyOK
<1>13. BooksOK(q) /\ NoGrowth(n, q)
  BY <1>9, <1>11 DEF MarketOK, BooksOK, NoGrowth, OpenInterestOf
<1> QED
  BY <1>5, <1>11, <1>12, <1>13, SameKeeps DEF MarketOK, q

(* Marking an exposure in the vault. *)
LEMMA ExposureUpnlType ==
  ASSUME NEW e, NEW mark \in Nat, e.lk \in Nat, e.ls \in Nat, e.sk \in Nat, e.ss \in Nat
  PROVE  exposure_upnl(e, mark) \in Int
<1>1. mark * e.lk \in Nat /\ mark * e.sk \in Nat
  OBVIOUS
<1>2. (mark * e.lk) \div PRECISION \in Int /\ (mark * e.sk) \div PRECISION \in Int
  BY <1>1, Scales
<1> QED
  BY <1>2 DEF exposure_upnl

LEMMA KDeltaType ==
  ASSUME NEW size \in Nat, NEW entry \in Nat \ {0}
  PROVE  KDelta(size, entry) \in Nat
<1>1. size * PRECISION \in Nat
  BY Scales
<1> QED
  BY <1>1, DivBound DEF KDelta

(* Releasing open interest: only the books and the vault's marks change, and *)
(* nothing grows.                                                            *)
LEMMA DecreaseOiMoves ==
  ASSUME NEW n, MarketOK(n), NEW asset \in Assets, NEW dir, NEW size \in Nat,
         NEW entry \in Nat \ {0}, NEW mark \in Nat
  PROVE  LET q == DecreaseOi(n, asset, dir, size, entry, mark)
         IN  /\ MarketOK(q) /\ SamePositions(n, q) /\ SameOrders(n, q) /\ NoGrowth(n, q)
             /\ q.cash = n.cash /\ q.overpaid = n.overpaid
<1> DEFINE k == KDelta(size, entry)
           e == Shrunk(n.exposure[asset], dir, size, k)
           pnl == exposure_upnl(e, mark)
           exposure == [n.exposure EXCEPT ![asset] = e]
           pool == sync_exposure(n.pool, asset, pnl, size)
           long == IF dir = "Long" THEN Floor0(n.total_long - size) ELSE n.total_long
           short == IF dir = "Short" THEN Floor0(n.total_short - size) ELSE n.total_short
           q == DecreaseOi(n, asset, dir, size, entry, mark)
<1>0. /\ BooksOK(n) /\ PoolInv(n.pool) /\ n.cash \in Int /\ n.overpaid \in Nat
  BY DEF MarketOK, MoneyOK
<1>1. k \in Nat
  BY KDeltaType
<1>2. /\ DOMAIN e = ExposureFields
      /\ e.lk \in Nat /\ e.ls \in Nat /\ e.sk \in Nat /\ e.ss \in Nat
      /\ e.ls + e.ss <= n.exposure[asset].ls + n.exposure[asset].ss
  BY <1>0, <1>1 DEF BooksOK, ExposureFields, Shrunk, Floor0
<1> HIDE DEF e
<1>3. pnl \in Int
  BY <1>2, ExposureUpnlType
<1>4. PoolInv(pool)
  BY <1>0, <1>3, SyncKeeps
<1>5. long \in Nat /\ short \in Nat
  BY <1>0 DEF BooksOK, Floor0
<1>6. q = [[n EXCEPT !.total_long = long, !.total_short = short] EXCEPT
             !.exposure = exposure, !.pool = pool]
  BY <1>0 DEF DecreaseOi, WithExposure, MarketOK, MoneyOK, MarketFields, e
<1> HIDE DEF k, pnl, pool, long, short, q
<1>7. /\ DOMAIN q = MarketFields /\ q.pool = pool /\ q.cash = n.cash
      /\ q.overpaid = n.overpaid /\ q.exposure = exposure /\ q.adl = n.adl
      /\ q.total_long = long /\ q.total_short = short
      /\ SamePositions(n, q) /\ SameOrders(n, q)
  BY <1>6 DEF MarketOK, MoneyOK, MarketFields, SamePositions, SameOrders
<1>8. MoneyOK(q)
  BY <1>0, <1>4, <1>7 DEF MoneyOK
<1>9. BooksOK(q) /\ NoGrowth(n, q)
  BY <1>0, <1>2, <1>5, <1>7 DEF BooksOK, NoGrowth, OpenInterestOf
<1> QED
  BY <1>7, <1>8, <1>9, SameKeeps DEF MarketOK, q

-----------------------------------------------------------------------------
(* Orders *)

SameMoney(n, q) == q.cash = n.cash /\ q.overpaid = n.overpaid /\ q.pool = n.pool

(* What an operator of the order book leaves alone. *)
BookOnly(n, q) ==
  /\ DOMAIN q = MarketFields
  /\ SameMoney(n, q) /\ SamePositions(n, q) /\ SameBooks(n, q)

LEMMA BookOnlyKeeps ==
  ASSUME NEW n, MarketOK(n), NEW q, BookOnly(n, q), OrdersOK(q)
  PROVE  MarketOK(q) /\ NoGrowth(n, q) /\ MarginHeld(q) = MarginHeld(n)
<1>1. MoneyOK(q)
  BY DEF MarketOK, MoneyOK, BookOnly, SameMoney
<1> QED
  BY <1>1, SameKeeps DEF MarketOK, BookOnly

LEMMA BookOnlyTransitive ==
  ASSUME NEW n, NEW q, NEW r, BookOnly(n, q), BookOnly(q, r)
  PROVE  BookOnly(n, r)
BY DEF BookOnly, SameMoney, SamePositions, SameBooks

FinalStatuses == {"Executed", "Cancelled", "CancelledSlippage"}

(* The statuses of a set of orders change, and nothing else of the book that *)
(* the accounting reads.                                                     *)
LEMMA UpdateStatus ==
  ASSUME NEW n, MarketOK(n), NEW ids, NEW status \in FinalStatuses
  PROVE  LET q == update_order_status(n, ids, status)
         IN  /\ BookOnly(n, q) /\ MarketOK(q) /\ q.links = n.links
             /\ q.orders = [o \in DOMAIN n.orders |->
                              IF o \in ids THEN [n.orders[o] EXCEPT !.status = status]
                                           ELSE n.orders[o]]
<1> DEFINE row == [o \in DOMAIN n.orders |->
                     IF o \in ids THEN [n.orders[o] EXCEPT !.status = status]
                                  ELSE n.orders[o]]
           open == Floor0(n.open_orders - Cardinality(ids \cap Pending(n)))
           of == [t \in DOMAIN n.orders_of |->
                    Floor0(n.orders_of[t] - Cardinality(ids \cap PendingOf(n, t)))]
           q == update_order_status(n, ids, status)
<1>1. q = [n EXCEPT !.orders = row, !.open_orders = open, !.orders_of = of]
  BY DEF update_order_status, MarketOK, MoneyOK, MarketFields
<1> HIDE DEF open, of, q
<1>2. BookOnly(n, q) /\ q.links = n.links /\ q.orders = row
  BY <1>1 DEF BookOnly, MarketOK, MoneyOK, MarketFields, SameMoney, SamePositions, SameBooks
<1>3. Len(n.orders) \in Nat /\ DOMAIN n.orders = 1..Len(n.orders)
      /\ \A o \in DOMAIN n.orders : n.orders[o] \in OrderRows
  BY DEF MarketOK, OrdersOK
<1>4. \A r \in OrderRows : /\ [r EXCEPT !.status = status] \in OrderRows
                           /\ [r EXCEPT !.status = status].type = r.type
                           /\ [r EXCEPT !.status = status].collateral = r.collateral
                           /\ [r EXCEPT !.status = status].leverage = r.leverage
  BY DEF OrderRows, FinalStatuses
<1>5. \A o \in DOMAIN n.orders : /\ row[o] \in OrderRows
                                 /\ row[o].type = n.orders[o].type
                                 /\ row[o].collateral = n.orders[o].collateral
                                 /\ row[o].leverage = n.orders[o].leverage
  BY <1>3, <1>4
<1>6. row \in Seq(OrderRows) /\ DOMAIN row = DOMAIN n.orders
  <2>1. row \in [1..Len(n.orders) -> OrderRows] /\ DOMAIN row = DOMAIN n.orders
    BY <1>3, <1>5
  <2> QED
    BY <1>3, <2>1, SeqDef
<1> HIDE DEF row
<1>7. OrdersOK(q)
  BY <1>2, <1>5, <1>6 DEF MarketOK, OrdersOK
<1> QED
  BY <1>2, <1>7, BookOnlyKeeps DEF q, row

(* Ending orders that hold nothing frees nothing. *)
LEMMA UpdateUnheld ==
  ASSUME NEW n, MarketOK(n), NEW ids, NEW status \in FinalStatuses,
         \A o \in ids \cap DOMAIN n.orders : HeldBy(n.orders[o]) = 0
  PROVE  OrdersHeld(update_order_status(n, ids, status)) = OrdersHeld(n)
<1> DEFINE q == update_order_status(n, ids, status)
<1>1. q.orders = [o \in DOMAIN n.orders |->
                    IF o \in ids THEN [n.orders[o] EXCEPT !.status = status] ELSE n.orders[o]]
  BY UpdateStatus
<1> HIDE DEF q
<1>2. \A r \in OrderRows : [r EXCEPT !.status = status].status # "Pending"
  BY DEF OrderRows, FinalStatuses
<1>3. \A o \in DOMAIN n.orders : n.orders[o] \in OrderRows
  BY DEF MarketOK, OrdersOK
<1>4. DOMAIN q.orders = DOMAIN n.orders
      /\ \A o \in DOMAIN n.orders : HeldBy(q.orders[o]) = HeldBy(n.orders[o])
  BY <1>1, <1>2, <1>3 DEF HeldBy
<1>5. [o \in DOMAIN q.orders |-> HeldBy(q.orders[o])] = [o \in DOMAIN n.orders |-> HeldBy(n.orders[o])]
  BY <1>4
<1> QED
  BY <1>5 DEF OrdersHeld, HeldBy, q

(* Ending one order frees what it held. *)
LEMMA UpdateOne ==
  ASSUME NEW n, MarketOK(n), NEW o \in DOMAIN n.orders, NEW status \in FinalStatuses
  PROVE  OrdersHeld(update_order_status(n, {o}, status)) = OrdersHeld(n) - HeldBy(n.orders[o])
<1> DEFINE q == update_order_status(n, {o}, status)
           f == [i \in DOMAIN n.orders |-> HeldBy(n.orders[i])]
<1>1. q.orders = [i \in DOMAIN n.orders |->
                    IF i \in {o} THEN [n.orders[i] EXCEPT !.status = status] ELSE n.orders[i]]
  BY UpdateStatus
<1> HIDE DEF q
<1>2. \A r \in OrderRows : [r EXCEPT !.status = status].status # "Pending"
  BY DEF OrderRows, FinalStatuses
<1>3. \A i \in DOMAIN n.orders : n.orders[i] \in OrderRows
  BY DEF MarketOK, OrdersOK
<1>4. HeldBy(q.orders[o]) = 0 /\ DOMAIN q.orders = DOMAIN n.orders
      /\ \A i \in DOMAIN n.orders : i # o => HeldBy(q.orders[i]) = HeldBy(n.orders[i])
  BY <1>1, <1>2, <1>3 DEF HeldBy
<1>5. [i \in DOMAIN q.orders |-> HeldBy(q.orders[i])] = [f EXCEPT ![o] = 0]
  BY <1>4
<1>6. f \in [DOMAIN n.orders -> Nat] /\ f[o] = HeldBy(n.orders[o])
  BY <1>3, HeldByType
<1>7. IsFiniteSet(DOMAIN n.orders)
  BY OrdersFinite DEF MarketOK
<1>8. \A k \in Nat : Total([f EXCEPT ![o] = k]) = Total(f) - f[o] + k
  BY <1>6, <1>7, TotalUpdate
<1>9. Total([f EXCEPT ![o] = 0]) = Total(f) - f[o] + 0
  BY <1>8
<1>10. OrdersHeld(n) = Total(f) /\ OrdersHeld(q) = Total([f EXCEPT ![o] = 0])
  BY <1>5 DEF OrdersHeld, HeldBy
<1>11. OrdersHeld(n) \in Nat /\ HeldBy(n.orders[o]) \in Nat
  BY <1>3, OrdersHeldType, HeldByType DEF MarketOK
<1> QED
  BY <1>6, <1>9, <1>10, <1>11 DEF q

LEMMA DropPeaksBook ==
  ASSUME NEW n, MarketOK(n), NEW ids
  PROVE  LET q == DropPeaks(n, ids)
         IN  BookOnly(n, q) /\ MarketOK(q) /\ SameOrders(n, q) /\ OrdersHeld(q) = OrdersHeld(n)
<1> DEFINE peaks == [o \in DOMAIN n.peaks \ ids |-> n.peaks[o]]
           q == DropPeaks(n, ids)
<1>1. q = [n EXCEPT !.peaks = peaks]
  BY DEF DropPeaks
<1> HIDE DEF peaks, q
<1>2. BookOnly(n, q) /\ SameOrders(n, q)
  BY <1>1 DEF BookOnly, MarketOK, MoneyOK, MarketFields, SameMoney, SamePositions, SameBooks,
     SameOrders
<1> QED
  BY <1>2, SameKeeps, BookOnlyKeeps DEF q, MarketOK

(* Fewer links. *)
LEMMA FewerLinks ==
  ASSUME NEW n, MarketOK(n), NEW links \in SUBSET n.links, NEW q, q = [n EXCEPT !.links = links]
  PROVE  BookOnly(n, q) /\ MarketOK(q) /\ q.orders = n.orders /\ OrdersHeld(q) = OrdersHeld(n)
<1>1. BookOnly(n, q) /\ q.orders = n.orders /\ q.links = links
  BY DEF BookOnly, MarketOK, MoneyOK, MarketFields, SameMoney, SamePositions, SameBooks
<1>2. OrdersOK(q) /\ OrdersHeld(q) = OrdersHeld(n)
  BY <1>1 DEF MarketOK, OrdersOK, OrdersHeld
<1> QED
  BY <1>1, <1>2, BookOnlyKeeps

(* Entry orders and the order being executed keep their rows. *)
BookKept(n, q, skip) ==
  /\ DOMAIN q.orders = DOMAIN n.orders
  /\ \A o \in DOMAIN n.orders :
       o = skip \/ n.orders[o].type \in EntryTypes => q.orders[o] = n.orders[o]

(* Cancelling what is attached to a position frees nothing: attached orders  *)
(* hold nothing.  The skipped order keeps its row.                           *)
LEMMA CancelAttached ==
  ASSUME NEW n, MarketOK(n), NEW id, NEW skip
  PROVE  LET q == cancel_position_orders(n, id, skip)
         IN  /\ BookOnly(n, q) /\ MarketOK(q) /\ NoGrowth(n, q)
             /\ OrdersHeld(q) = OrdersHeld(n) /\ MarginHeld(q) = MarginHeld(n)
             /\ BookKept(n, q, skip)
<1> DEFINE ids == Linked(n, id) \ {skip}
           u == update_order_status(n, ids, "Cancelled")
           d == DropPeaks(u, ids)
           q == cancel_position_orders(n, id, skip)
<1>1. \A o \in ids : o \in DOMAIN n.orders /\ n.orders[o].type \in CloseTypes
  <2>1. ASSUME NEW o \in ids
        PROVE  o \in DOMAIN n.orders /\ n.orders[o].type \in CloseTypes
    <3>1. PICK type \in CloseTypes : <<type, id, o>> \in n.links
      BY DEF Linked
    <3>2. <<type, id, o>>[3] = o
      OBVIOUS
    <3> QED
      BY <3>1, <3>2 DEF MarketOK, OrdersOK
  <2> QED
    BY <2>1
<1>2. \A o \in ids \cap DOMAIN n.orders : HeldBy(n.orders[o]) = 0
  BY <1>1 DEF HeldBy, Refund, EntryTypes, CloseTypes
<1>3. "Cancelled" \in FinalStatuses
  BY DEF FinalStatuses
<1>4. /\ BookOnly(n, u) /\ MarketOK(u) /\ u.links = n.links /\ OrdersHeld(u) = OrdersHeld(n)
      /\ u.orders = [o \in DOMAIN n.orders |->
                       IF o \in ids THEN [n.orders[o] EXCEPT !.status = "Cancelled"]
                                    ELSE n.orders[o]]
  BY <1>2, <1>3, UpdateStatus, UpdateUnheld
<1> HIDE DEF u
<1>5. BookOnly(u, d) /\ MarketOK(d) /\ SameOrders(u, d) /\ OrdersHeld(d) = OrdersHeld(u)
  BY <1>4, DropPeaksBook
<1>6. q = [d EXCEPT !.links = {l \in n.links : l[2] # id}]
  BY DEF cancel_position_orders, u
<1> HIDE DEF d, q
<1>7. {l \in n.links : l[2] # id} \in SUBSET d.links
  BY <1>4, <1>5 DEF SameOrders
<1>8. BookOnly(d, q) /\ MarketOK(q) /\ q.orders = d.orders /\ OrdersHeld(q) = OrdersHeld(d)
  BY <1>5, <1>6, <1>7, FewerLinks
<1>9. BookOnly(n, q) /\ OrdersHeld(q) = OrdersHeld(n) /\ q.orders = u.orders
  BY <1>4, <1>5, <1>8, BookOnlyTransitive DEF SameOrders
<1>10. \A o \in DOMAIN n.orders :
         o = skip \/ n.orders[o].type \in EntryTypes => o \notin ids
  BY <1>1 DEF EntryTypes, CloseTypes
<1>11. BookKept(n, q, skip)
  BY <1>4, <1>9, <1>10 DEF BookKept
<1>12. NoGrowth(n, q) /\ MarginHeld(q) = MarginHeld(n)
  BY <1>8, <1>9, BookOnlyKeeps DEF MarketOK
<1> QED
  BY <1>8, <1>9, <1>11, <1>12 DEF q

-----------------------------------------------------------------------------
(* Positions *)

(* What an operator of the position rows leaves alone. *)
RowsOnly(n, q) ==
  /\ DOMAIN q = MarketFields
  /\ SameMoney(n, q) /\ SameOrders(n, q) /\ SameBooks(n, q)

LEMMA RowsOnlyKeeps ==
  ASSUME NEW n, MarketOK(n), NEW q, RowsOnly(n, q), PositionsOK(q)
  PROVE  MarketOK(q) /\ NoGrowth(n, q) /\ OrdersHeld(q) = OrdersHeld(n)
<1>1. MoneyOK(q)
  BY DEF MarketOK, MoneyOK, RowsOnly, SameMoney
<1> QED
  BY <1>1, SameKeeps DEF MarketOK, RowsOnly

Margins(n) == [i \in DOMAIN n.positions |-> n.positions[i].collateral]

LEMMA MarginsType ==
  ASSUME NEW n, PositionsOK(n)
  PROVE  /\ Margins(n) \in [DOMAIN n.positions -> Nat]
         /\ \A i \in DOMAIN n.positions : Margins(n)[i] = n.positions[i].collateral
         /\ MarginHeld(n) = Total(Margins(n))
BY DEF Margins, MarginHeld, PositionsOK, RowOK, PositionOK

(* The row of a position is deleted, the others stay. *)
RowGone(n, q, id) == q.positions = [i \in DOMAIN n.positions \ {id} |-> n.positions[i]]

(* A deleted row takes its collateral out of what is owed. *)
LEMMA DeleteMoves ==
  ASSUME NEW n, MarketOK(n), NEW id \in DOMAIN n.positions
  PROVE  LET q == delete_position(n, id)
         IN  /\ RowsOnly(n, q) /\ MarketOK(q) /\ NoGrowth(n, q)
             /\ OrdersHeld(q) = OrdersHeld(n)
             /\ MarginHeld(q) = MarginHeld(n) - n.positions[id].collateral
             /\ RowGone(n, q, id)
<1> DEFINE t == n.positions[id].trader
           positions == [i \in DOMAIN n.positions \ {id} |-> n.positions[i]]
           listed == [n.listed EXCEPT ![t] = n.listed[t] \ {id}]
           q == delete_position(n, id)
<1>1. q = [n EXCEPT !.positions = positions, !.listed = listed,
                    !.open_positions = Floor0(n.open_positions - 1)]
  BY DEF delete_position, MarketOK, MoneyOK, MarketFields
<1>2. t \in Traders
  BY DEF MarketOK, PositionsOK, RowOK, PositionOK
<1> HIDE DEF q
<1>3. /\ RowsOnly(n, q) /\ q.positions = positions /\ q.listed = listed
      /\ q.position_counter = n.position_counter
  BY <1>1 DEF RowsOnly, MarketOK, MoneyOK, MarketFields, SameMoney, SameOrders, SameBooks
<1>4. /\ DOMAIN positions = DOMAIN n.positions \ {id}
      /\ \A i \in DOMAIN positions : positions[i] = n.positions[i]
  OBVIOUS
<1> HIDE DEF positions
<1>5. PositionsOK(q)
  <2>1. DOMAIN q.positions \subseteq 1..q.position_counter /\ q.position_counter \in Nat
        /\ \A i \in DOMAIN q.positions : RowOK(q.positions[i])
    BY <1>3, <1>4 DEF MarketOK, PositionsOK
  <2>2. DOMAIN q.listed = Traders
    BY <1>3 DEF MarketOK, PositionsOK
  <2>3. ASSUME NEW u \in Traders
        PROVE  q.listed[u] = {i \in DOMAIN q.positions : q.positions[i].trader = u}
    <3>1. n.listed[u] = {i \in DOMAIN n.positions : n.positions[i].trader = u}
      BY DEF MarketOK, PositionsOK
    <3>2. q.listed[u] = IF u = t THEN n.listed[u] \ {id} ELSE n.listed[u]
      BY <1>2, <1>3 DEF MarketOK, PositionsOK
    <3> QED
      BY <1>3, <1>4, <3>1, <3>2
  <2> QED
    BY <2>1, <2>2, <2>3 DEF PositionsOK
<1>6. MarketOK(q) /\ NoGrowth(n, q) /\ OrdersHeld(q) = OrdersHeld(n)
  BY <1>3, <1>5, RowsOnlyKeeps
<1>7. MarginHeld(q) = MarginHeld(n) - n.positions[id].collateral
  <2>1. /\ Margins(n) \in [DOMAIN n.positions -> Nat] /\ IsFiniteSet(DOMAIN n.positions)
        /\ Margins(n)[id] = n.positions[id].collateral /\ MarginHeld(n) = Total(Margins(n))
    BY MarginsType, PositionsFinite DEF MarketOK
  <2>2. Margins(q) = [i \in DOMAIN n.positions \ {id} |-> Margins(n)[i]]
    BY <1>3, <1>4 DEF Margins
  <2>3. MarginHeld(q) = Total(Margins(q))
    BY <1>5, MarginsType
  <2>4. Total([i \in DOMAIN n.positions \ {id} |-> Margins(n)[i]])
          = Total(Margins(n)) - Margins(n)[id]
    BY <2>1, TotalRemove
  <2> QED
    BY <2>1, <2>2, <2>3, <2>4
<1> QED
  BY <1>3, <1>6, <1>7 DEF q, positions, RowGone

WithRow(n, id, pos) == [n EXCEPT !.positions = [n.positions EXCEPT ![id] = pos]]

(* A row whose amounts are replaced moves what is owed by the difference.    *)
LEMMA RowReplaced ==
  ASSUME NEW n, MarketOK(n), NEW id \in DOMAIN n.positions, NEW pos, RowOK(pos),
         pos.trader = n.positions[id].trader, NEW q, q = WithRow(n, id, pos)
  PROVE  /\ RowsOnly(n, q) /\ MarketOK(q) /\ NoGrowth(n, q)
         /\ OrdersHeld(q) = OrdersHeld(n)
         /\ MarginHeld(q) = MarginHeld(n) - n.positions[id].collateral + pos.collateral
<1> DEFINE positions == [n.positions EXCEPT ![id] = pos]
<1>1. /\ RowsOnly(n, q) /\ q.positions = positions /\ q.listed = n.listed
      /\ q.position_counter = n.position_counter
  BY DEF WithRow, RowsOnly, MarketOK, MoneyOK, MarketFields, SameMoney, SameOrders, SameBooks
<1>2. /\ DOMAIN positions = DOMAIN n.positions /\ positions[id] = pos
      /\ \A i \in DOMAIN n.positions : i # id => positions[i] = n.positions[i]
  OBVIOUS
<1> HIDE DEF positions
<1>3. PositionsOK(q)
  <2>1. \A i \in DOMAIN n.positions : /\ RowOK(positions[i])
                                      /\ positions[i].trader = n.positions[i].trader
    BY <1>2 DEF MarketOK, PositionsOK
  <2> QED
    BY <1>1, <1>2, <2>1 DEF MarketOK, PositionsOK
<1>4. MarketOK(q) /\ NoGrowth(n, q) /\ OrdersHeld(q) = OrdersHeld(n)
  BY <1>1, <1>3, RowsOnlyKeeps
<1>5. /\ Margins(n) \in [DOMAIN n.positions -> Nat] /\ IsFiniteSet(DOMAIN n.positions)
      /\ Margins(n)[id] = n.positions[id].collateral /\ MarginHeld(n) = Total(Margins(n))
  BY MarginsType, PositionsFinite DEF MarketOK
<1>6. pos.collateral \in Nat
  BY DEF RowOK, PositionOK
<1> DEFINE S == DOMAIN n.positions
           f == Margins(n)
           c == pos.collateral
<1>7. IsFiniteSet(S) /\ f \in [S -> Nat] /\ id \in S /\ c \in Nat
  BY <1>5, <1>6
<1>8. Margins(q) = [f EXCEPT ![id] = c]
  BY <1>1, <1>2, <1>5 DEF Margins
<1> HIDE DEF S, f, c
<1>9. Total([f EXCEPT ![id] = c]) = Total(f) - f[id] + c
  BY <1>7, TotalUpdate
<1>10. MarginHeld(q) = Total(Margins(q))
  BY <1>3, MarginsType
<1>11. MarginHeld(q) = Total(f) - f[id] + c
  BY <1>8, <1>9, <1>10
<1> QED
  BY <1>1, <1>4, <1>5, <1>11 DEF f, c

(* A new row adds its collateral to what is owed. *)
LEMMA StoreMoves ==
  ASSUME NEW n, MarketOK(n), NEW pos, RowOK(pos)
  PROVE  LET q == StorePosition(n, pos)
         IN  /\ RowsOnly(n, q) /\ MarketOK(q) /\ NoGrowth(n, q)
             /\ OrdersHeld(q) = OrdersHeld(n)
             /\ MarginHeld(q) = MarginHeld(n) + pos.collateral
<1> DEFINE id == n.position_counter + 1
           t == pos.trader
           positions == [i \in DOMAIN n.positions \cup {id} |->
                           IF i = id THEN pos ELSE n.positions[i]]
           listed == [n.listed EXCEPT ![t] = n.listed[t] \cup {id}]
           q == StorePosition(n, pos)
<1>1. q = [n EXCEPT !.positions = positions, !.position_counter = id, !.listed = listed,
                    !.open_positions = n.open_positions + 1]
  BY DEF StorePosition, MarketOK, MoneyOK, MarketFields
<1>2. t \in Traders
  BY DEF RowOK, PositionOK
<1>3. id \in Nat /\ id \notin DOMAIN n.positions
      /\ DOMAIN n.positions \cup {id} \subseteq 1..id
  BY DEF MarketOK, PositionsOK
<1> HIDE DEF q, id
<1>4. /\ RowsOnly(n, q) /\ q.positions = positions /\ q.listed = listed
      /\ q.position_counter = id
  BY <1>1 DEF RowsOnly, MarketOK, MoneyOK, MarketFields, SameMoney, SameOrders, SameBooks
<1>5. /\ DOMAIN positions = DOMAIN n.positions \cup {id} /\ positions[id] = pos
      /\ \A i \in DOMAIN n.positions : positions[i] = n.positions[i]
  BY <1>3
<1> HIDE DEF positions
<1>6. PositionsOK(q)
  <2>1. DOMAIN q.positions \subseteq 1..q.position_counter /\ q.position_counter \in Nat
        /\ \A i \in DOMAIN q.positions : RowOK(q.positions[i])
    BY <1>3, <1>4, <1>5 DEF MarketOK, PositionsOK
  <2>2. DOMAIN q.listed = Traders
    BY <1>4 DEF MarketOK, PositionsOK
  <2>3. ASSUME NEW u \in Traders
        PROVE  q.listed[u] = {i \in DOMAIN q.positions : q.positions[i].trader = u}
    <3>1. n.listed[u] = {i \in DOMAIN n.positions : n.positions[i].trader = u}
      BY DEF MarketOK, PositionsOK
    <3>2. q.listed[u] = IF u = t THEN n.listed[u] \cup {id} ELSE n.listed[u]
      BY <1>2, <1>4 DEF MarketOK, PositionsOK
    <3> QED
      BY <1>3, <1>4, <1>5, <3>1, <3>2
  <2> QED
    BY <2>1, <2>2, <2>3 DEF PositionsOK
<1>7. MarketOK(q) /\ NoGrowth(n, q) /\ OrdersHeld(q) = OrdersHeld(n)
  BY <1>4, <1>6, RowsOnlyKeeps
<1>8. MarginHeld(q) = MarginHeld(n) + pos.collateral
  <2>1. /\ Margins(n) \in [DOMAIN n.positions -> Nat] /\ IsFiniteSet(DOMAIN n.positions)
        /\ MarginHeld(n) = Total(Margins(n)) /\ pos.collateral \in Nat
    BY MarginsType, PositionsFinite DEF MarketOK, RowOK, PositionOK
  <2>2. Margins(q) = [i \in DOMAIN n.positions \cup {id} |->
                        IF i = id THEN pos.collateral ELSE Margins(n)[i]]
    BY <1>4, <1>5 DEF Margins
  <2>3. MarginHeld(q) = Total(Margins(q))
    BY <1>6, MarginsType
  <2> DEFINE S == DOMAIN n.positions
             f == Margins(n)
             c == pos.collateral
  <2>4. IsFiniteSet(S) /\ f \in [S -> Nat] /\ c \in Nat /\ id \notin S
    BY <1>3, <2>1
  <2>5. Margins(q) = [i \in S \cup {id} |-> IF i = id THEN c ELSE f[i]]
    BY <2>2
  <2> HIDE DEF S, f, c
  <2>6. Total([i \in S \cup {id} |-> IF i = id THEN c ELSE f[i]]) = Total(f) + c
    BY <2>4, TotalAdd
  <2>7. Total(Margins(q)) = Total(f) + c
    BY <2>5, <2>6
  <2> QED
    BY <2>1, <2>3, <2>7 DEF f, c
<1> QED
  BY <1>4, <1>7, <1>8 DEF q

-----------------------------------------------------------------------------
(* Closing a position, whole or in part, moves as much money as margin.      *)

LEMMA RowFacts ==
  ASSUME NEW n, MarketOK(n), NEW id \in DOMAIN n.positions
  PROVE  LET pos == n.positions[id]
         IN  /\ RowOK(pos) /\ pos.trader \in Traders /\ pos.asset \in Assets
             /\ pos.size \in Nat \ {0} /\ pos.collateral \in Nat \ {0}
             /\ pos.entry \in Nat \ {0}
BY DEF MarketOK, PositionsOK, RowOK, PositionOK

LEMMA HeldTypes ==
  ASSUME NEW n, MarketOK(n)
  PROVE  MarginHeld(n) \in Nat /\ OrdersHeld(n) \in Nat /\ n.cash \in Int /\ n.overpaid \in Nat
BY MarginHeldType, OrdersHeldType DEF MarketOK, MoneyOK

LEMMA CloseMoves ==
  ASSUME NEW n, MarketOK(n), NEW id \in DOMAIN n.positions, NEW mark \in Nat,
         NEW cum \in Int, NEW keeper_fee \in Nat, NEW skip
  PROVE  LET q == settle_isolated_close(n, id, mark, cum, keeper_fee, skip)
         IN  /\ MarketOK(q) /\ NoGrowth(n, q) /\ Surplus(q) = Surplus(n)
             /\ RowGone(n, q, id)
             /\ BookKept(n, q, skip)
<1> DEFINE pos == n.positions[id]
           net == NetPnl(pos, pos.size, mark, cum)
           a == SettleClosed(n, pos, pos.collateral, net, keeper_fee)
           b == DecreaseOi(a, pos.asset, pos.dir, pos.size, pos.entry, mark)
           c == cancel_position_orders(b, id, skip)
           q == settle_isolated_close(n, id, mark, cum, keeper_fee, skip)
<1>0. q = delete_position(c, id)
  BY DEF settle_isolated_close
<1>1. /\ RowOK(pos) /\ pos.asset \in Assets /\ pos.size \in Nat
      /\ pos.collateral \in Nat /\ pos.entry \in Nat \ {0}
  BY RowFacts
<1> HIDE DEF pos
<1>2. net \in Int
  BY <1>1, NetPnlType
<1> HIDE DEF net
<1>3. /\ MarketOK(a) /\ SamePositions(n, a) /\ SameOrders(n, a) /\ NoGrowth(n, a)
      /\ a.cash = n.cash - pos.collateral /\ a.overpaid = n.overpaid
  BY <1>1, <1>2, SettleClosedMoves
<1> HIDE DEF a
<1>4. /\ MarketOK(b) /\ SamePositions(a, b) /\ SameOrders(a, b) /\ NoGrowth(a, b)
      /\ b.cash = a.cash /\ b.overpaid = a.overpaid
  BY <1>1, <1>3, DecreaseOiMoves
<1> HIDE DEF b
<1>5. /\ BookOnly(b, c) /\ MarketOK(c) /\ NoGrowth(b, c)
      /\ OrdersHeld(c) = OrdersHeld(b) /\ MarginHeld(c) = MarginHeld(b)
      /\ BookKept(b, c, skip)
  BY <1>4, CancelAttached
<1> HIDE DEF c
<1>6. c.positions = n.positions
  BY <1>3, <1>4, <1>5 DEF SamePositions, BookOnly
<1>7. /\ RowsOnly(c, q) /\ MarketOK(q) /\ NoGrowth(c, q) /\ OrdersHeld(q) = OrdersHeld(c)
      /\ MarginHeld(q) = MarginHeld(c) - pos.collateral
      /\ RowGone(n, q, id)
  BY <1>0, <1>5, <1>6, DeleteMoves DEF pos, RowGone
<1> HIDE DEF q
<1>8. NoGrowth(n, q)
  <2>1. BooksOK(n) /\ BooksOK(a) /\ BooksOK(b) /\ BooksOK(c) /\ BooksOK(q)
    BY <1>3, <1>4, <1>5, <1>7 DEF MarketOK
  <2>2. NoGrowth(n, b)
    BY <1>3, <1>4, <2>1, NoGrowthTransitive
  <2>3. NoGrowth(n, c)
    BY <1>5, <2>1, <2>2, NoGrowthTransitive
  <2> QED
    BY <1>7, <2>1, <2>3, NoGrowthTransitive
<1>9. MarginHeld(b) = MarginHeld(n) /\ OrdersHeld(b) = OrdersHeld(n) /\ b.orders = n.orders
  BY <1>3, <1>4, SameKeeps DEF MarketOK, SameOrders
<1>10. q.cash = n.cash - pos.collateral /\ q.overpaid = n.overpaid /\ q.orders = c.orders
  BY <1>3, <1>4, <1>5, <1>7 DEF BookOnly, RowsOnly, SameMoney, SameOrders
<1>11. Surplus(q) = Surplus(n)
  <2>1. /\ MarginHeld(n) \in Nat /\ OrdersHeld(n) \in Nat /\ n.cash \in Int /\ n.overpaid \in Nat
    BY HeldTypes
  <2> QED
    BY <1>1, <1>5, <1>7, <1>9, <1>10, <2>1 DEF Surplus
<1>12. BookKept(n, q, skip)
  BY <1>5, <1>9, <1>10 DEF BookKept
<1> QED
  BY <1>7, <1>8, <1>11, <1>12 DEF q

LEMMA PartialMoves ==
  ASSUME NEW n, MarketOK(n), NEW id \in DOMAIN n.positions, NEW mark \in Nat,
         NEW cum \in Int, NEW keeper_fee \in Nat, NEW close_size \in Nat,
         close_size < n.positions[id].size,
         n.positions[id].collateral - CollateralClosed(n.positions[id], close_size) > 0
  PROVE  LET q == settle_partial_close(n, id, mark, cum, close_size, keeper_fee)
         IN  /\ MarketOK(q) /\ NoGrowth(n, q) /\ Surplus(q) = Surplus(n)
             /\ q.orders = n.orders
<1> DEFINE pos == n.positions[id]
           part == CollateralClosed(pos, close_size)
           net == NetPnl(pos, close_size, mark, cum)
           a == SettleClosed(n, pos, part, net, keeper_fee)
           b == DecreaseOi(a, pos.asset, pos.dir, close_size, pos.entry, mark)
           row == [pos EXCEPT !.size = pos.size - close_size,
                              !.collateral = pos.collateral - part]
           q == settle_partial_close(n, id, mark, cum, close_size, keeper_fee)
<1>0. q = [b EXCEPT !.positions = [n.positions EXCEPT ![id] = row]]
  BY DEF settle_partial_close
<1>1. /\ RowOK(pos) /\ pos.asset \in Assets /\ pos.size \in Nat
      /\ pos.collateral \in Nat /\ pos.entry \in Nat \ {0} /\ close_size < pos.size
  BY RowFacts
<1>2. part \in Nat /\ part < pos.collateral
  BY <1>1, CollateralClosedRange
<1> HIDE DEF pos, part
<1>3. net \in Int
  BY <1>1, NetPnlType
<1> HIDE DEF net
<1>4. /\ MarketOK(a) /\ SamePositions(n, a) /\ SameOrders(n, a) /\ NoGrowth(n, a)
      /\ a.cash = n.cash - part /\ a.overpaid = n.overpaid
  BY <1>1, <1>2, <1>3, SettleClosedMoves
<1> HIDE DEF a
<1>5. /\ MarketOK(b) /\ SamePositions(a, b) /\ SameOrders(a, b) /\ NoGrowth(a, b)
      /\ b.cash = a.cash /\ b.overpaid = a.overpaid
  BY <1>1, <1>4, DecreaseOiMoves
<1> HIDE DEF b
<1>6. RowOK(row) /\ row.trader = pos.trader /\ row.collateral = pos.collateral - part
  BY <1>1, <1>2 DEF RowOK, PositionOK, PositionFields
<1> HIDE DEF row
<1>7. b.positions = n.positions
  BY <1>4, <1>5 DEF SamePositions
<1>8. /\ RowsOnly(b, q) /\ MarketOK(q) /\ NoGrowth(b, q) /\ OrdersHeld(q) = OrdersHeld(b)
      /\ MarginHeld(q) = MarginHeld(b) - pos.collateral + row.collateral
  <2>1. q = WithRow(b, id, row)
    BY <1>0, <1>7 DEF WithRow
  <2>2. id \in DOMAIN b.positions /\ b.positions[id] = pos
    BY <1>7 DEF pos
  <2> HIDE DEF q
  <2> QED
    BY <1>5, <1>6, <2>1, <2>2, RowReplaced
<1> HIDE DEF q
<1>9. NoGrowth(n, q)
  <2>1. BooksOK(n) /\ BooksOK(a) /\ BooksOK(b) /\ BooksOK(q)
    BY <1>4, <1>5, <1>8 DEF MarketOK
  <2>2. NoGrowth(n, b)
    BY <1>4, <1>5, <2>1, NoGrowthTransitive
  <2> QED
    BY <1>8, <2>1, <2>2, NoGrowthTransitive
<1>10. MarginHeld(b) = MarginHeld(n) /\ OrdersHeld(b) = OrdersHeld(n) /\ q.orders = n.orders
  BY <1>4, <1>5, <1>8, SameKeeps DEF MarketOK, SameOrders, RowsOnly
<1>11. q.cash = n.cash - part /\ q.overpaid = n.overpaid
  BY <1>4, <1>5, <1>8 DEF RowsOnly, SameMoney
<1>12. Surplus(q) = Surplus(n)
  <2>1. MarginHeld(n) \in Nat /\ OrdersHeld(n) \in Nat /\ n.cash \in Int /\ n.overpaid \in Nat
    BY HeldTypes
  <2> QED
    BY <1>1, <1>2, <1>6, <1>8, <1>10, <1>11, <2>1 DEF Surplus
<1> QED
  BY <1>8, <1>9, <1>10, <1>12 DEF q

-----------------------------------------------------------------------------
(* Opening a position. *)

(* Open interest grows in one asset at most. *)
GrowthIn(n, q, a) ==
  \A x \in Assets \ {a} : OpenInterestOf(q, x) <= OpenInterestOf(n, x)

LEMMA IncreaseOiMoves ==
  ASSUME NEW n, MarketOK(n), NEW asset \in Assets, NEW dir, NEW size \in Nat,
         NEW entry \in Nat \ {0}
  PROVE  LET q == IncreaseOi(n, asset, dir, size, entry)
         IN  /\ MarketOK(q) /\ SamePositions(n, q) /\ SameOrders(n, q)
             /\ GrowthIn(n, q, asset)
             /\ q.cash = n.cash /\ q.overpaid = n.overpaid
<1> DEFINE k == KDelta(size, entry)
           e == Grown(n.exposure[asset], dir, size, k)
           pnl == exposure_upnl(e, entry)
           exposure == [n.exposure EXCEPT ![asset] = e]
           pool == sync_exposure(n.pool, asset, pnl, 0)
           long == IF dir = "Long" THEN n.total_long + size ELSE n.total_long
           short == IF dir = "Short" THEN n.total_short + size ELSE n.total_short
           q == IncreaseOi(n, asset, dir, size, entry)
<1>0. /\ BooksOK(n) /\ PoolInv(n.pool) /\ n.cash \in Int /\ n.overpaid \in Nat
  BY DEF MarketOK, MoneyOK
<1>1. k \in Nat
  BY KDeltaType
<1>2. /\ DOMAIN e = ExposureFields
      /\ e.lk \in Nat /\ e.ls \in Nat /\ e.sk \in Nat /\ e.ss \in Nat
  BY <1>0, <1>1 DEF BooksOK, ExposureFields, Grown
<1> HIDE DEF e
<1>3. pnl \in Int
  BY <1>2, ExposureUpnlType
<1>4. PoolInv(pool)
  BY <1>0, <1>3, SyncKeeps
<1>5. long \in Nat /\ short \in Nat
  BY <1>0 DEF BooksOK
<1>6. q = [[n EXCEPT !.total_long = long, !.total_short = short] EXCEPT
             !.exposure = exposure, !.pool = pool]
  BY <1>0 DEF IncreaseOi, WithExposure, MarketOK, MoneyOK, MarketFields, e
<1> HIDE DEF k, pnl, pool, long, short, q
<1>7. /\ DOMAIN q = MarketFields /\ q.pool = pool /\ q.cash = n.cash
      /\ q.overpaid = n.overpaid /\ q.exposure = exposure /\ q.adl = n.adl
      /\ q.total_long = long /\ q.total_short = short
      /\ SamePositions(n, q) /\ SameOrders(n, q)
  BY <1>6 DEF MarketOK, MoneyOK, MarketFields, SamePositions, SameOrders
<1>8. MoneyOK(q)
  BY <1>0, <1>4, <1>7 DEF MoneyOK
<1>9. BooksOK(q) /\ GrowthIn(n, q, asset)
  BY <1>0, <1>2, <1>5, <1>7 DEF BooksOK, GrowthIn, OpenInterestOf
<1> QED
  BY <1>7, <1>8, <1>9, SameKeeps DEF MarketOK, q

(* The trading fee leaves with the row's collateral already reduced by it.   *)
LEMMA OpenMoves ==
  ASSUME NEW n, MarketOK(n), NEW pos, RowOK(pos), NEW fee \in Nat, NEW payout \in Nat
  PROVE  LET q == finalize_open(n, pos, fee, payout)
         IN  /\ MarketOK(q) /\ GrowthIn(n, q, pos.asset) /\ q.orders = n.orders
             /\ Surplus(q) = Surplus(n) - fee - pos.collateral
<1> DEFINE a == StorePosition(n, pos)
           b == IncreaseOi(a, pos.asset, pos.dir, pos.size, pos.entry)
           cut == BpsOf(fee, Config.protocol_fee_bps)
           rest == cut - Least(payout, cut)
           routed == IF rest > 0
                       THEN route_protocol_fee(TransferIn(b.pool, rest), VaultConfig, rest)
                       ELSE b.pool
           pool == credit_vault_receipt(TransferIn(routed, fee - cut), fee - cut)
           q == finalize_open(n, pos, fee, payout)
<1>1. /\ pos.asset \in Assets /\ pos.size \in Nat /\ pos.collateral \in Nat
      /\ pos.entry \in Nat \ {0}
  BY DEF RowOK, PositionOK
<1>2. /\ RowsOnly(n, a) /\ MarketOK(a) /\ NoGrowth(n, a) /\ OrdersHeld(a) = OrdersHeld(n)
      /\ MarginHeld(a) = MarginHeld(n) + pos.collateral
  BY StoreMoves
<1> HIDE DEF a
<1>3. /\ MarketOK(b) /\ SamePositions(a, b) /\ SameOrders(a, b) /\ GrowthIn(a, b, pos.asset)
      /\ b.cash = a.cash /\ b.overpaid = a.overpaid
  BY <1>1, <1>2, IncreaseOiMoves
<1>4. cut \in Nat /\ cut <= fee
  BY FeeValues, BpsOfRange
<1>5. rest \in Nat
  BY <1>4 DEF Least
<1>6. PoolInv(b.pool) /\ b.cash \in Int /\ b.overpaid \in Nat
  BY <1>3 DEF MarketOK, MoneyOK
<1>7. q = [b EXCEPT !.pool = pool, !.cash = b.cash - fee]
  BY <1>3 DEF finalize_open, MarketOK, MoneyOK, MarketFields, a
<1> HIDE DEF b, cut, rest
<1>8. PoolInv(routed)
  BY <1>5, <1>6, RouteFeeKeeps, MarketAssumption
<1>9. PoolInv(pool)
  <2>1. fee - cut \in Nat
    BY <1>4
  <2> HIDE DEF routed
  <2>2. PoolInv(TransferIn(routed, fee - cut))
    BY <1>8, <2>1, ArrivalKeeps
  <2> QED
    BY <2>1, <2>2, CreditKeeps
<1> HIDE DEF pool, q
<1>10. MoneyOnly(b, q) /\ q.pool = pool /\ q.cash = b.cash - fee /\ q.overpaid = b.overpaid
  BY <1>3, <1>7 DEF MarketOK, MoneyOK, MarketFields, MoneyOnly, SamePositions, SameOrders,
     SameBooks
<1>11. /\ MarketOK(q) /\ SameBooks(b, q) /\ SameOrders(b, q)
       /\ MarginHeld(q) = MarginHeld(b) /\ OrdersHeld(q) = OrdersHeld(b)
  BY <1>3, <1>6, <1>9, <1>10, MoneyOnlyKeeps DEF MoneyOnly
<1>12. GrowthIn(n, q, pos.asset)
  <2>1. BooksOK(n) /\ BooksOK(a) /\ BooksOK(b) /\ BooksOK(q)
    BY <1>2, <1>3, <1>11 DEF MarketOK
  <2>2. \A x \in Assets : OpenInterestOf(a, x) \in Nat /\ OpenInterestOf(b, x) \in Nat
                          /\ OpenInterestOf(n, x) \in Nat
    BY <2>1 DEF BooksOK, OpenInterestOf
  <2>3. \A x \in Assets : OpenInterestOf(q, x) = OpenInterestOf(b, x)
    BY <1>11 DEF SameBooks, OpenInterestOf
  <2>4. \A x \in Assets \ {pos.asset} :
          /\ OpenInterestOf(a, x) <= OpenInterestOf(n, x)
          /\ OpenInterestOf(b, x) <= OpenInterestOf(a, x)
    BY <1>2, <1>3 DEF NoGrowth, GrowthIn
  <2> QED
    BY <2>2, <2>3, <2>4 DEF GrowthIn
<1>13. /\ MarginHeld(q) = MarginHeld(n) + pos.collateral /\ OrdersHeld(q) = OrdersHeld(n)
       /\ q.orders = n.orders /\ q.cash = n.cash - fee /\ q.overpaid = n.overpaid
  BY <1>2, <1>3, <1>10, <1>11, SameKeeps DEF MarketOK, SameOrders, RowsOnly, SameMoney
<1>14. Surplus(q) = Surplus(n) - fee - pos.collateral
  <2>1. /\ MarginHeld(n) \in Nat /\ OrdersHeld(n) \in Nat /\ n.cash \in Int /\ n.overpaid \in Nat
    BY HeldTypes
  <2> QED
    BY <1>1, <1>13, <2>1 DEF Surplus
<1> QED
  BY <1>11, <1>12, <1>13, <1>14 DEF q

-----------------------------------------------------------------------------
(* Placing and withdrawing orders. *)

(* Entry orders carry an amount to open with. *)
EntryFunded(order) ==
  order.type \in EntryTypes => order.collateral > 0 /\ order.leverage > 0

(* What the rows of the order book hold. *)
Holds(n) == [o \in DOMAIN n.orders |-> HeldBy(n.orders[o])]

LEMMA HoldsType ==
  ASSUME NEW n, OrdersOK(n)
  PROVE  /\ IsFiniteSet(DOMAIN n.orders) /\ Holds(n) \in [DOMAIN n.orders -> Nat]
         /\ OrdersHeld(n) = Total(Holds(n))
<1>1. \A o \in DOMAIN n.orders : n.orders[o] \in OrderRows
  BY DEF OrdersOK
<1>2. Holds(n) \in [DOMAIN n.orders -> Nat]
  BY <1>1, HeldByType DEF Holds
<1> QED
  BY <1>2, OrdersFinite DEF OrdersHeld, HeldBy, Holds

(* A row more. *)
LEMMA HoldsExtended ==
  ASSUME NEW n, OrdersOK(n), NEW q, OrdersOK(q), NEW x, x \notin DOMAIN n.orders,
         DOMAIN q.orders = DOMAIN n.orders \cup {x},
         \A o \in DOMAIN n.orders : q.orders[o] = n.orders[o]
  PROVE  OrdersHeld(q) = OrdersHeld(n) + HeldBy(q.orders[x])
<1> DEFINE S == DOMAIN n.orders
           f == Holds(n)
           g == Holds(q)
<1>1. /\ IsFiniteSet(S) /\ f \in [S -> Nat] /\ g \in [S \cup {x} -> Nat]
      /\ OrdersHeld(n) = Total(f) /\ OrdersHeld(q) = Total(g)
  BY HoldsType
<1>2. (\A o \in S : g[o] = f[o]) /\ g[x] = HeldBy(q.orders[x])
  BY DEF Holds
<1> HIDE DEF S, f, g
<1>3. Total(g) = Total(f) + g[x]
  BY <1>1, <1>2, TotalExtended DEF S
<1> QED
  BY <1>1, <1>2, <1>3

(* A new row of the order book adds what it holds to what is owed. *)
LEMMA AppendMoves ==
  ASSUME NEW n, MarketOK(n), NEW order \in OrderRows, EntryFunded(order),
         NEW q, BookOnly(n, q), q.links = n.links, q.orders = Append(n.orders, order)
  PROVE  /\ MarketOK(q) /\ NoGrowth(n, q) /\ MarginHeld(q) = MarginHeld(n)
         /\ OrdersHeld(q) = OrdersHeld(n) + HeldBy(order)
         /\ DOMAIN q.orders = DOMAIN n.orders \cup {Len(n.orders) + 1}
         /\ q.orders[Len(n.orders) + 1] = order
         /\ \A i \in DOMAIN n.orders : q.orders[i] = n.orders[i]
<1> DEFINE id == Len(n.orders) + 1
           S == DOMAIN n.orders
<1>1. n.orders \in Seq(OrderRows) /\ Len(n.orders) \in Nat /\ S = 1..Len(n.orders)
  BY DEF MarketOK, OrdersOK
<1>2. /\ q.orders \in Seq(OrderRows) /\ DOMAIN q.orders = 1..id
      /\ q.orders[id] = order /\ \A i \in S : q.orders[i] = n.orders[i]
  BY <1>1
<1>3. id \notin S /\ DOMAIN q.orders = S \cup {id}
  <2>1. \A k \in Nat : (k + 1) \notin 1..k /\ 1..(k + 1) = (1..k) \cup {k + 1}
    OBVIOUS
  <2>2. id \notin 1..Len(n.orders) /\ 1..id = (1..Len(n.orders)) \cup {id}
    BY <1>1, <2>1
  <2> HIDE DEF S, id
  <2> QED
    BY <1>1, <1>2, <2>2
<1>4. OrdersOK(q)
  <2>1. \A i \in S : n.orders[i].type \in EntryTypes =>
          n.orders[i].collateral > 0 /\ n.orders[i].leverage > 0
    BY DEF MarketOK, OrdersOK
  <2>2. \A l \in n.links : l[3] \in S /\ n.orders[l[3]].type \in CloseTypes
    BY DEF MarketOK, OrdersOK
  <2> HIDE DEF id, S
  <2> QED
    BY <1>2, <1>3, <2>1, <2>2 DEF OrdersOK, EntryFunded
<1>5. OrdersOK(n)
  BY DEF MarketOK
<1> HIDE DEF id
<1>6. OrdersHeld(q) = OrdersHeld(n) + HeldBy(order)
  BY <1>2, <1>3, <1>4, <1>5, HoldsExtended
<1>7. MarketOK(q) /\ NoGrowth(n, q) /\ MarginHeld(q) = MarginHeld(n)
  BY <1>4, BookOnlyKeeps
<1> QED
  BY <1>2, <1>3, <1>6, <1>7 DEF id

(* save_order: the counters move with the row. *)
LEMMA StoreOrderBook ==
  ASSUME NEW n, MarketOK(n), NEW order
  PROVE  LET q == StoreOrder(n, order)
         IN  BookOnly(n, q) /\ q.links = n.links /\ q.orders = Append(n.orders, order)
<1> DEFINE of == [n.orders_of EXCEPT ![order.trader] = n.orders_of[order.trader] + 1]
           rows == Append(n.orders, order)
           q == StoreOrder(n, order)
<1>1. q = [n EXCEPT !.orders = rows, !.open_orders = n.open_orders + 1, !.orders_of = of]
  BY DEF StoreOrder, MarketOK, MoneyOK, MarketFields
<1> HIDE DEF of, rows, q
<1>2. BookOnly(n, q) /\ q.links = n.links /\ q.orders = rows
  BY <1>1 DEF BookOnly, MarketOK, MoneyOK, MarketFields, SameMoney, SamePositions, SameBooks
<1> QED
  BY <1>2 DEF q, rows

(* A link to a close order. *)
LEMMA LinkAdded ==
  ASSUME NEW n, MarketOK(n), NEW o \in DOMAIN n.orders, n.orders[o].type \in CloseTypes,
         NEW links, \A l \in links : l \in n.links \/ l[3] = o,
         NEW q, q = [n EXCEPT !.links = links]
  PROVE  BookOnly(n, q) /\ MarketOK(q) /\ q.orders = n.orders /\ OrdersHeld(q) = OrdersHeld(n)
<1>1. BookOnly(n, q) /\ q.orders = n.orders /\ q.links = links
  BY DEF BookOnly, MarketOK, MoneyOK, MarketFields, SameMoney, SamePositions, SameBooks
<1>2. OrdersOK(q) /\ OrdersHeld(q) = OrdersHeld(n)
  BY <1>1 DEF MarketOK, OrdersOK, OrdersHeld
<1> QED
  BY <1>1, <1>2, BookOnlyKeeps

LEMMA PeakBook ==
  ASSUME NEW n, MarketOK(n), NEW o, NEW price
  PROVE  LET q == WithPeak(n, o, price)
         IN  BookOnly(n, q) /\ MarketOK(q) /\ SameOrders(n, q) /\ OrdersHeld(q) = OrdersHeld(n)
<1> DEFINE peaks == [i \in DOMAIN n.peaks \cup {o} |-> IF i = o THEN price ELSE n.peaks[i]]
           q == WithPeak(n, o, price)
<1>1. q = [n EXCEPT !.peaks = peaks]
  BY DEF WithPeak
<1> HIDE DEF peaks, q
<1>2. BookOnly(n, q) /\ SameOrders(n, q)
  BY <1>1 DEF BookOnly, MarketOK, MoneyOK, MarketFields, SameMoney, SamePositions, SameBooks,
     SameOrders
<1> QED
  BY <1>2, SameKeeps, BookOnlyKeeps DEF q, MarketOK

LEMMA DropLinkBook ==
  ASSUME NEW n, MarketOK(n), NEW type, NEW id
  PROVE  LET q == DropLink(n, type, id)
         IN  BookOnly(n, q) /\ MarketOK(q) /\ q.orders = n.orders /\ OrdersHeld(q) = OrdersHeld(n)
<1> DEFINE links == {l \in n.links : ~(l[1] = type /\ l[2] = id)}
           q == DropLink(n, type, id)
<1>1. q = [n EXCEPT !.links = links] /\ links \in SUBSET n.links
  BY DEF DropLink
<1> HIDE DEF links, q
<1> QED
  BY <1>1, FewerLinks DEF q

(* An amount that enters or leaves the market's balance. *)
LEMMA CashMoves ==
  ASSUME NEW n, MarketOK(n), NEW cash \in Int, NEW q, q = [n EXCEPT !.cash = cash]
  PROVE  /\ MoneyOnly(n, q) /\ MarketOK(q) /\ NoGrowth(n, q)
         /\ q.cash = cash /\ q.overpaid = n.overpaid /\ q.pool = n.pool
         /\ MarginHeld(q) = MarginHeld(n) /\ OrdersHeld(q) = OrdersHeld(n)
         /\ q.orders = n.orders /\ q.positions = n.positions
         /\ q.position_counter = n.position_counter
<1>1. MoneyOnly(n, q) /\ q.cash = cash /\ q.overpaid = n.overpaid /\ q.pool = n.pool
  BY DEF MarketOK, MoneyOK, MarketFields, MoneyOnly, SamePositions, SameOrders, SameBooks
<1>2. PoolInv(q.pool) /\ q.cash \in Int /\ q.overpaid \in Nat
  BY <1>1 DEF MarketOK, MoneyOK
<1> QED
  BY <1>1, <1>2, MoneyOnlyKeeps DEF MoneyOnly, SameOrders, SamePositions

(* A stored entry order is funded by the collateral it holds. *)
LEMMA PlacedEntry ==
  ASSUME NEW n, MarketOK(n), NEW order \in OrderRows, EntryFunded(order),
         order.type \in EntryTypes, order.status = "Pending",
         NEW collateral, collateral = order.collateral
  PROVE  LET q == StoreOrder([n EXCEPT !.cash = @ + collateral], order)
         IN  MarketOK(q) /\ NoGrowth(n, q) /\ Surplus(q) = Surplus(n)
<1> DEFINE cash == n.cash + collateral
           a == [n EXCEPT !.cash = cash]
           q == StoreOrder([n EXCEPT !.cash = @ + collateral], order)
<1>1. collateral \in Nat /\ n.cash \in Int
  BY DEF OrderRows, MarketOK, MoneyOK
<1>2. q = StoreOrder(a, order)
  BY DEF MarketOK, MoneyOK, MarketFields
<1>3. cash \in Int
  BY <1>1
<1>4. /\ MarketOK(a) /\ NoGrowth(n, a) /\ a.cash = cash /\ a.overpaid = n.overpaid
      /\ MarginHeld(a) = MarginHeld(n) /\ OrdersHeld(a) = OrdersHeld(n)
  BY <1>3, CashMoves
<1> HIDE DEF a, q
<1>5. BookOnly(a, q) /\ q.links = a.links /\ q.orders = Append(a.orders, order)
  BY <1>2, <1>4, StoreOrderBook
<1>6. /\ MarketOK(q) /\ NoGrowth(a, q) /\ MarginHeld(q) = MarginHeld(a)
      /\ OrdersHeld(q) = OrdersHeld(a) + HeldBy(order)
  BY <1>4, <1>5, AppendMoves
<1>7. HeldBy(order) = collateral
  BY DEF HeldBy, Refund
<1>8. q.cash = n.cash + collateral /\ q.overpaid = n.overpaid
  BY <1>4, <1>5 DEF BookOnly, SameMoney
<1>9. MarginHeld(n) \in Nat /\ OrdersHeld(n) \in Nat /\ n.overpaid \in Nat
  BY HeldTypes
<1>10. Surplus(q) = Surplus(n)
  BY <1>1, <1>4, <1>6, <1>7, <1>8, <1>9 DEF Surplus
<1>11. NoGrowth(n, q)
  BY <1>4, <1>6, NoGrowthTransitive DEF MarketOK
<1> QED
  BY <1>6, <1>10, <1>11 DEF q

(* Ending an order leaves what it held as surplus. *)
LEMMA FinishOrder ==
  ASSUME NEW n, MarketOK(n), NEW o \in DOMAIN n.orders, NEW status \in FinalStatuses
  PROVE  LET q == update_order_status(n, {o}, status)
         IN  /\ MarketOK(q) /\ NoGrowth(n, q) /\ SameBooks(n, q)
             /\ Surplus(q) = Surplus(n) + HeldBy(n.orders[o])
             /\ DOMAIN q.orders = DOMAIN n.orders /\ HeldBy(q.orders[o]) = 0
             /\ q.cash = n.cash
<1> DEFINE q == update_order_status(n, {o}, status)
<1>1. /\ BookOnly(n, q) /\ MarketOK(q)
      /\ q.orders = [i \in DOMAIN n.orders |->
                       IF i \in {o} THEN [n.orders[i] EXCEPT !.status = status]
                                    ELSE n.orders[i]]
  BY UpdateStatus
<1>2. OrdersHeld(q) = OrdersHeld(n) - HeldBy(n.orders[o])
  BY UpdateOne
<1> HIDE DEF q
<1>3. NoGrowth(n, q) /\ MarginHeld(q) = MarginHeld(n)
  BY <1>1, BookOnlyKeeps DEF MarketOK
<1>4. n.orders[o] \in OrderRows
  BY DEF MarketOK, OrdersOK
<1>5. q.orders[o].status = status /\ DOMAIN q.orders = DOMAIN n.orders
  BY <1>1, <1>4 DEF OrderRows
<1>6. HeldBy(q.orders[o]) = 0
  BY <1>5 DEF HeldBy, FinalStatuses
<1>7. q.cash = n.cash /\ q.overpaid = n.overpaid /\ SameBooks(n, q)
  BY <1>1 DEF BookOnly, SameMoney
<1>8. /\ MarginHeld(n) \in Nat /\ OrdersHeld(n) \in Nat /\ n.cash \in Int
      /\ n.overpaid \in Nat /\ HeldBy(n.orders[o]) \in Nat
  BY <1>4, HeldTypes, HeldByType
<1>9. Surplus(q) = Surplus(n) + HeldBy(n.orders[o])
  BY <1>2, <1>3, <1>7, <1>8 DEF Surplus
<1> QED
  BY <1>1, <1>3, <1>5, <1>6, <1>7, <1>9 DEF q

(* A cancelled order takes its refund with it. *)
LEMMA WithdrawMoves ==
  ASSUME MarketOK(m), NEW o \in DOMAIN m.orders, NEW status \in FinalStatuses,
         m.orders[o].status = "Pending"
  PROVE  LET q == WithdrawnOrder(o, status)
         IN  /\ MarketOK(q) /\ NoGrowth(m, q) /\ Surplus(q) = Surplus(m)
             /\ DOMAIN q.orders = DOMAIN m.orders /\ HeldBy(q.orders[o]) = 0
<1> DEFINE order == m.orders[o]
           a == IF order.type = "TrailingStop" THEN DropPeaks(m, {o}) ELSE m
           b == IF order.type \in CloseTypes THEN DropLink(a, order.type, order.position_id)
                                             ELSE a
           c == update_order_status(b, {o}, status)
           cash == c.cash - Refund(order)
           q == WithdrawnOrder(o, status)
<1>1. order \in OrderRows
  BY DEF MarketOK, OrdersOK
<1>2. /\ SameMoney(m, a) /\ SamePositions(m, a) /\ SameBooks(m, a) /\ MarketOK(a)
      /\ a.orders = m.orders /\ OrdersHeld(a) = OrdersHeld(m)
  <2>1. CASE order.type = "TrailingStop"
    BY <2>1, DropPeaksBook DEF BookOnly, SameOrders
  <2>2. CASE order.type # "TrailingStop"
    BY <2>2 DEF SameMoney, SamePositions, SameBooks
  <2> QED
    BY <2>1, <2>2
<1> HIDE DEF a
<1>3. /\ SameMoney(m, b) /\ SamePositions(m, b) /\ SameBooks(m, b) /\ MarketOK(b)
      /\ b.orders = m.orders /\ OrdersHeld(b) = OrdersHeld(m)
  <2>1. CASE order.type \in CloseTypes
    <3>1. /\ BookOnly(a, b) /\ MarketOK(b) /\ b.orders = a.orders
          /\ OrdersHeld(b) = OrdersHeld(a)
      BY <1>2, <2>1, DropLinkBook
    <3> QED
      BY <1>2, <3>1 DEF BookOnly, SameMoney, SamePositions, SameBooks
  <2>2. CASE order.type \notin CloseTypes
    BY <1>2, <2>2
  <2> QED
    BY <2>1, <2>2
<1>4. q = [c EXCEPT !.cash = cash]
  <2>1. q = [c EXCEPT !.cash = @ - Refund(order)]
    BY DEF WithdrawnOrder, a
  <2>2. DOMAIN c = MarketFields
    BY <1>3, FinishOrder DEF MarketOK, MoneyOK
  <2> HIDE DEF c
  <2> QED
    BY <2>1, <2>2 DEF MarketFields
<1> HIDE DEF b
<1>5. /\ MarketOK(c) /\ NoGrowth(b, c) /\ Surplus(c) = Surplus(b) + HeldBy(b.orders[o])
      /\ DOMAIN c.orders = DOMAIN b.orders /\ HeldBy(c.orders[o]) = 0
  BY <1>3, FinishOrder
<1>6. HeldBy(b.orders[o]) = Refund(order) /\ Refund(order) \in Nat
  BY <1>1, <1>3, HeldByType DEF HeldBy
<1> HIDE DEF c, q, order
<1>7. c.cash \in Int /\ c.overpaid \in Nat /\ MarginHeld(c) \in Nat /\ OrdersHeld(c) \in Nat
  BY <1>5, HeldTypes
<1>8. cash \in Int
  BY <1>6, <1>7
<1>9. /\ MarketOK(q) /\ NoGrowth(c, q) /\ q.cash = cash /\ q.overpaid = c.overpaid
      /\ MarginHeld(q) = MarginHeld(c) /\ OrdersHeld(q) = OrdersHeld(c)
      /\ q.orders = c.orders
  BY <1>4, <1>5, <1>8, CashMoves
<1>10. Surplus(q) = Surplus(c) - Refund(order)
  BY <1>6, <1>7, <1>9 DEF Surplus
<1>11. Surplus(b) = Surplus(m)
  BY <1>3, SameKeeps DEF Surplus, SameMoney, MarketOK
<1>12. Surplus(m) \in Int
  BY HeldTypes DEF Surplus
<1>13. NoGrowth(m, q)
  <2>1. NoGrowth(m, b)
    BY <1>3, SameKeeps DEF MarketOK
  <2> QED
    BY <1>3, <1>5, <1>9, <2>1, NoGrowthTransitive DEF MarketOK
<1> QED
  BY <1>3, <1>5, <1>6, <1>9, <1>10, <1>11, <1>12, <1>13 DEF q

-----------------------------------------------------------------------------
(* Liquidation. *)

(* A tranche takes part of the collateral, and leaves some behind. *)
LEMMA TrancheValues ==
  ASSUME NEW pos, RowOK(pos), NEW net \in Int, TakesTranche(pos, net)
  PROVE  /\ TrancheSize(pos) \in Nat /\ pos.size - TrancheSize(pos) \in Nat \ {0}
         /\ TrancheDebit(pos, net) \in Nat /\ TranchePenalty(pos, net) \in Nat
         /\ TrancheLeft(pos, net) \in Nat \ {0}
         /\ TrancheLeft(pos, net)
              = pos.collateral - TrancheDebit(pos, net) - TranchePenalty(pos, net)
<1>1. pos.size \in Nat /\ pos.collateral \in Nat /\ pos.collateral + net > 0
  BY DEF RowOK, PositionOK, TakesTranche
<1>2. TrancheSize(pos) \in Nat /\ TrancheSize(pos) <= pos.size
  BY <1>1, LiquidationValues, BpsOfRange DEF TrancheSize
<1>3. Floor0(-net) \in Nat
  BY DEF Floor0
<1>4. BpsOf(Floor0(-net), Config.partial_liq_tranche_bps) \in Nat
  BY <1>3, LiquidationValues, BpsOfRange
<1>5. TrancheDebit(pos, net) \in Nat /\ TrancheDebit(pos, net) <= pos.collateral
  BY <1>1, <1>4 DEF TrancheDebit, Least
<1>6. BpsOf(TrancheSize(pos), Config.liquidation_penalty_bps) \in Nat
  BY <1>2, LiquidationValues, BpsOfRange
<1>7. BpsOf(pos.collateral + net, Config.partial_liq_tranche_bps) \in Nat
  <2>1. pos.collateral + net \in Nat
    BY <1>1
  <2> QED
    BY <2>1, LiquidationValues, BpsOfRange
<1>8. TranchePenalty(pos, net) \in Nat
  BY <1>1, <1>5, <1>6, <1>7 DEF TranchePenalty, Least, Floor0
<1>9. pos.size - TrancheSize(pos) > 0 /\ TrancheLeft(pos, net) > 0
  BY DEF TakesTranche
<1> QED
  BY <1>1, <1>2, <1>5, <1>8, <1>9 DEF TrancheLeft

LEMMA TrancheMoves ==
  ASSUME NEW n, MarketOK(n), NEW id \in DOMAIN n.positions, NEW mark \in Nat,
         NEW cum \in Int, NEW mm_bps \in Nat, NEW time \in Nat,
         TakesTranche(n.positions[id], NetPnl(n.positions[id], n.positions[id].size, mark, cum))
  PROVE  LET q == LiquidateTranche(n, id, mark, cum, mm_bps, time)
         IN  MarketOK(q) /\ NoGrowth(n, q) /\ Surplus(q) = Surplus(n)
<1> DEFINE pos == n.positions[id]
           net == NetPnl(pos, pos.size, mark, cum)
           debit == TrancheDebit(pos, net)
           penalty == TranchePenalty(pos, net)
           reward == BpsOf(penalty, Config.penalty_keeper_share_bps)
           to_buffer == penalty - reward
           received == credit_vault_receipt(TransferIn(n.pool, debit + to_buffer), debit)
           pool == fund_vault_buffer(received, to_buffer)
           cash == n.cash - (debit + to_buffer) - reward
           a == [n EXCEPT !.pool = pool, !.cash = cash]
           tranche == TrancheSize(pos)
           size == pos.size - tranche
           left == TrancheLeft(pos, net)
           liq == liquidation_price_from_ratio(pos.entry, left, size, pos.dir, mm_bps)
           b == DecreaseOi(a, pos.asset, pos.dir, tranche, pos.entry, mark)
           row == [pos EXCEPT !.size = size, !.collateral = left, !.liq = liq,
                              !.partial_liq_ts = time]
           q == LiquidateTranche(n, id, mark, cum, mm_bps, time)
<1>0. q = [b EXCEPT !.positions = [n.positions EXCEPT ![id] = row]]
  <2>1. a = [n EXCEPT !.pool = pool, !.cash = @ - (debit + to_buffer) - reward]
    BY DEF MarketOK, MoneyOK, MarketFields
  <2> HIDE DEF a, pool, debit, to_buffer, reward, net, pos
  <2> QED
    BY <2>1 DEF LiquidateTranche, pool, debit, to_buffer, reward, net, pos
<1>1. /\ RowOK(pos) /\ pos.asset \in Assets /\ pos.size \in Nat \ {0}
      /\ pos.collateral \in Nat \ {0} /\ pos.entry \in Nat \ {0}
  BY RowFacts
<1> HIDE DEF pos
<1>2. net \in Int
  BY <1>1, NetPnlType
<1>3. TakesTranche(pos, net)
  BY DEF pos
<1> HIDE DEF net
<1>4. /\ tranche \in Nat /\ size \in Nat \ {0} /\ debit \in Nat /\ penalty \in Nat
      /\ left \in Nat \ {0} /\ left = pos.collateral - debit - penalty
  BY <1>1, <1>2, <1>3, TrancheValues
<1> HIDE DEF tranche, size, debit, penalty, left
<1>5. reward \in Nat /\ to_buffer \in Nat /\ reward + to_buffer = penalty
  BY <1>4, LiquidationValues, BpsOfRange
<1> HIDE DEF reward, to_buffer
<1>6. PoolInv(pool)
  <2>1. PoolInv(n.pool) /\ debit + to_buffer \in Nat
    BY <1>4, <1>5 DEF MarketOK, MoneyOK
  <2>2. PoolInv(TransferIn(n.pool, debit + to_buffer))
    BY <2>1, ArrivalKeeps
  <2>3. PoolInv(received)
    BY <1>4, <2>2, CreditKeeps
  <2> HIDE DEF received
  <2> QED
    BY <1>5, <2>3, FundKeeps
<1> HIDE DEF pool
<1>7. cash = n.cash - debit - penalty /\ cash \in Int
  BY <1>4, <1>5, HeldTypes
<1> HIDE DEF cash
<1>8. MoneyOnly(n, a) /\ a.pool = pool /\ a.cash = cash /\ a.overpaid = n.overpaid
  BY DEF MarketOK, MoneyOK, MarketFields, MoneyOnly, SamePositions, SameOrders, SameBooks
<1>9. /\ MarketOK(a) /\ NoGrowth(n, a) /\ MarginHeld(a) = MarginHeld(n)
      /\ OrdersHeld(a) = OrdersHeld(n)
  <2>1. a.overpaid \in Nat
    BY <1>8, HeldTypes
  <2> HIDE DEF a
  <2> QED
    BY <1>6, <1>7, <1>8, <2>1, MoneyOnlyKeeps
<1> HIDE DEF a
<1>10. /\ MarketOK(b) /\ SamePositions(a, b) /\ SameOrders(a, b) /\ NoGrowth(a, b)
       /\ b.cash = a.cash /\ b.overpaid = a.overpaid
  BY <1>1, <1>4, <1>9, DecreaseOiMoves
<1> HIDE DEF b
<1>11. liq \in Int
  BY <1>1, <1>4, RatioPriceType
<1> HIDE DEF liq
<1>12. RowOK(row) /\ row.trader = pos.trader /\ row.collateral = left
  BY <1>1, <1>4, <1>11 DEF RowOK, PositionOK, PositionFields
<1> HIDE DEF row
<1>13. b.positions = n.positions
  BY <1>8, <1>10 DEF MoneyOnly, SamePositions
<1>14. /\ RowsOnly(b, q) /\ MarketOK(q) /\ NoGrowth(b, q) /\ OrdersHeld(q) = OrdersHeld(b)
       /\ MarginHeld(q) = MarginHeld(b) - pos.collateral + row.collateral
  <2>1. q = WithRow(b, id, row)
    BY <1>0, <1>13 DEF WithRow
  <2>2. id \in DOMAIN b.positions /\ b.positions[id] = pos
    BY <1>13 DEF pos
  <2> HIDE DEF q
  <2> QED
    BY <1>10, <1>12, <2>1, <2>2, RowReplaced
<1> HIDE DEF q
<1>15. NoGrowth(n, q)
  <2>1. BooksOK(n) /\ BooksOK(a) /\ BooksOK(b) /\ BooksOK(q)
    BY <1>9, <1>10, <1>14 DEF MarketOK
  <2>2. NoGrowth(n, b)
    BY <1>9, <1>10, <2>1, NoGrowthTransitive
  <2> QED
    BY <1>14, <2>1, <2>2, NoGrowthTransitive
<1>16. MarginHeld(b) = MarginHeld(n) /\ OrdersHeld(b) = OrdersHeld(n)
  BY <1>9, <1>10, SameKeeps DEF MarketOK
<1>17. q.cash = n.cash - debit - penalty /\ q.overpaid = n.overpaid
  BY <1>7, <1>8, <1>10, <1>14 DEF RowsOnly, SameMoney
<1>18. Surplus(q) = Surplus(n)
  <2>1. /\ MarginHeld(n) \in Nat /\ OrdersHeld(n) \in Nat /\ n.cash \in Int /\ n.overpaid \in Nat
    BY HeldTypes
  <2> QED
    BY <1>1, <1>4, <1>12, <1>14, <1>16, <1>17, <2>1 DEF Surplus
<1> QED
  BY <1>14, <1>15, <1>18 DEF q

(* Whatever the equity, a seizure takes the position's collateral, and what  *)
(* it takes beyond is recorded as overpaid.                                  *)
LEMMA SolventMoves ==
  ASSUME NEW n, MarketOK(n), NEW pos, RowOK(pos), NEW equity \in Nat \ {0}
  PROVE  LET q == SeizeSolvent(n, pos, equity)
         IN  /\ MoneyOnly(n, q) /\ MarketOK(q) /\ NoGrowth(n, q)
             /\ q.cash + q.overpaid = n.cash + n.overpaid - pos.collateral
<1> DEFINE penalty == Least(BpsOf(pos.size, Config.liquidation_penalty_bps), equity)
           keeper_cut == BpsOf(penalty, Config.penalty_keeper_share_bps)
           buffer_cut == penalty - keeper_cut
           refund == equity - penalty
           to_vault == Floor0(pos.collateral - keeper_cut - refund)
           received == credit_vault_receipt(TransferIn(n.pool, to_vault), to_vault - buffer_cut)
           pool == IF to_vault > 0 THEN fund_vault_buffer(received, buffer_cut) ELSE n.pool
           cash == n.cash - to_vault - keeper_cut - refund
           overpaid == n.overpaid + (to_vault + keeper_cut + refund - pos.collateral)
           q == SeizeSolvent(n, pos, equity)
<1>0. q = [n EXCEPT !.pool = pool, !.cash = cash, !.overpaid = overpaid]
  BY DEF SeizeSolvent, MarketOK, MoneyOK, MarketFields
<1>1. pos.size \in Nat /\ pos.collateral \in Nat
  BY DEF RowOK, PositionOK
<1>2. penalty \in Nat /\ penalty <= equity
  <2>1. BpsOf(pos.size, Config.liquidation_penalty_bps) \in Nat
    BY <1>1, LiquidationValues, BpsOfRange
  <2> QED
    BY <2>1 DEF Least
<1> HIDE DEF penalty
<1>3. keeper_cut \in Nat /\ keeper_cut <= penalty
  BY <1>2, LiquidationValues, BpsOfRange
<1> HIDE DEF keeper_cut
<1>4. buffer_cut \in Nat /\ refund \in Nat
  BY <1>2, <1>3
<1> HIDE DEF buffer_cut, refund
<1>5. to_vault \in Nat /\ to_vault >= pos.collateral - keeper_cut - refund
  BY <1>1, <1>3, <1>4 DEF Floor0
<1> HIDE DEF to_vault
<1>6. PoolInv(pool)
  <2>1. PoolInv(TransferIn(n.pool, to_vault)) /\ PoolInv(n.pool)
    BY <1>5, ArrivalKeeps DEF MarketOK, MoneyOK
  <2>2. PoolInv(received)
    BY <1>4, <1>5, <2>1, CreditKeeps
  <2> HIDE DEF received
  <2>3. PoolInv(fund_vault_buffer(received, buffer_cut))
    BY <1>4, <2>2, FundKeeps
  <2> QED
    BY <2>1, <2>3
<1> HIDE DEF pool
<1>7. n.cash \in Int /\ n.overpaid \in Nat
  BY HeldTypes
<1>8. /\ cash \in Int /\ overpaid \in Nat
      /\ cash + overpaid = n.cash + n.overpaid - pos.collateral
  BY <1>1, <1>3, <1>4, <1>5, <1>7
<1> HIDE DEF cash, overpaid, q
<1>9. MoneyOnly(n, q) /\ q.pool = pool /\ q.cash = cash /\ q.overpaid = overpaid
  BY <1>0 DEF MarketOK, MoneyOK, MarketFields, MoneyOnly, SamePositions, SameOrders, SameBooks
<1>10. MarketOK(q) /\ NoGrowth(n, q)
  BY <1>6, <1>8, <1>9, MoneyOnlyKeeps
<1> QED
  BY <1>8, <1>9, <1>10 DEF q

LEMMA BankruptMoves ==
  ASSUME NEW n, MarketOK(n), NEW pos, RowOK(pos), NEW equity \in Int, equity <= 0
  PROVE  LET q == SeizeBankrupt(n, pos, equity)
         IN  /\ MoneyOnly(n, q) /\ MarketOK(q) /\ NoGrowth(n, q)
             /\ q.cash + q.overpaid = n.cash + n.overpaid - pos.collateral
<1> DEFINE booked == record_bad_debt(n.pool, -equity)
           buffer_cut == BpsOf(pos.collateral, Config.insurance_buffer_share_bps)
           received == credit_vault_receipt(TransferIn(booked, pos.collateral),
                                            pos.collateral - buffer_cut)
           pool == fund_vault_buffer(received, buffer_cut)
           cash == n.cash - pos.collateral
           q == SeizeBankrupt(n, pos, equity)
<1>0. q = [n EXCEPT !.pool = pool, !.cash = cash]
  BY DEF SeizeBankrupt, MarketOK, MoneyOK, MarketFields
<1>1. pos.collateral \in Nat
  BY DEF RowOK, PositionOK
<1>2. buffer_cut \in Nat
  BY <1>1, LiquidationValues, BpsOfRange
<1> HIDE DEF buffer_cut
<1>3. PoolInv(booked)
  <2>1. -equity \in Int /\ PoolInv(n.pool)
    BY DEF MarketOK, MoneyOK
  <2> QED
    BY <2>1, BadDebtKeeps
<1> HIDE DEF booked
<1>4. PoolInv(pool)
  <2>1. PoolInv(TransferIn(booked, pos.collateral))
    BY <1>1, <1>3, ArrivalKeeps
  <2>2. PoolInv(received)
    BY <1>1, <1>2, <2>1, CreditKeeps
  <2> HIDE DEF received
  <2> QED
    BY <1>2, <2>2, FundKeeps
<1> HIDE DEF pool
<1>5. n.cash \in Int /\ n.overpaid \in Nat /\ cash \in Int
  BY <1>1, HeldTypes
<1> HIDE DEF q
<1>6. MoneyOnly(n, q) /\ q.pool = pool /\ q.cash = cash /\ q.overpaid = n.overpaid
  BY <1>0 DEF MarketOK, MoneyOK, MarketFields, MoneyOnly, SamePositions, SameOrders, SameBooks
<1>7. MarketOK(q) /\ NoGrowth(n, q)
  BY <1>4, <1>5, <1>6, MoneyOnlyKeeps
<1> QED
  BY <1>1, <1>5, <1>6, <1>7 DEF q

(* Only the vault's record changes. *)
LEMMA PoolMoves ==
  ASSUME NEW n, MarketOK(n), NEW pool, PoolInv(pool), NEW q, q = [n EXCEPT !.pool = pool]
  PROVE  /\ MoneyOnly(n, q) /\ MarketOK(q) /\ NoGrowth(n, q) /\ Surplus(q) = Surplus(n)
         /\ q.orders = n.orders /\ q.cash = n.cash
<1>1. MoneyOnly(n, q) /\ q.pool = pool /\ q.cash = n.cash /\ q.overpaid = n.overpaid
  BY DEF MarketOK, MoneyOK, MarketFields, MoneyOnly, SamePositions, SameOrders, SameBooks
<1>2. n.cash \in Int /\ n.overpaid \in Nat
  BY HeldTypes
<1> QED
  BY <1>1, <1>2, MoneyOnlyKeeps DEF Surplus, MoneyOnly, SameOrders

LEMMA LiquidateMoves ==
  ASSUME NEW n, MarketOK(n), NEW id \in DOMAIN n.positions, NEW mark \in Nat, NEW cum \in Int
  PROVE  LET q == LiquidateFull(n, id, mark, cum)
         IN  MarketOK(q) /\ NoGrowth(n, q) /\ Surplus(q) = Surplus(n)
<1> DEFINE pos == n.positions[id]
           equity == Equity(pos, mark, cum)
           a == IF equity > 0 THEN SeizeSolvent(n, pos, equity) ELSE SeizeBankrupt(n, pos, equity)
           b == DecreaseOi(a, pos.asset, pos.dir, pos.size, pos.entry, mark)
           c == cancel_position_orders(b, id, 0)
           d == delete_position(c, id)
           topup == Config.min_liq_bounty - KeeperCut(pos, equity)
           pool == IF topup > 0 THEN pay_bounty(d.pool, topup) ELSE d.pool
           q == LiquidateFull(n, id, mark, cum)
<1>1. /\ RowOK(pos) /\ pos.asset \in Assets /\ pos.size \in Nat
      /\ pos.collateral \in Nat /\ pos.entry \in Nat \ {0}
  BY RowFacts
<1>2. equity \in Int
  <2>1. NetPnl(pos, pos.size, mark, cum) \in Int
    BY <1>1, NetPnlType
  <2> QED
    BY <1>1, <2>1 DEF Equity
<1>3. /\ MoneyOnly(n, a) /\ MarketOK(a) /\ NoGrowth(n, a)
      /\ a.cash + a.overpaid = n.cash + n.overpaid - pos.collateral
  <2> HIDE DEF pos, equity
  <2>1. CASE equity > 0
    BY <1>1, <1>2, <2>1, SolventMoves
  <2>2. CASE ~(equity > 0)
    BY <1>1, <1>2, <2>2, BankruptMoves
  <2> QED
    BY <2>1, <2>2
<1>4. topup \in Int
  <2>1. BpsOf(pos.size, Config.liquidation_penalty_bps) \in Nat
    BY <1>1, LiquidationValues, BpsOfRange
  <2>2. equity > 0 => Least(BpsOf(pos.size, Config.liquidation_penalty_bps), equity) \in Nat
    BY <1>2, <2>1 DEF Least
  <2>3. KeeperCut(pos, equity) \in Int
    <3> HIDE DEF equity, pos
    <3> QED
      BY <2>2, LiquidationValues, BpsOfRange DEF KeeperCut
  <2> QED
    BY <2>3, LiquidationValues
<1>5. q = [d EXCEPT !.pool = IF topup > 0 THEN pay_bounty(@, topup) ELSE @]
  BY DEF LiquidateFull
<1> HIDE DEF topup, equity, pos
<1> HIDE DEF a
<1>6. /\ MarketOK(b) /\ SamePositions(a, b) /\ SameOrders(a, b) /\ NoGrowth(a, b)
      /\ b.cash = a.cash /\ b.overpaid = a.overpaid
  BY <1>1, <1>3, DecreaseOiMoves
<1> HIDE DEF b
<1>7. /\ BookOnly(b, c) /\ MarketOK(c) /\ NoGrowth(b, c)
      /\ OrdersHeld(c) = OrdersHeld(b) /\ MarginHeld(c) = MarginHeld(b)
  BY <1>6, CancelAttached
<1> HIDE DEF c
<1>8. c.positions = n.positions
  BY <1>3, <1>6, <1>7 DEF SamePositions, BookOnly, MoneyOnly
<1>9. /\ RowsOnly(c, d) /\ MarketOK(d) /\ NoGrowth(c, d) /\ OrdersHeld(d) = OrdersHeld(c)
      /\ MarginHeld(d) = MarginHeld(c) - pos.collateral
  <2>1. id \in DOMAIN c.positions /\ c.positions[id].collateral = pos.collateral
    BY <1>8 DEF pos
  <2>2. /\ RowsOnly(c, d) /\ MarketOK(d) /\ NoGrowth(c, d) /\ OrdersHeld(d) = OrdersHeld(c)
        /\ MarginHeld(d) = MarginHeld(c) - c.positions[id].collateral
    BY <1>7, <2>1, DeleteMoves
  <2> QED
    BY <2>1, <2>2
<1>10. q = [d EXCEPT !.pool = pool]
  <2>1. DOMAIN d = MarketFields
    BY <1>9 DEF RowsOnly
  <2> HIDE DEF d
  <2> QED
    BY <1>5, <2>1 DEF MarketFields
<1> HIDE DEF d
<1>11. PoolInv(pool)
  <2>1. PoolInv(d.pool)
    BY <1>9 DEF MarketOK, MoneyOK
  <2>2. ASSUME topup > 0 PROVE PoolInv(pay_bounty(d.pool, topup))
    BY <1>4, <2>1, <2>2, BufferPayoutKeeps
  <2> QED
    BY <2>1, <2>2
<1> HIDE DEF pool, q
<1>12. MarketOK(q) /\ NoGrowth(d, q) /\ Surplus(q) = Surplus(d)
  BY <1>9, <1>10, <1>11, PoolMoves
<1>13. NoGrowth(n, q)
  <2>1. /\ BooksOK(n) /\ BooksOK(a) /\ BooksOK(b) /\ BooksOK(c) /\ BooksOK(d) /\ BooksOK(q)
    BY <1>3, <1>6, <1>7, <1>9, <1>12 DEF MarketOK
  <2>2. NoGrowth(n, b)
    BY <1>3, <1>6, <2>1, NoGrowthTransitive
  <2>3. NoGrowth(n, c)
    BY <1>7, <2>1, <2>2, NoGrowthTransitive
  <2>4. NoGrowth(n, d)
    BY <1>9, <2>1, <2>3, NoGrowthTransitive
  <2> QED
    BY <1>12, <2>1, <2>4, NoGrowthTransitive
<1>14. MarginHeld(c) = MarginHeld(n) /\ OrdersHeld(d) = OrdersHeld(n)
  BY <1>3, <1>6, <1>7, <1>9, SameKeeps DEF MarketOK, MoneyOnly
<1>15. d.cash + d.overpaid = n.cash + n.overpaid - pos.collateral
  BY <1>3, <1>6, <1>7, <1>9 DEF BookOnly, RowsOnly, SameMoney
<1>16. Surplus(d) = Surplus(n)
  <2>1. /\ MarginHeld(n) \in Nat /\ OrdersHeld(n) \in Nat /\ n.cash \in Int /\ n.overpaid \in Nat
        /\ d.cash \in Int /\ d.overpaid \in Nat
    BY <1>9, HeldTypes
  <2>2. MarginHeld(d) = MarginHeld(n) - pos.collateral /\ pos.collateral \in Nat
    BY <1>1, <1>9, <1>14
  <2> QED
    BY <1>14, <1>15, <2>1, <2>2 DEF Surplus
<1> QED
  BY <1>12, <1>13, <1>16 DEF q

-----------------------------------------------------------------------------
(* Netting closes its legs one after the other.                              *)

(* A set of naturals has a least element. *)
LEMMA LeastElement ==
  ASSUME NEW T \in SUBSET Nat, T # {}
  PROVE  \E i \in T : \A j \in T : i <= j
<1> DEFINE R == OpToRel(<, Nat)
<1>1. IsWellFoundedOn(R, Nat)
  BY NatLessThanWellFounded, Zenon
<1>2. PICK i \in T : \A j \in T : ~ (<<j, i>> \in R)
  BY <1>1, WFMin, Zenon
<1>3. \A j \in T : ~ (j < i)
  BY <1>2, Zenon DEF OpToRel
<1>4. i \in Nat /\ \A j \in T : j \in Nat
  OBVIOUS
<1> QED
  BY <1>3, <1>4

Below(S, i) == {j \in S : j < i}

(* The k-th leg exists, and k - 1 others come before it. *)
LEMMA LegStep ==
  ASSUME NEW S \in SUBSET Nat, IsFiniteSet(S), NEW L \in SUBSET S,
         \A i \in L : \A j \in S : j < i => j \in L,
         Cardinality(L) < Cardinality(S)
  PROVE  \E i \in S \ L : Below(S, i) = L
<1>1. L # S
  <2>1. Cardinality(S) \in Nat /\ Cardinality(L) \in Nat
    BY FS_CardinalityType, FS_Subset
  <2> QED
    BY <2>1
<1>2. S \ L # {} /\ S \ L \in SUBSET Nat
  BY <1>1
<1>3. PICK i \in S \ L : \A j \in S \ L : i <= j
  BY <1>2, LeastElement
<1>4. \A j \in S : j < i => j \in L
  <2>1. \A j \in S \ L : ~(j < i)
    BY <1>3
  <2> QED
    BY <2>1
<1>5. \A j \in L : j < i
  <2>1. ASSUME NEW j \in L, ~(j < i) PROVE FALSE
    <3>1. i \in Nat /\ j \in Nat /\ i # j
      BY <1>3
    <3>2. i < j
      BY <2>1, <3>1
    <3> QED
      BY <1>3, <3>2
  <2> QED
    BY <2>1
<1>6. Below(S, i) = L
  BY <1>4, <1>5 DEF Below
<1> QED
  BY <1>3, <1>6

(* A leg is one of the positions to close, and no other leg is the same one. *)
LEMMA LegFacts ==
  ASSUME NEW S \in SUBSET Nat, IsFiniteSet(S), NEW k \in 1..4, k <= Cardinality(S)
  PROVE  /\ Leg(S, k) \in S
         /\ \A h \in 1..4 : h < k => Leg(S, h) \in S /\ Leg(S, h) # Leg(S, k)
<1>0. Cardinality(S) \in Nat /\ Cardinality({}) = 0
  BY FS_CardinalityType, FS_EmptySet
<1> DEFINE Has(h) == \E i \in S : Cardinality(Below(S, i)) = h - 1
           Segment(L) == \A i \in L : \A j \in S : j < i => j \in L
<1>1. ASSUME NEW h \in 1..4, Has(h)
      PROVE  Leg(S, h) \in S /\ Cardinality(Below(S, Leg(S, h))) = h - 1
  BY <1>1 DEF Leg, Below
<1>2. ASSUME NEW L \in SUBSET S, Segment(L), NEW h \in 1..4, Cardinality(L) = h - 1,
             h <= Cardinality(S)
      PROVE  /\ Has(h)
             /\ \E K \in SUBSET S : Segment(K) /\ Cardinality(K) = h
  <2>1. Cardinality(L) < Cardinality(S)
    BY <1>0, <1>2
  <2>2. PICK i \in S \ L : Below(S, i) = L
    BY <1>2, <2>1, LegStep
  <2>3. Has(h)
    BY <1>2, <2>2
  <2>4. Segment(L \cup {i})
    BY <1>2, <2>2 DEF Below
  <2>5. IsFiniteSet(L)
    BY FS_Subset
  <2>6. Cardinality(L \cup {i}) = h
    <3>1. i \notin L
      BY <2>2
    <3>2. Cardinality(L \cup {i}) = Cardinality(L) + 1
      BY <2>5, <3>1, FS_AddElement
    <3> QED
      BY <1>2, <3>2
  <2> QED
    BY <2>3, <2>4, <2>6
<1> HIDE DEF Has, Segment
<1>3. Segment({})
  BY DEF Segment
<1>4. 1 <= Cardinality(S) => Has(1) /\ \E K \in SUBSET S : Segment(K) /\ Cardinality(K) = 1
  BY <1>0, <1>2, <1>3
<1>5. 2 <= Cardinality(S) => Has(2) /\ \E K \in SUBSET S : Segment(K) /\ Cardinality(K) = 2
  BY <1>0, <1>2, <1>4
<1>6. 3 <= Cardinality(S) => Has(3) /\ \E K \in SUBSET S : Segment(K) /\ Cardinality(K) = 3
  BY <1>0, <1>2, <1>5
<1>7. 4 <= Cardinality(S) => Has(4)
  BY <1>0, <1>2, <1>6
<1>8. \A h \in 1..4 : h <= k => Has(h)
  BY <1>0, <1>4, <1>5, <1>6, <1>7
<1>9. \A h \in 1..4 : h <= k => Leg(S, h) \in S /\ Cardinality(Below(S, Leg(S, h))) = h - 1
  BY <1>1, <1>8
<1>10. ASSUME NEW h \in 1..4, h < k
       PROVE  Leg(S, h) \in S /\ Leg(S, h) # Leg(S, k)
  <2>1. Leg(S, h) \in S /\ Cardinality(Below(S, Leg(S, h))) = h - 1
    BY <1>9, <1>10
  <2>2. Cardinality(Below(S, Leg(S, k))) = k - 1
    BY <1>9
  <2> QED
    BY <1>10, <2>1, <2>2
<1> QED
  BY <1>9, <1>10

(* What stays of the rows when some positions are closed. *)
Closed(n, q, gone) ==
  /\ MarketOK(q) /\ NoGrowth(n, q) /\ Surplus(q) = Surplus(n)
  /\ DOMAIN q.positions = DOMAIN n.positions \ gone
  /\ DOMAIN q.orders = DOMAIN n.orders
  /\ \A o \in DOMAIN n.orders : n.orders[o].type \in EntryTypes => q.orders[o] = n.orders[o]

LEMMA CloseNext ==
  ASSUME NEW n, MarketOK(n), NEW q, NEW gone, Closed(n, q, gone),
         NEW id \in DOMAIN n.positions, id \notin gone, NEW mark \in Nat, NEW cum \in Int
  PROVE  Closed(n, settle_isolated_close(q, id, mark, cum, 0, 0), gone \cup {id})
<1> DEFINE r == settle_isolated_close(q, id, mark, cum, 0, 0)
<1>1. MarketOK(q) /\ id \in DOMAIN q.positions
  BY DEF Closed
<1>2. /\ MarketOK(r) /\ NoGrowth(q, r) /\ Surplus(r) = Surplus(q)
      /\ RowGone(q, r, id)
      /\ BookKept(q, r, 0)
  BY <1>1, CloseMoves
<1> HIDE DEF r
<1>3. NoGrowth(n, r)
  BY <1>1, <1>2, NoGrowthTransitive DEF Closed, MarketOK
<1>4. DOMAIN r.positions = DOMAIN n.positions \ (gone \cup {id})
  BY <1>2 DEF Closed, RowGone
<1>5. /\ DOMAIN r.orders = DOMAIN n.orders
      /\ \A o \in DOMAIN n.orders : n.orders[o].type \in EntryTypes => r.orders[o] = n.orders[o]
  BY <1>2 DEF Closed, BookKept
<1>6. Surplus(r) = Surplus(n)
  BY <1>2 DEF Closed
<1>7. Closed(n, r, gone \cup {id})
  BY <1>2, <1>3, <1>4, <1>5, <1>6 DEF Closed
<1> QED
  BY <1>7 DEF r

(* Only legs before the k-th are gone. *)
LegsBefore(S, k, gone) ==
  \A x \in gone : \E h \in 1..4 : h < k /\ h <= Cardinality(S) /\ x = Leg(S, h)

LEMMA LegCloses ==
  ASSUME NEW n, MarketOK(n), NEW S \in SUBSET DOMAIN n.positions, NEW q,
         NEW k \in 1..4, NEW gone, Closed(n, q, gone),
         LegsBefore(S, k, gone),
         NEW mark \in Nat, NEW cum \in Int
  PROVE  \E all : /\ Closed(n, CloseLeg(q, S, k, mark, cum), all)
                  /\ LegsBefore(S, k + 1, all)
<1>1. S \in SUBSET Nat /\ IsFiniteSet(S) /\ Cardinality(S) \in Nat
  <2>1. DOMAIN n.positions \subseteq Nat /\ IsFiniteSet(DOMAIN n.positions)
    BY PositionsFinite DEF MarketOK, PositionsOK
  <2> QED
    BY <2>1, FS_Subset, FS_CardinalityType
<1>2. CASE k <= Cardinality(S)
  <2> DEFINE id == Leg(S, k)
             all == gone \cup {id}
  <2>1. id \in S /\ \A h \in 1..4 : h < k => Leg(S, h) # id
    BY <1>1, <1>2, LegFacts
  <2>2. id \notin gone
    BY <2>1 DEF LegsBefore
  <2>3. CloseLeg(q, S, k, mark, cum) = settle_isolated_close(q, id, mark, cum, 0, 0)
    BY <1>2 DEF CloseLeg
  <2>4. id \in DOMAIN n.positions
    BY <2>1
  <2>5. LegsBefore(S, k + 1, all)
    BY <1>2 DEF LegsBefore
  <2> HIDE DEF id
  <2>6. Closed(n, CloseLeg(q, S, k, mark, cum), all)
    BY <2>2, <2>3, <2>4, CloseNext
  <2> QED
    BY <2>5, <2>6
<1>3. CASE ~(k <= Cardinality(S))
  <2>1. CloseLeg(q, S, k, mark, cum) = q
    BY <1>3 DEF CloseLeg
  <2>2. LegsBefore(S, k + 1, gone)
    BY DEF LegsBefore
  <2> QED
    BY <2>1, <2>2
<1> QED
  BY <1>2, <1>3

(* Netting moves as much money as margin, grows nothing and opens nothing. *)
LEMMA NettingMoves ==
  ASSUME NEW n, MarketOK(n), NEW S \in SUBSET DOMAIN n.positions,
         NEW mark \in Nat, NEW cum \in Int
  PROVE  LET q == CloseLegs(n, S, mark, cum)
         IN  MarketOK(q) /\ NoGrowth(n, q) /\ Surplus(q) = Surplus(n)
<1> DEFINE By(q, k) == \E gone : Closed(n, q, gone) /\ LegsBefore(S, k, gone)
           a == CloseLeg(n, S, 1, mark, cum)
           b == CloseLeg(a, S, 2, mark, cum)
           c == CloseLeg(b, S, 3, mark, cum)
           d == CloseLeg(c, S, 4, mark, cum)
<1>1. By(n, 1)
  <2>1. Closed(n, n, {})
    BY DEF Closed, NoGrowth, MarketOK, BooksOK, OpenInterestOf
  <2> QED
    BY <2>1 DEF LegsBefore
<1>2. ASSUME NEW q, NEW k \in 1..4, By(q, k)
      PROVE  By(CloseLeg(q, S, k, mark, cum), k + 1)
  <2>1. PICK gone : Closed(n, q, gone) /\ LegsBefore(S, k, gone)
    BY <1>2
  <2> QED
    BY <2>1, LegCloses
<1> HIDE DEF By
<1>3. By(a, 1 + 1)
  BY <1>1, <1>2
<1>4. By(b, 2 + 1)
  <2> HIDE DEF a
  <2> QED
    BY <1>2, <1>3
<1>5. By(c, 3 + 1)
  <2> HIDE DEF b
  <2> QED
    BY <1>2, <1>4
<1>6. By(d, 4 + 1)
  <2> HIDE DEF c
  <2> QED
    BY <1>2, <1>5
<1>7. CloseLegs(n, S, mark, cum) = d
  BY DEF CloseLegs
<1> HIDE DEF d
<1> QED
  BY <1>6, <1>7 DEF By, Closed

-----------------------------------------------------------------------------
(* Transactions: each keeps the inductive invariant, and none but an opening *)
(* in an open asset, while trading is open, adds to open interest.           *)

Allowed(n) ==
  \/ NoGrowth(m, n)
  \/ effective_mode = 0 /\ \E a \in Assets : ~halted[a] /\ GrowthIn(m, n, a)

LEMMA Committed ==
  ASSUME MInv, NEW n, Commit(n), MarketOK(n), Surplus(n) = 0, Allowed(n),
         pause_mode' = pause_mode \/ pause_mode' = effective_mode
  PROVE  MInv' /\ Allowed(m')
<1>1. /\ m' = n /\ n.cash >= 0
      /\ UNCHANGED <<cum_funding, halted, risk, risk_epoch, pause_since, now>>
  BY DEF Commit, Commits, adminVars
<1>2. effective_mode \in 0..2
  BY DEF MInv, ClockOK, effective_mode
<1>3. RiskOKAll'
  BY <1>1 DEF MInv, RiskOKAll
<1>4. ClockOK'
  BY <1>1, <1>2 DEF MInv, ClockOK
<1>5. MarketOK(m') /\ m'.cash >= 0 /\ Surplus(m') = 0
  BY <1>1
<1> QED
  BY <1>1, <1>3, <1>4, <1>5 DEF MInv

LEMMA Gates ==
  /\ require_can_increase_risk => pause_mode' = effective_mode /\ effective_mode = 0
  /\ require_can_reduce_risk => pause_mode' = effective_mode
  /\ Ungated => pause_mode' = pause_mode
BY DEF require_can_increase_risk, require_can_reduce_risk, Ungated

LEMMA InputTypes ==
  /\ \A x \in Prices : x \in Nat \ {0}
  /\ \A x \in Collaterals : x \in Nat \ {0}
  /\ \A x \in Leverages : x \in Nat \ {0}
  /\ \A x \in Fees : x \in Nat
  /\ \A x \in Payouts : x \in Nat
  /\ \A x \in CloseSizes : x \in Nat \ {0}
  /\ \A x \in Amounts : x \in Nat \ {0}
<1>1. /\ Prices \subseteq Nat \ {0} /\ Collaterals \subseteq Nat \ {0}
      /\ Leverages \subseteq Nat \ {0} /\ Fees \subseteq Nat /\ Payouts \subseteq Nat
      /\ CloseSizes \subseteq Nat \ {0} /\ Amounts \subseteq Nat \ {0}
  BY InputAssumption, Zenon
<1> QED
  BY <1>1

LEMMA StateFacts ==
  ASSUME MInv
  PROVE  /\ MarketOK(m) /\ Surplus(m) = 0 /\ RiskOKAll
         /\ \A a \in Assets : cum_funding[a] \in Int
         /\ now \in Nat
         /\ \A i \in DOMAIN m.positions : cum_funding[m.positions[i].asset] \in Int
<1>1. \A a \in Assets : cum_funding[a] \in Int
  BY DEF MInv, ClockOK
<1>2. MarketOK(m)
  BY DEF MInv
<1>3. \A i \in DOMAIN m.positions : m.positions[i].asset \in Assets
  BY <1>2, RowFacts
<1> QED
  BY <1>1, <1>3 DEF MInv, ClockOK

LEMMA CloseStep ==
  ASSUME MInv, NEW id \in DOMAIN m.positions, NEW mark \in Prices, ClosePosition(id, mark)
  PROVE  MInv' /\ Allowed(m')
<1> DEFINE cum == cum_funding[m.positions[id].asset]
           q == settle_isolated_close(m, id, mark, cum, 0, 0)
<1>1. mark \in Nat /\ MarketOK(m) /\ cum \in Int /\ Surplus(m) = 0
  BY StateFacts, InputTypes
<1>2. Commit(q) /\ pause_mode' = effective_mode
  BY Gates DEF ClosePosition
<1> HIDE DEF cum
<1>3. MarketOK(q) /\ NoGrowth(m, q) /\ Surplus(q) = Surplus(m)
  BY <1>1, CloseMoves
<1> HIDE DEF q
<1> QED
  BY <1>1, <1>2, <1>3, Committed DEF Allowed

LEMMA PartialStep ==
  ASSUME MInv, NEW id \in DOMAIN m.positions, NEW size \in CloseSizes, NEW mark \in Prices,
         ClosePositionPartial(id, size, mark)
  PROVE  MInv' /\ Allowed(m')
<1> DEFINE pos == m.positions[id]
           cum == cum_funding[pos.asset]
           q == settle_isolated_close(m, id, mark, cum, 0, 0)
           r == settle_partial_close(m, id, mark, cum, size, 0)
<1>1. mark \in Nat /\ MarketOK(m) /\ cum \in Int /\ Surplus(m) = 0 /\ size \in Nat
  BY StateFacts, InputTypes
<1>2. pause_mode' = effective_mode
  BY Gates DEF ClosePositionPartial
<1>3. CASE Commit(q)
  <2> HIDE DEF cum
  <2>1. MarketOK(q) /\ NoGrowth(m, q) /\ Surplus(q) = Surplus(m)
    BY <1>1, CloseMoves
  <2> HIDE DEF q
  <2> QED
    BY <1>1, <1>2, <1>3, <2>1, Committed DEF Allowed
<1>4. CASE /\ size < pos.size
           /\ pos.collateral - CollateralClosed(pos, size) >= Config.min_collateral
           /\ Commit(r)
  <2>1. pos.collateral - CollateralClosed(pos, size) > 0
    <3>1. /\ CollateralClosed(pos, size) \in Nat /\ pos.collateral \in Nat
          /\ Config.min_collateral \in Nat \ {0}
      <4>1. RowOK(pos) /\ pos.size \in Nat /\ pos.collateral \in Nat
        BY <1>1, RowFacts
      <4> HIDE DEF pos
      <4> QED
        BY <1>1, <1>4, <4>1, CollateralClosedRange, MarginValues
    <3> QED
      BY <1>4, <3>1
  <2>2. MarketOK(r) /\ NoGrowth(m, r) /\ Surplus(r) = Surplus(m)
    BY <1>1, <1>4, <2>1, PartialMoves
  <2> HIDE DEF r
  <2> QED
    BY <1>1, <1>2, <1>4, <2>2, Committed DEF Allowed
<1> QED
  BY <1>3, <1>4 DEF ClosePositionPartial

(* Collateral and liquidation price of one row change, and the balance with  *)
(* them.                                                                     *)
LEMMA RemarginMoves ==
  ASSUME MInv, NEW id \in DOMAIN m.positions, NEW d \in Int,
         m.positions[id].collateral + d > 0,
         NEW q, q = [m EXCEPT !.cash = m.cash + d,
                              !.positions = Remargined(id, m.positions[id].collateral + d)]
  PROVE  MarketOK(q) /\ NoGrowth(m, q) /\ Surplus(q) = 0
<1> DEFINE pos == m.positions[id]
           c == pos.collateral + d
           liq == Floor0(liquidation_price_from_ratio(pos.entry, c, pos.size, pos.dir,
                                                      mm_bps_for(pos)))
           row == [pos EXCEPT !.collateral = c, !.liq = liq]
           cash == m.cash + d
           a == [m EXCEPT !.cash = cash]
<1>1. /\ MarketOK(m) /\ Surplus(m) = 0 /\ m.cash \in Int /\ m.overpaid \in Nat
      /\ MarginHeld(m) \in Nat /\ OrdersHeld(m) \in Nat /\ mm_bps_for(pos) \in Nat
  BY StateFacts, HeldTypes, RiskValues
<1>2. /\ RowOK(pos) /\ pos.size \in Nat \ {0} /\ pos.collateral \in Nat
      /\ pos.entry \in Nat \ {0}
  BY <1>1, RowFacts
<1>3. Remargined(id, c) = [m.positions EXCEPT ![id] = row]
  BY DEF Remargined
<1>4. a.positions = m.positions
  BY <1>1 DEF MarketOK, MoneyOK, MarketFields
<1>5. q = [a EXCEPT !.positions = [m.positions EXCEPT ![id] = row]]
  <2> HIDE DEF row
  <2> QED
    BY <1>1, <1>3 DEF MarketOK, MoneyOK, MarketFields
<1> HIDE DEF pos
<1>6. c \in Nat \ {0} /\ c = pos.collateral + d
  BY <1>2 DEF pos
<1> HIDE DEF c
<1>7. liq \in Int
  <2>1. liquidation_price_from_ratio(pos.entry, c, pos.size, pos.dir, mm_bps_for(pos)) \in Int
    BY <1>1, <1>2, <1>6, RatioPriceType
  <2> QED
    BY <2>1 DEF Floor0
<1> HIDE DEF liq
<1>8. RowOK(row) /\ row.trader = pos.trader /\ row.collateral = c
  BY <1>2, <1>6, <1>7 DEF RowOK, PositionOK, PositionFields
<1> HIDE DEF row
<1>9. cash \in Int
  BY <1>1
<1>10. /\ MarketOK(a) /\ NoGrowth(m, a) /\ a.cash = cash /\ a.overpaid = m.overpaid
       /\ MarginHeld(a) = MarginHeld(m) /\ OrdersHeld(a) = OrdersHeld(m)
  BY <1>1, <1>9, CashMoves
<1> HIDE DEF a
<1>11. /\ RowsOnly(a, q) /\ MarketOK(q) /\ NoGrowth(a, q) /\ OrdersHeld(q) = OrdersHeld(a)
       /\ MarginHeld(q) = MarginHeld(a) - pos.collateral + row.collateral
  <2>1. id \in DOMAIN a.positions /\ a.positions[id] = pos
    BY <1>4 DEF pos
  <2>2. q = WithRow(a, id, row)
    BY <1>4, <1>5 DEF WithRow
  <2> QED
    BY <1>8, <1>10, <2>1, <2>2, RowReplaced
<1>12. q.cash = cash /\ q.overpaid = m.overpaid
  BY <1>10, <1>11 DEF RowsOnly, SameMoney
<1>13. Surplus(q) = 0
  BY <1>1, <1>2, <1>6, <1>8, <1>10, <1>11, <1>12 DEF Surplus
<1>14. NoGrowth(m, q)
  BY <1>1, <1>10, <1>11, NoGrowthTransitive DEF MarketOK
<1> QED
  BY <1>11, <1>13, <1>14

LEMMA AddStep ==
  ASSUME MInv, NEW id \in DOMAIN m.positions, NEW amount \in Amounts, AddCollateral(id, amount)
  PROVE  MInv' /\ Allowed(m')
<1> DEFINE q == [m EXCEPT !.cash = m.cash + amount,
                          !.positions = Remargined(id, m.positions[id].collateral + amount)]
<1>1. Commit(q) /\ pause_mode' = pause_mode
  <2>1. q = [m EXCEPT !.cash = @ + amount,
                      !.positions = Remargined(id, m.positions[id].collateral + amount)]
    BY StateFacts DEF MarketOK, MoneyOK, MarketFields
  <2> HIDE DEF q
  <2> QED
    BY <2>1, Gates DEF AddCollateral
<1>2. amount \in Int /\ m.positions[id].collateral + amount > 0
  BY StateFacts, RowFacts, InputTypes
<1>3. MarketOK(q) /\ NoGrowth(m, q) /\ Surplus(q) = 0
  BY <1>2, RemarginMoves
<1> HIDE DEF q
<1> QED
  BY <1>1, <1>3, Committed DEF Allowed

LEMMA RemoveStep ==
  ASSUME MInv, NEW id \in DOMAIN m.positions, NEW amount \in Amounts, NEW mark \in Prices,
         RemoveCollateral(id, amount, mark)
  PROVE  MInv' /\ Allowed(m')
<1> DEFINE d == -amount
           q == [m EXCEPT !.cash = m.cash + d,
                          !.positions = Remargined(id, m.positions[id].collateral + d)]
<1>1. /\ d \in Int /\ m.positions[id].collateral - amount = m.positions[id].collateral + d
      /\ m.cash - amount = m.cash + d
  BY StateFacts, RowFacts, HeldTypes, InputTypes
<1>2. /\ pause_mode' = effective_mode /\ m.positions[id].collateral + d > 0
      /\ Commit([m EXCEPT !.cash = @ - amount,
                          !.positions = Remargined(id, m.positions[id].collateral - amount)])
  BY <1>1, Gates DEF RemoveCollateral
<1>3. Commit(q)
  <2>1. q = [m EXCEPT !.cash = @ - amount,
                      !.positions = Remargined(id, m.positions[id].collateral - amount)]
    BY <1>1, StateFacts DEF MarketOK, MoneyOK, MarketFields
  <2> HIDE DEF q, d
  <2> QED
    BY <1>2, <2>1
<1> HIDE DEF d
<1>4. MarketOK(q) /\ NoGrowth(m, q) /\ Surplus(q) = 0
  BY <1>1, <1>2, RemarginMoves
<1> HIDE DEF q
<1> QED
  BY <1>2, <1>3, <1>4, Committed DEF Allowed

LEMMA LiquidateStep ==
  ASSUME MInv, NEW id \in DOMAIN m.positions, NEW mark \in Prices, NEW smoothed,
         Liquidate(id, mark, smoothed)
  PROVE  MInv' /\ Allowed(m')
<1> DEFINE pos == m.positions[id]
           cum == cum_funding[pos.asset]
           mm_bps == mm_bps_for(pos)
           q == LiquidateTranche(m, id, mark, cum, mm_bps, now)
           r == LiquidateFull(m, id, mark, cum)
<1>1. /\ mark \in Nat /\ MarketOK(m) /\ cum \in Int /\ Surplus(m) = 0 /\ mm_bps \in Nat
      /\ now \in Nat
  BY StateFacts, InputTypes, RiskValues
<1>2. /\ pause_mode' = effective_mode
      /\ \/ TakesTranche(pos, NetPnl(pos, pos.size, mark, cum)) /\ Commit(q)
         \/ Commit(r)
  BY Gates DEF Liquidate
<1> HIDE DEF cum, mm_bps
<1>3. CASE TakesTranche(pos, NetPnl(pos, pos.size, mark, cum)) /\ Commit(q)
  <2>1. MarketOK(q) /\ NoGrowth(m, q) /\ Surplus(q) = Surplus(m)
    BY <1>1, <1>3, TrancheMoves
  <2> HIDE DEF q
  <2> QED
    BY <1>1, <1>2, <1>3, <2>1, Committed DEF Allowed
<1>4. CASE Commit(r)
  <2>1. MarketOK(r) /\ NoGrowth(m, r) /\ Surplus(r) = Surplus(m)
    BY <1>1, LiquidateMoves
  <2> HIDE DEF r
  <2> QED
    BY <1>1, <1>2, <1>4, <2>1, Committed DEF Allowed
<1> QED
  BY <1>2, <1>3, <1>4

LEMMA AdlCloseStep ==
  ASSUME MInv, NEW id \in DOMAIN m.positions, NEW mark \in Prices, AdlClose(id, mark)
  PROVE  MInv' /\ Allowed(m')
<1> DEFINE pos == m.positions[id]
           cum == cum_funding[pos.asset]
           closed == settle_isolated_close(m, id, mark, cum, 0, 0)
           comp == BpsOf(pos.size, Config.adl_compensation_bps)
           pool == IF comp > 0 THEN pay_from_buffer(closed.pool, comp) ELSE closed.pool
           q == [closed EXCEPT !.pool = pool]
<1>1. /\ mark \in Nat /\ MarketOK(m) /\ cum \in Int /\ Surplus(m) = 0 /\ pos.size \in Nat
  BY StateFacts, InputTypes, RowFacts
<1>2. comp \in Nat
  BY <1>1, FeeValues, BpsOfRange
<1>3. /\ pause_mode' = pause_mode
      /\ Commit([closed EXCEPT !.pool = IF comp > 0 THEN pay_from_buffer(@, comp) ELSE @])
  BY Gates DEF AdlClose
<1> HIDE DEF comp, cum
<1>4. MarketOK(closed) /\ NoGrowth(m, closed) /\ Surplus(closed) = Surplus(m)
  BY <1>1, CloseMoves
<1> HIDE DEF closed
<1>5. Commit(q)
  <2>1. [closed EXCEPT !.pool = IF comp > 0 THEN pay_from_buffer(@, comp) ELSE @] = q
    BY <1>4 DEF MarketOK, MoneyOK, MarketFields
  <2> HIDE DEF q
  <2> QED
    BY <1>3, <2>1
<1>6. PoolInv(pool)
  <2>1. PoolInv(closed.pool)
    BY <1>4 DEF MarketOK, MoneyOK
  <2>2. PoolInv(pay_from_buffer(closed.pool, comp))
    BY <1>2, <2>1, BufferPayoutKeeps
  <2> QED
    BY <2>1, <2>2
<1> HIDE DEF pool
<1>7. MarketOK(q) /\ NoGrowth(closed, q) /\ Surplus(q) = Surplus(closed)
  BY <1>4, <1>6, PoolMoves
<1> HIDE DEF q
<1>8. NoGrowth(m, q)
  BY <1>1, <1>4, <1>7, NoGrowthTransitive DEF MarketOK
<1> QED
  BY <1>1, <1>3, <1>4, <1>5, <1>7, <1>8, Committed DEF Allowed

(* The steps that change the vault's record only. *)
LEMMA PoolStep ==
  ASSUME MInv, NEW pool, PoolInv(pool), Commit([m EXCEPT !.pool = pool]), Ungated
  PROVE  MInv' /\ Allowed(m')
<1> DEFINE q == [m EXCEPT !.pool = pool]
<1>1. MarketOK(q) /\ NoGrowth(m, q) /\ Surplus(q) = 0
  BY StateFacts, PoolMoves
<1>2. Commit(q) /\ pause_mode' = pause_mode
  BY Gates
<1> HIDE DEF q
<1> QED
  BY <1>1, <1>2, Committed DEF Allowed

LEMMA SyncStep ==
  ASSUME MInv, NEW a \in Assets, NEW mark \in Prices, SyncAssetPnl(a, mark)
  PROVE  MInv' /\ Allowed(m')
<1> DEFINE pnl == exposure_upnl(m.exposure[a], mark)
           pool == sync_exposure(m.pool, a, pnl, 0)
<1>1. MarketOK(m) /\ DOMAIN m = MarketFields /\ PoolInv(m.pool) /\ BooksOK(m) /\ mark \in Nat
  BY StateFacts, InputTypes DEF MarketOK, MoneyOK
<1>2. pnl \in Int
  BY <1>1, ExposureUpnlType DEF BooksOK
<1>3. Commit([m EXCEPT !.pool = pool]) /\ Ungated
  BY <1>1 DEF SyncAssetPnl, MarketFields
<1> HIDE DEF pnl
<1>4. PoolInv(pool)
  BY <1>1, <1>2, SyncKeeps
<1> HIDE DEF pool
<1> QED
  BY <1>3, <1>4, PoolStep

LEMMA ClaimStep ==
  ASSUME MInv, NEW t \in Traders, ClaimShortfall(t)
  PROVE  MInv' /\ Allowed(m')
<1> DEFINE pool == claim_shortfall(m.pool, t)
<1>1. DOMAIN m = MarketFields /\ PoolInv(m.pool)
  BY StateFacts DEF MarketOK, MoneyOK
<1>2. Commit([m EXCEPT !.pool = pool]) /\ Ungated /\ ClaimPay(m.pool, t) > 0
  BY <1>1 DEF ClaimShortfall, MarketFields
<1>3. PoolInv(pool)
  BY <1>1, <1>2, ClaimKeeps
<1> HIDE DEF pool
<1> QED
  BY <1>2, <1>3, PoolStep

LEMMA WithdrawStep ==
  ASSUME MInv, NEW noe \in NoeAmounts, LpWithdraw(noe)
  PROVE  MInv' /\ Allowed(m')
<1> DEFINE gross == calculate_usdc_for_withdrawal(noe, m.pool)
           pool == Withdrawn(m.pool, VaultConfig, gross, noe)
<1>1. DOMAIN m = MarketFields /\ PoolInv(m.pool) /\ PoolOK(m.pool)
  BY StateFacts DEF MarketOK, MoneyOK, PoolInv
<1>2. /\ Commit([m EXCEPT !.pool = pool]) /\ Ungated
      /\ m.pool.circulating > 0
      /\ m.pool.cash - (gross - WithdrawFee(VaultConfig, gross))
           >= m.pool.reserved_payout + m.pool.shortfall_reserve
  BY <1>1 DEF LpWithdraw, MarketFields
<1>3. noe \in Nat
  BY InputAssumption
<1>4. gross \in Nat
  <2>1. calculate_aum(m.pool) \in Nat /\ m.pool.circulating \in Nat \ {0}
    BY <1>1, <1>2, AumType DEF PoolOK
  <2>2. noe * calculate_aum(m.pool) \in Nat
    BY <1>3, <2>1
  <2> QED
    BY <2>1, <2>2, DivBound DEF calculate_usdc_for_withdrawal
<1> HIDE DEF gross
<1>5. PoolInv(pool)
  BY <1>1, <1>2, <1>3, <1>4, WithdrawKeeps, MarketAssumption
<1> HIDE DEF pool
<1> QED
  BY <1>2, <1>5, PoolStep

(* The flag of an asset. *)
LEMMA AdlFlagStep ==
  ASSUME MInv, NEW a \in Assets, NEW mark \in Prices, CheckAdlTrigger(a, mark)
  PROVE  MInv' /\ Allowed(m')
<1> DEFINE adl == [m.adl EXCEPT ![a] = AdlAfterCheck(a, mark)]
           q == [m EXCEPT !.adl = adl]
<1>1. MarketOK(m) /\ DOMAIN m = MarketFields
  BY StateFacts DEF MarketOK, MoneyOK
<1>2. Commit(q) /\ pause_mode' = pause_mode
  BY Gates DEF CheckAdlTrigger
<1>3. adl \in [Assets -> BOOLEAN]
  <2>1. AdlAfterCheck(a, mark) \in BOOLEAN
    BY Zenon DEF AdlAfterCheck
  <2>2. m.adl \in [Assets -> BOOLEAN]
    BY <1>1 DEF MarketOK, BooksOK
  <2> QED
    BY <2>1, <2>2, Zenon
<1> HIDE DEF adl
<1>4. /\ DOMAIN q = MarketFields /\ SameMoney(m, q) /\ SamePositions(m, q) /\ SameOrders(m, q)
      /\ q.total_long = m.total_long /\ q.total_short = m.total_short
      /\ q.exposure = m.exposure /\ q.adl = adl
  BY <1>1 DEF MarketFields, SameMoney, SamePositions, SameOrders
<1> HIDE DEF q
<1>5. BooksOK(q) /\ NoGrowth(m, q)
  BY <1>1, <1>3, <1>4 DEF MarketOK, BooksOK, NoGrowth, OpenInterestOf
<1>6. MoneyOK(q)
  BY <1>1, <1>4 DEF MarketOK, MoneyOK, SameMoney
<1>7. MarketOK(q) /\ MarginHeld(q) = MarginHeld(m) /\ OrdersHeld(q) = OrdersHeld(m)
  BY <1>1, <1>4, <1>5, <1>6, SameKeeps DEF MarketOK
<1>8. Surplus(q) = 0
  BY <1>4, <1>7, StateFacts DEF Surplus, SameMoney
<1> QED
  BY <1>2, <1>5, <1>7, <1>8, Committed DEF Allowed

(* Reseeding voids pending funding: collateral and owners stay. *)
LEMMA ReseedStep ==
  ASSUME MInv, NEW ids \in SUBSET DOMAIN m.positions, ReseedFunding(ids)
  PROVE  MInv' /\ Allowed(m')
<1> DEFINE Row(i) == [m.positions[i] EXCEPT !.entry_cum = cum_funding[m.positions[i].asset]]
           positions == [i \in DOMAIN m.positions |-> IF i \in ids THEN Row(i)
                                                                  ELSE m.positions[i]]
           q == [m EXCEPT !.positions = positions]
<1>1. MarketOK(m) /\ DOMAIN m = MarketFields
  BY StateFacts DEF MarketOK, MoneyOK
<1>2. Commit(q) /\ pause_mode' = pause_mode
  BY Gates DEF ReseedFunding
<1>3. \A i \in DOMAIN m.positions :
        /\ RowOK(Row(i)) /\ RowOK(m.positions[i])
        /\ Row(i).trader = m.positions[i].trader
        /\ Row(i).collateral = m.positions[i].collateral
  <2>1. ASSUME NEW i \in DOMAIN m.positions
        PROVE  /\ RowOK(Row(i)) /\ RowOK(m.positions[i])
               /\ Row(i).trader = m.positions[i].trader
               /\ Row(i).collateral = m.positions[i].collateral
    <3>1. RowOK(m.positions[i]) /\ cum_funding[m.positions[i].asset] \in Int
      BY <1>1, RowFacts, StateFacts
    <3> QED
      BY <3>1 DEF RowOK, PositionOK, PositionFields
  <2> QED
    BY <2>1
<1> HIDE DEF Row
<1>4. /\ DOMAIN positions = DOMAIN m.positions
      /\ \A i \in DOMAIN m.positions :
           /\ RowOK(positions[i])
           /\ positions[i].trader = m.positions[i].trader
           /\ positions[i].collateral = m.positions[i].collateral
  BY <1>3
<1> HIDE DEF positions
<1>5. /\ RowsOnly(m, q) /\ q.positions = positions
      /\ q.position_counter = m.position_counter /\ q.listed = m.listed
  BY <1>1 DEF RowsOnly, MarketFields, SameMoney, SameOrders, SameBooks
<1> HIDE DEF q
<1>6. PositionsOK(q)
  BY <1>1, <1>4, <1>5 DEF MarketOK, PositionsOK
<1>7. MarketOK(q) /\ NoGrowth(m, q) /\ OrdersHeld(q) = OrdersHeld(m)
  BY <1>1, <1>5, <1>6, RowsOnlyKeeps
<1>8. MarginHeld(q) = MarginHeld(m)
  <2>1. Margins(q) = Margins(m)
    BY <1>4, <1>5 DEF Margins
  <2> QED
    BY <1>1, <1>6, <2>1, MarginsType DEF MarketOK
<1>9. Surplus(q) = 0
  BY <1>5, <1>7, <1>8, StateFacts DEF Surplus, RowsOnly, SameMoney
<1> QED
  BY <1>2, <1>7, <1>9, Committed DEF Allowed

-----------------------------------------------------------------------------
(* Orders: placing, moving the peak, cancelling. *)

LEMMA OrderInputs ==
  /\ OrderTypes \subseteq EntryTypes \cup CloseTypes
  /\ \A x \in Triggers : x \in Nat
  /\ \A x \in Tolerances : x \in Nat
  /\ \A x \in Trails : x \in Nat
<1>1. /\ Triggers \subseteq Nat \ {0} /\ Tolerances \subseteq Nat \ {0}
      /\ Trails \subseteq Nat \ {0}
      /\ OrderTypes \subseteq {"LimitEntry", "StopLimit", "StopLoss", "TakeProfit",
                               "TrailingStop"}
  BY OrderInputAssumption
<1>2. OrderTypes \subseteq EntryTypes \cup CloseTypes
  BY <1>1 DEF EntryTypes, CloseTypes
<1> QED
  BY <1>1, <1>2

LEMMA EntryOrderRow ==
  ASSUME NEW t \in Traders, NEW a \in Assets, NEW type \in EntryTypes, NEW dir \in Dirs,
         NEW c \in Collaterals, NEW lev \in Leverages, NEW trigger \in Triggers,
         NEW above \in BOOLEAN, NEW limit \in Nat, NEW tol \in Tolerances, NEW ro \in BOOLEAN
  PROVE  LET order == EntryOrder(t, a, type, dir, c, lev, trigger, above, limit, tol, ro)
         IN  /\ order \in OrderRows /\ EntryFunded(order) /\ order.type \in EntryTypes
             /\ order.status = "Pending" /\ order.collateral = c
<1>1. c \in Nat \ {0} /\ lev \in Nat \ {0} /\ trigger \in Nat /\ tol \in Nat
  BY InputTypes, OrderInputs
<1> QED
  BY <1>1 DEF EntryOrder, OrderRows, EntryFunded

LEMMA LimitStep ==
  ASSUME MInv, NEW t \in Traders, NEW a \in Assets, NEW dir \in Dirs, NEW c \in Collaterals,
         NEW lev \in Leverages, NEW trigger \in Triggers, NEW above \in BOOLEAN,
         NEW tol \in Tolerances, NEW tif, NEW ro \in BOOLEAN, NEW mark,
         PlaceLimitOrder(t, a, dir, c, lev, trigger, above, tol, tif, ro, mark)
  PROVE  MInv' /\ Allowed(m')
<1> DEFINE order == EntryOrder(t, a, "LimitEntry", dir, c, lev, trigger, above, 0, tol, ro)
           gone == [order EXCEPT !.status = "Cancelled"]
           q == [m EXCEPT !.orders = Append(@, gone)]
           r == StoreOrder([m EXCEPT !.cash = @ + c], order)
<1>1. /\ order \in OrderRows /\ EntryFunded(order) /\ order.type \in EntryTypes
      /\ order.status = "Pending" /\ order.collateral = c
  <2>1. "LimitEntry" \in EntryTypes
    BY DEF EntryTypes
  <2> QED
    BY <2>1, EntryOrderRow
<1>2. MarketOK(m) /\ Surplus(m) = 0 /\ DOMAIN m = MarketFields
  BY StateFacts DEF MarketOK, MoneyOK
<1>3. pause_mode' = effective_mode /\ (Commit(q) \/ Commit(r))
  BY Gates DEF PlaceLimitOrder, PlacementGate
<1> HIDE DEF order
<1>4. CASE Commit(q)
  <2>1. gone \in OrderRows /\ EntryFunded(gone) /\ HeldBy(gone) = 0
    BY <1>1 DEF OrderRows, EntryFunded, HeldBy
  <2> HIDE DEF gone
  <2> DEFINE rows == Append(m.orders, gone)
  <2>2. q = [m EXCEPT !.orders = rows]
    OBVIOUS
  <2> HIDE DEF rows, q
  <2>3. BookOnly(m, q) /\ q.links = m.links /\ q.orders = rows
    BY <1>2, <2>2 DEF BookOnly, MarketFields, SameMoney, SamePositions, SameBooks
  <2>4. /\ MarketOK(q) /\ NoGrowth(m, q) /\ MarginHeld(q) = MarginHeld(m)
        /\ OrdersHeld(q) = OrdersHeld(m) + 0
    BY <1>2, <2>1, <2>3, AppendMoves DEF rows
  <2>5. Surplus(q) = 0
    BY <1>2, <2>3, <2>4, HeldTypes DEF Surplus, BookOnly, SameMoney
  <2> QED
    BY <1>3, <1>4, <2>4, <2>5, Committed DEF Allowed
<1>5. CASE Commit(r)
  <2>1. MarketOK(r) /\ NoGrowth(m, r) /\ Surplus(r) = Surplus(m)
    BY <1>1, <1>2, PlacedEntry
  <2> HIDE DEF r
  <2> QED
    BY <1>2, <1>3, <1>5, <2>1, Committed DEF Allowed
<1> QED
  BY <1>3, <1>4, <1>5

LEMMA StopLimitStep ==
  ASSUME MInv, NEW t \in Traders, NEW a \in Assets, NEW dir \in Dirs, NEW c \in Collaterals,
         NEW lev \in Leverages, NEW trigger \in Triggers, NEW limit \in Triggers,
         NEW above \in BOOLEAN, NEW tol \in Tolerances, NEW ro \in BOOLEAN,
         PlaceStopLimitOrder(t, a, dir, c, lev, trigger, limit, above, tol, ro)
  PROVE  MInv' /\ Allowed(m')
<1> DEFINE order == EntryOrder(t, a, "StopLimit", dir, c, lev, trigger, above, limit, tol, ro)
           r == StoreOrder([m EXCEPT !.cash = @ + c], order)
<1>1. /\ order \in OrderRows /\ EntryFunded(order) /\ order.type \in EntryTypes
      /\ order.status = "Pending" /\ order.collateral = c
  <2>1. "StopLimit" \in EntryTypes /\ limit \in Nat
    BY OrderInputs DEF EntryTypes
  <2> QED
    BY <2>1, EntryOrderRow
<1>2. MarketOK(m) /\ Surplus(m) = 0
  BY StateFacts
<1>3. pause_mode' = effective_mode /\ Commit(r)
  BY Gates DEF PlaceStopLimitOrder, PlacementGate
<1> HIDE DEF order
<1>4. MarketOK(r) /\ NoGrowth(m, r) /\ Surplus(r) = Surplus(m)
  BY <1>1, <1>2, PlacedEntry
<1> HIDE DEF r
<1> QED
  BY <1>2, <1>3, <1>4, Committed DEF Allowed

(* An attached order holds nothing. *)
LEMMA AttachMoves ==
  ASSUME MInv, NEW id \in DOMAIN m.positions, NEW type \in CloseTypes, NEW trigger \in Nat,
         NEW above \in BOOLEAN, NEW limit \in Nat, NEW trail \in Nat, NEW tol \in Nat
  PROVE  LET q == Attached(id, type, trigger, above, limit, trail, tol)
         IN  MarketOK(q) /\ NoGrowth(m, q) /\ Surplus(q) = 0
<1> DEFINE pos == m.positions[id]
           order == [trader |-> pos.trader, asset |-> pos.asset, type |-> type,
                     dir |-> pos.dir, collateral |-> 0, leverage |-> 0,
                     trigger |-> trigger, above |-> above, limit |-> limit,
                     trail |-> trail, tolerance |-> tol, reduce_only |-> FALSE,
                     phase |-> 0, position_id |-> id, status |-> "Pending"]
           a == StoreOrder(m, order)
           o == Len(m.orders) + 1
           q == Attached(id, type, trigger, above, limit, trail, tol)
<1>1. /\ MarketOK(m) /\ Surplus(m) = 0 /\ RowOK(pos) /\ id \in Nat
      /\ pos.trader \in Traders /\ pos.asset \in Assets /\ pos.dir \in Dirs
  BY StateFacts, RowFacts DEF MarketOK, PositionsOK, RowOK, PositionOK
<1>2. q = [a EXCEPT !.links = @ \cup {<<type, id, o>>}]
  BY DEF Attached
<1> HIDE DEF pos, q
<1>3. order \in OrderRows /\ order.type = type
  BY <1>1 DEF OrderRows
<1>4. EntryFunded(order) /\ HeldBy(order) = 0
  <2>1. type \notin EntryTypes
    BY DEF EntryTypes, CloseTypes
  <2> QED
    BY <2>1 DEF EntryFunded, HeldBy, Refund
<1> HIDE DEF order
<1>5. BookOnly(m, a) /\ a.links = m.links /\ a.orders = Append(m.orders, order)
  BY <1>1, StoreOrderBook
<1> HIDE DEF a
<1>6. /\ MarketOK(a) /\ NoGrowth(m, a) /\ MarginHeld(a) = MarginHeld(m)
      /\ OrdersHeld(a) = OrdersHeld(m) + 0
      /\ o \in DOMAIN a.orders /\ a.orders[o] = order
  BY <1>1, <1>3, <1>4, <1>5, AppendMoves
<1> DEFINE links == a.links \cup {<<type, id, o>>}
<1>7. q = [a EXCEPT !.links = links]
  BY <1>2, <1>6 DEF MarketOK, MoneyOK, MarketFields
<1> HIDE DEF o
<1>8. BookOnly(a, q) /\ MarketOK(q) /\ q.orders = a.orders /\ OrdersHeld(q) = OrdersHeld(a)
  <2>1. \A l \in links : l \in a.links \/ l[3] = o
    OBVIOUS
  <2>2. o \in DOMAIN a.orders /\ a.orders[o].type \in CloseTypes
    BY <1>3, <1>6
  <2> HIDE DEF links
  <2> QED
    BY <1>6, <1>7, <2>1, <2>2, LinkAdded
<1>9. NoGrowth(a, q) /\ MarginHeld(q) = MarginHeld(a)
  BY <1>6, <1>8, BookOnlyKeeps DEF MarketOK
<1>10. NoGrowth(m, q)
  BY <1>1, <1>6, <1>8, <1>9, NoGrowthTransitive DEF MarketOK
<1>11. q.cash = m.cash /\ q.overpaid = m.overpaid
  BY <1>5, <1>8 DEF BookOnly, SameMoney
<1>12. Surplus(q) = 0
  BY <1>1, <1>6, <1>8, <1>9, <1>11, HeldTypes DEF Surplus
<1> QED
  BY <1>8, <1>10, <1>12 DEF q

LEMMA StopLossStep ==
  ASSUME MInv, NEW id \in DOMAIN m.positions, NEW trigger \in Triggers, NEW tol \in Tolerances,
         SetStopLoss(id, trigger, tol)
  PROVE  MInv' /\ Allowed(m')
<1> DEFINE above == m.positions[id].dir = "Short"
           q == Attached(id, "StopLoss", trigger, above, 0, 0, tol)
<1>1. /\ "StopLoss" \in CloseTypes /\ trigger \in Nat /\ tol \in Nat
  BY OrderInputs DEF CloseTypes
<1>2. Commit(q) /\ pause_mode' = effective_mode
  BY Gates DEF SetStopLoss, CanAttach
<1>3. above \in BOOLEAN
  OBVIOUS
<1> HIDE DEF above
<1>4. MarketOK(q) /\ NoGrowth(m, q) /\ Surplus(q) = 0
  BY <1>1, <1>3, AttachMoves
<1> HIDE DEF q
<1> QED
  BY <1>2, <1>4, Committed DEF Allowed

LEMMA TakeProfitStep ==
  ASSUME MInv, NEW id \in DOMAIN m.positions, NEW trigger \in Triggers,
         NEW limit \in Triggers \cup {0}, NEW tol \in Tolerances,
         SetTakeProfit(id, trigger, limit, tol)
  PROVE  MInv' /\ Allowed(m')
<1> DEFINE above == m.positions[id].dir = "Long"
           q == Attached(id, "TakeProfit", trigger, above, limit, 0, tol)
<1>1. /\ "TakeProfit" \in CloseTypes /\ trigger \in Nat /\ limit \in Nat /\ tol \in Nat
  BY OrderInputs DEF CloseTypes
<1>2. Commit(q) /\ pause_mode' = effective_mode
  BY Gates DEF SetTakeProfit, CanAttach
<1>3. above \in BOOLEAN
  OBVIOUS
<1> HIDE DEF above
<1>4. MarketOK(q) /\ NoGrowth(m, q) /\ Surplus(q) = 0
  BY <1>1, <1>3, AttachMoves
<1> HIDE DEF q
<1> QED
  BY <1>2, <1>4, Committed DEF Allowed

(* A peak is not money. *)
LEMMA PeakMoves ==
  ASSUME NEW n, MarketOK(n), NEW o, NEW price
  PROVE  LET q == WithPeak(n, o, price)
         IN  MarketOK(q) /\ NoGrowth(n, q) /\ Surplus(q) = Surplus(n)
<1> DEFINE q == WithPeak(n, o, price)
<1>1. BookOnly(n, q) /\ MarketOK(q) /\ SameOrders(n, q) /\ OrdersHeld(q) = OrdersHeld(n)
  BY PeakBook
<1> HIDE DEF q
<1>2. NoGrowth(n, q) /\ MarginHeld(q) = MarginHeld(n)
  BY <1>1, BookOnlyKeeps DEF MarketOK
<1>3. Surplus(q) = Surplus(n)
  BY <1>1, <1>2 DEF Surplus, BookOnly, SameMoney
<1> QED
  BY <1>1, <1>2, <1>3 DEF q

LEMMA TrailingStep ==
  ASSUME MInv, NEW id \in DOMAIN m.positions, NEW trail \in Trails, NEW tol \in Tolerances,
         NEW mark \in Prices, PlaceTrailingStop(id, trail, tol, mark)
  PROVE  MInv' /\ Allowed(m')
<1> DEFINE above == m.positions[id].dir = "Short"
           a == Attached(id, "TrailingStop", 0, above, 0, trail, tol)
           o == Len(m.orders) + 1
           q == WithPeak(a, o, mark)
<1>1. /\ "TrailingStop" \in CloseTypes /\ trail \in Nat /\ tol \in Nat /\ MarketOK(m)
  BY OrderInputs, StateFacts DEF CloseTypes
<1>2. Commit(q) /\ pause_mode' = effective_mode
  BY Gates DEF PlaceTrailingStop, CanAttach
<1>3. above \in BOOLEAN
  OBVIOUS
<1> HIDE DEF above, o
<1>4. MarketOK(a) /\ NoGrowth(m, a) /\ Surplus(a) = 0
  BY <1>1, <1>3, AttachMoves
<1> HIDE DEF a
<1>5. MarketOK(q) /\ NoGrowth(a, q) /\ Surplus(q) = 0
  BY <1>4, PeakMoves
<1> HIDE DEF q
<1>6. NoGrowth(m, q)
  BY <1>1, <1>4, <1>5, NoGrowthTransitive DEF MarketOK
<1> QED
  BY <1>2, <1>5, <1>6, Committed DEF Allowed

LEMMA PeakStep ==
  ASSUME MInv, NEW o, NEW mark, UpdateTrailingPeak(o, mark)
  PROVE  MInv' /\ Allowed(m')
<1> DEFINE q == WithPeak(m, o, mark)
<1>1. Commit(q) /\ pause_mode' = pause_mode
  BY Gates DEF UpdateTrailingPeak
<1>2. MarketOK(q) /\ NoGrowth(m, q) /\ Surplus(q) = 0
  BY StateFacts, PeakMoves
<1> HIDE DEF q
<1> QED
  BY <1>1, <1>2, Committed DEF Allowed

LEMMA CancelStep ==
  ASSUME MInv, NEW o \in DOMAIN m.orders, CancelOrder(o)
  PROVE  MInv' /\ Allowed(m')
<1> DEFINE q == WithdrawnOrder(o, "Cancelled")
<1>1. Commit(q) /\ pause_mode' = pause_mode /\ m.orders[o].status = "Pending"
  BY Gates DEF CancelOrder
<1>2. "Cancelled" \in FinalStatuses
  BY DEF FinalStatuses
<1>3. MarketOK(q) /\ NoGrowth(m, q) /\ Surplus(q) = 0
  BY <1>1, <1>2, StateFacts, WithdrawMoves
<1> HIDE DEF q
<1> QED
  BY <1>1, <1>3, Committed DEF Allowed

-----------------------------------------------------------------------------
(* Orders: execution. *)

(* A row that changes, but not in what it holds. *)
LEMMA OrderRewritten ==
  ASSUME NEW n, MarketOK(n), NEW o \in DOMAIN n.orders, NEW row \in OrderRows,
         row.type = n.orders[o].type, row.status = n.orders[o].status,
         row.collateral = n.orders[o].collateral, row.leverage = n.orders[o].leverage,
         NEW q, q = [n EXCEPT !.orders = [n.orders EXCEPT ![o] = row]]
  PROVE  /\ BookOnly(n, q) /\ MarketOK(q) /\ NoGrowth(n, q) /\ Surplus(q) = Surplus(n)
         /\ DOMAIN q.orders = DOMAIN n.orders /\ q.orders[o] = row
<1> DEFINE rows == [n.orders EXCEPT ![o] = row]
<1>1. n.orders \in Seq(OrderRows)
  BY DEF MarketOK, OrdersOK
<1>2. /\ rows \in Seq(OrderRows) /\ DOMAIN rows = DOMAIN n.orders /\ rows[o] = row
      /\ \A i \in DOMAIN n.orders : i # o => rows[i] = n.orders[i]
  BY <1>1
<1> HIDE DEF rows
<1>3. BookOnly(n, q) /\ q.orders = rows /\ q.links = n.links
  BY DEF BookOnly, MarketOK, MoneyOK, MarketFields, SameMoney, SamePositions, SameBooks, rows
<1>4. \A i \in DOMAIN n.orders : /\ rows[i].type = n.orders[i].type
                                 /\ rows[i].collateral = n.orders[i].collateral
                                 /\ rows[i].leverage = n.orders[i].leverage
                                 /\ rows[i].status = n.orders[i].status
  BY <1>2
<1>5. OrdersOK(q)
  BY <1>2, <1>3, <1>4 DEF MarketOK, OrdersOK
<1>6. MarketOK(q) /\ NoGrowth(n, q) /\ MarginHeld(q) = MarginHeld(n)
  BY <1>3, <1>5, BookOnlyKeeps DEF MarketOK
<1>7. Holds(q) = Holds(n)
  <2>1. \A i \in DOMAIN n.orders : HeldBy(rows[i]) = HeldBy(n.orders[i])
    BY <1>4 DEF HeldBy, Refund
  <2> QED
    BY <1>2, <1>3, <2>1 DEF Holds
<1>8. OrdersHeld(q) = OrdersHeld(n)
  BY <1>5, <1>7, HoldsType DEF MarketOK
<1>9. Surplus(q) = Surplus(n)
  BY <1>3, <1>6, <1>8 DEF Surplus, BookOnly, SameMoney
<1> QED
  BY <1>2, <1>3, <1>6, <1>9

(* What the common head of execute_order establishes. *)
LEMMA HeadFacts ==
  ASSUME MInv, NEW o \in DOMAIN m.orders, NEW mark, NEW smoothed,
         Executable(o, mark, smoothed)
  PROVE  /\ m.orders[o].status = "Pending" /\ m.orders[o] \in OrderRows
         /\ pause_mode' = effective_mode
         /\ m.orders[o].type \in EntryTypes /\ ~m.orders[o].reduce_only =>
              effective_mode = 0 /\ ~halted[m.orders[o].asset]
<1>1. m.orders[o] \in OrderRows
  BY StateFacts DEF MarketOK, OrdersOK
<1>2. CASE m.orders[o].type \in EntryTypes /\ ~m.orders[o].reduce_only
  BY <1>1, <1>2, Gates DEF Executable, require_asset_open
<1>3. CASE ~(m.orders[o].type \in EntryTypes /\ ~m.orders[o].reduce_only)
  BY <1>1, <1>3, Gates DEF Executable
<1> QED
  BY <1>2, <1>3

LEMMA OutOfBandStep ==
  ASSUME MInv, NEW o \in DOMAIN m.orders, NEW mark, NEW smoothed,
         ExecuteOutOfBand(o, mark, smoothed)
  PROVE  MInv' /\ Allowed(m')
<1> DEFINE q == WithdrawnOrder(o, "CancelledSlippage")
<1>1. Commit(q) /\ pause_mode' = effective_mode /\ m.orders[o].status = "Pending"
  BY HeadFacts DEF ExecuteOutOfBand
<1>2. "CancelledSlippage" \in FinalStatuses
  BY DEF FinalStatuses
<1>3. MarketOK(q) /\ NoGrowth(m, q) /\ Surplus(q) = 0
  BY <1>1, <1>2, StateFacts, WithdrawMoves
<1> HIDE DEF q
<1> QED
  BY <1>1, <1>3, Committed DEF Allowed

LEMMA StopPhaseStep ==
  ASSUME MInv, NEW o \in DOMAIN m.orders, NEW mark, ExecuteStopPhase(o, mark)
  PROVE  MInv' /\ Allowed(m')
<1> DEFINE row == [m.orders[o] EXCEPT !.phase = 1]
           q == [m EXCEPT !.orders = [m.orders EXCEPT ![o] = row]]
<1>1. Commit(q) /\ pause_mode' = effective_mode /\ m.orders[o] \in OrderRows
  BY HeadFacts DEF ExecuteStopPhase
<1>2. /\ row \in OrderRows /\ row.type = m.orders[o].type
      /\ row.status = m.orders[o].status /\ row.collateral = m.orders[o].collateral
      /\ row.leverage = m.orders[o].leverage
  BY <1>1 DEF OrderRows
<1> HIDE DEF row
<1>3. MarketOK(q) /\ NoGrowth(m, q) /\ Surplus(q) = 0
  BY <1>2, StateFacts, OrderRewritten
<1> HIDE DEF q
<1> QED
  BY <1>1, <1>3, Committed DEF Allowed

(* An order that is refunded and then marked as executed. *)
LEMMA RefundMoves ==
  ASSUME MInv, NEW o \in DOMAIN m.orders, m.orders[o].status = "Pending"
  PROVE  LET q == update_order_status(WithdrawnOrder(o, "Cancelled"), {o}, "Executed")
         IN  MarketOK(q) /\ NoGrowth(m, q) /\ Surplus(q) = 0
<1> DEFINE a == WithdrawnOrder(o, "Cancelled")
           q == update_order_status(a, {o}, "Executed")
<1>1. "Cancelled" \in FinalStatuses /\ "Executed" \in FinalStatuses
  BY DEF FinalStatuses
<1>2. /\ MarketOK(a) /\ NoGrowth(m, a) /\ Surplus(a) = 0
      /\ o \in DOMAIN a.orders /\ HeldBy(a.orders[o]) = 0
  BY <1>1, StateFacts, WithdrawMoves
<1> HIDE DEF a
<1>3. MarketOK(q) /\ NoGrowth(a, q) /\ Surplus(q) = 0
  BY <1>1, <1>2, FinishOrder
<1> HIDE DEF q
<1>4. NoGrowth(m, q)
  BY <1>2, <1>3, NoGrowthTransitive, StateFacts DEF MarketOK
<1> QED
  BY <1>3, <1>4 DEF a, q

LEMMA IllegalEntryStep ==
  ASSUME MInv, NEW o \in DOMAIN m.orders, NEW mark, ExecuteIllegalEntry(o, mark)
  PROVE  MInv' /\ Allowed(m')
<1> DEFINE q == update_order_status(WithdrawnOrder(o, "Cancelled"), {o}, "Executed")
<1>1. Commit(q) /\ pause_mode' = effective_mode /\ m.orders[o].status = "Pending"
  BY HeadFacts DEF ExecuteIllegalEntry, FillsEntry
<1>2. MarketOK(q) /\ NoGrowth(m, q) /\ Surplus(q) = 0
  BY <1>1, RefundMoves
<1> HIDE DEF q
<1> QED
  BY <1>1, <1>2, Committed DEF Allowed

-----------------------------------------------------------------------------
(* Openings, at once and by a filled order. *)

LEMMA GrowthComposes ==
  ASSUME NEW n, BooksOK(n), NEW b, BooksOK(b), NEW q, BooksOK(q), NEW a
  PROVE  /\ GrowthIn(n, b, a) /\ NoGrowth(b, q) => GrowthIn(n, q, a)
         /\ NoGrowth(n, b) /\ GrowthIn(b, q, a) => GrowthIn(n, q, a)
<1>1. \A x \in Assets : /\ OpenInterestOf(n, x) \in Nat /\ OpenInterestOf(b, x) \in Nat
                        /\ OpenInterestOf(q, x) \in Nat
  BY DEF BooksOK, OpenInterestOf
<1> QED
  BY <1>1 DEF GrowthIn, NoGrowth

(* The row that is opened. *)
FreshRow(t, a, dir, size, collateral, leverage, mark) ==
    LET pos == NewPosition(t, a, dir, size, collateral, leverage, mark)
    IN  RowOK(pos) /\ pos.asset = a /\ pos.collateral = collateral

LEMMA NewRow ==
  ASSUME MInv, NEW t \in Traders, NEW a \in Assets, RiskKnown(a), NEW dir \in Dirs,
         NEW size \in Nat \ {0}, NEW collateral \in Nat \ {0}, NEW leverage \in Nat \ {0},
         NEW mark \in Nat \ {0}
  PROVE  FreshRow(t, a, dir, size, collateral, leverage, mark)
<1> DEFINE bps == effective_open_limits(a).mm_bps
           liq == calculate_liquidation_price(mark, leverage, dir, bps)
           pos == NewPosition(t, a, dir, size, collateral, leverage, mark)
<1>1. bps \in Nat
  BY StateFacts, RiskValues
<1> HIDE DEF bps
<1>2. liq \in Int
  BY <1>1, LeveragePriceType
<1> HIDE DEF liq
<1>3. cum_funding[a] \in Int /\ now \in Nat
  BY StateFacts
<1>4. pos = [trader |-> t, asset |-> a, dir |-> dir, size |-> size,
             collateral |-> collateral, entry |-> mark, liq |-> liq,
             entry_cum |-> cum_funding[a], opened |-> now, partial_liq_ts |-> 0]
  BY DEF NewPosition, liq, bps
<1> HIDE DEF pos
<1>5. DOMAIN pos = PositionFields
  BY <1>4 DEF PositionFields
<1>6. PositionOK(pos) /\ pos.asset = a /\ pos.collateral = collateral
  BY <1>2, <1>3, <1>4 DEF PositionOK
<1> QED
  BY <1>5, <1>6 DEF RowOK, FreshRow, pos

LEMMA PositiveReserve ==
  ASSUME NEW n, NEW a, NEW dir, NEW size, reserve_with_vault(n, a, dir, size)
  PROVE  size > 0
BY DEF reserve_with_vault, CanReserve

(* A fill pays the fee, the keeper and the new collateral out of what the    *)
(* order held.                                                               *)
LEMMA FillMoves ==
  ASSUME MInv, NEW o \in DOMAIN m.orders, m.orders[o].status = "Pending",
         m.orders[o].type \in EntryTypes,
         NEW pos, RowOK(pos), NEW fee \in Nat, NEW keeper_fee \in Nat, NEW payout \in Nat,
         pos.collateral = m.orders[o].collateral - fee - keeper_fee,
         NEW a, MarketOK(a), NoGrowth(m, a), Surplus(a) = Surplus(m), a.orders = m.orders
  PROVE  LET b == finalize_open(a, pos, fee, payout)
             c == [b EXCEPT !.cash = @ - keeper_fee,
                            !.orders = [b.orders EXCEPT
                               ![o] = [m.orders[o] EXCEPT !.position_id = b.position_counter]]]
             q == update_order_status(c, {o}, "Executed")
         IN  MarketOK(q) /\ Surplus(q) = 0 /\ GrowthIn(m, q, pos.asset)
<1> DEFINE order == m.orders[o]
           b == finalize_open(a, pos, fee, payout)
           c == [b EXCEPT !.cash = @ - keeper_fee,
                          !.orders = [b.orders EXCEPT
                             ![o] = [m.orders[o] EXCEPT !.position_id = b.position_counter]]]
           q == update_order_status(c, {o}, "Executed")
           row == [order EXCEPT !.position_id = b.position_counter]
           cash == b.cash - keeper_fee
           d == [b EXCEPT !.cash = cash]
<1>1. MarketOK(m) /\ Surplus(m) = 0 /\ order \in OrderRows
  BY StateFacts DEF MarketOK, OrdersOK
<1>2. /\ MarketOK(b) /\ GrowthIn(a, b, pos.asset) /\ b.orders = m.orders
      /\ Surplus(b) = 0 - fee - pos.collateral
  BY <1>1, OpenMoves
<1> HIDE DEF b
<1>3. /\ b.cash \in Int /\ b.overpaid \in Nat /\ MarginHeld(b) \in Nat
      /\ OrdersHeld(b) \in Nat /\ b.position_counter \in Nat
  BY <1>2, HeldTypes DEF MarketOK, PositionsOK
<1>4. cash \in Int
  BY <1>3
<1>5. /\ MarketOK(d) /\ NoGrowth(b, d) /\ d.cash = cash /\ d.overpaid = b.overpaid
      /\ MarginHeld(d) = MarginHeld(b) /\ OrdersHeld(d) = OrdersHeld(b)
      /\ d.orders = b.orders
  BY <1>2, <1>4, CashMoves
<1>6. Surplus(d) = Surplus(b) - keeper_fee
  BY <1>3, <1>5 DEF Surplus
<1>7. /\ row \in OrderRows /\ row.type = order.type /\ row.status = order.status
      /\ row.collateral = order.collateral /\ row.leverage = order.leverage
  BY <1>1, <1>3 DEF OrderRows
<1>8. c = [d EXCEPT !.orders = [d.orders EXCEPT ![o] = row]]
  BY <1>2, <1>5 DEF MarketOK, MoneyOK, MarketFields
<1>9. order.collateral \in Nat /\ pos.collateral \in Nat
  BY <1>1 DEF OrderRows, RowOK, PositionOK
<1> HIDE DEF c, d, row, cash
<1>10. /\ MarketOK(c) /\ NoGrowth(d, c) /\ Surplus(c) = Surplus(d)
       /\ DOMAIN c.orders = DOMAIN m.orders /\ c.orders[o] = row
  <2>1. o \in DOMAIN d.orders /\ d.orders = m.orders /\ d.orders[o] = order
    BY <1>2, <1>5
  <2> HIDE DEF order
  <2> QED
    BY <1>5, <1>7, <1>8, <2>1, OrderRewritten
<1>11. "Executed" \in FinalStatuses
  BY DEF FinalStatuses
<1>12. MarketOK(q) /\ NoGrowth(c, q) /\ Surplus(q) = Surplus(c) + HeldBy(row)
  BY <1>10, <1>11, FinishOrder
<1> HIDE DEF q
<1>13. HeldBy(row) = order.collateral
  BY <1>7 DEF HeldBy, Refund
<1>14. Surplus(q) = 0
  BY <1>2, <1>6, <1>9, <1>10, <1>12, <1>13
<1>15. GrowthIn(m, q, pos.asset)
  <2>1. /\ BooksOK(m) /\ BooksOK(a) /\ BooksOK(b) /\ BooksOK(c) /\ BooksOK(d) /\ BooksOK(q)
    BY <1>1, <1>2, <1>5, <1>10, <1>12 DEF MarketOK
  <2>2. GrowthIn(m, b, pos.asset)
    BY <1>2, <2>1, GrowthComposes
  <2>3. NoGrowth(b, c)
    BY <1>5, <1>10, <2>1, NoGrowthTransitive
  <2>4. NoGrowth(b, q)
    BY <1>12, <2>1, <2>3, NoGrowthTransitive
  <2> QED
    BY <2>1, <2>2, <2>4, GrowthComposes
<1> QED
  BY <1>12, <1>14, <1>15 DEF b, c, q

LEMMA EntryStep ==
  ASSUME MInv, NEW o \in DOMAIN m.orders, NEW mark \in Prices, NEW fee \in Fees,
         NEW payout \in Payouts, ExecuteEntry(o, mark, fee, payout)
  PROVE  MInv' /\ Allowed(m')
<1> DEFINE order == m.orders[o]
           size == calculate_position_size(order.collateral, order.leverage)
           keeper_fee == calculate_keeper_order_fee(size)
           left == order.collateral - fee - keeper_fee
           pool == reserve_for_position(m.pool, size)
           a == [m EXCEPT !.pool = pool]
           pos == NewPosition(order.trader, order.asset, order.dir, size, left,
                              order.leverage, mark)
           b == finalize_open(a, pos, fee, payout)
           c == [b EXCEPT !.cash = @ - keeper_fee,
                          !.orders = [b.orders EXCEPT
                             ![o] = [m.orders[o] EXCEPT !.position_id = b.position_counter]]]
           q == update_order_status(c, {o}, "Executed")
<1>1. /\ MarketOK(m) /\ Surplus(m) = 0 /\ order \in OrderRows /\ order.status = "Pending"
      /\ order.type \in EntryTypes /\ pause_mode' = effective_mode
      /\ effective_mode = 0 /\ ~halted[order.asset]
  BY StateFacts, HeadFacts DEF ExecuteEntry, FillsEntry
<1>2. /\ order.trader \in Traders /\ order.asset \in Assets /\ order.dir \in Dirs
      /\ order.collateral \in Nat /\ order.leverage \in Nat \ {0}
  <2>1. order.leverage > 0
    BY <1>1 DEF MarketOK, OrdersOK
  <2> HIDE DEF order
  <2> QED
    BY <1>1, <2>1 DEF OrderRows
<1>3. mark \in Nat \ {0} /\ fee \in Nat /\ payout \in Nat
  BY InputTypes
<1>4. /\ RiskKnown(order.asset)
      /\ reserve_with_vault(m, order.asset, order.dir, size)
      /\ fee + keeper_fee < order.collateral
  BY DEF ExecuteEntry, StillLegal
<1>5. Commit(q)
  <2>1. a = [m EXCEPT !.pool = reserve_for_position(@, size)]
    BY <1>1 DEF MarketOK, MoneyOK, MarketFields
  <2> QED
    BY <2>1 DEF ExecuteEntry
<1>6. size \in Nat \ {0}
  <2>1. size \in Nat
    BY <1>2 DEF calculate_position_size
  <2>2. size > 0
    BY <1>4, PositiveReserve
  <2> QED
    BY <2>1, <2>2
<1> HIDE DEF size
<1>7. keeper_fee \in Nat
  BY <1>6, KeeperFeeType
<1> HIDE DEF keeper_fee
<1>8. left \in Nat \ {0}
  BY <1>2, <1>3, <1>4, <1>7
<1> HIDE DEF left
<1>9. PoolInv(pool)
  BY <1>1, <1>6, ReserveKeeps DEF MarketOK, MoneyOK
<1> HIDE DEF pool
<1>10. MarketOK(a) /\ NoGrowth(m, a) /\ Surplus(a) = Surplus(m) /\ a.orders = m.orders
  BY <1>1, <1>9, PoolMoves
<1> HIDE DEF a
<1>11. RowOK(pos) /\ pos.asset = order.asset /\ pos.collateral = left
  <2> DEFINE t == order.trader
             asset == order.asset
             dir == order.dir
             lev == order.leverage
  <2>1. /\ t \in Traders /\ asset \in Assets /\ RiskKnown(asset) /\ dir \in Dirs
        /\ lev \in Nat \ {0}
    BY <1>2, <1>4
  <2> HIDE DEF t, asset, dir, lev
  <2>2. size \in Nat \ {0} /\ mark \in Nat \ {0}
    BY <1>3, <1>6
  <2>3. FreshRow(t, asset, dir, size, left, lev, mark)
    BY <1>8, <2>1, <2>2, NewRow
  <2> QED
    BY <2>3 DEF FreshRow, t, asset, dir, lev
<1> HIDE DEF pos
<1>12. pos.collateral = m.orders[o].collateral - fee - keeper_fee
  BY <1>11 DEF left
<1>13. MarketOK(q) /\ Surplus(q) = 0 /\ GrowthIn(m, q, pos.asset)
  BY <1>1, <1>3, <1>7, <1>10, <1>11, <1>12, FillMoves
<1> HIDE DEF q
<1>14. Allowed(q)
  BY <1>1, <1>2, <1>11, <1>13 DEF Allowed
<1> QED
  BY <1>1, <1>5, <1>13, <1>14, Committed

(* The size of the opposite legs. *)
LEMMA GrossType ==
  ASSUME NEW n, MarketOK(n), NEW S \in SUBSET DOMAIN n.positions
  PROVE  Gross(n, S) \in Nat
<1> DEFINE f == [i \in S |-> n.positions[i].size]
<1>1. IsFiniteSet(S)
  BY PositionsFinite, FS_Subset DEF MarketOK
<1>2. f \in [S -> Nat]
  BY RowFacts
<1> QED
  BY <1>1, <1>2, TotalType DEF Gross

(* Opposite positions are the trader's own, open, and in the asset.          *)
LEMMA OppositeRows ==
  ASSUME NEW n, MarketOK(n), NEW t \in Traders, NEW a, NEW dir
  PROVE  /\ Opposite(n, t, a, dir) \in SUBSET DOMAIN n.positions
         /\ \A i \in Opposite(n, t, a, dir) : n.positions[i].asset = a
BY DEF Opposite, MarketOK, PositionsOK

LEMMA OpenStep ==
  ASSUME MInv, NEW t \in Traders, NEW a \in Assets, NEW dir \in Dirs, NEW c \in Collaterals,
         NEW lev \in Leverages, NEW mark \in Prices, NEW fee \in Fees, NEW payout \in Payouts,
         OpenPosition(t, a, dir, c, lev, mark, fee, payout)
  PROVE  MInv' /\ Allowed(m')
<1> DEFINE legs == Opposite(m, t, a, dir)
           asked == calculate_position_size(c, lev)
           size == asked - Gross(m, legs)
           margin == IF legs = {} THEN c ELSE (c * size) \div asked
           n == CloseLegs(m, legs, mark, cum_funding[a])
           r == [n EXCEPT !.pool = reserve_for_position(@, size), !.cash = @ + margin]
           pos == NewPosition(t, a, dir, size, margin - fee, lev, mark)
           q == finalize_open(r, pos, fee, payout)
<1>1. /\ MarketOK(m) /\ Surplus(m) = 0 /\ cum_funding[a] \in Int
      /\ c \in Nat \ {0} /\ lev \in Nat \ {0} /\ mark \in Nat \ {0}
      /\ fee \in Nat /\ payout \in Nat
  BY StateFacts, InputTypes
<1>2. /\ Commit(q) /\ ~halted[a] /\ RiskKnown(a)
      /\ legs # {} => size > 0
      /\ reserve_with_vault(n, a, dir, size) /\ fee < margin
  BY DEF OpenPosition, require_asset_open, ValidEntry
<1>3. pause_mode' = effective_mode /\ effective_mode = 0
  BY Gates DEF OpenPosition
<1>4. legs \in SUBSET DOMAIN m.positions
  BY <1>1, OppositeRows
<1> HIDE DEF legs
<1>5. asked \in Nat /\ Gross(m, legs) \in Nat
  BY <1>1, <1>4, GrossType DEF calculate_position_size
<1>6. size \in Nat \ {0} /\ size <= asked
  <2>1. size > 0
    BY <1>2, PositiveReserve
  <2> QED
    BY <1>5, <2>1
<1> HIDE DEF asked, size
<1>7. margin \in Nat
  <2>1. c * size \in Nat /\ asked \in Nat \ {0}
    BY <1>1, <1>5, <1>6
  <2>2. (c * size) \div asked \in Nat
    BY <2>1, DivBound
  <2> QED
    BY <1>1, <2>2
<1> HIDE DEF margin
<1>8. margin - fee \in Nat \ {0}
  BY <1>1, <1>2, <1>7
<1>9. MarketOK(n) /\ NoGrowth(m, n) /\ Surplus(n) = Surplus(m)
  BY <1>1, <1>4, NettingMoves
<1> HIDE DEF n
<1> DEFINE pool == reserve_for_position(n.pool, size)
           b == [n EXCEPT !.pool = pool]
           cash == b.cash + margin
<1>10. PoolInv(pool)
  BY <1>6, <1>9, ReserveKeeps DEF MarketOK, MoneyOK
<1>11. r = [b EXCEPT !.cash = cash]
  BY <1>9 DEF MarketOK, MoneyOK, MarketFields
<1> HIDE DEF pool
<1>12. MarketOK(b) /\ NoGrowth(n, b) /\ Surplus(b) = Surplus(n)
  BY <1>9, <1>10, PoolMoves
<1> HIDE DEF b, r
<1>13. /\ b.cash \in Int /\ b.overpaid \in Nat /\ MarginHeld(b) \in Nat
       /\ OrdersHeld(b) \in Nat
  BY <1>12, HeldTypes
<1>14. cash \in Int
  BY <1>7, <1>13
<1>15. /\ MarketOK(r) /\ NoGrowth(b, r) /\ r.cash = cash /\ r.overpaid = b.overpaid
       /\ MarginHeld(r) = MarginHeld(b) /\ OrdersHeld(r) = OrdersHeld(b)
  BY <1>11, <1>12, <1>14, CashMoves
<1>16. Surplus(r) = margin
  BY <1>1, <1>7, <1>9, <1>12, <1>13, <1>15 DEF Surplus
<1>17. RowOK(pos) /\ pos.asset = a /\ pos.collateral = margin - fee
  <2> DEFINE left == margin - fee
  <2>1. RiskKnown(a)
    BY <1>2
  <2>2. left \in Nat \ {0}
    BY <1>8
  <2> HIDE DEF left
  <2>3. lev \in Nat \ {0} /\ mark \in Nat \ {0} /\ size \in Nat \ {0}
    BY <1>1, <1>6
  <2>4. FreshRow(t, a, dir, size, left, lev, mark)
    BY <2>1, <2>2, <2>3, NewRow
  <2> QED
    BY <2>4 DEF FreshRow, left
<1> HIDE DEF pos, cash
<1>18. MarketOK(q) /\ GrowthIn(r, q, a) /\ Surplus(q) = Surplus(r) - fee - pos.collateral
  <2>1. GrowthIn(r, q, pos.asset) => GrowthIn(r, q, a)
    BY <1>17
  <2>2. /\ MarketOK(q) /\ GrowthIn(r, q, pos.asset)
        /\ Surplus(q) = Surplus(r) - fee - pos.collateral
    <3>1. MarketOK(r) /\ RowOK(pos) /\ fee \in Nat /\ payout \in Nat
      BY <1>1, <1>15, <1>17
    <3> QED
      BY <3>1, OpenMoves
  <2> QED
    BY <2>1, <2>2
<1> HIDE DEF q
<1>19. Surplus(q) = 0
  BY <1>1, <1>7, <1>16, <1>17, <1>18
<1>20. GrowthIn(m, q, a)
  <2>1. BooksOK(m) /\ BooksOK(n) /\ BooksOK(b) /\ BooksOK(r) /\ BooksOK(q)
    BY <1>1, <1>9, <1>12, <1>15, <1>18 DEF MarketOK
  <2>2. NoGrowth(m, b)
    BY <1>9, <1>12, <2>1, NoGrowthTransitive
  <2>3. NoGrowth(m, r)
    BY <1>15, <2>1, <2>2, NoGrowthTransitive
  <2> QED
    BY <1>18, <2>1, <2>3, GrowthComposes
<1>21. Allowed(q)
  BY <1>2, <1>3, <1>20 DEF Allowed
<1> QED
  BY <1>2, <1>3, <1>18, <1>19, <1>21, Committed

-----------------------------------------------------------------------------
(* Reductions and closes by an order. *)

(* The target of a reduce-only order is one of the candidates. *)
LEMMA TargetExists ==
  ASSUME MarketOK(m), NEW S \in SUBSET DOMAIN m.positions, S # {}
  PROVE  ReduceTarget(S) \in S
<1> DEFINE f == [i \in S |-> m.positions[i].size]
           B == Total(f)
           T == {B - f[i] : i \in S}
<1>1. IsFiniteSet(S) /\ S \in SUBSET Nat
  BY PositionsFinite, FS_Subset DEF MarketOK, PositionsOK
<1>2. f \in [S -> Nat]
  BY RowFacts
<1>3. \A i \in S : m.positions[i].size = f[i]
  OBVIOUS
<1> HIDE DEF f
<1>4. B \in Nat /\ \A i \in S : f[i] <= B
  BY <1>1, <1>2, TotalType, TotalBounds
<1> HIDE DEF B
<1>5. T \in SUBSET Nat /\ T # {}
  BY <1>2, <1>4
<1>6. PICK x \in T : \A y \in T : x <= y
  BY <1>5, LeastElement
<1>7. PICK k \in S : x = B - f[k]
  BY <1>6
<1>8. \A i \in S : f[i] <= f[k]
  <2>1. ASSUME NEW i \in S
        PROVE  f[i] <= f[k]
    <3>1. B - f[k] <= B - f[i]
      BY <1>6, <1>7
    <3> QED
      BY <1>2, <1>4, <3>1
  <2> QED
    BY <2>1
<1> DEFINE U == {i \in S : f[i] = f[k]}
<1>9. U \in SUBSET Nat /\ U # {}
  BY <1>1
<1>10. PICK u \in U : \A j \in U : u <= j
  BY <1>9, LeastElement
<1>11. \A j \in S : \/ m.positions[j].size < m.positions[u].size
                    \/ m.positions[j].size = m.positions[u].size /\ u <= j
  BY <1>2, <1>3, <1>8, <1>10
<1>12. u \in S
  BY <1>10
<1> QED
  BY <1>11, <1>12, Zenon DEF ReduceTarget

(* The order's refund pays for nothing but the order's own end. *)
LEMMA ReduceMoves ==
  ASSUME MInv, NEW o \in DOMAIN m.orders, m.orders[o].status = "Pending",
         m.orders[o].type \in EntryTypes, NEW id \in DOMAIN m.positions,
         NEW mark \in Nat, NEW cum \in Int, NEW size \in Nat, NEW keeper_fee \in Nat
  PROVE  LET pos == m.positions[id]
             a == [m EXCEPT !.cash = @ - Refund(m.orders[o])]
             dust == pos.collateral - CollateralClosed(pos, size) < Config.min_collateral
             b == IF size >= pos.size \/ dust
                    THEN settle_isolated_close(a, id, mark, cum, keeper_fee, o)
                    ELSE settle_partial_close(a, id, mark, cum, size, keeper_fee)
             q == update_order_status(b, {o}, "Executed")
         IN  MarketOK(q) /\ NoGrowth(m, q) /\ Surplus(q) = 0
<1> DEFINE order == m.orders[o]
           pos == m.positions[id]
           cash == m.cash - Refund(order)
           a == [m EXCEPT !.cash = @ - Refund(order)]
           part == CollateralClosed(pos, size)
           dust == pos.collateral - part < Config.min_collateral
           b == IF size >= pos.size \/ dust
                  THEN settle_isolated_close(a, id, mark, cum, keeper_fee, o)
                  ELSE settle_partial_close(a, id, mark, cum, size, keeper_fee)
           q == update_order_status(b, {o}, "Executed")
<1>1. /\ MarketOK(m) /\ Surplus(m) = 0 /\ order \in OrderRows /\ m.cash \in Int
      /\ m.overpaid \in Nat /\ MarginHeld(m) \in Nat /\ OrdersHeld(m) \in Nat
  BY StateFacts, HeldTypes DEF MarketOK, OrdersOK
<1>2. Refund(order) \in Nat /\ HeldBy(order) = Refund(order)
  BY <1>1, HeldByType DEF HeldBy
<1>3. a = [m EXCEPT !.cash = cash] /\ cash \in Int
  BY <1>1, <1>2 DEF MarketOK, MoneyOK, MarketFields
<1>4. /\ MarketOK(a) /\ NoGrowth(m, a) /\ a.cash = cash /\ a.overpaid = m.overpaid
      /\ MarginHeld(a) = MarginHeld(m) /\ OrdersHeld(a) = OrdersHeld(m)
      /\ a.orders = m.orders /\ a.positions = m.positions
  BY <1>1, <1>3, CashMoves
<1> HIDE DEF a
<1>5. Surplus(a) = 0 - Refund(order)
  BY <1>1, <1>2, <1>4 DEF Surplus
<1>6. /\ MarketOK(b) /\ NoGrowth(a, b) /\ Surplus(b) = Surplus(a)
      /\ DOMAIN b.orders = DOMAIN m.orders /\ b.orders[o] = order
  <2>1. id \in DOMAIN a.positions /\ a.positions[id] = pos /\ RowOK(pos)
    BY <1>1, <1>4, RowFacts
  <2>2. CASE size >= pos.size \/ dust
    <3> DEFINE c == settle_isolated_close(a, id, mark, cum, keeper_fee, o)
    <3>1. /\ MarketOK(c) /\ NoGrowth(a, c) /\ Surplus(c) = Surplus(a)
          /\ BookKept(a, c, o)
      BY <1>4, <2>1, CloseMoves
    <3>2. b = c
      BY <2>2
    <3> HIDE DEF c, b
    <3>3. DOMAIN c.orders = DOMAIN m.orders /\ c.orders[o] = order
      BY <1>4, <3>1 DEF BookKept
    <3> QED
      BY <3>1, <3>2, <3>3
  <2>3. CASE ~(size >= pos.size \/ dust)
    <3> DEFINE c == settle_partial_close(a, id, mark, cum, size, keeper_fee)
    <3>1. size < pos.size /\ pos.collateral - part > 0
      <4>1. pos.size \in Nat /\ pos.collateral \in Nat
        BY <2>1 DEF RowOK, PositionOK
      <4>2. size < pos.size
        BY <2>3, <4>1
      <4>3. part \in Nat
        BY <2>1, <4>1, <4>2, CollateralClosedRange
      <4>4. ~dust
        BY <2>3
      <4> HIDE DEF part, pos
      <4> QED
        BY <4>1, <4>2, <4>3, <4>4, MarginValues
    <3>2. /\ MarketOK(c) /\ NoGrowth(a, c) /\ Surplus(c) = Surplus(a)
          /\ c.orders = a.orders
      BY <1>4, <2>1, <3>1, PartialMoves
    <3>3. b = c
      BY <2>3
    <3> HIDE DEF c, b
    <3> QED
      BY <1>4, <3>2, <3>3
  <2> QED
    BY <2>2, <2>3
<1> HIDE DEF b
<1>7. "Executed" \in FinalStatuses
  BY DEF FinalStatuses
<1>8. MarketOK(q) /\ NoGrowth(b, q) /\ Surplus(q) = Surplus(b) + HeldBy(b.orders[o])
  BY <1>6, <1>7, FinishOrder
<1> HIDE DEF q, order
<1>9. Surplus(q) = 0
  BY <1>2, <1>5, <1>6, <1>8
<1>10. NoGrowth(m, q)
  <2>1. BooksOK(m) /\ BooksOK(a) /\ BooksOK(b) /\ BooksOK(q)
    BY <1>1, <1>4, <1>6, <1>8 DEF MarketOK
  <2>2. NoGrowth(m, b)
    BY <1>4, <1>6, <2>1, NoGrowthTransitive
  <2> QED
    BY <1>8, <2>1, <2>2, NoGrowthTransitive
<1> QED
  BY <1>8, <1>9, <1>10 DEF a, b, q, order

LEMMA ReduceOnlyStep ==
  ASSUME MInv, NEW o \in DOMAIN m.orders, NEW mark \in Prices, ExecuteReduceOnly(o, mark)
  PROVE  MInv' /\ Allowed(m')
<1> DEFINE order == m.orders[o]
           size == calculate_position_size(order.collateral, order.leverage)
           keeper_fee == calculate_keeper_order_fee(size)
           targets == Opposite(m, order.trader, order.asset, order.dir)
           id == ReduceTarget(targets)
           pos == m.positions[id]
           cum == cum_funding[order.asset]
           a == [m EXCEPT !.cash = @ - Refund(m.orders[o])]
           dust == pos.collateral - CollateralClosed(pos, size) < Config.min_collateral
           b == IF size >= pos.size \/ dust
                  THEN settle_isolated_close(a, id, mark, cum, keeper_fee, o)
                  ELSE settle_partial_close(a, id, mark, cum, size, keeper_fee)
           q == update_order_status(b, {o}, "Executed")
           r == update_order_status(WithdrawnOrder(o, "Cancelled"), {o}, "Executed")
<1>1. /\ MarketOK(m) /\ order \in OrderRows /\ order.status = "Pending"
      /\ order.type \in EntryTypes /\ pause_mode' = effective_mode
  BY StateFacts, HeadFacts DEF ExecuteReduceOnly, FillsEntry
<1>2. (targets # {} /\ Commit(q)) \/ Commit(r)
  BY DEF ExecuteReduceOnly
<1>3. CASE targets # {} /\ Commit(q)
  <2>1. order.trader \in Traders /\ order.asset \in Assets /\ size \in Nat
    BY <1>1 DEF OrderRows, calculate_position_size
  <2>2. targets \in SUBSET DOMAIN m.positions
    BY <1>1, <2>1, OppositeRows
  <2> HIDE DEF targets, size
  <2>3. id \in DOMAIN m.positions
    BY <1>1, <1>3, <2>2, TargetExists
  <2>4. keeper_fee \in Nat /\ cum \in Int /\ mark \in Nat
    BY <2>1, KeeperFeeType, StateFacts, InputTypes
  <2> HIDE DEF id, keeper_fee, cum
  <2>5. MarketOK(q) /\ NoGrowth(m, q) /\ Surplus(q) = 0
    BY <1>1, <2>1, <2>3, <2>4, ReduceMoves
  <2> HIDE DEF q
  <2> QED
    BY <1>1, <1>3, <2>5, Committed DEF Allowed
<1>4. CASE Commit(r)
  <2>1. MarketOK(r) /\ NoGrowth(m, r) /\ Surplus(r) = 0
    BY <1>1, RefundMoves
  <2> HIDE DEF r
  <2> QED
    BY <1>1, <1>4, <2>1, Committed DEF Allowed
<1> QED
  BY <1>2, <1>3, <1>4

LEMMA ExecuteCloseStep ==
  ASSUME MInv, NEW o \in DOMAIN m.orders, NEW mark \in Prices, NEW smoothed,
         ExecuteClose(o, mark, smoothed)
  PROVE  MInv' /\ Allowed(m')
<1> DEFINE order == m.orders[o]
           id == order.position_id
           pos == m.positions[id]
           cum == cum_funding[pos.asset]
           keeper_fee == calculate_keeper_order_fee(pos.size)
           a == IF order.type = "TrailingStop" THEN DropPeaks(m, {o}) ELSE m
           b == settle_isolated_close(a, id, mark, cum, keeper_fee, o)
           q == update_order_status(b, {o}, "Executed")
<1>1. /\ MarketOK(m) /\ Surplus(m) = 0 /\ order.type \in CloseTypes
      /\ pause_mode' = effective_mode /\ id \in DOMAIN m.positions
  BY StateFacts, HeadFacts DEF ExecuteClose
<1>2. Commit(q)
  BY DEF ExecuteClose
<1>3. /\ MarketOK(a) /\ SamePositions(m, a) /\ SameMoney(m, a) /\ SameBooks(m, a)
      /\ a.orders = m.orders /\ OrdersHeld(a) = OrdersHeld(m)
  <2>1. CASE order.type = "TrailingStop"
    BY <1>1, <2>1, DropPeaksBook DEF BookOnly, SameOrders
  <2>2. CASE order.type # "TrailingStop"
    BY <1>1, <2>2 DEF SameMoney, SamePositions, SameBooks
  <2> QED
    BY <2>1, <2>2
<1> HIDE DEF a
<1>4. keeper_fee \in Nat /\ cum \in Int /\ mark \in Nat
  <2>1. pos.size \in Nat /\ pos.asset \in Assets
    BY <1>1, RowFacts
  <2> QED
    BY <1>1, <2>1, KeeperFeeType, StateFacts, InputTypes
<1>5. id \in DOMAIN a.positions /\ o \in DOMAIN a.orders
  BY <1>1, <1>3 DEF SamePositions
<1>6. HeldBy(order) = 0
  BY <1>1 DEF HeldBy, Refund, EntryTypes, CloseTypes
<1> HIDE DEF id, keeper_fee, cum
<1>7. MarketOK(b) /\ NoGrowth(a, b) /\ Surplus(b) = Surplus(a) /\ BookKept(a, b, o)
  BY <1>3, <1>4, <1>5, CloseMoves
<1> HIDE DEF b
<1>8. o \in DOMAIN b.orders /\ b.orders[o] = order
  BY <1>3, <1>5, <1>7 DEF BookKept
<1>9. "Executed" \in FinalStatuses
  BY DEF FinalStatuses
<1>10. MarketOK(q) /\ NoGrowth(b, q) /\ Surplus(q) = Surplus(b) + HeldBy(b.orders[o])
  BY <1>7, <1>8, <1>9, FinishOrder
<1> HIDE DEF q, order
<1>11. NoGrowth(m, a) /\ Surplus(a) = 0
  BY <1>1, <1>3, SameKeeps DEF Surplus, SameMoney, MarketOK
<1>12. Surplus(q) = 0
  BY <1>6, <1>7, <1>8, <1>10, <1>11
<1>13. NoGrowth(m, q)
  <2>1. BooksOK(m) /\ BooksOK(a) /\ BooksOK(b) /\ BooksOK(q)
    BY <1>1, <1>3, <1>7, <1>10 DEF MarketOK
  <2>2. NoGrowth(m, b)
    BY <1>7, <1>11, <2>1, NoGrowthTransitive
  <2> QED
    BY <1>10, <2>1, <2>2, NoGrowthTransitive
<1> QED
  BY <1>1, <1>2, <1>10, <1>12, <1>13, Committed DEF Allowed

-----------------------------------------------------------------------------
(* Funding, the admin and the clock leave the market record alone. *)

LEMMA Untouched ==
  ASSUME MInv, m' = m, RiskOKAll', ClockOK'
  PROVE  MInv' /\ Allowed(m')
<1>1. NoGrowth(m, m')
  BY DEF NoGrowth, MInv, MarketOK, BooksOK, OpenInterestOf
<1> QED
  BY <1>1 DEF MInv, Allowed

LEMMA FundingStep ==
  ASSUME MInv, NEW step \in [DOMAIN risk -> FundingSteps], ApplyFunding(step)
  PROVE  MInv' /\ Allowed(m')
<1>1. \A x \in FundingSteps : x \in Int
  BY InputAssumption, Zenon
<1>2. m' = m /\ UNCHANGED <<halted, risk, risk_epoch, pause_since, now>>
  BY DEF ApplyFunding, adminVars
<1>3. pause_mode' \in 0..2
  <2>1. effective_mode \in 0..2
    BY DEF MInv, ClockOK, effective_mode
  <2> QED
    BY <2>1, Gates DEF ApplyFunding
<1>4. cum_funding' \in [Assets -> Int]
  <2>1. \A a \in Assets : cum_funding[a] + (IF a \in DOMAIN risk THEN step[a] ELSE 0) \in Int
    BY <1>1, StateFacts
  <2> QED
    BY <2>1 DEF ApplyFunding
<1>5. RiskOKAll'
  BY <1>2 DEF MInv, RiskOKAll
<1>6. ClockOK'
  BY <1>2, <1>3, <1>4 DEF MInv, ClockOK
<1> QED
  BY <1>2, <1>5, <1>6, Untouched

LEMMA PauseStep ==
  ASSUME MInv, (\E mode \in PauseModes : Pause(mode)) \/ Unpause
  PROVE  MInv' /\ Allowed(m')
<1>1. pause_mode' \in 0..2
  <2>1. PauseModes \subseteq {1, 2}
    BY InputAssumption, Zenon
  <2> QED
    BY <2>1 DEF Pause, Unpause
<1>2. /\ m' = m /\ UNCHANGED <<cum_funding, halted, risk, risk_epoch, now>>
      /\ pause_since' = now
  BY DEF Pause, Unpause, adminVars
<1>3. RiskOKAll' /\ ClockOK'
  BY <1>1, <1>2 DEF MInv, RiskOKAll, ClockOK
<1> QED
  BY <1>2, <1>3, Untouched

LEMMA HaltStep ==
  ASSUME MInv, NEW a \in Assets, NEW value \in Halts, SetAssetHalt(a, value)
  PROVE  MInv' /\ Allowed(m')
<1>1. value \in BOOLEAN
  BY InputAssumption, Zenon
<1>2. /\ m' = m /\ UNCHANGED <<cum_funding, risk, risk_epoch, pause_mode, pause_since, now>>
      /\ halted' = [halted EXCEPT ![a] = value]
  BY DEF SetAssetHalt
<1>3. halted' \in [Assets -> BOOLEAN]
  BY <1>1, <1>2, Zenon DEF MInv, ClockOK
<1>4. RiskOKAll' /\ ClockOK'
  BY <1>2, <1>3 DEF MInv, RiskOKAll, ClockOK
<1> QED
  BY <1>2, <1>4, Untouched

LEMMA RiskStep ==
  ASSUME MInv, NEW a \in Assets, NEW params \in RiskParams, SetAssetRisk(a, params)
  PROVE  MInv' /\ Allowed(m')
<1>1. RiskOK(params)
  BY RiskAssumption, Zenon
<1>2. /\ m' = m /\ UNCHANGED <<cum_funding, halted, pause_mode, pause_since, now>>
      /\ risk' = [x \in DOMAIN risk \cup {a} |-> IF x = a THEN params ELSE risk[x]]
      /\ risk_epoch' = IF risk_epoch = 0 THEN now ELSE risk_epoch
  BY DEF SetAssetRisk
<1>3. ClockOK'
  BY <1>2 DEF MInv, ClockOK
<1>4. RiskOKAll'
  <2>1. DOMAIN risk' = DOMAIN risk \cup {a}
    BY <1>2
  <2>2. \A x \in DOMAIN risk' : risk'[x] = IF x = a THEN params ELSE risk[x]
    BY <1>2
  <2>3. \A x \in DOMAIN risk : RiskOK(risk[x])
    BY DEF MInv, RiskOKAll
  <2>4. \A x \in DOMAIN risk' : RiskOK(risk'[x])
    BY <1>1, <2>1, <2>2, <2>3
  <2>5. DOMAIN risk' \subseteq Assets
    BY <2>1 DEF MInv, RiskOKAll
  <2>6. risk_epoch' \in Nat
    BY <1>2 DEF MInv, RiskOKAll, ClockOK
  <2> QED
    BY <2>4, <2>5, <2>6 DEF RiskOKAll
<1> QED
  BY <1>2, <1>3, <1>4, Untouched

LEMMA TickStep ==
  ASSUME MInv, Tick
  PROVE  MInv' /\ Allowed(m')
<1>1. /\ m' = m /\ UNCHANGED <<cum_funding, halted, risk, risk_epoch, pause_mode, pause_since>>
      /\ now' = now + 1
  BY DEF Tick, adminVars
<1>2. RiskOKAll' /\ ClockOK'
  BY <1>1 DEF MInv, RiskOKAll, ClockOK
<1> QED
  BY <1>1, <1>2, Untouched

LEMMA StutterStep ==
  ASSUME MInv, UNCHANGED vars
  PROVE  MInv' /\ Allowed(m')
<1>1. UNCHANGED <<m, cum_funding, halted, risk, risk_epoch, pause_mode, pause_since, now>>
  BY DEF vars, adminVars
<1>2. RiskOKAll' /\ ClockOK'
  BY <1>1 DEF MInv, RiskOKAll, ClockOK
<1> QED
  BY <1>1, <1>2, Untouched

-----------------------------------------------------------------------------
(* The invariant. *)

(* Nothing is held where there is nobody. *)
LEMMA EmptyTotal ==
  ASSUME NEW f, DOMAIN f = {}
  PROVE  Total(f) = 0
<1>1. Units(f) = {}
  BY DEF Units
<1> QED
  BY <1>1, FS_EmptySet DEF Total

LEMMA InitialPoolInv == PoolInv(InitialPool)
<1> DEFINE owed == [t \in Traders |-> 0]
<1>1. Total(owed) = 0
  BY TotalZero
<1>2. owed \in [Traders -> Nat] /\ InitialPool.shortfall_owed = owed
  BY DEF InitialPool
<1> HIDE DEF owed
<1>3. InitialLiquidity \in Nat /\ InitialBuffer \in Nat
  BY MarketAssumption
<1>4. PoolOK(InitialPool)
  BY <1>2, <1>3 DEF PoolOK, PoolFields, InitialPool
<1> QED
  BY <1>1, <1>2, <1>4 DEF PoolInv, InitialPool

LEMMA MInvInit == Init => MInv
<1> SUFFICES ASSUME Init PROVE MInv
  OBVIOUS
<1>1. /\ DOMAIN m = MarketFields /\ m.cash = 0 /\ m.overpaid = 0 /\ m.pool = InitialPool
      /\ m.positions = [i \in {} |-> 0] /\ m.position_counter = 0
      /\ m.listed = [t \in Traders |-> {}] /\ m.orders = <<>> /\ m.links = {}
      /\ m.total_long = 0 /\ m.total_short = 0
      /\ m.exposure = [a \in Assets |-> NoExposure] /\ m.adl = [a \in Assets |-> FALSE]
  BY DEF Init, MarketFields
<1>2. MoneyOK(m)
  BY <1>1, InitialPoolInv DEF MoneyOK
<1>3. DOMAIN m.positions = {} /\ DOMAIN m.orders = {}
  BY <1>1
<1>4. PositionsOK(m)
  BY <1>1, <1>3 DEF PositionsOK
<1>5. OrdersOK(m)
  <2>1. m.orders \in Seq(OrderRows)
    BY <1>1
  <2> QED
    BY <1>1, <1>3, <2>1 DEF OrdersOK
<1>6. BooksOK(m)
  <2>1. m.adl \in [Assets -> BOOLEAN]
    BY <1>1, Zenon
  <2>2. \A a \in Assets : m.exposure[a] = NoExposure
    BY <1>1
  <2> QED
    BY <1>1, <2>1, <2>2 DEF BooksOK, NoExposure, ExposureFields
<1>7. Surplus(m) = 0
  <2>1. MarginHeld(m) = 0 /\ OrdersHeld(m) = 0
    BY <1>3, EmptyTotal DEF MarginHeld, OrdersHeld
  <2> QED
    BY <1>1, <2>1 DEF Surplus
<1>8. RiskOKAll
  BY RiskAssumption DEF Init, RiskOKAll
<1>9. ClockOK
  <2>1. halted \in [Assets -> BOOLEAN]
    BY Zenon DEF Init
  <2>2. cum_funding \in [Assets -> Int]
    BY DEF Init
  <2> QED
    BY <2>1, <2>2 DEF Init, ClockOK
<1> QED
  BY <1>1, <1>2, <1>4, <1>5, <1>6, <1>7, <1>8, <1>9 DEF MInv, MarketOK

(* Every action keeps the invariant and adds to open interest only where it  *)
(* is allowed to.                                                            *)
LEMMA PlacementKeeps ==
  ASSUME MInv, PlacementStep
  PROVE  MInv' /\ Allowed(m')
<1>1. ASSUME NEW t \in Traders, NEW a \in Assets, NEW dir \in Dirs, NEW c \in Collaterals,
             NEW lev \in Leverages, NEW trigger \in Triggers, NEW above \in BOOLEAN,
             NEW ro \in BOOLEAN, NEW tol \in Tolerances, NEW tif \in TimesInForce,
             NEW mark \in Prices,
             PlaceLimitOrder(t, a, dir, c, lev, trigger, above, tol, tif, ro, mark)
      PROVE  MInv' /\ Allowed(m')
  BY <1>1, LimitStep
<1>2. ASSUME NEW t \in Traders, NEW a \in Assets, NEW dir \in Dirs, NEW c \in Collaterals,
             NEW lev \in Leverages, NEW trigger \in Triggers, NEW above \in BOOLEAN,
             NEW ro \in BOOLEAN, NEW tol \in Tolerances, NEW limit \in Triggers,
             PlaceStopLimitOrder(t, a, dir, c, lev, trigger, limit, above, tol, ro)
      PROVE  MInv' /\ Allowed(m')
  BY <1>2, StopLimitStep
<1>3. ASSUME NEW id \in DOMAIN m.positions, NEW tol \in Tolerances,
             \/ \E trigger \in Triggers : SetStopLoss(id, trigger, tol)
             \/ \E trigger \in Triggers, limit \in Triggers \cup {0} :
                  SetTakeProfit(id, trigger, limit, tol)
             \/ \E trail \in Trails, mark \in Prices : PlaceTrailingStop(id, trail, tol, mark)
      PROVE  MInv' /\ Allowed(m')
  BY <1>3, StopLossStep, TakeProfitStep, TrailingStep
<1> QED
  BY <1>1, <1>2, <1>3 DEF PlacementStep

LEMMA PositionKeeps ==
  ASSUME MInv, PositionStep
  PROVE  MInv' /\ Allowed(m')
<1>1. ASSUME NEW t \in Traders, NEW a \in Assets, NEW dir \in Dirs, NEW c \in Collaterals,
             NEW lev \in Leverages, NEW mark \in Prices, NEW fee \in Fees,
             NEW payout \in Payouts, OpenPosition(t, a, dir, c, lev, mark, fee, payout)
      PROVE  MInv' /\ Allowed(m')
  BY <1>1, OpenStep
<1> QED
  BY <1>1, CloseStep, PartialStep, AddStep, RemoveStep DEF PositionStep

LEMMA KeeperKeeps ==
  ASSUME MInv, KeeperStep
  PROVE  MInv' /\ Allowed(m')
<1>1. ASSUME NEW o \in DOMAIN m.orders, NEW mark \in Prices,
             \/ UpdateTrailingPeak(o, mark)
             \/ \E smoothed \in Prices \cup {0} : ExecuteOutOfBand(o, mark, smoothed)
             \/ ExecuteStopPhase(o, mark)
             \/ \E fee \in Fees, payout \in Payouts : ExecuteEntry(o, mark, fee, payout)
             \/ ExecuteIllegalEntry(o, mark)
             \/ ExecuteReduceOnly(o, mark)
             \/ \E smoothed \in Prices \cup {0} : ExecuteClose(o, mark, smoothed)
      PROVE  MInv' /\ Allowed(m')
  BY <1>1, PeakStep, OutOfBandStep, StopPhaseStep, EntryStep, IllegalEntryStep,
     ReduceOnlyStep, ExecuteCloseStep
<1>2. ASSUME \/ \E id \in DOMAIN m.positions, mark \in Prices, smoothed \in Prices \cup {0} :
                  Liquidate(id, mark, smoothed)
             \/ \E a \in Assets, mark \in Prices : CheckAdlTrigger(a, mark)
             \/ \E id \in DOMAIN m.positions, mark \in Prices : AdlClose(id, mark)
             \/ \E a \in Assets, mark \in Prices : SyncAssetPnl(a, mark)
             \/ \E step \in [DOMAIN risk -> FundingSteps] : ApplyFunding(step)
      PROVE  MInv' /\ Allowed(m')
  BY <1>2, LiquidateStep, AdlFlagStep, AdlCloseStep, SyncStep, FundingStep
<1> QED
  BY <1>1, <1>2 DEF KeeperStep

LEMMA MInvNext ==
  ASSUME MInv, [Next]_vars
  PROVE  MInv' /\ Allowed(m')
<1>1. CASE PositionStep
  BY <1>1, PositionKeeps
<1>2. CASE OrderStep
  BY <1>2, PlacementKeeps, CancelStep DEF OrderStep
<1>3. CASE KeeperStep
  BY <1>3, KeeperKeeps
<1>4. CASE VaultStep
  BY <1>4, ClaimStep, WithdrawStep DEF VaultStep
<1>5. CASE AdminStep
  BY <1>5, PauseStep, ReseedStep, HaltStep, RiskStep DEF AdminStep
<1>6. CASE Tick
  BY <1>6, TickStep
<1>7. CASE UNCHANGED vars
  BY <1>7, StutterStep
<1> QED
  BY <1>1, <1>2, <1>3, <1>4, <1>5, <1>6, <1>7 DEF Next

(* The inductive invariant holds in every reachable state. *)
THEOREM MarketInvariant == Spec => []MInv
<1>1. MInv /\ [Next]_vars => MInv'
  BY MInvNext
<1> QED
  BY <1>1, MInvInit, PTL DEF Spec

(* Every reachable state is well typed: the market's balance never goes      *)
(* negative, no row is left without size or collateral, every id was given   *)
(* out (all entry points of lib.rs, through every close and netting).        *)
THEOREM MarketTypeOK == Spec => []TypeOK
<1>1. ASSUME MInv
      PROVE  TypeOK
  <2>1. MarketOK(m) /\ m.cash \in Nat
    BY <1>1 DEF MInv, MarketOK, MoneyOK
  <2>2. \A i \in DOMAIN m.positions : PositionOK(m.positions[i])
    BY <2>1 DEF MarketOK, PositionsOK, RowOK
  <2>3. \A r \in OrderRows : OrderOK(r)
    BY DEF OrderRows, OrderOK
  <2>4. \A o \in DOMAIN m.orders : m.orders[o] \in OrderRows
    BY <2>1 DEF MarketOK, OrdersOK
  <2>5. m.adl \in [Assets -> BOOLEAN] /\ m.overpaid \in Nat
    BY <2>1 DEF MarketOK, BooksOK, MoneyOK
  <2>6. m.position_counter \in Nat /\ DOMAIN m.positions \subseteq 1..m.position_counter
    BY <2>1 DEF MarketOK, PositionsOK
  <2> QED
    BY <1>1, <2>1, <2>2, <2>3, <2>4, <2>5, <2>6 DEF TypeOK, MInv, ClockOK
<1> QED
  BY <1>1, MarketInvariant, PTL

(* The market's USDC is exactly what it owes to open positions and pending   *)
(* entry orders, less what liquidations overpaid: no close, netting, fill,   *)
(* refund, tranche or cancellation spends another trader's custody.          *)
THEOREM MarketCustody == Spec => []Custody
<1>1. ASSUME MInv
      PROVE  Custody
  <2>1. MarketOK(m) /\ Surplus(m) = 0
    BY <1>1 DEF MInv
  <2>2. /\ MarginHeld(m) \in Nat /\ OrdersHeld(m) \in Nat /\ m.cash \in Int
        /\ m.overpaid \in Nat
    BY <2>1, HeldTypes
  <2> QED
    BY <2>1, <2>2 DEF Surplus, Custody
<1> QED
  BY <1>1, MarketInvariant, PTL

-----------------------------------------------------------------------------
(* The way out.  Every call of the vault keeps the balance its receipt check *)
(* compares; the market's own balance follows from its custody.              *)

LEMMA ReceiptKept ==
  ASSUME NEW p, PoolInv(p), CashCovers(p)
  PROVE  /\ \A t \in Traders, pnl \in Nat \ {0} : CashCovers(settle_pnl(p, t, pnl))
         /\ \A amount \in Int : CashCovers(record_bad_debt(p, amount))
         /\ \A amount \in Nat : CashCovers(pay_bounty(p, amount))
         /\ \A a \in Assets, pnl \in Int, release \in Nat :
              CashCovers(sync_exposure(p, a, pnl, release))
<1>0. PoolOK(p)
  BY DEF PoolInv
<1>1. ASSUME NEW t \in Traders, NEW pnl \in Nat \ {0}
      PROVE  CashCovers(settle_pnl(p, t, pnl))
  <2> DEFINE paid == SettlePaid(p, pnl)
             from == Least(paid, p.buffer)
             q == settle_pnl(p, t, pnl)
  <2>1. paid \in Nat /\ from \in Int
    BY <1>0 DEF SettlePaid, Least, Floor0, Spendable, PoolOK
  <2>2. /\ q.cash = p.cash - paid /\ q.buffer = p.buffer - from
        /\ q.total_usdc = p.total_usdc - (paid - from)
        /\ q.total_fees = p.total_fees /\ q.shortfall_reserve = p.shortfall_reserve
    BY <1>0 DEF settle_pnl, PoolOK, PoolFields
  <2> HIDE DEF paid, from, q
  <2>3. CashCovers(q)
    BY <1>0, <2>1, <2>2 DEF CashCovers, PoolOK
  <2> QED
    BY <2>3 DEF q
<1>2. ASSUME NEW amount \in Int
      PROVE  CashCovers(record_bad_debt(p, amount))
  <2> SUFFICES ASSUME amount > 0 PROVE CashCovers(draw_buffer(p, amount))
    BY DEF record_bad_debt
  <2> DEFINE covered == Least(amount, p.buffer)
             q == draw_buffer(p, amount)
  <2>1. covered \in Int
    BY <1>0 DEF Least, PoolOK
  <2>2. /\ q.cash = p.cash /\ q.buffer = p.buffer - covered
        /\ q.total_usdc = p.total_usdc + covered
        /\ q.total_fees = p.total_fees /\ q.shortfall_reserve = p.shortfall_reserve
    BY <1>0 DEF draw_buffer, PoolOK, PoolFields
  <2> HIDE DEF covered, q
  <2>3. CashCovers(q)
    BY <1>0, <2>1, <2>2 DEF CashCovers, PoolOK
  <2> QED
    BY <2>3 DEF q
<1>3. ASSUME NEW amount \in Nat
      PROVE  CashCovers(pay_bounty(p, amount))
  <2> DEFINE paid == BufferPayout(p, amount)
             q == pay_bounty(p, amount)
  <2>1. paid \in Nat
    BY <1>0 DEF BufferPayout, Floor0, Least, Spendable, PoolOK
  <2>2. /\ q.cash = p.cash - paid /\ q.buffer = p.buffer - paid
        /\ q.total_usdc = p.total_usdc
        /\ q.total_fees = p.total_fees /\ q.shortfall_reserve = p.shortfall_reserve
    BY <1>0 DEF pay_bounty, PoolOK, PoolFields
  <2> HIDE DEF paid, q
  <2>3. CashCovers(q)
    BY <1>0, <2>1, <2>2 DEF CashCovers, PoolOK
  <2> QED
    BY <2>3 DEF q
<1>4. ASSUME NEW a \in Assets, NEW pnl \in Int, NEW release \in Nat
      PROVE  CashCovers(sync_exposure(p, a, pnl, release))
  BY <1>0 DEF CashCovers, sync_exposure, PoolOK, PoolFields
<1> QED
  BY <1>1, <1>2, <1>3, <1>4

(* A transfer that its own credits account for: the loss to the LPs, the     *)
(* rest to the buffer.                                                       *)
LEMMA TransferReceipted ==
  ASSUME NEW p, PoolInv(p), CashCovers(p), NEW loss \in Nat, NEW rest \in Nat
  PROVE  CashCovers(fund_vault_buffer(
                      credit_vault_receipt(TransferIn(p, loss + rest), loss), rest))
<1> DEFINE a == TransferIn(p, loss + rest)
           b == credit_vault_receipt(a, loss)
           share == route_shortfall_share(b, VaultConfig, rest)
           q == fund_vault_buffer(b, rest)
<1>0. PoolOK(p)
  BY DEF PoolInv
<1>1. /\ a.cash = p.cash + loss + rest /\ a.total_usdc = p.total_usdc
      /\ a.total_fees = p.total_fees /\ a.buffer = p.buffer
      /\ a.shortfall_reserve = p.shortfall_reserve
      /\ PoolInv(a) /\ DOMAIN a = PoolFields
  <2>1. PoolInv(a)
    BY ArrivalKeeps
  <2> QED
    BY <1>0, <2>1 DEF TransferIn, PoolInv, PoolOK, PoolFields
<1> HIDE DEF a
<1>2. /\ b.cash = a.cash /\ b.total_usdc = a.total_usdc + loss
      /\ b.total_fees = a.total_fees /\ b.buffer = a.buffer
      /\ b.shortfall_reserve = a.shortfall_reserve
      /\ PoolInv(b) /\ PoolOK(b)
  <2>1. PoolInv(b)
    BY <1>1, CreditKeeps
  <2>0. PoolOK(b)
    BY <2>1 DEF PoolInv
  <2>2. CASE loss > 0
    BY <1>1, <2>0, <2>1, <2>2 DEF credit_vault_receipt, receive_loss, PoolInv, PoolOK, PoolFields
  <2>3. CASE loss = 0
    BY <1>1, <2>0, <2>1, <2>3 DEF credit_vault_receipt, PoolInv, PoolOK
  <2> QED
    BY <2>2, <2>3
<1> HIDE DEF b
<1>3. b.cash >= b.total_usdc + b.total_fees + b.buffer + b.shortfall_reserve + rest
  BY <1>0, <1>1, <1>2 DEF CashCovers, PoolOK
<1>4. CASE rest > 0
  <2>1. share \in Int
    <3>1. BpsOf(rest, VaultConfig.shortfall_inflow_bps) \in Int
      <4>1. VaultConfig.shortfall_inflow_bps \in 0..BASIS_POINTS
        BY MarketAssumption, ConfigRates
      <4> QED
        BY <4>1, BpsOfRange
    <3> QED
      BY <1>2, <3>1 DEF route_shortfall_share, Floor0, Least, PoolOK
  <2>2. /\ q.cash = b.cash /\ q.total_usdc = b.total_usdc /\ q.total_fees = b.total_fees
        /\ q.buffer = b.buffer + (rest - share)
        /\ q.shortfall_reserve = b.shortfall_reserve + share
    BY <1>2, <1>4 DEF fund_vault_buffer, fund_buffer, PoolOK, PoolFields
  <2> HIDE DEF share, q
  <2>3. CashCovers(q)
    BY <1>2, <1>3, <2>1, <2>2 DEF CashCovers, PoolOK
  <2> QED
    BY <2>3 DEF q, a, b
<1>5. CASE rest = 0
  <2>1. q = b /\ CashCovers(b)
    BY <1>2, <1>3, <1>5 DEF fund_vault_buffer, CashCovers, PoolOK
  <2> QED
    BY <2>1 DEF q, a, b
<1> QED
  BY <1>4, <1>5

(* What a settlement or a seizure does to the receipts. *)
Receipted(n, q) == CashCovers(q.pool) /\ q.overpaid = n.overpaid

LEMMA SettleReceipted ==
  ASSUME NEW n, MarketOK(n), CashCovers(n.pool), NEW pos, RowOK(pos),
         NEW collateral \in Nat, NEW net \in Int, NEW keeper_fee \in Nat
  PROVE  Receipted(n, SettleClosed(n, pos, collateral, net, keeper_fee))
<1> DEFINE owed == LossOwed(net, collateral)
           settled == IF net > 0 THEN settle_pnl(n.pool, pos.trader, net) ELSE n.pool
           booked == record_bad_debt(settled, -(collateral + net))
           credited == credit_vault_receipt(TransferIn(booked, owed), owed)
           q == SettleClosed(n, pos, collateral, net, keeper_fee)
<1>0. PoolInv(n.pool) /\ pos.trader \in Traders
  BY DEF MarketOK, MoneyOK, RowOK, PositionOK
<1>1. owed \in Nat
  BY DEF LossOwed, Least
<1>2. q.pool = credited /\ q.overpaid = n.overpaid
  BY DEF SettleClosed, flag_adl_on_shortfall, MarketOK, MoneyOK, MarketFields
<1> HIDE DEF owed, q
<1>3. PoolInv(settled) /\ CashCovers(settled)
  BY <1>0, SettleKeeps, ReceiptKept
<1> HIDE DEF settled
<1>4. PoolInv(booked) /\ CashCovers(booked)
  BY <1>3, BadDebtKeeps, ReceiptKept
<1> HIDE DEF booked
<1>5. CashCovers(credited)
  <2>1. CashCovers(fund_vault_buffer(
          credit_vault_receipt(TransferIn(booked, owed + 0), owed), 0))
    BY <1>1, <1>4, TransferReceipted
  <2>2. owed + 0 = owed
    BY <1>1
  <2> QED
    BY <2>1, <2>2 DEF fund_vault_buffer
<1> QED
  BY <1>2, <1>5 DEF Receipted, q

LEMMA DecreaseReceipted ==
  ASSUME NEW n, MarketOK(n), CashCovers(n.pool), NEW asset \in Assets, NEW dir,
         NEW size \in Nat, NEW entry \in Nat \ {0}, NEW mark \in Nat
  PROVE  Receipted(n, DecreaseOi(n, asset, dir, size, entry, mark))
<1> DEFINE e == Shrunk(n.exposure[asset], dir, size, KDelta(size, entry))
           pnl == exposure_upnl(e, mark)
           q == DecreaseOi(n, asset, dir, size, entry, mark)
<1>1. q.pool = sync_exposure(n.pool, asset, pnl, size) /\ q.overpaid = n.overpaid
  BY DEF DecreaseOi, WithExposure, MarketOK, MoneyOK, MarketFields
<1>2. e.lk \in Nat /\ e.ls \in Nat /\ e.sk \in Nat /\ e.ss \in Nat
  <2>1. /\ DOMAIN n.exposure[asset] = ExposureFields
        /\ n.exposure[asset].lk \in Nat /\ n.exposure[asset].ls \in Nat
        /\ n.exposure[asset].sk \in Nat /\ n.exposure[asset].ss \in Nat
    BY DEF MarketOK, BooksOK
  <2>2. KDelta(size, entry) \in Nat
    BY KDeltaType
  <2> QED
    BY <2>1, <2>2 DEF Shrunk, Floor0, ExposureFields
<1> HIDE DEF e
<1>3. pnl \in Int
  BY <1>2, ExposureUpnlType
<1> HIDE DEF pnl, q
<1>4. CashCovers(q.pool)
  BY <1>1, <1>3, ReceiptKept DEF MarketOK, MoneyOK
<1> QED
  BY <1>1, <1>4 DEF Receipted, q

(* Rows and orders that go move no money. *)
LEMMA CloseReceipted ==
  ASSUME NEW n, MarketOK(n), CashCovers(n.pool), NEW id \in DOMAIN n.positions,
         NEW mark \in Nat, NEW cum \in Int, NEW keeper_fee \in Nat, NEW skip
  PROVE  Receipted(n, settle_isolated_close(n, id, mark, cum, keeper_fee, skip))
<1> DEFINE pos == n.positions[id]
           net == NetPnl(pos, pos.size, mark, cum)
           a == SettleClosed(n, pos, pos.collateral, net, keeper_fee)
           b == DecreaseOi(a, pos.asset, pos.dir, pos.size, pos.entry, mark)
           c == cancel_position_orders(b, id, skip)
           q == settle_isolated_close(n, id, mark, cum, keeper_fee, skip)
<1>0. q = delete_position(c, id)
  BY DEF settle_isolated_close
<1>1. /\ RowOK(pos) /\ pos.asset \in Assets /\ pos.size \in Nat
      /\ pos.collateral \in Nat /\ pos.entry \in Nat \ {0}
  BY RowFacts
<1>p. pos = n.positions[id]
  OBVIOUS
<1> HIDE DEF pos
<1>2. net \in Int
  BY <1>1, NetPnlType
<1> HIDE DEF net
<1>3. MarketOK(a) /\ SamePositions(n, a) /\ Receipted(n, a)
  BY <1>1, <1>2, SettleClosedMoves, SettleReceipted
<1> HIDE DEF a
<1>4. MarketOK(b) /\ SamePositions(a, b) /\ Receipted(a, b)
  BY <1>1, <1>3, DecreaseOiMoves, DecreaseReceipted DEF Receipted
<1> HIDE DEF b
<1>5. BookOnly(b, c) /\ MarketOK(c)
  BY <1>4, CancelAttached
<1> HIDE DEF c
<1>6. id \in DOMAIN c.positions
  BY <1>3, <1>4, <1>5 DEF SamePositions, BookOnly
<1>7. RowsOnly(c, q)
  BY <1>0, <1>5, <1>6, DeleteMoves
<1> HIDE DEF q
<1>8. Receipted(n, q)
  BY <1>3, <1>4, <1>5, <1>7 DEF Receipted, BookOnly, RowsOnly, SameMoney
<1> QED
  BY <1>8 DEF q

LEMMA TrancheReceipted ==
  ASSUME NEW n, MarketOK(n), CashCovers(n.pool), NEW id \in DOMAIN n.positions,
         NEW mark \in Nat, NEW cum \in Int, NEW mm_bps \in Nat, NEW time \in Nat,
         TakesTranche(n.positions[id], NetPnl(n.positions[id], n.positions[id].size, mark, cum))
  PROVE  Receipted(n, LiquidateTranche(n, id, mark, cum, mm_bps, time))
<1> DEFINE pos == n.positions[id]
           net == NetPnl(pos, pos.size, mark, cum)
           debit == TrancheDebit(pos, net)
           penalty == TranchePenalty(pos, net)
           reward == BpsOf(penalty, Config.penalty_keeper_share_bps)
           to_buffer == penalty - reward
           received == credit_vault_receipt(TransferIn(n.pool, debit + to_buffer), debit)
           pool == fund_vault_buffer(received, to_buffer)
           cash == n.cash - (debit + to_buffer) - reward
           a == [n EXCEPT !.pool = pool, !.cash = cash]
           tranche == TrancheSize(pos)
           size == pos.size - tranche
           left == TrancheLeft(pos, net)
           b == DecreaseOi(a, pos.asset, pos.dir, tranche, pos.entry, mark)
           row == [pos EXCEPT !.size = size, !.collateral = left,
                     !.liq = liquidation_price_from_ratio(pos.entry, left, size, pos.dir, mm_bps),
                     !.partial_liq_ts = time]
           q == LiquidateTranche(n, id, mark, cum, mm_bps, time)
<1>0. q = [b EXCEPT !.positions = [n.positions EXCEPT ![id] = row]]
  <2>1. a = [n EXCEPT !.pool = pool, !.cash = @ - (debit + to_buffer) - reward]
    BY DEF MarketOK, MoneyOK, MarketFields
  <2> HIDE DEF a, pool, debit, to_buffer, reward, net, pos
  <2> QED
    BY <2>1 DEF LiquidateTranche, pool, debit, to_buffer, reward, net, pos
<1>1. /\ RowOK(pos) /\ pos.asset \in Assets /\ pos.size \in Nat
      /\ pos.collateral \in Nat /\ pos.entry \in Nat \ {0}
  BY RowFacts
<1> HIDE DEF pos
<1>2. net \in Int
  BY <1>1, NetPnlType
<1>3. TakesTranche(pos, net)
  BY DEF pos
<1> HIDE DEF net
<1>4. tranche \in Nat /\ debit \in Nat /\ penalty \in Nat
  BY <1>1, <1>2, <1>3, TrancheValues
<1> HIDE DEF tranche, size, debit, penalty, left, row
<1>5. reward \in Nat /\ to_buffer \in Nat
  BY <1>4, LiquidationValues, BpsOfRange
<1> HIDE DEF reward, to_buffer
<1>6. CashCovers(pool)
  BY <1>4, <1>5, TransferReceipted DEF MarketOK, MoneyOK
<1>7. PoolInv(pool)
  <2>1. PoolInv(n.pool) /\ debit + to_buffer \in Nat
    BY <1>4, <1>5 DEF MarketOK, MoneyOK
  <2>2. PoolInv(TransferIn(n.pool, debit + to_buffer))
    BY <2>1, ArrivalKeeps
  <2>3. PoolInv(received)
    BY <1>4, <2>2, CreditKeeps
  <2> HIDE DEF received
  <2> QED
    BY <1>5, <2>3, FundKeeps
<1> HIDE DEF pool
<1>8. cash \in Int /\ n.overpaid \in Nat
  BY <1>4, <1>5, HeldTypes
<1> HIDE DEF cash
<1>9. MoneyOnly(n, a) /\ a.pool = pool /\ a.cash = cash /\ a.overpaid = n.overpaid
  BY DEF MarketOK, MoneyOK, MarketFields, MoneyOnly, SamePositions, SameOrders, SameBooks
<1> HIDE DEF a
<1>10. MarketOK(a)
  BY <1>7, <1>8, <1>9, MoneyOnlyKeeps
<1>11. MarketOK(b) /\ Receipted(a, b)
  BY <1>1, <1>4, <1>6, <1>9, <1>10, DecreaseOiMoves, DecreaseReceipted
<1> HIDE DEF b, q
<1>12. q.pool = b.pool /\ q.overpaid = b.overpaid
  BY <1>0, <1>11 DEF MarketOK, MoneyOK, MarketFields
<1> QED
  BY <1>9, <1>11, <1>12 DEF Receipted, q

(* A seizure whose equity is within the collateral overpays nobody. *)
LEMMA SolventReceipted ==
  ASSUME NEW n, MarketOK(n), CashCovers(n.pool), NEW pos, RowOK(pos),
         NEW equity \in Nat \ {0}, equity <= pos.collateral
  PROVE  Receipted(n, SeizeSolvent(n, pos, equity))
<1> DEFINE penalty == Least(BpsOf(pos.size, Config.liquidation_penalty_bps), equity)
           keeper_cut == BpsOf(penalty, Config.penalty_keeper_share_bps)
           buffer_cut == penalty - keeper_cut
           refund == equity - penalty
           to_vault == Floor0(pos.collateral - keeper_cut - refund)
           received == credit_vault_receipt(TransferIn(n.pool, to_vault), to_vault - buffer_cut)
           pool == IF to_vault > 0 THEN fund_vault_buffer(received, buffer_cut) ELSE n.pool
           overpaid == n.overpaid + (to_vault + keeper_cut + refund - pos.collateral)
           loss == to_vault - buffer_cut
           q == SeizeSolvent(n, pos, equity)
<1>0. q.pool = pool /\ q.overpaid = overpaid
  BY DEF SeizeSolvent, MarketOK, MoneyOK, MarketFields
<1>1. pos.size \in Nat /\ pos.collateral \in Nat
  BY DEF RowOK, PositionOK
<1>2. penalty \in Nat /\ penalty <= equity
  <2>1. BpsOf(pos.size, Config.liquidation_penalty_bps) \in Nat
    BY <1>1, LiquidationValues, BpsOfRange
  <2> QED
    BY <2>1 DEF Least
<1> HIDE DEF penalty, q
<1>3. keeper_cut \in Nat /\ keeper_cut <= penalty
  BY <1>2, LiquidationValues, BpsOfRange
<1> HIDE DEF keeper_cut
<1>4. to_vault = pos.collateral - keeper_cut - refund
  BY <1>1, <1>2, <1>3 DEF Floor0
<1>5. overpaid = n.overpaid
  BY <1>1, <1>2, <1>3, <1>4, HeldTypes
<1>6. loss \in Nat /\ buffer_cut \in Nat /\ loss + buffer_cut = to_vault
  BY <1>1, <1>2, <1>3, <1>4
<1> HIDE DEF to_vault, buffer_cut, refund, overpaid, loss
<1>7. CashCovers(fund_vault_buffer(received, buffer_cut))
  <2>1. CashCovers(fund_vault_buffer(
          credit_vault_receipt(TransferIn(n.pool, loss + buffer_cut), loss), buffer_cut))
    BY <1>6, TransferReceipted DEF MarketOK, MoneyOK
  <2> QED
    BY <1>6, <2>1 DEF loss
<1>8. CashCovers(pool)
  BY <1>7
<1> QED
  BY <1>0, <1>5, <1>8 DEF Receipted, q

LEMMA BankruptReceipted ==
  ASSUME NEW n, MarketOK(n), CashCovers(n.pool), NEW pos, RowOK(pos), NEW equity \in Int
  PROVE  Receipted(n, SeizeBankrupt(n, pos, equity))
<1> DEFINE booked == record_bad_debt(n.pool, -equity)
           buffer_cut == BpsOf(pos.collateral, Config.insurance_buffer_share_bps)
           loss == pos.collateral - buffer_cut
           received == credit_vault_receipt(TransferIn(booked, pos.collateral), loss)
           pool == fund_vault_buffer(received, buffer_cut)
           q == SeizeBankrupt(n, pos, equity)
<1>0. q.pool = pool /\ q.overpaid = n.overpaid
  BY DEF SeizeBankrupt, MarketOK, MoneyOK, MarketFields
<1> HIDE DEF q
<1>1. pos.collateral \in Nat
  BY DEF RowOK, PositionOK
<1>2. buffer_cut \in Nat /\ buffer_cut <= pos.collateral
  BY <1>1, LiquidationValues, BpsOfRange
<1>3. loss \in Nat /\ loss + buffer_cut = pos.collateral
  BY <1>1, <1>2
<1> HIDE DEF buffer_cut, loss
<1>4. PoolInv(booked) /\ CashCovers(booked)
  <2>1. -equity \in Int /\ PoolInv(n.pool)
    BY DEF MarketOK, MoneyOK
  <2> QED
    BY <2>1, BadDebtKeeps, ReceiptKept
<1> HIDE DEF booked
<1>5. CashCovers(fund_vault_buffer(
        credit_vault_receipt(TransferIn(booked, loss + buffer_cut), loss), buffer_cut))
  BY <1>2, <1>3, <1>4, TransferReceipted
<1> QED
  BY <1>0, <1>3, <1>5 DEF Receipted, q

LEMMA LiquidateReceipted ==
  ASSUME NEW n, MarketOK(n), CashCovers(n.pool), NEW id \in DOMAIN n.positions,
         NEW mark \in Nat, NEW cum \in Int,
         Equity(n.positions[id], mark, cum) <= n.positions[id].collateral
  PROVE  Receipted(n, LiquidateFull(n, id, mark, cum))
<1> DEFINE pos == n.positions[id]
           equity == Equity(pos, mark, cum)
           a == IF equity > 0 THEN SeizeSolvent(n, pos, equity) ELSE SeizeBankrupt(n, pos, equity)
           b == DecreaseOi(a, pos.asset, pos.dir, pos.size, pos.entry, mark)
           c == cancel_position_orders(b, id, 0)
           d == delete_position(c, id)
           topup == Config.min_liq_bounty - KeeperCut(pos, equity)
           pool == IF topup > 0 THEN pay_bounty(d.pool, topup) ELSE d.pool
           q == LiquidateFull(n, id, mark, cum)
<1>1. /\ RowOK(pos) /\ pos.asset \in Assets /\ pos.size \in Nat
      /\ pos.collateral \in Nat /\ pos.entry \in Nat \ {0}
  BY RowFacts
<1>2. equity \in Int /\ equity <= pos.collateral
  <2>1. NetPnl(pos, pos.size, mark, cum) \in Int
    BY <1>1, NetPnlType
  <2> QED
    BY <1>1, <2>1 DEF Equity
<1>3. MoneyOnly(n, a) /\ MarketOK(a) /\ Receipted(n, a)
  <2> HIDE DEF pos, equity
  <2>1. CASE equity > 0
    <3>1. equity \in Nat \ {0}
      BY <1>2, <2>1
    <3> QED
      BY <1>1, <1>2, <2>1, <3>1, SolventMoves, SolventReceipted
  <2>2. CASE ~(equity > 0)
    BY <1>1, <1>2, <2>2, BankruptMoves, BankruptReceipted
  <2> QED
    BY <2>1, <2>2
<1>4. topup \in Int
  <2>1. BpsOf(pos.size, Config.liquidation_penalty_bps) \in Nat
    BY <1>1, LiquidationValues, BpsOfRange
  <2>2. equity > 0 => Least(BpsOf(pos.size, Config.liquidation_penalty_bps), equity) \in Nat
    BY <1>2, <2>1 DEF Least
  <2>3. KeeperCut(pos, equity) \in Int
    <3> HIDE DEF equity, pos
    <3> QED
      BY <2>2, LiquidationValues, BpsOfRange DEF KeeperCut
  <2> QED
    BY <2>3, LiquidationValues
<1>5. q = [d EXCEPT !.pool = IF topup > 0 THEN pay_bounty(@, topup) ELSE @]
  BY DEF LiquidateFull
<1>p. pos = n.positions[id]
  OBVIOUS
<1> HIDE DEF topup, equity, pos
<1> HIDE DEF a
<1>6. MarketOK(b) /\ SamePositions(a, b) /\ Receipted(a, b)
  BY <1>1, <1>3, DecreaseOiMoves, DecreaseReceipted DEF Receipted
<1> HIDE DEF b
<1>7. BookOnly(b, c) /\ MarketOK(c)
  BY <1>6, CancelAttached
<1> HIDE DEF c
<1>8. id \in DOMAIN c.positions
  BY <1>3, <1>6, <1>7 DEF SamePositions, BookOnly, MoneyOnly
<1>9. RowsOnly(c, d) /\ MarketOK(d)
  BY <1>7, <1>8, DeleteMoves
<1> HIDE DEF d
<1>10. Receipted(n, d)
  BY <1>3, <1>6, <1>7, <1>9 DEF Receipted, BookOnly, RowsOnly, SameMoney
<1>11. CashCovers(pool)
  <2>1. PoolInv(d.pool) /\ CashCovers(d.pool)
    BY <1>9, <1>10 DEF MarketOK, MoneyOK, Receipted
  <2>2. ASSUME topup > 0 PROVE CashCovers(pay_bounty(d.pool, topup))
    BY <1>4, <2>1, <2>2, ReceiptKept
  <2> QED
    BY <2>1, <2>2
<1> HIDE DEF q
<1>12. q.pool = pool /\ q.overpaid = d.overpaid
  BY <1>5, <1>9 DEF MarketOK, MoneyOK, MarketFields
<1> QED
  BY <1>10, <1>11, <1>12 DEF Receipted, q

(* Whatever commits has passed the vault's receipt check. *)
LEMMA CommitsChecked ==
  ASSUME NEW n, Commit(n)
  PROVE  CashCovers(m.pool)'
BY DEF Commit, Commits, CashCovers

LEMMA PositionChecked ==
  ASSUME PositionStep
  PROVE  CashCovers(m.pool)'
<1>1. ASSUME NEW t, NEW a, NEW dir, NEW c, NEW lev, NEW mark, NEW fee, NEW payout,
             OpenPosition(t, a, dir, c, lev, mark, fee, payout)
      PROVE  CashCovers(m.pool)'
  BY <1>1, CommitsChecked DEF OpenPosition
<1>2. ASSUME NEW id, NEW mark, NEW size,
             \/ ClosePosition(id, mark) \/ ClosePositionPartial(id, size, mark)
      PROVE  CashCovers(m.pool)'
  BY <1>2, CommitsChecked DEF ClosePosition, ClosePositionPartial
<1>3. ASSUME NEW id, NEW mark, NEW amount,
             \/ AddCollateral(id, amount) \/ RemoveCollateral(id, amount, mark)
      PROVE  CashCovers(m.pool)'
  BY <1>3, CommitsChecked DEF AddCollateral, RemoveCollateral
<1> QED
  BY <1>1, <1>2, <1>3 DEF PositionStep

LEMMA PlacementChecked ==
  ASSUME PlacementStep
  PROVE  CashCovers(m.pool)'
<1>1. ASSUME NEW t, NEW a, NEW dir, NEW c, NEW lev, NEW trigger, NEW above, NEW tol, NEW tif,
             NEW ro, NEW mark, NEW limit,
             \/ PlaceLimitOrder(t, a, dir, c, lev, trigger, above, tol, tif, ro, mark)
             \/ PlaceStopLimitOrder(t, a, dir, c, lev, trigger, limit, above, tol, ro)
      PROVE  CashCovers(m.pool)'
  BY <1>1, CommitsChecked DEF PlaceLimitOrder, PlaceStopLimitOrder
<1>2. ASSUME NEW id, NEW trigger, NEW limit, NEW trail, NEW tol, NEW mark,
             \/ SetStopLoss(id, trigger, tol) \/ SetTakeProfit(id, trigger, limit, tol)
             \/ PlaceTrailingStop(id, trail, tol, mark)
      PROVE  CashCovers(m.pool)'
  BY <1>2, CommitsChecked DEF SetStopLoss, SetTakeProfit, PlaceTrailingStop
<1> QED
  BY <1>1, <1>2 DEF PlacementStep

LEMMA KeeperChecked ==
  ASSUME KeeperStep, CashCovers(m.pool)
  PROVE  CashCovers(m.pool)'
<1>1. ASSUME NEW id, NEW mark, NEW smoothed, Liquidate(id, mark, smoothed)
      PROVE  CashCovers(m.pool)'
  BY <1>1, CommitsChecked DEF Liquidate
<1>2. ASSUME NEW o, NEW mark, NEW smoothed,
             \/ UpdateTrailingPeak(o, mark) \/ ExecuteOutOfBand(o, mark, smoothed)
             \/ ExecuteStopPhase(o, mark)
      PROVE  CashCovers(m.pool)'
  BY <1>2, CommitsChecked DEF UpdateTrailingPeak, ExecuteOutOfBand, ExecuteStopPhase
<1>3. ASSUME NEW o, NEW mark, NEW fee, NEW payout,
             \/ ExecuteEntry(o, mark, fee, payout) \/ ExecuteIllegalEntry(o, mark)
      PROVE  CashCovers(m.pool)'
  BY <1>3, CommitsChecked DEF ExecuteEntry, ExecuteIllegalEntry
<1>4. ASSUME NEW o, NEW mark, NEW smoothed,
             \/ ExecuteReduceOnly(o, mark) \/ ExecuteClose(o, mark, smoothed)
      PROVE  CashCovers(m.pool)'
  BY <1>4, CommitsChecked DEF ExecuteReduceOnly, ExecuteClose
<1>5. ASSUME NEW a, NEW id, NEW mark,
             CheckAdlTrigger(a, mark) \/ AdlClose(id, mark) \/ SyncAssetPnl(a, mark)
      PROVE  CashCovers(m.pool)'
  BY <1>5, CommitsChecked DEF CheckAdlTrigger, AdlClose, SyncAssetPnl
<1>6. ASSUME NEW step, ApplyFunding(step)
      PROVE  CashCovers(m.pool)'
  BY <1>6 DEF ApplyFunding, CashCovers
<1> QED
  BY <1>1, <1>2, <1>3, <1>4, <1>5, <1>6 DEF KeeperStep

LEMMA CheckedNext ==
  ASSUME CashCovers(m.pool), [Next]_vars
  PROVE  CashCovers(m.pool)'
<1>1. ASSUME m' = m PROVE CashCovers(m.pool)'
  BY <1>1 DEF CashCovers
<1>2. CASE OrderStep
  BY <1>2, PlacementChecked, CommitsChecked DEF OrderStep, CancelOrder
<1>3. CASE VaultStep
  BY <1>3, CommitsChecked DEF VaultStep, ClaimShortfall, LpWithdraw
<1>4. CASE AdminStep
  BY <1>1, <1>4, CommitsChecked
  DEF AdminStep, Pause, Unpause, ReseedFunding, SetAssetHalt, SetAssetRisk
<1>5. CASE Tick \/ UNCHANGED vars
  BY <1>1, <1>5 DEF Tick, vars
<1> QED
  BY <1>2, <1>3, <1>4, <1>5, PositionChecked, KeeperChecked DEF Next

(* A transaction that overpays nobody finds its own money in the market. *)
LEMMA ReceiptedCommits ==
  ASSUME MInv, m.overpaid = 0, NEW q, MarketOK(q), Surplus(q) = Surplus(m), Receipted(m, q)
  PROVE  Commits(q)
<1>1. /\ MarginHeld(q) \in Nat /\ OrdersHeld(q) \in Nat /\ q.cash \in Int
      /\ q.overpaid = 0 /\ Surplus(q) = 0
  BY HeldTypes DEF MInv, Receipted
<1>2. q.cash >= 0
  BY <1>1 DEF Surplus
<1> QED
  BY <1>2 DEF Commits, Receipted

(* The way out never reverts: in every reachable state and at every price    *)
(* the vault's receipt check accepts the credits of a close and of a due     *)
(* liquidation and the market can pay what they transfer (close_position and *)
(* liquidate), except after a liquidation overpaid.                          *)
THEOREM MarketWayOut == Spec => []WayOutCommits
<1>1. Init => CashCovers(m.pool)
  <2>1. ASSUME Init
        PROVE  CashCovers(m.pool)
    <3>1. m.pool = InitialPool
      BY <2>1 DEF Init
    <3> QED
      BY <3>1, MarketAssumption DEF InitialPool, CashCovers
  <2> QED
    BY <2>1
<1>2. CashCovers(m.pool) /\ [Next]_vars => CashCovers(m.pool)'
  BY CheckedNext
<1>3. ASSUME MInv, CashCovers(m.pool)
      PROVE  WayOutCommits
  <2> SUFFICES ASSUME NEW i \in DOMAIN m.positions, NEW mark \in Prices, m.overpaid = 0
               PROVE  LET p == m.positions[i]
                          cum == cum_funding[p.asset]
                      IN  /\ Commits(settle_isolated_close(m, i, mark, cum, 0, 0))
                          /\ Liquidatable(p, mark) /\ Equity(p, mark, cum) <= p.collateral =>
                               Commits(IF TakesTranche(p, NetPnl(p, p.size, mark, cum))
                                         THEN LiquidateTranche(m, i, mark, cum, mm_bps_for(p), now)
                                         ELSE LiquidateFull(m, i, mark, cum))
    BY DEF WayOutCommits
  <2> DEFINE p == m.positions[i]
             cum == cum_funding[p.asset]
             mm == mm_bps_for(p)
  <2>1. MarketOK(m) /\ mark \in Nat /\ now \in Nat /\ mm \in Nat
    BY <1>3, InputAssumption, RiskValues DEF MInv, ClockOK
  <2>2. cum \in Int
    BY <1>3, <2>1, RowFacts DEF MInv, ClockOK
  <2>p. p = m.positions[i]
    OBVIOUS
  <2> HIDE DEF p, cum, mm
  <2>3. Commits(settle_isolated_close(m, i, mark, cum, 0, 0))
    <3> DEFINE q == settle_isolated_close(m, i, mark, cum, 0, 0)
    <3>1. MarketOK(q) /\ Surplus(q) = Surplus(m) /\ Receipted(m, q)
      BY <1>3, <2>1, <2>2, CloseMoves, CloseReceipted
    <3> HIDE DEF q
    <3> QED
      BY <1>3, <3>1, ReceiptedCommits DEF q
  <2>4. ASSUME TakesTranche(p, NetPnl(p, p.size, mark, cum))
        PROVE  Commits(LiquidateTranche(m, i, mark, cum, mm, now))
    <3> DEFINE q == LiquidateTranche(m, i, mark, cum, mm, now)
    <3>1. MarketOK(q) /\ Surplus(q) = Surplus(m) /\ Receipted(m, q)
      BY <1>3, <2>1, <2>2, <2>4, <2>p, TrancheMoves, TrancheReceipted
    <3> HIDE DEF q
    <3> QED
      BY <1>3, <3>1, ReceiptedCommits DEF q
  <2>5. ASSUME Equity(p, mark, cum) <= p.collateral
        PROVE  Commits(LiquidateFull(m, i, mark, cum))
    <3> DEFINE q == LiquidateFull(m, i, mark, cum)
    <3>1. MarketOK(q) /\ Surplus(q) = Surplus(m) /\ Receipted(m, q)
      BY <1>3, <2>1, <2>2, <2>5, <2>p, LiquidateMoves, LiquidateReceipted
    <3> HIDE DEF q
    <3> QED
      BY <1>3, <3>1, ReceiptedCommits DEF q
  <2> QED
    BY <2>3, <2>4, <2>5 DEF p, cum, mm
<1>4. Spec => []CashCovers(m.pool)
  BY <1>1, <1>2, PTL DEF Spec
<1> QED
  BY <1>3, <1>4, MarketInvariant, PTL

(* While trading is paused, or in a halted asset, open interest does not     *)
(* grow, whatever was placed before (the gates of do_open and execute_order).*)
THEOREM MarketClosed == Spec => NoNewExposureWhenClosed
<1>1. ASSUME MInv, [Next]_vars
      PROVE  [\A a \in Assets : effective_mode # 0 \/ halted[a] =>
                OpenInterest(a)' <= OpenInterest(a)]_vars
  <2>1. Allowed(m')
    BY <1>1, MInvNext
  <2>2. \A a \in Assets : /\ OpenInterest(a) = OpenInterestOf(m, a)
                          /\ OpenInterest(a)' = OpenInterestOf(m', a)
    BY DEF OpenInterest, OpenInterestOf
  <2>3. \A a \in Assets : effective_mode # 0 \/ halted[a] =>
          OpenInterestOf(m', a) <= OpenInterestOf(m, a)
    <3>1. CASE NoGrowth(m, m')
      BY <3>1 DEF NoGrowth
    <3>2. CASE effective_mode = 0 /\ \E a \in Assets : ~halted[a] /\ GrowthIn(m, m', a)
      BY <3>2 DEF GrowthIn
    <3> QED
      BY <2>1, <3>1, <3>2 DEF Allowed
  <2> QED
    BY <2>2, <2>3
<1> QED
  BY <1>1, MarketInvariant, PTL DEF Spec, NoNewExposureWhenClosed
=============================================================================
