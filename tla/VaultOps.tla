------------------------------ MODULE VaultOps ------------------------------
(***************************************************************************)
(* The money side of the liquidity pool (contracts/vault): every entry     *)
(* point that moves USDC or shifts value between the pool's buckets, as an *)
(* operator from a pool record to a pool record.  A call of a contract is  *)
(* atomic, and one transaction of the market makes several of these calls, *)
(* so the operators compose; module Vault turns them into actions.         *)
(*                                                                         *)
(* A pool record p has the fields                                          *)
(*   cash               USDC the vault contract holds (token balance)      *)
(*   total_usdc         LP principal; withdrawals priced above it can      *)
(*                      drive it negative                                  *)
(*   total_fees         deposit and withdrawal fees, part of LP value      *)
(*   buffer             insurance buffer                                   *)
(*   shortfall_reserve  USDC earmarked for unpaid winners                  *)
(*   shortfall          winnings still owed, over all traders              *)
(*   shortfall_owed     the same, per trader                               *)
(*   cum_shortfall, cum_shortfall_repaid, cum_covered, cum_lp_absorbed     *)
(*                      lifetime counters                                  *)
(*   reserved_payout    committed maximum payouts of open positions        *)
(*   asset_pnl          last unrealized trader PnL pushed for each asset   *)
(*   unrealized_pnl     its running total                                  *)
(*   circulating        NOE held by LPs                                    *)
(* Arguments named c are configuration records (module Vault).             *)
(***************************************************************************)
EXTENDS Integers, FiniteSets

CONSTANTS
  Traders,            \* accounts the market settles
  Assets              \* assets the market lists

ASSUME PoolAssumption == IsFiniteSet(Traders)

BASIS_POINTS == 10000

Least(a, b) == IF a < b THEN a ELSE b
Floor0(a) == IF a > 0 THEN a ELSE 0
Abs(a) == IF a < 0 THEN -a ELSE a

(* The total of a function with natural-number values, written as the      *)
(* cardinality of the set of its units, one pair for each unit of f[x].    *)
(* The finite-set library then gives its laws (module PoolProofs) without  *)
(* an induction over the domain.                                           *)
Units(f) == UNION {{x} \X (1..f[x]) : x \in DOMAIN f}

Total(f) == Cardinality(Units(f))

(* amount * bps / BASIS_POINTS on i128; every use has a non-negative amount, *)
(* where truncation and floor agree.                                         *)
BpsOf(amount, bps) == (amount * bps) \div BASIS_POINTS

-----------------------------------------------------------------------------
(* Limits the setters enforce: 10% and one day. *)
MAX_FEE_BPS == 1000
MAX_COOLDOWN == 86400

ConfigFields ==
  {"deposit_fee_bps", "withdraw_fee_bps", "deposit_cap", "aum_cap",
   "withdraw_cooldown", "buffer_target_bps", "shortfall_inflow_bps",
   "reserve_cap_bps", "asset_cap_bps", "asset_cap_abs", "skew_cap_bps"}

ConfigOK(c) ==
  /\ DOMAIN c = ConfigFields
  /\ c.deposit_fee_bps \in 0..MAX_FEE_BPS /\ c.withdraw_fee_bps \in 0..MAX_FEE_BPS
  /\ c.deposit_cap \in Nat /\ c.aum_cap \in Nat
  /\ c.withdraw_cooldown \in 0..MAX_COOLDOWN
  /\ c.buffer_target_bps \in 0..BASIS_POINTS
  /\ c.shortfall_inflow_bps \in 0..BASIS_POINTS
  /\ c.reserve_cap_bps \in 1..BASIS_POINTS
  /\ c.asset_cap_bps \in [Assets -> 1..BASIS_POINTS]
  /\ c.asset_cap_abs \in [Assets -> Nat]
  /\ c.skew_cap_bps \in [Assets -> 1..BASIS_POINTS]

PoolFields ==
  {"cash", "total_usdc", "total_fees", "buffer", "shortfall_reserve",
   "shortfall", "shortfall_owed", "cum_shortfall", "cum_shortfall_repaid",
   "cum_covered", "cum_lp_absorbed", "reserved_payout", "asset_pnl",
   "unrealized_pnl", "circulating"}

(* Records are typed field by field, a form the provers handle under EXCEPT. *)
PoolOK(p) ==
  /\ DOMAIN p = PoolFields
  /\ p.cash \in Nat /\ p.total_usdc \in Int /\ p.total_fees \in Nat
  /\ p.buffer \in Nat /\ p.shortfall_reserve \in Nat /\ p.shortfall \in Int
  /\ p.shortfall_owed \in [Traders -> Nat]
  /\ p.cum_shortfall \in Nat /\ p.cum_shortfall_repaid \in Nat
  /\ p.cum_covered \in Nat /\ p.cum_lp_absorbed \in Nat
  /\ p.reserved_payout \in Nat /\ p.asset_pnl \in [Assets -> Int]
  /\ p.unrealized_pnl \in Int /\ p.circulating \in Int

-----------------------------------------------------------------------------
(* LP pricing *)

calculate_aum(p) == Floor0(p.total_usdc + p.total_fees - p.unrealized_pnl)

(* The first deposit mints 1:1; with NOE outstanding and no value the call errs. *)
CanPriceDeposit(p) == p.circulating = 0 \/ calculate_aum(p) > 0

(* Faulty variant: rounds the minted NOE up. *)
calculate_glp_rounded_up(amount, p) ==
  IF p.circulating = 0 THEN amount
  ELSE (amount * p.circulating + calculate_aum(p) - 1) \div calculate_aum(p)

calculate_glp_for_deposit(amount, p) ==
  IF p.circulating = 0 THEN amount
  ELSE (amount * p.circulating) \div calculate_aum(p)

calculate_usdc_for_withdrawal(noe, p) ==
  (noe * calculate_aum(p)) \div p.circulating

DepositFee(c, amount) == BpsOf(amount, c.deposit_fee_bps)
WithdrawFee(c, gross) == BpsOf(gross, c.withdraw_fee_bps)

Deposited(p, c, amount, noe) ==
  [p EXCEPT !.cash = @ + amount,
            !.total_usdc = @ + (amount - DepositFee(c, amount)),
            !.total_fees = @ + DepositFee(c, amount),
            !.circulating = @ + noe]

(* Faulty variant: the circulating count falls by the USDC paid. *)
WithdrawnMiscounted(p, c, gross, noe) ==
  [p EXCEPT !.cash = @ - (gross - WithdrawFee(c, gross)),
            !.total_usdc = @ - gross,
            !.total_fees = @ + WithdrawFee(c, gross),
            !.circulating = @ - gross]

Withdrawn(p, c, gross, noe) ==
  [p EXCEPT !.cash = @ - (gross - WithdrawFee(c, gross)),
            !.total_usdc = @ - gross,
            !.total_fees = @ + WithdrawFee(c, gross),
            !.circulating = @ - noe]

-----------------------------------------------------------------------------
(* Calls of the market.  It transfers USDC first and asks for the credit next. *)

TransferIn(p, amount) == [p EXCEPT !.cash = @ + amount]

(* require_cash_covers_buckets: the receipt check of every credit. *)
CashCovers(p) ==
  p.cash >= p.total_usdc + p.total_fees + p.buffer + p.shortfall_reserve

(* What the pool may physically spend: the repayment reserve is not its own. *)
Spendable(p) == p.cash - p.shortfall_reserve

SettlePaid(p, pnl) ==
  IF pnl > 0
    THEN Floor0(Least(Least(pnl, p.buffer + p.total_usdc), Spendable(p)))
    ELSE 0

(* Faulty variant: LP principal pays before the buffer. *)
settle_pnl_lps_first(p, trader, pnl) ==
  LET paid == SettlePaid(p, pnl)
      from_lps == Floor0(Least(paid, p.total_usdc))
      short == IF pnl > 0 THEN pnl - paid ELSE 0
  IN  [p EXCEPT !.cash = @ - paid,
                !.buffer = @ - (paid - from_lps),
                !.total_usdc = @ - from_lps,
                !.shortfall_owed = [p.shortfall_owed EXCEPT
                                     ![trader] = p.shortfall_owed[trader] + short],
                !.shortfall = @ + short,
                !.cum_shortfall = @ + short]

settle_pnl(p, trader, pnl) ==
  LET paid == SettlePaid(p, pnl)
      from_buffer == Least(paid, p.buffer)
      short == IF pnl > 0 THEN pnl - paid ELSE 0
  IN  [p EXCEPT !.cash = @ - paid,
                !.buffer = @ - from_buffer,
                !.total_usdc = @ - (paid - from_buffer),
                !.shortfall_owed = [p.shortfall_owed EXCEPT
                                     ![trader] = p.shortfall_owed[trader] + short],
                !.shortfall = @ + short,
                !.cum_shortfall = @ + short]

receive_loss(p, amount) == [p EXCEPT !.total_usdc = @ + amount]

(* pay_bounty and pay_from_buffer cap what they pay in the same way. *)
BufferPayout(p, amount) ==
  Floor0(Least(Least(amount, p.buffer), Spendable(p)))

pay_bounty(p, amount) ==
  [p EXCEPT !.cash = @ - BufferPayout(p, amount),
            !.buffer = @ - BufferPayout(p, amount)]

pay_from_buffer(p, amount) ==
  [p EXCEPT !.cash = @ - BufferPayout(p, amount),
            !.buffer = @ - BufferPayout(p, amount)]

(* Fill the buffer up to its target, the rest leaves for the treasury. *)
route_protocol_fee(p, c, amount) ==
  LET room == Floor0(BpsOf(p.reserved_payout, c.buffer_target_bps) - p.buffer)
      to_buffer == Least(amount, room)
  IN  [p EXCEPT !.buffer = @ + to_buffer, !.cash = @ - (amount - to_buffer)]

sync_exposure(p, asset, pnl, release) ==
  [p EXCEPT !.asset_pnl = [p.asset_pnl EXCEPT ![asset] = pnl],
            !.unrealized_pnl = @ - p.asset_pnl[asset] + pnl,
            !.reserved_payout = IF release > 0 THEN Floor0(@ - release) ELSE @]

CanReserve(p, c, asset, amount, side_oi_after, skew_before, skew_after) ==
  LET aum == calculate_aum(p)
      bps_leg == BpsOf(aum, c.asset_cap_bps[asset])
      cap_abs == c.asset_cap_abs[asset]
      side_cap == IF cap_abs > 0 THEN Least(cap_abs, bps_leg) ELSE bps_leg
  IN  /\ amount > 0
      /\ p.reserved_payout + amount <= BpsOf(aum, c.reserve_cap_bps)
      /\ side_oi_after <= side_cap
      /\ \/ Abs(skew_after) <= BpsOf(aum, c.skew_cap_bps[asset])
         \/ Abs(skew_after) <= Abs(skew_before)
      /\ p.reserved_payout + amount <= Spendable(p)

reserve_for_position(p, amount) == [p EXCEPT !.reserved_payout = @ + amount]

(* Faulty variant: the share is capped by the debt, not by its unreserved part. *)
route_shortfall_share_overfull(p, c, amount) ==
  Floor0(Least(BpsOf(amount, c.shortfall_inflow_bps), p.shortfall))

(* The amortizer: the share of a buffer inflow that repays winners. *)
route_shortfall_share(p, c, amount) ==
  Floor0(Least(BpsOf(amount, c.shortfall_inflow_bps),
               p.shortfall - p.shortfall_reserve))

(* The crediting half of fund_buffer and seed_buffer. *)
fund_buffer(p, c, amount) ==
  LET to_reserve == route_shortfall_share(p, c, amount)
  IN  [p EXCEPT !.shortfall_reserve = @ + to_reserve,
                !.buffer = @ + (amount - to_reserve)]

ClaimPay(p, trader) ==
  Least(Least(p.shortfall_owed[trader], p.shortfall_reserve + p.buffer), p.cash)

claim_shortfall(p, trader) ==
  LET pay == ClaimPay(p, trader)
      from_reserve == Least(pay, p.shortfall_reserve)
  IN  [p EXCEPT !.cash = @ - pay,
                !.shortfall_reserve = @ - from_reserve,
                !.buffer = @ - (pay - from_reserve),
                !.shortfall_owed = [p.shortfall_owed EXCEPT
                                     ![trader] = p.shortfall_owed[trader] - pay],
                !.shortfall = @ - pay,
                !.cum_shortfall_repaid = @ + pay]

(* Bad debt: buffer value becomes LP value, no token moves. *)
draw_buffer(p, amount) ==
  LET covered == Least(amount, p.buffer)
  IN  [p EXCEPT !.buffer = @ - covered,
                !.total_usdc = @ + covered,
                !.cum_covered = @ + covered,
                !.cum_lp_absorbed = @ + (amount - covered)]

RecoveryPay(p, amount) == Least(amount, p.cash)
=============================================================================
