------------------------------- MODULE Vault --------------------------------
(***************************************************************************)
(* The liquidity pool (contracts/vault/src/lib.rs): LPs deposit USDC for   *)
(* NOE shares, the market settles traders against the pool, the admin      *)
(* configures it and may drain it through a timelocked recovery.           *)
(*                                                                         *)
(* One action is one transaction that commits: a call that errs reverts    *)
(* and is a step that changes nothing.  The callers' authorisations        *)
(* (require_auth, require_admin, market-only) choose who takes a step and  *)
(* are not state.  A market call that credits USDC is one transaction with *)
(* the transfer before it.                                                 *)
(***************************************************************************)
EXTENDS VaultOps

CONSTANTS
  LPs,
  NoeSupply,               \* NOE minted to the vault before the launch
  RECOVERY_TIMELOCK_SECS,
  InitialConfig,           \* configuration after initialize and deployment
  (* inputs of the entry points *)
  DepositAmounts, NoeAmounts, Profits, Losses, Fees, Inflows, Gifts,
  Payouts, Marks, Sizes,
  RecoveryAmounts, FeeBps, Caps, Cooldowns, Bps,
  (* bounds of the instance *)
  MaxCash, MaxDeposited, MaxCum, MaxTime

VARIABLES
  pool,                    \* money, see VaultOps
  config,                  \* admin-set parameters
  noe,                     \* NOE balance of each LP
  vault_noe,               \* NOE balance of the vault
  deposited,               \* gross deposits of each LP, for the per-account cap
  last_deposit_ts,         \* 0 before the first deposit
  paused,
  recovery_address,        \* whether init_recovery has run
  recovery_proposal,       \* NoProposal or [amount, execute_after]
  now,                     \* ledger timestamp
  last_unpaused,           \* history: last time the vault was seen unpaused
  drained                  \* history: a recovery has moved USDC out

lpVars == <<noe, vault_noe, deposited, last_deposit_ts>>
recoveryVars == <<recovery_address, recovery_proposal>>
adminVars == <<config, paused, recoveryVars>>
clockVars == <<now, last_unpaused>>
vars == <<pool, lpVars, adminVars, clockVars, drained>>

NoProposal == [amount |-> 0, execute_after |-> 0]

ASSUME VaultAssumption ==
  /\ IsFiniteSet(LPs)
  /\ NoeSupply \in Nat
  /\ RECOVERY_TIMELOCK_SECS \in Nat
  /\ ConfigOK(InitialConfig)
  /\ DepositAmounts \subseteq Nat \ {0} /\ NoeAmounts \subseteq Nat \ {0}
  /\ Profits \subseteq Nat \ {0} /\ Losses \subseteq Nat \ {0}
  /\ Fees \subseteq Nat \ {0} /\ Inflows \subseteq Nat \ {0}
  /\ Gifts \subseteq Nat \ {0}
  /\ Payouts \subseteq Nat \ {0} /\ Sizes \subseteq Nat \ {0}
  /\ RecoveryAmounts \subseteq Nat \ {0} /\ Marks \subseteq Int
  /\ FeeBps \subseteq Nat /\ Caps \subseteq Nat
  /\ Cooldowns \subseteq Nat /\ Bps \subseteq Nat
  /\ MaxCash \in Nat /\ MaxDeposited \in Nat /\ MaxCum \in Nat /\ MaxTime \in Nat

-----------------------------------------------------------------------------
Init ==
  /\ pool = [cash |-> 0, total_usdc |-> 0, total_fees |-> 0, buffer |-> 0,
             shortfall_reserve |-> 0, shortfall |-> 0,
             shortfall_owed |-> [t \in Traders |-> 0],
             cum_shortfall |-> 0, cum_shortfall_repaid |-> 0,
             cum_covered |-> 0, cum_lp_absorbed |-> 0,
             reserved_payout |-> 0, asset_pnl |-> [a \in Assets |-> 0],
             unrealized_pnl |-> 0, circulating |-> 0]
  /\ config = InitialConfig
  /\ noe = [l \in LPs |-> 0] /\ vault_noe = NoeSupply
  /\ deposited = [l \in LPs |-> 0] /\ last_deposit_ts = [l \in LPs |-> 0]
  /\ paused = FALSE
  /\ recovery_address = FALSE /\ recovery_proposal = NoProposal
  /\ now = 1 /\ last_unpaused = 1
  /\ drained = FALSE

-----------------------------------------------------------------------------
(* Liquidity providers.  The slippage bounds min_noe_out and min_usdc_out    *)
(* only ever refuse a call; the model lets the caller accept every price.    *)

NoeFor(amount) ==
  calculate_glp_for_deposit(amount - DepositFee(config, amount), pool)

Deposit(lp, amount) ==
  /\ ~paused
  /\ config.deposit_cap > 0 => deposited[lp] + amount <= config.deposit_cap
  /\ config.aum_cap > 0 =>
       pool.total_usdc + (amount - DepositFee(config, amount)) <= config.aum_cap
  /\ CanPriceDeposit(pool)
  /\ NoeFor(amount) > 0
  /\ NoeFor(amount) <= vault_noe
  /\ pool' = Deposited(pool, config, amount, NoeFor(amount))
  /\ noe' = [noe EXCEPT ![lp] = @ + NoeFor(amount)]
  /\ vault_noe' = vault_noe - NoeFor(amount)
  /\ deposited' = [deposited EXCEPT ![lp] = @ + amount]
  /\ last_deposit_ts' = [last_deposit_ts EXCEPT ![lp] = now]
  /\ UNCHANGED <<adminVars, clockVars, drained>>

CooledDown(lp) ==
  \/ config.withdraw_cooldown = 0
  \/ last_deposit_ts[lp] = 0
  \/ now >= last_deposit_ts[lp] + config.withdraw_cooldown

GrossFor(amount) == calculate_usdc_for_withdrawal(amount, pool)
NetFor(amount) == GrossFor(amount) - WithdrawFee(config, GrossFor(amount))

(* Faulty variants: the solvency floor forgets the earmark, or the balance   *)
(* of the withdrawer is not checked.                                         *)
CanWithdrawFromEarmark(lp, amount) ==
  /\ CooledDown(lp)
  /\ amount <= noe[lp]
  /\ pool.circulating # 0
  /\ NetFor(amount) > 0
  /\ NetFor(amount) <= pool.cash
  /\ pool.cash - NetFor(amount) >= pool.reserved_payout

CanWithdrawUnowned(lp, amount) ==
  /\ CooledDown(lp)
  /\ pool.circulating # 0
  /\ NetFor(amount) > 0
  /\ NetFor(amount) <= pool.cash
  /\ pool.cash - NetFor(amount) >= pool.reserved_payout + pool.shortfall_reserve

(* The guard of withdraw; the pause flag is not part of it. *)
CanWithdraw(lp, amount) ==
  /\ CooledDown(lp)
  /\ amount <= noe[lp]
  /\ pool.circulating # 0
  /\ NetFor(amount) > 0
  /\ NetFor(amount) <= pool.cash
  /\ pool.cash - NetFor(amount) >= pool.reserved_payout + pool.shortfall_reserve

Withdraw(lp, amount) ==
  /\ CanWithdraw(lp, amount)
  /\ pool' = Withdrawn(pool, config, GrossFor(amount), amount)
  /\ noe' = [noe EXCEPT ![lp] = @ - amount]
  /\ vault_noe' = vault_noe + amount
  /\ UNCHANGED <<deposited, last_deposit_ts, adminVars, clockVars, drained>>

(* NOE is an ordinary token: holders move it among themselves, and one may   *)
(* send it to the vault without redeeming it.                                *)
TransferNoe(from, to, amount) ==
  /\ from # to /\ amount <= noe[from]
  /\ noe' = [noe EXCEPT ![from] = @ - amount, ![to] = @ + amount]
  /\ UNCHANGED <<pool, vault_noe, deposited, last_deposit_ts, adminVars,
                 clockVars, drained>>

ReturnNoe(from, amount) ==
  /\ amount <= noe[from]
  /\ noe' = [noe EXCEPT ![from] = @ - amount]
  /\ vault_noe' = vault_noe + amount
  /\ UNCHANGED <<pool, deposited, last_deposit_ts, adminVars, clockVars, drained>>

-----------------------------------------------------------------------------
(* The market, and anyone who sends USDC.  Each changes the pool only. *)

PoolStep(p) ==
  /\ pool' = p
  /\ UNCHANGED <<lpVars, adminVars, clockVars, drained>>

(* A credit call commits only if the receipt check passes afterwards. *)
CreditStep(p) == CashCovers(p) /\ PoolStep(p)

SettlePnl(trader, pnl) == PoolStep(settle_pnl(pool, trader, pnl))
ReceiveLoss(amount) == CreditStep(receive_loss(TransferIn(pool, amount), amount))
PayBounty(amount) == PoolStep(pay_bounty(pool, amount))
PayFromBuffer(amount) == PoolStep(pay_from_buffer(pool, amount))
RouteProtocolFee(amount) ==
  CreditStep(route_protocol_fee(TransferIn(pool, amount), config, amount))
FundBuffer(amount) ==
  CreditStep(fund_buffer(TransferIn(pool, amount), config, amount))
DrawBuffer(amount) == PoolStep(draw_buffer(pool, amount))
SyncExposure(asset, pnl, release) ==
  PoolStep(sync_exposure(pool, asset, pnl, release))

(* The open interest and skew the market reports are its own; here any.      *)
ReserveForPosition(asset, amount, side_oi_after, skew_before, skew_after) ==
  /\ CanReserve(pool, config, asset, amount, side_oi_after, skew_before, skew_after)
  /\ PoolStep(reserve_for_position(pool, amount))

ClaimShortfall(trader) ==
  /\ pool.shortfall_owed[trader] > 0
  /\ ClaimPay(pool, trader) > 0
  /\ PoolStep(claim_shortfall(pool, trader))

Donate(amount) == PoolStep(TransferIn(pool, amount))

-----------------------------------------------------------------------------
(* The admin *)

SeedBuffer(amount) == PoolStep(fund_buffer(TransferIn(pool, amount), config, amount))

SetConfig(c) ==
  /\ config' = c
  /\ UNCHANGED <<pool, lpVars, paused, recoveryVars, clockVars, drained>>

SetDepositFee(bps) ==
  bps <= MAX_FEE_BPS /\ SetConfig([config EXCEPT !.deposit_fee_bps = bps])
SetWithdrawFee(bps) ==
  bps <= MAX_FEE_BPS /\ SetConfig([config EXCEPT !.withdraw_fee_bps = bps])
SetDepositCap(cap) == SetConfig([config EXCEPT !.deposit_cap = cap])
SetAumCap(cap) == SetConfig([config EXCEPT !.aum_cap = cap])
SetWithdrawCooldown(secs) ==
  secs <= MAX_COOLDOWN /\ SetConfig([config EXCEPT !.withdraw_cooldown = secs])
SetBufferTarget(bps) ==
  bps <= BASIS_POINTS /\ SetConfig([config EXCEPT !.buffer_target_bps = bps])
SetShortfallInflowBps(bps) ==
  bps <= BASIS_POINTS /\ SetConfig([config EXCEPT !.shortfall_inflow_bps = bps])
SetReserveCap(bps) ==
  bps \in 1..BASIS_POINTS /\ SetConfig([config EXCEPT !.reserve_cap_bps = bps])
SetAssetCap(asset, bps) ==
  /\ bps \in 1..BASIS_POINTS
  /\ SetConfig([config EXCEPT !.asset_cap_bps[asset] = bps])
SetAssetCapAbs(asset, cap) ==
  SetConfig([config EXCEPT !.asset_cap_abs[asset] = cap])
SetSkewCap(asset, bps) ==
  /\ bps \in 1..BASIS_POINTS
  /\ SetConfig([config EXCEPT !.skew_cap_bps[asset] = bps])

Pause ==
  /\ paused' = TRUE
  /\ UNCHANGED <<pool, lpVars, config, recoveryVars, clockVars, drained>>

(* Faulty variant: leaving the emergency keeps the proposal. *)
UnpauseKeepingProposal ==
  /\ paused' = FALSE
  /\ last_unpaused' = now
  /\ UNCHANGED <<pool, lpVars, config, recoveryVars, now, drained>>

Unpause ==
  /\ paused' = FALSE
  /\ recovery_proposal' = NoProposal
  /\ last_unpaused' = now
  /\ UNCHANGED <<pool, lpVars, config, recovery_address, now, drained>>

InitRecovery ==
  /\ ~recovery_address
  /\ recovery_address' = TRUE
  /\ UNCHANGED <<pool, lpVars, config, paused, recovery_proposal, clockVars, drained>>

ProposeRecovery(amount) ==
  /\ paused
  /\ recovery_address
  /\ recovery_proposal' =
       [amount |-> amount, execute_after |-> now + RECOVERY_TIMELOCK_SECS]
  /\ UNCHANGED <<pool, lpVars, config, paused, recovery_address, clockVars, drained>>

ExecuteRecovery ==
  /\ paused
  /\ recovery_proposal # NoProposal
  /\ now >= recovery_proposal.execute_after
  /\ recovery_address
  /\ pool' = [pool EXCEPT !.cash = @ - RecoveryPay(pool, recovery_proposal.amount)]
  /\ drained' = (drained \/ RecoveryPay(pool, recovery_proposal.amount) > 0)
  /\ recovery_proposal' = NoProposal
  /\ UNCHANGED <<lpVars, config, paused, recovery_address, clockVars>>

CancelRecovery ==
  /\ recovery_proposal' = NoProposal
  /\ UNCHANGED <<pool, lpVars, config, paused, recovery_address, clockVars, drained>>

(* Ledgers close: the timestamp moves on. *)
Tick ==
  /\ now' = now + 1
  /\ last_unpaused' = IF paused THEN last_unpaused ELSE now'
  /\ UNCHANGED <<pool, lpVars, adminVars, drained>>

-----------------------------------------------------------------------------
LpStep ==
  \/ \E lp \in LPs, amount \in DepositAmounts : Deposit(lp, amount)
  \/ \E lp \in LPs, amount \in NoeAmounts : Withdraw(lp, amount)
  \/ \E from, to \in LPs, amount \in NoeAmounts : TransferNoe(from, to, amount)
  \/ \E lp \in LPs, amount \in NoeAmounts : ReturnNoe(lp, amount)

MarketStep ==
  \/ \E trader \in Traders, pnl \in Profits : SettlePnl(trader, pnl)
  \/ \E amount \in Losses : ReceiveLoss(amount)
  \/ \E amount \in Fees : RouteProtocolFee(amount)
  \/ \E amount \in Inflows : FundBuffer(amount)
  \/ \E amount \in Payouts : PayBounty(amount)
  \/ \E amount \in Payouts : PayFromBuffer(amount)
  \/ \E amount \in Payouts : DrawBuffer(amount)
  \/ \E asset \in Assets, pnl \in Marks, release \in Sizes \cup {0} :
       SyncExposure(asset, pnl, release)
  \/ \E asset \in Assets, amount, oi \in Sizes, skew \in Sizes \cup {0} :
       ReserveForPosition(asset, amount, oi, skew, skew + amount)

AnyoneStep ==
  \/ \E trader \in Traders : ClaimShortfall(trader)
  \/ \E amount \in Gifts : Donate(amount)

AdminStep ==
  \/ \E amount \in Inflows : SeedBuffer(amount)
  \/ \E bps \in FeeBps : SetDepositFee(bps)
  \/ \E bps \in FeeBps : SetWithdrawFee(bps)
  \/ \E cap \in Caps : SetDepositCap(cap)
  \/ \E cap \in Caps : SetAumCap(cap)
  \/ \E secs \in Cooldowns : SetWithdrawCooldown(secs)
  \/ \E bps \in Bps : SetBufferTarget(bps)
  \/ \E bps \in Bps : SetShortfallInflowBps(bps)
  \/ \E bps \in Bps : SetReserveCap(bps)
  \/ \E asset \in Assets, bps \in Bps : SetAssetCap(asset, bps)
  \/ \E asset \in Assets, cap \in Caps : SetAssetCapAbs(asset, cap)
  \/ \E asset \in Assets, bps \in Bps : SetSkewCap(asset, bps)
  \/ Pause
  \/ Unpause
  \/ InitRecovery
  \/ \E amount \in RecoveryAmounts : ProposeRecovery(amount)
  \/ ExecuteRecovery
  \/ CancelRecovery

(* The instance's bounds on money, on the lifetime counters and on time. *)
Bounds ==
  /\ pool.cash <= MaxCash
  /\ Abs(pool.total_usdc) <= MaxCash
  /\ pool.cum_shortfall <= MaxCum
  /\ pool.cum_covered + pool.cum_lp_absorbed <= MaxCum
  /\ pool.reserved_payout <= MaxCash
  /\ \A lp \in LPs : deposited[lp] <= MaxDeposited
  /\ now <= MaxTime

Next == (LpStep \/ MarketStep \/ AnyoneStep \/ AdminStep \/ Tick) /\ Bounds'

Spec == Init /\ [][Next]_vars

-----------------------------------------------------------------------------
(* Types of the state; cash, fees, buffer and reserve are never negative. *)
TypeOK ==
  /\ PoolOK(pool)
  /\ ConfigOK(config)
  /\ noe \in [LPs -> Nat] /\ vault_noe \in Nat
  /\ deposited \in [LPs -> Nat] /\ last_deposit_ts \in [LPs -> Nat]
  /\ paused \in BOOLEAN /\ recovery_address \in BOOLEAN
  /\ recovery_proposal \in [amount : Nat, execute_after : Nat]
  /\ now \in Nat /\ last_unpaused \in Nat /\ drained \in BOOLEAN

(* Until a recovery has moved funds out, the USDC the vault holds covers LP  *)
(* principal, fees, buffer and repayment reserve together: no entry point    *)
(* books value that did not arrive or pays out more than it debits, so the   *)
(* receipt check refuses no honest credit and losing positions can be closed. *)
(* The part earmarked for unpaid winners is there even when the LP principal *)
(* has gone negative.                                                        *)
Solvent == ~drained => CashCovers(pool) /\ pool.shortfall_reserve <= pool.cash

(* The aggregate shortfall is the sum of the traders' claims, equals what    *)
(* was ever booked less what was ever repaid, and is never less than the     *)
(* amortizer has earmarked for it, whatever claims, inflows and rate changes *)
(* come between.                                                             *)
DebtBooked ==
  /\ pool.shortfall = Total(pool.shortfall_owed)
  /\ pool.shortfall = pool.cum_shortfall - pool.cum_shortfall_repaid
  /\ pool.shortfall_reserve <= pool.shortfall

(* The vault's own count of circulating NOE never falls below what LPs hold: *)
(* all of them together can redeem at most the whole pool.                   *)
SharesCounted == Total(noe) <= pool.circulating

(* An executed recovery was preceded by the full timelock of uninterrupted   *)
(* pause: unpausing retracts the proposal and re-proposing restarts it.      *)
RecoveryAfterNotice ==
  [][drained' # drained => now >= last_unpaused + RECOVERY_TIMELOCK_SECS]_vars

(* The inductive form: a pending proposal belongs to the present pause.      *)
ProposalWithinPause ==
  recovery_proposal # NoProposal =>
    /\ paused
    /\ recovery_proposal.execute_after >= last_unpaused + RECOVERY_TIMELOCK_SECS

(* Deposits and withdrawals never lower the value behind one NOE: rounding   *)
(* and fees go to the holders who stay.                                      *)
NoDilution ==
  [][pool'.circulating # pool.circulating
       /\ pool.circulating > 0 /\ pool'.circulating > 0
     => calculate_aum(pool') * pool.circulating
          >= calculate_aum(pool) * pool'.circulating]_vars

(* Winnings fall on LP principal only once the insurance buffer is empty,    *)
(* and a winner is short-paid only when buffer and LP principal are both     *)
(* exhausted: before a recovery the cap on the physical balance in           *)
(* settle_pnl never binds first.                                             *)
PayoutOrder ==
  [][/\ pool'.total_usdc < pool.total_usdc
          /\ pool'.circulating = pool.circulating => pool'.buffer = 0
     /\ pool'.shortfall > pool.shortfall /\ ~drained =>
          pool'.buffer + pool'.total_usdc <= 0]_vars
=============================================================================
