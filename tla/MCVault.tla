------------------------------ MODULE MCVault -------------------------------
(***************************************************************************)
(* Vault on one small instance, in three scenes: LPs against a moving mark *)
(* ("shares"), unpaid winners ("debts"), the admin and the clock           *)
(* ("admin").  A behaviour keeps to the steps of its scene.                *)
(***************************************************************************)
EXTENDS Vault, TLC

CONSTANT Scenes
VARIABLE scene

(* 10% fees and a half-and-half amortizer, so that small amounts round.     *)
BaseConfig ==
  [deposit_fee_bps |-> 1000, withdraw_fee_bps |-> 1000,
   deposit_cap |-> 0, aum_cap |-> 0, withdraw_cooldown |-> 0,
   buffer_target_bps |-> 5000, shortfall_inflow_bps |-> 5000,
   reserve_cap_bps |-> 7000,
   asset_cap_bps |-> [a \in Assets |-> 5000],
   asset_cap_abs |-> [a \in Assets |-> 0],
   skew_cap_bps |-> [a \in Assets |-> 5000]]

VaultSymmetry == Permutations(LPs) \cup Permutations(Traders)
AllMarks == {-4, -3, 0, 4}

(* Money, in units, and who may bring it.                                   *)
Purse == [shares |-> 17, debts |-> 7, admin |-> 5]
Nobody == \A lp \in LPs : deposited[lp] = 0
Within == pool.cash <= Purse[scene] /\ Abs(pool.total_usdc) <= Purse[scene] /\ Bounds

SharesStep ==
  \/ \E lp \in LPs : deposited[lp] = 0 /\ Deposit(lp, 10)
  \/ \E lp \in LPs, amount \in NoeAmounts :
       Withdraw(lp, amount) \/ ReturnNoe(lp, amount) \/ \E to \in LPs : TransferNoe(lp, to, amount)
  \/ \E amount \in Losses : ReceiveLoss(amount)
  \/ \E amount \in Gifts : Donate(amount)
  \/ \E asset \in Assets, pnl \in {-3, 0, 4} : SyncExposure(asset, pnl, 0)

DebtsStep ==
  \/ Nobody /\ \E lp \in LPs : Deposit(lp, 5)
  \/ \E lp \in LPs : Withdraw(lp, 4) \/ ReturnNoe(lp, 4)
  \/ \E trader \in Traders : ClaimShortfall(trader) \/ \E pnl \in Profits : SettlePnl(trader, pnl)
  \/ \E amount \in Inflows : FundBuffer(amount) \/ SeedBuffer(amount)
  \/ \E amount \in Payouts : PayBounty(amount) \/ PayFromBuffer(amount) \/ DrawBuffer(amount)
  \/ \E asset \in Assets, pnl \in {-4, 0} : SyncExposure(asset, pnl, 0)

AdminSceneStep ==
  \/ Nobody /\ \E lp \in LPs : Deposit(lp, 5)
  \/ \E amount \in Fees : RouteProtocolFee(amount)
  \/ \E asset \in Assets, size \in Sizes :
       \/ SyncExposure(asset, 0, size)
       \/ \E skew \in {0, size} : ReserveForPosition(asset, size, size, skew, skew + size)
  \/ AdminStep /\ pool'.buffer = pool.buffer
  \/ Tick

MCInit == Init /\ scene \in Scenes
MCNext ==
  /\ \/ scene = "shares" /\ SharesStep
     \/ scene = "debts" /\ DebtsStep
     \/ scene = "admin" /\ AdminSceneStep
  /\ UNCHANGED scene /\ Within'
MCSpec == MCInit /\ [][MCNext]_<<vars, scene>>
=============================================================================
