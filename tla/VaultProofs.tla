---------------------------- MODULE VaultProofs -----------------------------
(***************************************************************************)
(* Proofs about Vault for every set of LPs, traders and assets, every      *)
(* configuration and every input.                                          *)
(***************************************************************************)
EXTENDS Vault, PoolProofs

-----------------------------------------------------------------------------
(* The inductive invariant.  Solvent alone is not inductive: fees stay       *)
(* non-negative only because the circulating count bounds every holding, and *)
(* the reserve stays within the debt only because the debt is the sum of the *)
(* claims.                                                                   *)
VInv ==
  /\ TypeOK
  /\ PoolInv(pool)
  /\ ~drained => Backed(pool)
  /\ SharesCounted
  /\ ProposalWithinPause
  /\ last_unpaused <= now

LEMMA VInvInit == Init => VInv
<1> SUFFICES ASSUME Init PROVE VInv
  OBVIOUS
<1> USE VaultAssumption DEF Init
<1>1. Total(pool.shortfall_owed) = 0 /\ Total(noe) = 0
  BY TotalZero
<1>2. PoolOK(pool)
  BY DEF PoolOK, PoolFields
<1>3. PoolInv(pool)
  BY <1>1, <1>2 DEF PoolInv
<1>4. Backed(pool)
  BY DEF Backed, CashCovers
<1>5. TypeOK
  BY <1>2 DEF TypeOK, NoProposal
<1>6. SharesCounted /\ ProposalWithinPause /\ last_unpaused <= now
  BY <1>1 DEF SharesCounted, ProposalWithinPause
<1> QED
  BY <1>3, <1>4, <1>5, <1>6 DEF VInv

(* A step that only replaces the pool by one whose books are kept. *)
LEMMA PoolStepKeeps ==
  ASSUME VInv, NEW q, PoolInv(q), Backed(pool) => Backed(q),
         q.circulating = pool.circulating, PoolStep(q)
  PROVE  VInv'
BY DEF VInv, PoolStep, TypeOK, PoolInv, SharesCounted, ProposalWithinPause,
       lpVars, adminVars, recoveryVars, clockVars

LEMMA DepositStep ==
  ASSUME VInv, NEW lp \in LPs, NEW amount \in DepositAmounts, Deposit(lp, amount)
  PROVE  VInv'
<1> DEFINE n == NoeFor(amount)
<1>1. amount \in Nat /\ IsFiniteSet(LPs)
  BY VaultAssumption
<1>2. TypeOK /\ PoolInv(pool) /\ SharesCounted
  BY DEF VInv
<1>3. n > 0 /\ n <= vault_noe
  BY DEF Deposit
<1>4. n \in Nat
  <2> DEFINE net == amount - DepositFee(config, amount)
  <2>1. net \in Nat
    BY <1>1, <1>2, FeeRange DEF TypeOK
  <2>2. noe \in [LPs -> Nat]
    BY <1>2 DEF TypeOK
  <2>3. Total(noe) \in Nat
    BY <1>1, <2>2, TotalType
  <2>4. pool.circulating \in Nat
    BY <1>2, <2>3 DEF SharesCounted, PoolInv, PoolOK
  <2>5. calculate_aum(pool) \in Nat
    BY <1>2, AumType DEF PoolInv
  <2>6. pool.circulating # 0 => calculate_aum(pool) \in Nat \ {0}
    BY <2>5 DEF Deposit, CanPriceDeposit
  <2>7. n = IF pool.circulating = 0 THEN net
            ELSE (net * pool.circulating) \div calculate_aum(pool)
    BY DEF NoeFor, calculate_glp_for_deposit
  <2>8. net * pool.circulating \in Nat
    BY <2>1, <2>4
  <2> HIDE DEF net, n
  <2>9. pool.circulating # 0 => (net * pool.circulating) \div calculate_aum(pool) \in Nat
    BY <2>6, <2>8, DivBound
  <2> QED
    BY <2>1, <2>7, <2>9
<1> HIDE DEF n
<1>5. /\ pool' = Deposited(pool, config, amount, n)
      /\ noe' = [noe EXCEPT ![lp] = @ + n] /\ vault_noe' = vault_noe - n
      /\ deposited' = [deposited EXCEPT ![lp] = @ + amount]
      /\ last_deposit_ts' = [last_deposit_ts EXCEPT ![lp] = now]
      /\ UNCHANGED <<adminVars, clockVars, drained>>
  BY DEF Deposit, n
<1>6. /\ PoolInv(pool') /\ (Backed(pool) => Backed(pool'))
      /\ pool'.circulating = pool.circulating + n
  <2>1. ConfigOK(config) /\ n \in Int
    BY <1>2, <1>4 DEF TypeOK
  <2> QED
    BY <1>1, <1>2, <1>5, <2>1, DepositKeeps
<1>7. noe \in [LPs -> Nat] /\ noe[lp] \in Nat
  BY <1>2 DEF TypeOK
<1>8. Total(noe') = Total(noe) + n /\ Total(noe) \in Nat
  <2>1. noe[lp] + n \in Nat
    BY <1>4, <1>7
  <2>2. Total([noe EXCEPT ![lp] = noe[lp] + n]) = Total(noe) - noe[lp] + (noe[lp] + n)
    BY <1>1, <1>7, <2>1, TotalUpdate
  <2>3. Total(noe) \in Nat
    BY <1>1, <1>7, TotalType
  <2> QED
    BY <1>4, <1>5, <1>7, <2>2, <2>3
<1>9. SharesCounted'
  BY <1>2, <1>4, <1>6, <1>8 DEF SharesCounted, PoolInv, PoolOK
<1>10. TypeOK'
  BY <1>1, <1>2, <1>3, <1>4, <1>5, <1>6 DEF TypeOK, PoolInv, adminVars, recoveryVars, clockVars
<1>11. ProposalWithinPause' /\ (last_unpaused <= now)'
  BY <1>5 DEF VInv, ProposalWithinPause, adminVars, recoveryVars, clockVars
<1> QED
  BY <1>5, <1>6, <1>9, <1>10, <1>11 DEF VInv, PoolInv

LEMMA WithdrawStep ==
  ASSUME VInv, NEW lp \in LPs, NEW amount \in NoeAmounts, Withdraw(lp, amount)
  PROVE  VInv'
<1> DEFINE gross == GrossFor(amount)
<1>1. amount \in Nat \ {0} /\ IsFiniteSet(LPs)
  BY VaultAssumption
<1>2. TypeOK /\ PoolInv(pool) /\ SharesCounted
  BY DEF VInv
<1>3. noe \in [LPs -> Nat] /\ noe[lp] \in Nat /\ amount <= noe[lp]
  BY <1>2 DEF TypeOK, Withdraw, CanWithdraw
<1>4. noe[lp] <= Total(noe) /\ Total(noe) \in Nat
  BY <1>1, <1>3, TotalBounds, TotalType
<1>5. pool.circulating \in Nat \ {0}
  BY <1>1, <1>2, <1>3, <1>4 DEF SharesCounted, PoolInv, PoolOK
<1>6. gross \in Nat
  <2>1. calculate_aum(pool) \in Nat
    BY <1>2, AumType DEF PoolInv
  <2>2. amount * calculate_aum(pool) \in Nat
    BY <1>1, <2>1
  <2> QED
    BY <1>5, <2>2, DivBound DEF GrossFor, calculate_usdc_for_withdrawal
<1>7. /\ pool.cash - (gross - WithdrawFee(config, gross)) >= pool.reserved_payout + pool.shortfall_reserve
      /\ pool' = Withdrawn(pool, config, gross, amount)
      /\ noe' = [noe EXCEPT ![lp] = @ - amount] /\ vault_noe' = vault_noe + amount
      /\ UNCHANGED <<deposited, last_deposit_ts, adminVars, clockVars, drained>>
  BY DEF Withdraw, CanWithdraw, NetFor
<1> HIDE DEF gross
<1>8. /\ PoolInv(pool') /\ (Backed(pool) => Backed(pool'))
      /\ pool'.circulating = pool.circulating - amount
  <2>1. ConfigOK(config) /\ amount \in Int
    BY <1>1, <1>2 DEF TypeOK
  <2> QED
    BY <1>2, <1>6, <1>7, <2>1, WithdrawKeeps
<1>9. Total(noe') = Total(noe) - amount
  <2>1. noe[lp] - amount \in Nat
    BY <1>1, <1>3
  <2>2. \A m \in Nat : Total([noe EXCEPT ![lp] = m]) = Total(noe) - noe[lp] + m
    BY <1>1, <1>3, TotalUpdate
  <2>3. Total([noe EXCEPT ![lp] = noe[lp] - amount]) = Total(noe) - noe[lp] + (noe[lp] - amount)
    BY <2>1, <2>2
  <2> QED
    BY <1>1, <1>3, <1>4, <1>7, <2>3
<1>10. SharesCounted'
  BY <1>1, <1>2, <1>4, <1>8, <1>9 DEF SharesCounted, PoolInv, PoolOK
<1>11. TypeOK'
  BY <1>1, <1>2, <1>3, <1>7, <1>8 DEF TypeOK, PoolInv, adminVars, recoveryVars, clockVars
<1>12. ProposalWithinPause' /\ (last_unpaused <= now)'
  BY <1>7 DEF VInv, ProposalWithinPause, adminVars, recoveryVars, clockVars
<1> QED
  BY <1>7, <1>8, <1>10, <1>11, <1>12 DEF VInv, PoolInv

(* NOE that moves without the vault: holders' total never grows. *)
LEMMA NoeMoves ==
  ASSUME VInv, NEW from \in LPs, NEW amount \in NoeAmounts,
         \/ \E to \in LPs : TransferNoe(from, to, amount)
         \/ ReturnNoe(from, amount)
  PROVE  VInv'
<1>1. amount \in Nat /\ IsFiniteSet(LPs)
  BY VaultAssumption
<1>2. TypeOK /\ PoolInv(pool) /\ SharesCounted /\ noe \in [LPs -> Nat]
  BY DEF VInv, TypeOK
<1>3. amount <= noe[from] /\ noe[from] \in Nat
  BY <1>2 DEF TransferNoe, ReturnNoe
<1> DEFINE f == [noe EXCEPT ![from] = noe[from] - amount]
<1>4. f \in [LPs -> Nat]
  BY <1>1, <1>2, <1>3
<1>5. Total(noe) \in Nat /\ Total(f) = Total(noe) - amount
  <2>1. \A m \in Nat : Total([noe EXCEPT ![from] = m]) = Total(noe) - noe[from] + m
    BY <1>1, <1>2, TotalUpdate
  <2>2. noe[from] - amount \in Nat
    BY <1>1, <1>3
  <2>3. Total(f) = Total(noe) - noe[from] + (noe[from] - amount)
    BY <2>1, <2>2
  <2>4. Total(noe) \in Nat
    BY <1>1, <1>2, TotalType
  <2> QED
    BY <1>1, <1>3, <2>3, <2>4
<1>6. noe' \in [LPs -> Nat] /\ Total(noe') <= Total(noe) /\ vault_noe' \in Nat
  <2>1. CASE ReturnNoe(from, amount)
    BY <1>1, <1>2, <1>4, <1>5, <2>1 DEF ReturnNoe, TypeOK
  <2>2. CASE \E to \in LPs : TransferNoe(from, to, amount)
    <3>1. PICK to \in LPs : TransferNoe(from, to, amount)
      BY <2>2
    <3>2. noe' = [f EXCEPT ![to] = f[to] + amount] /\ vault_noe' = vault_noe
      BY <1>2, <3>1 DEF TransferNoe
    <3>3. f[to] + amount \in Nat /\ f[to] \in Nat
      BY <1>1, <1>4
    <3> HIDE DEF f
    <3>4. \A m \in Nat : Total([f EXCEPT ![to] = m]) = Total(f) - f[to] + m
      BY <1>1, <1>4, TotalUpdate
    <3>5. Total(noe') = Total(f) - f[to] + (f[to] + amount)
      BY <3>2, <3>3, <3>4
    <3>6. noe' \in [LPs -> Nat]
      BY <1>4, <3>2, <3>3
    <3> QED
      BY <1>1, <1>2, <1>5, <3>2, <3>3, <3>5, <3>6 DEF TypeOK
  <2> QED
    BY <2>1, <2>2
<1>7. UNCHANGED <<pool, deposited, last_deposit_ts, adminVars, clockVars, drained>>
  BY DEF TransferNoe, ReturnNoe
<1>8. Total(noe') \in Nat
  BY <1>1, <1>6, TotalType
<1>9. SharesCounted'
  BY <1>2, <1>5, <1>6, <1>7, <1>8 DEF SharesCounted, PoolInv, PoolOK
<1>10. TypeOK'
  BY <1>2, <1>6, <1>7 DEF TypeOK, adminVars, recoveryVars, clockVars
<1> QED
  BY <1>7, <1>9, <1>10 DEF VInv, PoolInv, ProposalWithinPause, adminVars,
     recoveryVars, clockVars

(* Steps of the market, of claimants and of donors. *)
LEMMA PoolSteps ==
  ASSUME VInv, MarketStep \/ AnyoneStep \/ \E amount \in Inflows : SeedBuffer(amount)
  PROVE  VInv'
<1>0. PoolInv(pool) /\ ConfigOK(config)
  BY DEF VInv, TypeOK
<1> USE VaultAssumption
<1>1. ASSUME NEW t \in Traders, NEW pnl \in Profits, SettlePnl(t, pnl)
      PROVE  VInv'
  <2>1. settle_pnl(pool, t, pnl).circulating = pool.circulating
    BY <1>0 DEF settle_pnl, PoolInv, PoolOK, PoolFields
  <2> QED
    BY <1>0, <1>1, <2>1, SettleKeeps, PoolStepKeeps DEF SettlePnl
<1>2. ASSUME NEW amount \in Losses, ReceiveLoss(amount)
      PROVE  VInv'
  <2>1. receive_loss(TransferIn(pool, amount), amount).circulating = pool.circulating
    BY <1>0 DEF receive_loss, TransferIn, PoolInv, PoolOK, PoolFields
  <2> QED
    BY <1>0, <1>2, <2>1, ReceiveLossKeeps, PoolStepKeeps DEF ReceiveLoss, CreditStep
<1>3. ASSUME NEW amount \in Fees, RouteProtocolFee(amount)
      PROVE  VInv'
  <2>1. route_protocol_fee(TransferIn(pool, amount), config, amount).circulating = pool.circulating
    BY <1>0 DEF route_protocol_fee, TransferIn, PoolInv, PoolOK, PoolFields
  <2> QED
    BY <1>0, <1>3, <2>1, RouteFeeKeeps, PoolStepKeeps DEF RouteProtocolFee, CreditStep
<1>4. ASSUME NEW amount \in Inflows, FundBuffer(amount) \/ SeedBuffer(amount)
      PROVE  VInv'
  <2>1. fund_buffer(TransferIn(pool, amount), config, amount).circulating = pool.circulating
    BY <1>0 DEF fund_buffer, TransferIn, PoolInv, PoolOK, PoolFields
  <2> QED
    BY <1>0, <1>4, <2>1, FundBufferKeeps, PoolStepKeeps DEF FundBuffer, SeedBuffer, CreditStep
<1>5. ASSUME NEW amount \in Payouts, PayBounty(amount) \/ PayFromBuffer(amount)
      PROVE  VInv'
  <2>1. pay_bounty(pool, amount).circulating = pool.circulating
    BY <1>0 DEF pay_bounty, PoolInv, PoolOK, PoolFields
  <2> QED
    BY <1>0, <1>5, <2>1, BufferPayoutKeeps, PoolStepKeeps DEF PayBounty, PayFromBuffer
<1>6. ASSUME NEW amount \in Payouts, DrawBuffer(amount)
      PROVE  VInv'
  <2>1. draw_buffer(pool, amount).circulating = pool.circulating
    BY <1>0 DEF draw_buffer, PoolInv, PoolOK, PoolFields
  <2> QED
    BY <1>0, <1>6, <2>1, DrawKeeps, PoolStepKeeps DEF DrawBuffer
<1>7. ASSUME NEW asset \in Assets, NEW pnl \in Marks, NEW release \in Sizes \cup {0},
             SyncExposure(asset, pnl, release)
      PROVE  VInv'
  <2>1. sync_exposure(pool, asset, pnl, release).circulating = pool.circulating
    BY <1>0 DEF sync_exposure, PoolInv, PoolOK, PoolFields
  <2>2. release \in Nat /\ pnl \in Int
    OBVIOUS
  <2> QED
    BY <1>0, <1>7, <2>1, <2>2, SyncKeeps, PoolStepKeeps DEF SyncExposure
<1>8. ASSUME NEW asset \in Assets, NEW amount \in Sizes, NEW oi, NEW s0, NEW s1,
             ReserveForPosition(asset, amount, oi, s0, s1)
      PROVE  VInv'
  <2>1. reserve_for_position(pool, amount).circulating = pool.circulating
    BY <1>0 DEF reserve_for_position, PoolInv, PoolOK, PoolFields
  <2> QED
    BY <1>0, <1>8, <2>1, ReserveKeeps, PoolStepKeeps DEF ReserveForPosition
<1>9. ASSUME NEW t \in Traders, ClaimShortfall(t)
      PROVE  VInv'
  <2>1. claim_shortfall(pool, t).circulating = pool.circulating
    BY <1>0 DEF claim_shortfall, PoolInv, PoolOK, PoolFields
  <2> QED
    BY <1>0, <1>9, <2>1, ClaimKeeps, PoolStepKeeps DEF ClaimShortfall
<1>10. ASSUME NEW amount \in Gifts, Donate(amount)
       PROVE  VInv'
  <2>1. TransferIn(pool, amount).circulating = pool.circulating
    BY <1>0 DEF TransferIn, PoolInv, PoolOK, PoolFields
  <2> QED
    BY <1>0, <1>10, <2>1, TransferInKeeps, PoolStepKeeps DEF Donate
<1> QED
  BY <1>1, <1>2, <1>3, <1>4, <1>5, <1>6, <1>7, <1>8, <1>9, <1>10
     DEF MarketStep, AnyoneStep

(* Setters leave everything but the configuration. *)
LEMMA SetConfigKeeps ==
  ASSUME VInv, NEW c, ConfigOK(c), SetConfig(c)
  PROVE  VInv'
BY DEF VInv, SetConfig, TypeOK, PoolInv, SharesCounted, ProposalWithinPause,
       lpVars, recoveryVars, clockVars

LEMMA Setters ==
  ASSUME VInv,
         \/ \E bps \in FeeBps : SetDepositFee(bps) \/ SetWithdrawFee(bps)
         \/ \E cap \in Caps : SetDepositCap(cap) \/ SetAumCap(cap)
         \/ \E secs \in Cooldowns : SetWithdrawCooldown(secs)
         \/ \E bps \in Bps : \/ SetBufferTarget(bps)
                            \/ SetShortfallInflowBps(bps)
                            \/ SetReserveCap(bps)
         \/ \E asset \in Assets, bps \in Bps : SetAssetCap(asset, bps) \/ SetSkewCap(asset, bps)
         \/ \E asset \in Assets, cap \in Caps : SetAssetCapAbs(asset, cap)
  PROVE  VInv'
<1>0. ConfigOK(config)
  BY DEF VInv, TypeOK
<1>1. MAX_FEE_BPS \in Nat /\ MAX_COOLDOWN \in Nat /\ BASIS_POINTS \in Nat
  BY DEF MAX_FEE_BPS, MAX_COOLDOWN, BASIS_POINTS
<1> USE VaultAssumption
<1>2. ASSUME NEW bps \in FeeBps, SetDepositFee(bps) \/ SetWithdrawFee(bps)
      PROVE  \E c : ConfigOK(c) /\ SetConfig(c)
  <2>1. bps <= MAX_FEE_BPS => /\ ConfigOK([config EXCEPT !.deposit_fee_bps = bps])
                              /\ ConfigOK([config EXCEPT !.withdraw_fee_bps = bps])
    BY <1>0, <1>1 DEF ConfigOK, ConfigFields
  <2> QED
    BY <1>2, <2>1 DEF SetDepositFee, SetWithdrawFee
<1>3. ASSUME NEW cap \in Caps, SetDepositCap(cap) \/ SetAumCap(cap)
      PROVE  \E c : ConfigOK(c) /\ SetConfig(c)
  <2>1. /\ ConfigOK([config EXCEPT !.deposit_cap = cap])
        /\ ConfigOK([config EXCEPT !.aum_cap = cap])
    BY <1>0 DEF ConfigOK, ConfigFields
  <2> QED
    BY <1>3, <2>1 DEF SetDepositCap, SetAumCap
<1>4. ASSUME NEW secs \in Cooldowns, SetWithdrawCooldown(secs)
      PROVE  \E c : ConfigOK(c) /\ SetConfig(c)
  <2>1. secs <= MAX_COOLDOWN => ConfigOK([config EXCEPT !.withdraw_cooldown = secs])
    BY <1>0, <1>1 DEF ConfigOK, ConfigFields
  <2> QED
    BY <1>4, <2>1 DEF SetWithdrawCooldown
<1>5. ASSUME NEW bps \in Bps, SetBufferTarget(bps) \/ SetShortfallInflowBps(bps) \/ SetReserveCap(bps)
      PROVE  \E c : ConfigOK(c) /\ SetConfig(c)
  <2>1. bps <= BASIS_POINTS => /\ ConfigOK([config EXCEPT !.buffer_target_bps = bps])
                               /\ ConfigOK([config EXCEPT !.shortfall_inflow_bps = bps])
    BY <1>0, <1>1 DEF ConfigOK, ConfigFields
  <2>2. bps \in 1..BASIS_POINTS => ConfigOK([config EXCEPT !.reserve_cap_bps = bps])
    BY <1>0, <1>1 DEF ConfigOK, ConfigFields
  <2> QED
    BY <1>5, <2>1, <2>2 DEF SetBufferTarget, SetShortfallInflowBps, SetReserveCap
<1>6. ASSUME NEW asset \in Assets, NEW bps \in Bps, SetAssetCap(asset, bps) \/ SetSkewCap(asset, bps)
      PROVE  \E c : ConfigOK(c) /\ SetConfig(c)
  <2>1. bps \in 1..BASIS_POINTS =>
          /\ ConfigOK([config EXCEPT !.asset_cap_bps = [config.asset_cap_bps EXCEPT ![asset] = bps]])
          /\ ConfigOK([config EXCEPT !.skew_cap_bps = [config.skew_cap_bps EXCEPT ![asset] = bps]])
    BY <1>0, <1>1 DEF ConfigOK, ConfigFields
  <2> QED
    BY <1>6, <2>1 DEF SetAssetCap, SetSkewCap
<1>7. ASSUME NEW asset \in Assets, NEW cap \in Caps, SetAssetCapAbs(asset, cap)
      PROVE  \E c : ConfigOK(c) /\ SetConfig(c)
  <2>1. ConfigOK([config EXCEPT !.asset_cap_abs = [config.asset_cap_abs EXCEPT ![asset] = cap]])
    BY <1>0 DEF ConfigOK, ConfigFields
  <2> QED
    BY <1>7, <2>1 DEF SetAssetCapAbs
<1>8. \E c : ConfigOK(c) /\ SetConfig(c)
  BY <1>2, <1>3, <1>4, <1>5, <1>6, <1>7
<1> QED
  BY <1>8, SetConfigKeeps

(* Pause, recovery and the clock. *)
LEMMA RecoverySteps ==
  ASSUME VInv,
         \/ Pause \/ Unpause \/ InitRecovery \/ ExecuteRecovery \/ CancelRecovery \/ Tick
         \/ \E amount \in RecoveryAmounts : ProposeRecovery(amount)
  PROVE  VInv'
<1> USE VaultAssumption DEF lpVars, adminVars, recoveryVars, clockVars
<1>0. /\ TypeOK /\ PoolInv(pool) /\ (~drained => Backed(pool)) /\ SharesCounted
      /\ ProposalWithinPause /\ last_unpaused <= now
      /\ now \in Nat /\ last_unpaused \in Nat /\ RECOVERY_TIMELOCK_SECS \in Nat
  BY DEF VInv, TypeOK
<1>a. ASSUME UNCHANGED <<pool, lpVars, config, drained>>, paused' \in BOOLEAN,
             recovery_address' \in BOOLEAN, now' \in Nat, last_unpaused' \in Nat,
             recovery_proposal' \in [amount : Nat, execute_after : Nat],
             ProposalWithinPause', last_unpaused' <= now'
      PROVE  VInv'
  <2>1. TypeOK'
    BY <1>0, <1>a DEF TypeOK
  <2>2. PoolInv(pool)' /\ (~drained => Backed(pool))' /\ SharesCounted'
    BY <1>0, <1>a DEF PoolInv, SharesCounted
  <2> QED
    BY <1>a, <2>1, <2>2 DEF VInv
<1>b. /\ paused \in BOOLEAN /\ recovery_address \in BOOLEAN
      /\ recovery_proposal \in [amount : Nat, execute_after : Nat]
      /\ NoProposal \in [amount : Nat, execute_after : Nat]
  BY <1>0 DEF TypeOK, NoProposal
<1>1. CASE Pause
  <2>1. ProposalWithinPause'
    BY <1>0, <1>1 DEF Pause, ProposalWithinPause
  <2> QED
    BY <1>0, <1>a, <1>b, <1>1, <2>1 DEF Pause
<1>2. CASE Unpause
  <2>1. ProposalWithinPause'
    BY <1>2 DEF Unpause, ProposalWithinPause
  <2> QED
    <3>1. now' \in Nat /\ last_unpaused' \in Nat /\ last_unpaused' <= now'
      BY <1>0, <1>2 DEF Unpause
    <3>2. paused' \in BOOLEAN /\ recovery_address' = recovery_address
          /\ recovery_proposal' = NoProposal /\ UNCHANGED <<pool, lpVars, config, drained>>
      BY <1>2 DEF Unpause
    <3> QED
      BY <1>a, <1>b, <2>1, <3>1, <3>2
<1>3. CASE InitRecovery
  <2>1. ProposalWithinPause'
    BY <1>0, <1>3 DEF InitRecovery, ProposalWithinPause
  <2> QED
    BY <1>0, <1>a, <1>b, <1>3, <2>1 DEF InitRecovery
<1>4. CASE CancelRecovery
  <2>1. ProposalWithinPause'
    BY <1>4 DEF CancelRecovery, ProposalWithinPause
  <2> QED
    BY <1>0, <1>a, <1>b, <1>4, <2>1 DEF CancelRecovery
<1>5. CASE Tick
  <2>1. now' \in Nat /\ last_unpaused' \in Nat /\ last_unpaused' <= now'
    BY <1>0, <1>5 DEF Tick
  <2>2. ProposalWithinPause'
    BY <1>0, <1>5 DEF Tick, ProposalWithinPause
  <2> QED
    BY <1>a, <1>b, <1>5, <2>1, <2>2 DEF Tick
<1>6. ASSUME NEW amount \in RecoveryAmounts, ProposeRecovery(amount)
      PROVE  VInv'
  <2>1. amount \in Nat /\ now + RECOVERY_TIMELOCK_SECS \in Nat
    BY <1>0
  <2>2. recovery_proposal' \in [amount : Nat, execute_after : Nat]
    BY <1>6, <2>1 DEF ProposeRecovery
  <2>3. /\ recovery_proposal'.execute_after = now + RECOVERY_TIMELOCK_SECS
        /\ paused' = paused /\ paused /\ last_unpaused' = last_unpaused
    BY <1>6 DEF ProposeRecovery
  <2>4. recovery_proposal'.execute_after >= last_unpaused' + RECOVERY_TIMELOCK_SECS
    BY <1>0, <2>3
  <2>5. ProposalWithinPause'
    BY <2>3, <2>4 DEF ProposalWithinPause
  <2> QED
    BY <1>0, <1>a, <1>b, <1>6, <2>2, <2>5 DEF ProposeRecovery
<1>7. CASE ExecuteRecovery
  <2> DEFINE pay == RecoveryPay(pool, recovery_proposal.amount)
  <2>1. pay \in Nat /\ pay <= pool.cash
    BY <1>0, <1>b DEF RecoveryPay, Least, PoolInv, PoolOK
  <2>2. /\ pool' = [pool EXCEPT !.cash = @ - pay]
        /\ drained' = (drained \/ pay > 0)
        /\ recovery_proposal' = NoProposal
        /\ UNCHANGED <<lpVars, config, paused, recovery_address, clockVars>>
    BY <1>7 DEF ExecuteRecovery
  <2> HIDE DEF pay
  <2>3. PoolOK(pool')
    BY <1>0, <2>1, <2>2 DEF PoolInv, PoolOK, PoolFields
  <2>4. PoolInv(pool') /\ pool'.circulating = pool.circulating
    BY <1>0, <2>1, <2>2, <2>3 DEF PoolInv, PoolOK, PoolFields
  <2>5. ~drained' => ~drained /\ ~(pay > 0)
    BY <2>2, Zenon
  <2>6. ~drained' => Backed(pool')
    BY <1>0, <2>1, <2>2, <2>5 DEF Backed, CashCovers, PoolInv, PoolOK, PoolFields
  <2>7. drained' \in BOOLEAN
    BY <2>2, Zenon
  <2>8. TypeOK'
    BY <1>0, <1>b, <2>2, <2>3, <2>7 DEF TypeOK
  <2>9. SharesCounted' /\ ProposalWithinPause' /\ last_unpaused' <= now'
    BY <1>0, <2>2, <2>4 DEF SharesCounted, ProposalWithinPause
  <2> QED
    BY <2>4, <2>6, <2>8, <2>9 DEF VInv, PoolInv
<1> QED
  BY <1>1, <1>2, <1>3, <1>4, <1>5, <1>6, <1>7

LEMMA VInvNext == VInv /\ [Next]_vars => VInv'
<1> SUFFICES ASSUME VInv, [Next]_vars PROVE VInv'
  OBVIOUS
<1>1. CASE LpStep
  BY <1>1, DepositStep, WithdrawStep, NoeMoves DEF LpStep
<1>2. CASE MarketStep \/ AnyoneStep
  BY <1>2, PoolSteps
<1>3. CASE AdminStep
  BY <1>3, PoolSteps, Setters, RecoverySteps DEF AdminStep
<1>4. CASE Tick
  BY <1>4, RecoverySteps
<1>5. CASE UNCHANGED vars
  BY <1>5 DEF vars, VInv, TypeOK, PoolInv, SharesCounted, ProposalWithinPause,
     lpVars, adminVars, recoveryVars, clockVars
<1> QED
  BY <1>1, <1>2, <1>3, <1>4, <1>5 DEF Next

THEOREM VaultInvariant == Spec => []VInv
BY VInvInit, VInvNext, PTL DEF Spec

(* Every reachable state is well typed; cash, fees, buffer and reserve of    *)
(* the vault never go negative.                                              *)
THEOREM VaultTypeOK == Spec => []TypeOK
<1>1. VInv => TypeOK
  BY DEF VInv
<1> QED
  BY <1>1, VaultInvariant, PTL

(* Until a recovery moves funds, the vault's USDC covers all its buckets and *)
(* the earmarked repayments are physically there (settle_pnl, receive_loss,  *)
(* withdraw and the buffer payouts).                                         *)
THEOREM VaultSolvent == Spec => []Solvent
<1>1. VInv => Solvent
  BY DEF VInv, Solvent, Backed
<1> QED
  BY <1>1, VaultInvariant, PTL

(* The shortfall books balance: debt is the sum of the claims, booked minus  *)
(* repaid, and the amortizer never earmarks more than it.                    *)
THEOREM VaultDebt == Spec => []DebtBooked
<1>1. VInv => DebtBooked
  BY DEF VInv, DebtBooked, PoolInv
<1> QED
  BY <1>1, VaultInvariant, PTL

(* All LPs together never hold more NOE than the vault counts in circulation. *)
THEOREM VaultShares == Spec => []SharesCounted
<1>1. VInv => SharesCounted
  BY DEF VInv
<1> QED
  BY <1>1, VaultInvariant, PTL

(* A recovery moves funds only after the whole timelock of uninterrupted     *)
(* pause (propose_recovery, unpause, execute_recovery).                      *)
THEOREM VaultRecovery == Spec => RecoveryAfterNotice
<1>1. VInv /\ [Next]_vars =>
        [drained' # drained => now >= last_unpaused + RECOVERY_TIMELOCK_SECS]_vars
  <2> SUFFICES ASSUME VInv, Next, drained' # drained
               PROVE  now >= last_unpaused + RECOVERY_TIMELOCK_SECS
    OBVIOUS
  <2>1. ExecuteRecovery
    BY DEF Next, LpStep, MarketStep, AnyoneStep, AdminStep, Deposit, Withdraw,
       TransferNoe, ReturnNoe, PoolStep, CreditStep, SettlePnl, ReceiveLoss,
       PayBounty, PayFromBuffer, RouteProtocolFee, FundBuffer, DrawBuffer,
       SyncExposure, ReserveForPosition, ClaimShortfall, Donate, SeedBuffer,
       SetConfig, SetDepositFee, SetWithdrawFee, SetDepositCap, SetAumCap,
       SetWithdrawCooldown, SetBufferTarget, SetShortfallInflowBps,
       SetReserveCap, SetAssetCap, SetAssetCapAbs, SetSkewCap, Pause, Unpause,
       InitRecovery, ProposeRecovery, CancelRecovery, Tick
  <2>2. recovery_proposal.execute_after >= last_unpaused + RECOVERY_TIMELOCK_SECS
        /\ now >= recovery_proposal.execute_after
    BY <2>1 DEF ExecuteRecovery, VInv, ProposalWithinPause
  <2>3. /\ now \in Nat /\ last_unpaused \in Nat /\ RECOVERY_TIMELOCK_SECS \in Nat
        /\ recovery_proposal.execute_after \in Nat
    BY VaultAssumption DEF VInv, TypeOK
  <2> QED
    BY <2>2, <2>3
<1> QED
  BY <1>1, VaultInvariant, PTL DEF Spec, RecoveryAfterNotice

-----------------------------------------------------------------------------
(* Who pays a winner, and what a share is worth. *)

(* A payout spends the buffer first, and falls short only when the buffer    *)
(* and a non-negative principal are both spent: while the cash is backed the *)
(* physical cap is never the one that binds.                                 *)
LEMMA SettleOrder ==
  ASSUME NEW p, PoolInv(p), NEW t \in Traders, NEW pnl \in Nat \ {0}
  PROVE  LET q == settle_pnl(p, t, pnl)
         IN  /\ q.total_usdc < p.total_usdc => q.buffer = 0
             /\ q.shortfall > p.shortfall /\ Backed(p) => q.buffer + q.total_usdc <= 0
<1> DEFINE paid == SettlePaid(p, pnl)
           from == Least(paid, p.buffer)
           q == settle_pnl(p, t, pnl)
<1>1. PoolOK(p)
  BY DEF PoolInv
<1>2. /\ paid \in Nat /\ paid <= pnl
      /\ from = IF paid < p.buffer THEN paid ELSE p.buffer
      /\ Backed(p) /\ paid < pnl => paid = Floor0(p.buffer + p.total_usdc)
  BY <1>1 DEF SettlePaid, Least, Floor0, Spendable, Backed, CashCovers, PoolOK
<1>3. /\ q.buffer = p.buffer - from /\ q.total_usdc = p.total_usdc - (paid - from)
      /\ q.shortfall = p.shortfall + (pnl - paid)
  BY <1>1 DEF settle_pnl, PoolOK, PoolFields
<1> HIDE DEF paid, from, q
<1>4. q.total_usdc < p.total_usdc => q.buffer = 0
  BY <1>1, <1>2, <1>3 DEF PoolOK
<1>5. q.shortfall > p.shortfall /\ Backed(p) => q.buffer + q.total_usdc <= 0
  <2> SUFFICES ASSUME q.shortfall > p.shortfall, Backed(p)
               PROVE  q.buffer + q.total_usdc <= 0
    OBVIOUS
  <2>1. paid = Floor0(p.buffer + p.total_usdc)
    BY <1>1, <1>2, <1>3 DEF PoolOK
  <2>2. q.buffer + q.total_usdc = p.buffer + p.total_usdc - paid
    BY <1>1, <1>2, <1>3 DEF PoolOK
  <2> QED
    BY <1>1, <2>1, <2>2 DEF Floor0, PoolOK
<1> QED
  BY <1>4, <1>5 DEF q

(* The other entry points of the market, of claimants and of donors neither  *)
(* take LP principal nor book a shortfall.                                   *)
LEMMA OnlySettleTakes ==
  ASSUME VInv, MarketStep \/ AnyoneStep \/ \E amount \in Inflows : SeedBuffer(amount),
         ~ \E t \in Traders, pnl \in Profits : SettlePnl(t, pnl)
  PROVE  pool'.total_usdc >= pool.total_usdc /\ pool'.shortfall <= pool.shortfall
<1>1. PoolOK(pool)
  BY DEF VInv, TypeOK
<1> DEFINE Takes(q) == ~(q.total_usdc >= pool.total_usdc /\ q.shortfall <= pool.shortfall)
<1> USE VaultAssumption DEF PoolStep
<1>2. ASSUME NEW amount \in Nat PROVE ~Takes(TransferIn(pool, amount))
  BY <1>1 DEF TransferIn, PoolOK, PoolFields
<1>3. ASSUME NEW amount \in Nat
      PROVE  /\ ~Takes(receive_loss(TransferIn(pool, amount), amount))
             /\ ~Takes(route_protocol_fee(TransferIn(pool, amount), config, amount))
             /\ ~Takes(fund_buffer(TransferIn(pool, amount), config, amount))
             /\ ~Takes(pay_bounty(pool, amount)) /\ ~Takes(pay_from_buffer(pool, amount))
             /\ ~Takes(reserve_for_position(pool, amount))
  BY <1>1 DEF TransferIn, receive_loss, route_protocol_fee, fund_buffer, pay_bounty,
     pay_from_buffer, reserve_for_position, PoolOK, PoolFields
<1>4. ASSUME NEW amount \in Nat PROVE ~Takes(draw_buffer(pool, amount))
  BY <1>1 DEF draw_buffer, Least, PoolOK, PoolFields
<1>5. ASSUME NEW asset \in Assets, NEW pnl, NEW release
      PROVE  ~Takes(sync_exposure(pool, asset, pnl, release))
  BY <1>1 DEF sync_exposure, PoolOK, PoolFields
<1>6. ASSUME NEW t \in Traders, ClaimPay(pool, t) > 0
      PROVE  ~Takes(claim_shortfall(pool, t))
  <2>1. ClaimPay(pool, t) \in Nat
    BY <1>1 DEF ClaimPay, Least, PoolOK
  <2> QED
    BY <1>1, <1>6, <2>1 DEF claim_shortfall, PoolOK, PoolFields
<1>7. CASE \E amount \in Inflows : SeedBuffer(amount)
  BY <1>3, <1>7 DEF SeedBuffer
<1>8. CASE AnyoneStep
  BY <1>2, <1>6, <1>8 DEF AnyoneStep, ClaimShortfall, Donate
<1>9. CASE MarketStep
  <2>1. CASE \/ \E amount \in Losses : ReceiveLoss(amount)
             \/ \E amount \in Fees : RouteProtocolFee(amount)
             \/ \E amount \in Inflows : FundBuffer(amount)
             \/ \E amount \in Payouts : PayBounty(amount)
             \/ \E amount \in Payouts : PayFromBuffer(amount)
             \/ \E amount \in Payouts : DrawBuffer(amount)
    BY <1>3, <1>4, <2>1 DEF ReceiveLoss, RouteProtocolFee, FundBuffer, PayBounty,
       PayFromBuffer, DrawBuffer, CreditStep
  <2>2. CASE \E asset \in Assets, pnl \in Marks, release \in Sizes \cup {0} :
               SyncExposure(asset, pnl, release)
    BY <1>5, <2>2 DEF SyncExposure
  <2>3. CASE \E asset \in Assets, amount, oi \in Sizes, skew \in Sizes \cup {0} :
               ReserveForPosition(asset, amount, oi, skew, skew + amount)
    BY <1>3, <2>3 DEF ReserveForPosition
  <2> QED
    BY <1>9, <2>1, <2>2, <2>3 DEF MarketStep
<1> QED
  BY <1>7, <1>8, <1>9

(* Before a recovery, winnings fall on LP principal only once the insurance  *)
(* buffer is empty, and a winner is short-paid only when both are spent      *)
(* (settle_pnl against every other entry point of the vault).                *)
THEOREM VaultPayoutOrder == Spec => PayoutOrder
<1> DEFINE Order ==
      /\ pool'.total_usdc < pool.total_usdc
           /\ pool'.circulating = pool.circulating => pool'.buffer = 0
      /\ pool'.shortfall > pool.shortfall /\ ~drained =>
           pool'.buffer + pool'.total_usdc <= 0
<1>1. VInv /\ [Next]_vars => [Order]_vars
  <2> SUFFICES ASSUME VInv, Next PROVE Order
    OBVIOUS
  <2>1. PoolInv(pool) /\ PoolOK(pool) /\ (~drained => Backed(pool))
    BY DEF VInv, PoolInv
  <2>2. ASSUME NEW t \in Traders, NEW pnl \in Profits, SettlePnl(t, pnl)
        PROVE  Order
    <3>1. pnl \in Nat \ {0} /\ pool' = settle_pnl(pool, t, pnl)
      BY <2>2, VaultAssumption DEF SettlePnl, PoolStep
    <3> QED
      BY <2>1, <3>1, SettleOrder
  <2>3. CASE /\ pool'.total_usdc \in Int /\ pool'.shortfall \in Int
             /\ pool'.shortfall <= pool.shortfall
             /\ \/ pool'.total_usdc >= pool.total_usdc
                \/ pool'.circulating # pool.circulating
    BY <2>1, <2>3 DEF PoolOK
  <2>4. PoolOK(pool')
    <3>1. VInv'
      BY VInvNext
    <3> QED
      BY <3>1 DEF VInv, TypeOK
  <2>5. CASE \/ MarketStep \/ AnyoneStep
             \/ \E amount \in Inflows : SeedBuffer(amount)
    BY <2>2, <2>3, <2>4, <2>5, OnlySettleTakes DEF PoolOK
  <2>6. ASSUME NEW lp \in LPs, NEW amount \in DepositAmounts, Deposit(lp, amount)
        PROVE  Order
    <3>1. pool' = Deposited(pool, config, amount, NoeFor(amount)) /\ NoeFor(amount) > 0
      BY <2>6 DEF Deposit
    <3>2. pool'.shortfall = pool.shortfall
      BY <2>1, <3>1 DEF Deposited, PoolOK, PoolFields
    <3>3. pool'.total_usdc >= pool.total_usdc
      <4>1. amount \in Nat /\ ConfigOK(config)
        BY VaultAssumption DEF VInv, TypeOK
      <4>2. DepositFee(config, amount) \in Nat /\ DepositFee(config, amount) <= amount
        BY <4>1, FeeRange
      <4>3. pool'.total_usdc = pool.total_usdc + (amount - DepositFee(config, amount))
        BY <2>1, <3>1 DEF Deposited, PoolOK, PoolFields
      <4> QED
        BY <2>1, <4>1, <4>2, <4>3 DEF PoolOK
    <3> QED
      BY <2>1, <2>3, <2>4, <3>2, <3>3 DEF PoolOK
  <2>7. ASSUME NEW lp \in LPs, NEW amount \in NoeAmounts, Withdraw(lp, amount)
        PROVE  Order
    <3>1. pool' = Withdrawn(pool, config, GrossFor(amount), amount) /\ amount \in Nat \ {0}
      BY <2>7, VaultAssumption DEF Withdraw
    <3>2. pool'.shortfall = pool.shortfall /\ pool'.circulating = pool.circulating - amount
      BY <2>1, <3>1 DEF Withdrawn, PoolOK, PoolFields
    <3> QED
      BY <2>1, <2>3, <2>4, <3>1, <3>2 DEF PoolOK
  <2>8. ASSUME \/ pool' = pool
               \/ pool' = [pool EXCEPT !.cash = @ - RecoveryPay(pool, recovery_proposal.amount)]
        PROVE  Order
    <3>1. pool'.total_usdc = pool.total_usdc /\ pool'.shortfall = pool.shortfall
      BY <2>1, <2>8 DEF PoolOK, PoolFields
    <3> QED
      BY <2>1, <2>3, <2>4, <3>1 DEF PoolOK
  <2>9. CASE LpStep
    BY <2>6, <2>7, <2>8, <2>9 DEF LpStep, TransferNoe, ReturnNoe
  <2>10. CASE AdminStep /\ ~ \E amount \in Inflows : SeedBuffer(amount)
    BY <2>8, <2>10 DEF AdminStep, SetConfig, SetDepositFee, SetWithdrawFee,
       SetDepositCap, SetAumCap, SetWithdrawCooldown, SetBufferTarget,
       SetShortfallInflowBps, SetReserveCap, SetAssetCap, SetAssetCapAbs,
       SetSkewCap, Pause, Unpause, InitRecovery, ProposeRecovery,
       ExecuteRecovery, CancelRecovery
  <2>11. CASE Tick
    BY <2>8, <2>11 DEF Tick
  <2> QED
    BY <2>5, <2>9, <2>10, <2>11 DEF Next
<1> QED
  BY <1>1, VaultInvariant, PTL DEF Spec, PayoutOrder

(* Multiplying by a natural keeps an order. *)
LEMMA ProductOrder ==
  \A a, b \in Int, s \in Nat : a >= b => a * s >= b * s
<1> SUFFICES ASSUME NEW a \in Int, NEW b \in Int, NEW s \in Nat, a >= b
             PROVE  a * s >= b * s
  OBVIOUS
<1>1. a - b \in Nat /\ (a - b) * s \in Nat
  OBVIOUS
<1>2. (a - b) * s = a * s - b * s
  OBVIOUS
<1> QED
  BY <1>1, <1>2

(* A deposit mints no more NOE than its net amount is worth. *)
LEMMA DepositPrice ==
  ASSUME VInv, NEW lp \in LPs, NEW amount \in DepositAmounts, Deposit(lp, amount),
         pool.circulating > 0
  PROVE  calculate_aum(pool') * pool.circulating
           >= calculate_aum(pool) * pool'.circulating
<1> DEFINE S == pool.circulating
           A == calculate_aum(pool)
           fee == DepositFee(config, amount)
           n == NoeFor(amount)
<1>1. amount \in Nat /\ ConfigOK(config) /\ PoolOK(pool) /\ S \in Nat
  BY VaultAssumption DEF VInv, TypeOK, PoolOK
<1>2. fee \in Nat /\ fee <= amount
  BY <1>1, FeeRange
<1>3. A \in Nat \ {0} /\ A = pool.total_usdc + pool.total_fees - pool.unrealized_pnl
  BY <1>1 DEF Deposit, CanPriceDeposit, calculate_aum, Floor0, PoolOK
<1>4. n = ((amount - fee) * S) \div A
  BY <1>1 DEF NoeFor, calculate_glp_for_deposit
<1>5. pool' = Deposited(pool, config, amount, n)
  BY DEF Deposit
<1>6. pool'.circulating = S + n /\ calculate_aum(pool') = Floor0(A + amount)
  <2>1. /\ pool'.total_usdc = pool.total_usdc + (amount - fee)
        /\ pool'.total_fees = pool.total_fees + fee
        /\ pool'.unrealized_pnl = pool.unrealized_pnl
        /\ pool'.circulating = pool.circulating + n
    BY <1>1, <1>5 DEF Deposited, PoolOK, PoolFields
  <2> HIDE DEF fee, n, A
  <2> QED
    BY <1>1, <1>2, <1>3, <2>1 DEF calculate_aum, PoolOK
<1> HIDE DEF S, A, fee, n
<1>7. (amount - fee) \in Nat /\ (amount - fee) * S \in Nat
  BY <1>1, <1>2
<1>8. n \in Nat /\ A * n <= (amount - fee) * S
  BY <1>3, <1>4, <1>7, DivBound
<1>9. A + amount \in Nat /\ calculate_aum(pool') = A + amount
  BY <1>1, <1>3, <1>6 DEF Floor0
<1>10. (A + amount) * S >= (A + (amount - fee)) * S
  BY <1>1, <1>2, <1>3, <1>7, ProductOrder
<1>11. (A + (amount - fee)) * S = A * S + (amount - fee) * S
  BY <1>1, <1>3, <1>7
<1>12. A * (S + n) = A * S + A * n
  BY <1>1, <1>3, <1>8
<1>13. A * S \in Nat /\ A * n \in Nat /\ (A + amount) * S \in Nat
  BY <1>1, <1>3, <1>8
<1>14. (A + amount) * S >= A * (S + n)
  BY <1>7, <1>8, <1>10, <1>11, <1>12, <1>13
<1> QED
  BY <1>6, <1>9, <1>14 DEF S, A

(* A withdrawal is paid no more than the shares it burns are worth. *)
LEMMA WithdrawPrice ==
  ASSUME VInv, NEW lp \in LPs, NEW amount \in NoeAmounts, Withdraw(lp, amount),
         pool.circulating > 0
  PROVE  calculate_aum(pool') * pool.circulating
           >= calculate_aum(pool) * pool'.circulating
<1> DEFINE S == pool.circulating
           A == calculate_aum(pool)
           gross == GrossFor(amount)
           fee == WithdrawFee(config, gross)
           X == pool.total_usdc + pool.total_fees - pool.unrealized_pnl
<1>1. amount \in Nat /\ ConfigOK(config) /\ PoolOK(pool) /\ S \in Nat \ {0} /\ X \in Int
  BY VaultAssumption DEF VInv, TypeOK, PoolOK
<1>2. A \in Nat /\ A = Floor0(X)
  BY <1>1, AumType DEF calculate_aum
<1>3. gross = (amount * A) \div S
  BY DEF GrossFor, calculate_usdc_for_withdrawal
<1>4. pool' = Withdrawn(pool, config, gross, amount)
  BY DEF Withdraw
<1>5. amount * A \in Nat
  BY <1>1, <1>2
<1>6. gross \in Nat /\ S * gross <= amount * A
  <2> HIDE DEF S, A, gross
  <2> QED
    BY <1>1, <1>3, <1>5, DivBound
<1>7. fee \in Nat /\ fee <= gross
  BY <1>1, <1>6, FeeRange
<1>8. pool'.circulating = S - amount /\ calculate_aum(pool') = Floor0(X - gross + fee)
  <2>1. /\ pool'.total_usdc = pool.total_usdc - gross
        /\ pool'.total_fees = pool.total_fees + fee
        /\ pool'.unrealized_pnl = pool.unrealized_pnl
        /\ pool'.circulating = pool.circulating - amount
    BY <1>1, <1>4 DEF Withdrawn, PoolOK, PoolFields
  <2> HIDE DEF fee, gross
  <2> QED
    BY <1>1, <1>6, <1>7, <2>1 DEF calculate_aum, PoolOK
<1> HIDE DEF S, A, gross, fee, X
<1>9. calculate_aum(pool') \in Nat /\ calculate_aum(pool') >= A - gross
  BY <1>1, <1>2, <1>6, <1>7, <1>8 DEF Floor0
<1> DEFINE B == calculate_aum(pool')
<1> HIDE DEF B
<1>10. B \in Nat /\ B >= A - gross
  BY <1>9 DEF B
<1>11. B * S >= (A - gross) * S
  BY <1>1, <1>2, <1>6, <1>10, ProductOrder
<1>12. (A - gross) * S = A * S - S * gross
  BY <1>1, <1>2, <1>6
<1>13. A * (S - amount) = A * S - amount * A
  BY <1>1, <1>2
<1>14. A * S \in Nat /\ S * gross \in Nat /\ B * S \in Nat
  BY <1>1, <1>2, <1>6, <1>10
<1>15. B * S >= A * (S - amount)
  BY <1>5, <1>6, <1>11, <1>12, <1>13, <1>14
<1> QED
  BY <1>8, <1>15 DEF B, S, A

(* Only deposits and withdrawals change the count of circulating NOE. *)
LEMMA OnlyLpsCount ==
  ASSUME VInv, Next, pool'.circulating # pool.circulating
  PROVE  \/ \E lp \in LPs, amount \in DepositAmounts : Deposit(lp, amount)
         \/ \E lp \in LPs, amount \in NoeAmounts : Withdraw(lp, amount)
<1>1. PoolOK(pool)
  BY DEF VInv, TypeOK
<1>2. ASSUME MarketStep \/ AnyoneStep \/ \E amount \in Inflows : SeedBuffer(amount)
      PROVE  pool'.circulating = pool.circulating
  <2> DEFINE Same(q) == q.circulating = pool.circulating
  <2>1. \A amount : /\ Same(TransferIn(pool, amount))
                    /\ Same(receive_loss(TransferIn(pool, amount), amount))
                    /\ Same(route_protocol_fee(TransferIn(pool, amount), config, amount))
                    /\ Same(fund_buffer(TransferIn(pool, amount), config, amount))
    BY <1>1 DEF TransferIn, receive_loss, route_protocol_fee, fund_buffer, PoolOK, PoolFields
  <2>2. \A amount : /\ Same(pay_bounty(pool, amount)) /\ Same(pay_from_buffer(pool, amount))
                    /\ Same(draw_buffer(pool, amount))
                    /\ Same(reserve_for_position(pool, amount))
    BY <1>1 DEF pay_bounty, pay_from_buffer, draw_buffer, reserve_for_position, PoolOK,
       PoolFields
  <2>3. \A t, asset, pnl, release : /\ Same(settle_pnl(pool, t, pnl))
                                    /\ Same(claim_shortfall(pool, t))
                                    /\ Same(sync_exposure(pool, asset, pnl, release))
    BY <1>1 DEF settle_pnl, claim_shortfall, sync_exposure, PoolOK, PoolFields
  <2> HIDE DEF Same
  <2>4. CASE MarketStep
    <3>1. CASE \/ \E trader \in Traders, pnl \in Profits : SettlePnl(trader, pnl)
               \/ \E amount \in Losses : ReceiveLoss(amount)
               \/ \E amount \in Fees : RouteProtocolFee(amount)
               \/ \E amount \in Inflows : FundBuffer(amount)
               \/ \E amount \in Payouts : PayBounty(amount)
      BY <2>1, <2>2, <2>3, <3>1 DEF SettlePnl, ReceiveLoss, RouteProtocolFee,
         FundBuffer, PayBounty, CreditStep, PoolStep, Same
    <3>2. CASE \/ \E amount \in Payouts : PayFromBuffer(amount)
               \/ \E amount \in Payouts : DrawBuffer(amount)
               \/ \E asset \in Assets, pnl \in Marks, release \in Sizes \cup {0} :
                    SyncExposure(asset, pnl, release)
      BY <2>2, <2>3, <3>2 DEF PayFromBuffer, DrawBuffer, SyncExposure, PoolStep, Same
    <3>3. CASE \E asset \in Assets, amount, oi \in Sizes, skew \in Sizes \cup {0} :
                 ReserveForPosition(asset, amount, oi, skew, skew + amount)
      BY <2>2, <3>3 DEF ReserveForPosition, PoolStep, Same
    <3> QED
      BY <2>4, <3>1, <3>2, <3>3 DEF MarketStep
  <2>5. CASE AnyoneStep \/ \E amount \in Inflows : SeedBuffer(amount)
    BY <2>1, <2>3, <2>5 DEF AnyoneStep, SeedBuffer, ClaimShortfall, Donate, PoolStep, Same
  <2> QED
    BY <1>2, <2>4, <2>5
<1>3. ASSUME AdminStep \/ Tick, ~ \E amount \in Inflows : SeedBuffer(amount)
      PROVE  pool'.circulating = pool.circulating
  BY <1>1, <1>3 DEF AdminStep, Tick, SetConfig, SetDepositFee, SetWithdrawFee,
     SetDepositCap, SetAumCap, SetWithdrawCooldown, SetBufferTarget,
     SetShortfallInflowBps, SetReserveCap, SetAssetCap, SetAssetCapAbs, SetSkewCap,
     Pause, Unpause, InitRecovery, ProposeRecovery, ExecuteRecovery, CancelRecovery,
     PoolOK, PoolFields
<1> QED
  BY <1>2, <1>3 DEF Next, LpStep, TransferNoe, ReturnNoe

(* No deposit and no withdrawal, at any fee and any price, lowers the value  *)
(* behind one NOE (calculate_glp_for_deposit, calculate_usdc_for_withdrawal  *)
(* and the fees that stay in the pool).                                      *)
THEOREM VaultNoDilution == Spec => NoDilution
<1>1. VInv /\ [Next]_vars =>
        [pool'.circulating # pool.circulating
           /\ pool.circulating > 0 /\ pool'.circulating > 0
         => calculate_aum(pool') * pool.circulating
              >= calculate_aum(pool) * pool'.circulating]_vars
  BY OnlyLpsCount, DepositPrice, WithdrawPrice
<1> QED
  BY <1>1, VaultInvariant, PTL DEF Spec, NoDilution
=============================================================================
