------------------------------ MODULE MCMarket ------------------------------
(* Instances of Market: configurations too long for a .cfg.                  *)
EXTENDS Market, TLC

(* A quarter of the size per tranche, 10% penalty shared by keeper and       *)
(* buffer, one unit of keeper fee and of bounty: small amounts round.        *)
BaseConfig ==
  [min_collateral |-> 2, max_leverage |-> 4, max_position_size |-> 16,
   maintenance_margin_bps |-> 1000,
   partial_liq_tranche_bps |-> 2500, partial_liq_min_notional |-> 7,
   partial_liq_cooldown_secs |-> 1,
   liquidation_penalty_bps |-> 1000, penalty_keeper_share_bps |-> 5000,
   insurance_buffer_share_bps |-> 5000, min_liq_bounty |-> 1,
   adl_trigger_ratio_bps |-> 12500, adl_clear_ratio_bps |-> 15000,
   adl_compensation_bps |-> 100, keeper_fee_base |-> 1, keeper_fee_deci_bps |-> 10,
   protocol_fee_bps |-> 5000]

(* Caps wide enough that the pool, not they, limits the instance.            *)
PoolConfig ==
  [deposit_fee_bps |-> 0, withdraw_fee_bps |-> 1000, deposit_cap |-> 0, aum_cap |-> 0,
   withdraw_cooldown |-> 0, buffer_target_bps |-> 5000, shortfall_inflow_bps |-> 5000,
   reserve_cap_bps |-> 10000,
   asset_cap_bps |-> [a \in Assets |-> 10000],
   asset_cap_abs |-> [a \in Assets |-> 0],
   skew_cap_bps |-> [a \in Assets |-> 10000]]

NoRisk == [a \in {} |-> 0]
Ladder == [max_leverage |-> 2, im_bps |-> 2000, mm_bps |-> 1000, max_position_size |-> 16]
Tight == [max_leverage |-> 1, im_bps |-> 2000, mm_bps |-> 1000, max_position_size |-> 4]
LadderRisk == [a \in Assets |-> Ladder]
TightOnly == {Tight}

None == {}
FundingMoves == {-3, 3}
FundingFalls == {-9}

(* Prices in the hundreds make liquidation prices exact.  Positions of       *)
(* SmallBooks are too small for a tranche, those of DeepBooks lose two.      *)
SmallBooks == [BaseConfig EXCEPT !.partial_liq_min_notional = 50,
                                 !.max_position_size = 50]
DeepBooks == [BaseConfig EXCEPT !.partial_liq_min_notional = 90,
                                !.partial_liq_cooldown_secs = 0,
                                !.max_position_size = 200]
BookRisk == [a \in Assets |->
  [max_leverage |-> 4, im_bps |-> 2000, mm_bps |-> 1000, max_position_size |-> 50]]
Booleans == BOOLEAN
TraderSymmetry == Permutations(Traders)
=============================================================================
