----------------------------- MODULE PoolProofs -----------------------------
(***************************************************************************)
(* The laws of Total that the accounting proofs use, and what each         *)
(* operation of the liquidity pool (VaultOps) keeps, for every pool,       *)
(* amount and configuration.  The vault's proofs cite these lemmas for the *)
(* vault's own transactions, the market's for the calls of a market        *)
(* transaction.                                                            *)
(***************************************************************************)
EXTENDS VaultOps, FiniteSetTheorems, TLAPS

-----------------------------------------------------------------------------
(* Total is a natural number, zero for the zero function; changing one value *)
(* moves it by the difference, adding or dropping an index by its value.     *)

(* The units of one index are as many as its value. *)
LEMMA ColumnSize ==
  ASSUME NEW x, NEW n \in Nat
  PROVE  IsFiniteSet({x} \X (1..n)) /\ Cardinality({x} \X (1..n)) = n
<1>1. IsFiniteSet(1..n) /\ Cardinality(1..n) = n
  BY FS_Interval
<1>2. IsFiniteSet({x}) /\ Cardinality({x}) = 1
  BY FS_Singleton
<1>3. IsFiniteSet({x} \X (1..n))
      /\ Cardinality({x} \X (1..n)) = Cardinality({x}) * Cardinality(1..n)
  BY <1>1, <1>2, FS_Product
<1> QED
  BY <1>1, <1>2, <1>3

(* Membership in Units without the union. *)
LEMMA UnitsMember ==
  ASSUME NEW S, NEW f \in [S -> Nat], NEW u
  PROVE  u \in Units(f) <=> \E x \in S : \E i \in 1..f[x] : u = <<x, i>>
BY DEF Units

(* The units of a function on a finite set are finite: they are a finite     *)
(* union of finite columns.                                                  *)
LEMMA UnitsFinite ==
  ASSUME NEW S, IsFiniteSet(S), NEW f \in [S -> Nat]
  PROVE  IsFiniteSet(Units(f))
<1> DEFINE Col == [x \in S |-> {x} \X (1..f[x])]
           Cols == {{x} \X (1..f[x]) : x \in S}
<1>1. Col \in Surjection(S, Cols)
  <2>1. Col \in [S -> Cols]
    OBVIOUS
  <2>2. \A t \in Cols : \E s \in S : Col[s] = t
    OBVIOUS
  <2> QED
    BY <2>1, <2>2 DEF Surjection
<1>2. IsFiniteSet(Cols)
  BY <1>1, FS_Surjection
<1>3. \A T \in Cols : IsFiniteSet(T)
  <2>1. \A x \in S : f[x] \in Nat
    OBVIOUS
  <2>2. \A x \in S : IsFiniteSet({x} \X (1..f[x]))
    BY <2>1, ColumnSize
  <2> QED
    BY <2>2
<1>4. IsFiniteSet(UNION Cols)
  BY <1>2, <1>3, FS_UNION
<1>5. DOMAIN f = S
  OBVIOUS
<1> QED
  BY <1>4, <1>5 DEF Units

(* A total is a natural number. *)
LEMMA TotalType ==
  ASSUME NEW S, IsFiniteSet(S), NEW f \in [S -> Nat]
  PROVE  Total(f) \in Nat
BY UnitsFinite, FS_CardinalityType DEF Total

(* The zero function has total zero. *)
LEMMA TotalZero ==
  ASSUME NEW S
  PROVE  Total([x \in S |-> 0]) = 0
<1>1. Units([x \in S |-> 0]) = {}
  BY DEF Units
<1> QED
  BY <1>1, FS_EmptySet DEF Total

(* Giving one index the value n moves the total by the difference. *)
LEMMA TotalUpdate ==
  ASSUME NEW S, IsFiniteSet(S), NEW f \in [S -> Nat], NEW x \in S, NEW n \in Nat
  PROVE  Total([f EXCEPT ![x] = n]) = Total(f) - f[x] + n
<1> DEFINE g == [f EXCEPT ![x] = n]
           Rest == {u \in Units(f) : u[1] # x}
           Old == {x} \X (1..f[x])
           New == {x} \X (1..n)
<1>0. g \in [S -> Nat] /\ g[x] = n /\ \A y \in S : y # x => g[y] = f[y]
  OBVIOUS
<1> HIDE DEF g
<1>1. Units(f) = Rest \cup Old
  <2>1. Old \subseteq Units(f)
    BY UnitsMember
  <2>2. ASSUME NEW u \in Units(f), u[1] = x
        PROVE  u \in Old
    BY <2>2, UnitsMember
  <2> QED
    BY <2>1, <2>2
<1>2. Units(g) = Rest \cup New
  <2>1. ASSUME NEW u \in Units(g)
        PROVE  u \in Rest \cup New
    <3>1. PICK y \in S : \E i \in 1..g[y] : u = <<y, i>>
      BY <1>0, <2>1, UnitsMember
    <3>2. PICK i \in 1..g[y] : u = <<y, i>>
      BY <3>1
    <3>3. CASE y = x
      BY <1>0, <3>2, <3>3
    <3>4. CASE y # x
      <4>1. i \in 1..f[y]
        BY <1>0, <3>2, <3>4
      <4>2. u \in Units(f)
        BY <3>2, <4>1, UnitsMember
      <4> QED
        BY <3>2, <3>4, <4>2
    <3> QED
      BY <3>3, <3>4
  <2>2. ASSUME NEW u \in Rest
        PROVE  u \in Units(g)
    <3>1. PICK y \in S : \E i \in 1..f[y] : u = <<y, i>>
      BY <2>2, UnitsMember
    <3>2. PICK i \in 1..f[y] : u = <<y, i>>
      BY <3>1
    <3>3. y # x
      BY <2>2, <3>2
    <3>4. i \in 1..g[y]
      BY <1>0, <3>2, <3>3
    <3> QED
      BY <1>0, <3>2, <3>4, UnitsMember
  <2>3. ASSUME NEW u \in New
        PROVE  u \in Units(g)
    <3>1. PICK i \in 1..n : u = <<x, i>>
      BY <2>3
    <3>2. i \in 1..g[x]
      BY <1>0
    <3> QED
      BY <1>0, <3>1, <3>2, UnitsMember
  <2> QED
    BY <2>1, <2>2, <2>3
<1>3. IsFiniteSet(Rest)
  BY UnitsFinite, FS_Subset
<1>4. Rest \cap Old = {} /\ Rest \cap New = {}
  OBVIOUS
<1>5. f[x] \in Nat
  OBVIOUS
<1>6. IsFiniteSet(Old) /\ Cardinality(Old) = f[x]
  BY <1>5, ColumnSize
<1>7. IsFiniteSet(New) /\ Cardinality(New) = n
  BY ColumnSize
<1>8. Cardinality({}) = 0
  BY FS_EmptySet
<1>11. Cardinality(Rest) \in Nat
  BY <1>3, FS_CardinalityType
<1> HIDE DEF Rest, Old, New
<1>9. Cardinality(Rest \cup Old) = Cardinality(Rest) + f[x] - 0
  BY <1>3, <1>4, <1>6, <1>8, FS_Union
<1>10. Cardinality(Rest \cup New) = Cardinality(Rest) + n - 0
  BY <1>3, <1>4, <1>7, <1>8, FS_Union
<1>12. Total(g) = Total(f) - f[x] + n
  BY <1>1, <1>2, <1>5, <1>9, <1>10, <1>11 DEF Total
<1> QED
  BY <1>12 DEF g

(* No value exceeds the total. *)
LEMMA TotalBounds ==
  ASSUME NEW S, IsFiniteSet(S), NEW f \in [S -> Nat], NEW x \in S
  PROVE  f[x] <= Total(f)
<1>0. \A n \in Nat : Total([f EXCEPT ![x] = n]) = Total(f) - f[x] + n
  BY TotalUpdate
<1>1. Total([f EXCEPT ![x] = 0]) = Total(f) - f[x] + 0
  BY <1>0
<1>2. [f EXCEPT ![x] = 0] \in [S -> Nat]
  OBVIOUS
<1>3. Total([f EXCEPT ![x] = 0]) \in Nat /\ Total(f) \in Nat
  BY <1>2, TotalType
<1>4. f[x] \in Nat
  OBVIOUS
<1> QED
  BY <1>1, <1>3, <1>4

(* Dropping an index drops its value. *)
LEMMA TotalRemove ==
  ASSUME NEW S, IsFiniteSet(S), NEW f \in [S -> Nat], NEW x \in S
  PROVE  Total([y \in S \ {x} |-> f[y]]) = Total(f) - f[x]
<1> DEFINE g == [f EXCEPT ![x] = 0]
           h == [y \in S \ {x} |-> f[y]]
<1>1. g \in [S -> Nat] /\ g[x] = 0 /\ \A y \in S : y # x => g[y] = f[y]
  OBVIOUS
<1>2. h \in [S \ {x} -> Nat] /\ \A y \in S \ {x} : h[y] = f[y]
  OBVIOUS
<1>3. \A n \in Nat : Total([f EXCEPT ![x] = n]) = Total(f) - f[x] + n
  BY TotalUpdate
<1>4. Total(g) = Total(f) - f[x] + 0
  BY <1>3
<1> HIDE DEF g, h
<1>5. Units(g) = Units(h)
  <2>1. \A u : u \in Units(g) <=> \E y \in S : \E i \in 1..g[y] : u = <<y, i>>
    BY <1>1, UnitsMember
  <2>2. \A u : u \in Units(h) <=> \E y \in S \ {x} : \E i \in 1..h[y] : u = <<y, i>>
    BY <1>2, UnitsMember
  <2>3. 1..g[x] = {}
    BY <1>1
  <2>4. \A y \in S \ {x} : g[y] = h[y]
    BY <1>1, <1>2
  <2> QED
    BY <2>1, <2>2, <2>3, <2>4
<1>6. f[x] \in Nat /\ Total(f) \in Nat
  BY TotalType
<1> QED
  BY <1>4, <1>5, <1>6 DEF Total, h

(* A new index adds its value. *)
LEMMA TotalAdd ==
  ASSUME NEW S, IsFiniteSet(S), NEW f \in [S -> Nat], NEW x, x \notin S, NEW n \in Nat
  PROVE  Total([y \in S \cup {x} |-> IF y = x THEN n ELSE f[y]]) = Total(f) + n
<1> DEFINE T == S \cup {x}
           g == [y \in T |-> IF y = x THEN n ELSE f[y]]
<1>1. IsFiniteSet(T)
  BY FS_AddElement
<1>2. g \in [T -> Nat] /\ x \in T /\ g[x] = n
  OBVIOUS
<1>3. [y \in T \ {x} |-> g[y]] = f
  OBVIOUS
<1> HIDE DEF T, g
<1>4. Total([y \in T \ {x} |-> g[y]]) = Total(g) - g[x]
  BY <1>1, <1>2, TotalRemove
<1>5. Total(g) \in Nat /\ Total(f) \in Nat
  BY <1>1, <1>2, TotalType
<1>6. Total(g) = Total(f) + n
  BY <1>2, <1>3, <1>4, <1>5
<1> QED
  BY <1>6 DEF g, T

(* The last two laws for functions that are given by their values. *)
LEMMA TotalExtended ==
  ASSUME NEW S, IsFiniteSet(S), NEW f \in [S -> Nat], NEW x, x \notin S,
         NEW g \in [S \cup {x} -> Nat], \A y \in S : g[y] = f[y]
  PROVE  Total(g) = Total(f) + g[x]
<1> DEFINE T == S \cup {x}
<1>1. IsFiniteSet(T)
  BY FS_AddElement
<1>2. [y \in T \ {x} |-> g[y]] = f
  OBVIOUS
<1>3. g \in [T -> Nat] /\ x \in T /\ g[x] \in Nat
  OBVIOUS
<1> HIDE DEF T
<1>4. Total([y \in T \ {x} |-> g[y]]) = Total(g) - g[x]
  BY <1>1, <1>3, TotalRemove
<1>5. Total(g) \in Nat /\ Total(f) \in Nat
  BY <1>1, <1>3, TotalType
<1> QED
  BY <1>2, <1>3, <1>4, <1>5

LEMMA TotalChanged ==
  ASSUME NEW S, IsFiniteSet(S), NEW f \in [S -> Nat], NEW g \in [S -> Nat],
         NEW x \in S, \A y \in S : y # x => g[y] = f[y]
  PROVE  Total(g) = Total(f) - f[x] + g[x]
<1>1. g = [f EXCEPT ![x] = g[x]] /\ g[x] \in Nat
  OBVIOUS
<1>2. \A n \in Nat : Total([f EXCEPT ![x] = n]) = Total(f) - f[x] + n
  BY TotalUpdate
<1> QED
  BY <1>1, <1>2

-----------------------------------------------------------------------------
(* The operations of the pool. *)

(* A share in basis points of a natural amount is between 0 and the amount. *)
LEMMA BpsOfRange ==
  ASSUME NEW amount \in Nat, NEW bps \in 0..BASIS_POINTS
  PROVE  BpsOf(amount, bps) \in Nat /\ BpsOf(amount, bps) <= amount
<1>1. amount * bps \in Nat /\ amount * bps <= amount * 10000
  BY DEF BASIS_POINTS
<1>2. \A m \in Nat : m <= amount * 10000 => m \div 10000 \in Nat /\ m \div 10000 <= amount
  OBVIOUS
<1>3. (amount * bps) \div 10000 \in Nat /\ (amount * bps) \div 10000 <= amount
  BY <1>1, <1>2
<1> QED
  BY <1>3 DEF BpsOf, BASIS_POINTS

(* What the pool record alone must satisfy: typed, earmark within the debt,  *)
(* debt equal to the sum of claims and to booked minus repaid.               *)
PoolInv(p) ==
  /\ PoolOK(p)
  /\ p.shortfall_reserve <= p.shortfall
  /\ p.shortfall = Total(p.shortfall_owed)
  /\ p.shortfall = p.cum_shortfall - p.cum_shortfall_repaid

(* What holds of the pool's cash until a recovery. *)
Backed(p) == CashCovers(p) /\ p.shortfall_reserve <= p.cash

LEMMA OwedUpdate ==
  ASSUME NEW p, PoolInv(p), NEW t \in Traders, NEW d \in Int, p.shortfall_owed[t] + d \in Nat
  PROVE  /\ [p.shortfall_owed EXCEPT ![t] = p.shortfall_owed[t] + d] \in [Traders -> Nat]
         /\ Total([p.shortfall_owed EXCEPT ![t] = p.shortfall_owed[t] + d]) = p.shortfall + d
<1> DEFINE f == p.shortfall_owed
<1>1. f \in [Traders -> Nat] /\ Total(f) = p.shortfall /\ IsFiniteSet(Traders)
  BY PoolAssumption DEF PoolInv, PoolOK, PoolFields
<1>3. Total([f EXCEPT ![t] = f[t] + d]) = Total(f) - f[t] + (f[t] + d)
  BY <1>1, TotalUpdate
<1>4. Total(f) \in Nat /\ f[t] \in Nat
  BY <1>1, TotalType
<1> QED
  BY <1>1, <1>3, <1>4

(* Winner payouts keep the books. *)
LEMMA SettleKeeps ==
  ASSUME NEW p, PoolInv(p), NEW t \in Traders, NEW pnl \in Nat \ {0}
  PROVE  PoolInv(settle_pnl(p, t, pnl)) /\ (Backed(p) => Backed(settle_pnl(p, t, pnl)))
<1> DEFINE paid == SettlePaid(p, pnl)
           from == Least(paid, p.buffer)
           short == IF pnl > 0 THEN pnl - paid ELSE 0
           q == settle_pnl(p, t, pnl)
<1>0. PoolOK(p)
  BY DEF PoolInv
<1>1. /\ paid \in Nat /\ paid <= pnl /\ paid <= p.cash
      /\ from \in Nat /\ from <= p.buffer /\ from <= paid
      /\ short \in Nat
      /\ paid > 0 => paid <= p.cash - p.shortfall_reserve
  BY <1>0 DEF SettlePaid, Least, Floor0, Spendable, PoolOK, PoolFields
<1>2. p.shortfall_owed[t] + short \in Nat
  BY <1>0, <1>1 DEF PoolOK, PoolFields
<1>3. /\ [p.shortfall_owed EXCEPT ![t] = p.shortfall_owed[t] + short] \in [Traders -> Nat]
      /\ Total([p.shortfall_owed EXCEPT ![t] = p.shortfall_owed[t] + short]) = p.shortfall + short
  BY <1>1, <1>2, OwedUpdate
<1>4. q = [p EXCEPT !.cash = @ - paid, !.buffer = @ - from,
             !.total_usdc = @ - (paid - from),
             !.shortfall_owed = [p.shortfall_owed EXCEPT ![t] = p.shortfall_owed[t] + short],
             !.shortfall = @ + short, !.cum_shortfall = @ + short]
  BY DEF settle_pnl
<1> HIDE DEF paid, from, short, q
<1>5. PoolOK(q)
  BY <1>0, <1>1, <1>3, <1>4 DEF PoolOK, PoolFields
<1>6. PoolInv(q)
  BY <1>0, <1>1, <1>3, <1>4, <1>5 DEF PoolInv, PoolOK, PoolFields
<1>7. Backed(p) => Backed(q)
  BY <1>0, <1>1, <1>4 DEF Backed, CashCovers, PoolOK, PoolFields
<1> QED
  BY <1>6, <1>7 DEF q

(* The rates the pool operators use are between 0 and 100%. *)
LEMMA ConfigRates ==
  ASSUME NEW c, ConfigOK(c)
  PROVE  /\ c.buffer_target_bps \in 0..BASIS_POINTS
         /\ c.shortfall_inflow_bps \in 0..BASIS_POINTS
         /\ c.deposit_fee_bps \in 0..MAX_FEE_BPS /\ c.withdraw_fee_bps \in 0..MAX_FEE_BPS
BY DEF ConfigOK

(* A loss that arrives with its credit keeps the books. *)
LEMMA ReceiveLossKeeps ==
  ASSUME NEW p, PoolInv(p), NEW amount \in Nat
  PROVE  LET q == receive_loss(TransferIn(p, amount), amount)
         IN  PoolInv(q) /\ (Backed(p) => Backed(q))
<1> DEFINE q == receive_loss(TransferIn(p, amount), amount)
<1>1. PoolOK(q)
  BY DEF PoolInv, PoolOK, PoolFields, receive_loss, TransferIn
<1>2. PoolInv(q)
  BY <1>1 DEF PoolInv, PoolOK, PoolFields, receive_loss, TransferIn
<1>3. Backed(p) => Backed(q)
  BY DEF PoolInv, PoolOK, PoolFields, receive_loss, TransferIn, Backed, CashCovers
<1> QED
  BY <1>2, <1>3

(* USDC that arrives without a call keeps the books. *)
LEMMA TransferInKeeps ==
  ASSUME NEW p, PoolInv(p), NEW amount \in Nat
  PROVE  LET q == TransferIn(p, amount)
         IN  PoolInv(q) /\ (Backed(p) => Backed(q))
<1> DEFINE q == TransferIn(p, amount)
<1>1. PoolOK(q)
  BY DEF PoolInv, PoolOK, PoolFields, TransferIn
<1>2. PoolInv(q)
  BY <1>1 DEF PoolInv, PoolOK, PoolFields, TransferIn
<1>3. Backed(p) => Backed(q)
  BY DEF PoolInv, PoolOK, PoolFields, TransferIn, Backed, CashCovers
<1> QED
  BY <1>2, <1>3

(* Bounties and ADL compensations keep the books. *)
LEMMA BufferPayoutKeeps ==
  ASSUME NEW p, PoolInv(p), NEW amount \in Nat
  PROVE  LET q == pay_bounty(p, amount)
         IN  PoolInv(q) /\ (Backed(p) => Backed(q)) /\ pay_from_buffer(p, amount) = q
<1> DEFINE paid == BufferPayout(p, amount)
           q == [p EXCEPT !.cash = @ - paid, !.buffer = @ - paid]
<1>1. /\ paid \in Nat /\ paid <= p.buffer /\ paid <= p.cash
      /\ paid > 0 => paid <= p.cash - p.shortfall_reserve
  BY DEF BufferPayout, Floor0, Least, Spendable, PoolInv, PoolOK
<1>2. pay_bounty(p, amount) = q /\ pay_from_buffer(p, amount) = q
  BY DEF pay_bounty, pay_from_buffer
<1> HIDE DEF paid
<1>3. PoolOK(q)
  BY <1>1 DEF PoolInv, PoolOK, PoolFields
<1>4. PoolInv(q)
  BY <1>1, <1>3 DEF PoolInv, PoolOK, PoolFields
<1>5. Backed(p) => Backed(q)
  BY <1>1 DEF PoolInv, PoolOK, PoolFields, Backed, CashCovers
<1> QED
  BY <1>2, <1>4, <1>5

(* Splitting a protocol fee between buffer and treasury keeps the books. *)
LEMMA RouteFeeKeeps ==
  ASSUME NEW p, PoolInv(p), NEW c, ConfigOK(c), NEW amount \in Nat
  PROVE  LET q == route_protocol_fee(TransferIn(p, amount), c, amount)
         IN  PoolInv(q) /\ (Backed(p) => Backed(q))
<1> DEFINE r == TransferIn(p, amount)
           room == Floor0(BpsOf(r.reserved_payout, c.buffer_target_bps) - r.buffer)
           fill == Least(amount, room)
           q == [r EXCEPT !.buffer = @ + fill, !.cash = @ - (amount - fill)]
<1>1. /\ PoolInv(r) /\ PoolOK(r) /\ (Backed(p) => Backed(r))
      /\ r.cash = p.cash + amount /\ r.buffer = p.buffer
      /\ r.total_usdc = p.total_usdc /\ r.total_fees = p.total_fees
      /\ r.shortfall_reserve = p.shortfall_reserve
  BY TransferInKeeps DEF PoolInv, PoolOK, PoolFields, TransferIn
<1>2. BpsOf(r.reserved_payout, c.buffer_target_bps) \in Nat
  <2>1. r.reserved_payout \in Nat /\ c.buffer_target_bps \in 0..BASIS_POINTS
    BY <1>1, ConfigRates DEF PoolOK
  <2> QED
    BY <2>1, BpsOfRange
<1>3. r.buffer \in Nat
  BY <1>1 DEF PoolOK
<1>4. fill \in Nat /\ fill <= amount
  BY <1>2, <1>3 DEF Floor0, Least
<1>5. route_protocol_fee(r, c, amount) = q
  BY DEF route_protocol_fee
<1>6. p.cash \in Nat
  BY DEF PoolInv, PoolOK
<1> HIDE DEF r, fill
<1>7. PoolOK(q)
  BY <1>1, <1>4, <1>6 DEF PoolOK, PoolFields
<1>8. PoolInv(q)
  BY <1>1, <1>4, <1>7 DEF PoolInv, PoolOK, PoolFields
<1>9. Backed(p) => Backed(q)
  BY <1>1, <1>4, <1>6 DEF PoolInv, PoolOK, PoolFields, Backed, CashCovers
<1> QED
  BY <1>5, <1>8, <1>9 DEF r

(* A mark or a release keeps the books. *)
LEMMA SyncKeeps ==
  ASSUME NEW p, PoolInv(p), NEW asset \in Assets, NEW pnl \in Int, NEW release \in Nat
  PROVE  LET q == sync_exposure(p, asset, pnl, release)
         IN  PoolInv(q) /\ (Backed(p) => Backed(q))
<1> DEFINE q == sync_exposure(p, asset, pnl, release)
<1>1. PoolOK(q)
  BY DEF PoolInv, PoolOK, PoolFields, sync_exposure, Floor0
<1>2. PoolInv(q)
  BY <1>1 DEF PoolInv, PoolOK, PoolFields, sync_exposure
<1>3. Backed(p) => Backed(q)
  BY DEF PoolInv, PoolOK, PoolFields, sync_exposure, Backed, CashCovers
<1> QED
  BY <1>2, <1>3

(* A reservation keeps the books. *)
LEMMA ReserveKeeps ==
  ASSUME NEW p, PoolInv(p), NEW amount \in Nat
  PROVE  LET q == reserve_for_position(p, amount)
         IN  PoolInv(q) /\ (Backed(p) => Backed(q))
<1> DEFINE q == reserve_for_position(p, amount)
<1>1. PoolOK(q)
  BY DEF PoolInv, PoolOK, PoolFields, reserve_for_position
<1>2. PoolInv(q)
  BY <1>1 DEF PoolInv, PoolOK, PoolFields, reserve_for_position
<1>3. Backed(p) => Backed(q)
  BY DEF PoolInv, PoolOK, PoolFields, reserve_for_position, Backed, CashCovers
<1> QED
  BY <1>2, <1>3

(* A buffer inflow and its amortizer share keep the books. *)
LEMMA FundBufferKeeps ==
  ASSUME NEW p, PoolInv(p), NEW c, ConfigOK(c), NEW amount \in Nat
  PROVE  LET q == fund_buffer(TransferIn(p, amount), c, amount)
         IN  PoolInv(q) /\ (Backed(p) => Backed(q))
<1> DEFINE r == TransferIn(p, amount)
           share == route_shortfall_share(r, c, amount)
           q == [r EXCEPT !.shortfall_reserve = @ + share, !.buffer = @ + (amount - share)]
<1>1. /\ PoolInv(r) /\ PoolOK(r)
      /\ r.cash = p.cash + amount /\ r.buffer = p.buffer
      /\ r.total_usdc = p.total_usdc /\ r.total_fees = p.total_fees
      /\ r.shortfall_reserve = p.shortfall_reserve
  BY TransferInKeeps DEF PoolInv, PoolOK, PoolFields, TransferIn
<1>2. BpsOf(amount, c.shortfall_inflow_bps) \in Nat /\ BpsOf(amount, c.shortfall_inflow_bps) <= amount
  <2>1. c.shortfall_inflow_bps \in 0..BASIS_POINTS
    BY ConfigRates
  <2> QED
    BY <2>1, BpsOfRange
<1>3. r.shortfall \in Int /\ r.shortfall_reserve \in Nat /\ r.shortfall_reserve <= r.shortfall
  BY <1>1 DEF PoolOK, PoolInv
<1>4. share \in Nat /\ share <= amount /\ r.shortfall_reserve + share <= r.shortfall
  BY <1>2, <1>3 DEF route_shortfall_share, Floor0, Least
<1>5. fund_buffer(r, c, amount) = q
  BY DEF fund_buffer
<1>6. p.cash \in Nat
  BY DEF PoolInv, PoolOK
<1> HIDE DEF r, share
<1>7. PoolOK(q)
  BY <1>1, <1>4, <1>6 DEF PoolOK, PoolFields
<1>8. PoolInv(q)
  BY <1>1, <1>4, <1>7 DEF PoolInv, PoolOK, PoolFields
<1>9. Backed(p) => Backed(q)
  BY <1>1, <1>4, <1>6 DEF PoolInv, PoolOK, PoolFields, Backed, CashCovers
<1> QED
  BY <1>5, <1>8, <1>9 DEF r

(* A claim keeps the books: nobody is owed more than the whole debt, so the  *)
(* reserve left behind is still within what is left owing.                   *)
LEMMA ClaimKeeps ==
  ASSUME NEW p, PoolInv(p), NEW t \in Traders, ClaimPay(p, t) > 0
  PROVE  LET q == claim_shortfall(p, t)
         IN  PoolInv(q) /\ (Backed(p) => Backed(q))
<1> DEFINE pay == ClaimPay(p, t)
           from == Least(pay, p.shortfall_reserve)
           o == [p.shortfall_owed EXCEPT ![t] = p.shortfall_owed[t] - pay]
           q == [p EXCEPT !.cash = @ - pay, !.shortfall_reserve = @ - from,
                   !.buffer = @ - (pay - from), !.shortfall_owed = o,
                   !.shortfall = @ - pay, !.cum_shortfall_repaid = @ + pay]
<1>0. PoolOK(p)
  BY DEF PoolInv
<1>1. p.shortfall_owed[t] \in Nat
  BY <1>0 DEF PoolOK
<1>2. /\ pay \in Nat /\ pay <= p.cash /\ pay <= p.shortfall_owed[t]
      /\ from \in Nat /\ from <= pay /\ from <= p.shortfall_reserve
      /\ pay - from <= p.buffer
      /\ from = pay \/ from = p.shortfall_reserve
  BY <1>0, <1>1 DEF ClaimPay, Least, PoolOK
<1>3. p.shortfall_owed[t] <= p.shortfall
  <2>1. IsFiniteSet(Traders) /\ p.shortfall_owed \in [Traders -> Nat]
    BY <1>0, PoolAssumption DEF PoolOK
  <2>2. p.shortfall_owed[t] <= Total(p.shortfall_owed)
    BY <2>1, TotalBounds
  <2> QED
    BY <2>2 DEF PoolInv
<1>4. claim_shortfall(p, t) = q
  BY DEF claim_shortfall
<1>5. o \in [Traders -> Nat] /\ Total(o) = p.shortfall - pay
  <2>1. -pay \in Int /\ p.shortfall_owed[t] + (-pay) \in Nat
        /\ p.shortfall_owed[t] + (-pay) = p.shortfall_owed[t] - pay
        /\ p.shortfall + (-pay) = p.shortfall - pay
    BY <1>0, <1>1, <1>2 DEF PoolOK
  <2>2. /\ [p.shortfall_owed EXCEPT ![t] = p.shortfall_owed[t] + (-pay)] \in [Traders -> Nat]
        /\ Total([p.shortfall_owed EXCEPT ![t] = p.shortfall_owed[t] + (-pay)]) = p.shortfall + (-pay)
    BY <2>1, OwedUpdate
  <2> QED
    BY <2>1, <2>2
<1> HIDE DEF pay, from, o
<1>6. PoolOK(q)
  BY <1>0, <1>2, <1>5 DEF PoolOK, PoolFields
<1>7. PoolInv(q)
  BY <1>0, <1>2, <1>3, <1>5, <1>6 DEF PoolInv, PoolOK, PoolFields
<1>8. Backed(p) => Backed(q)
  BY <1>0, <1>2 DEF Backed, CashCovers, PoolOK, PoolFields
<1> QED
  BY <1>4, <1>7, <1>8

(* Moving buffer value to LPs keeps the books. *)
LEMMA DrawKeeps ==
  ASSUME NEW p, PoolInv(p), NEW amount \in Nat
  PROVE  LET q == draw_buffer(p, amount)
         IN  PoolInv(q) /\ (Backed(p) => Backed(q))
<1> DEFINE covered == Least(amount, p.buffer)
           q == [p EXCEPT !.buffer = @ - covered, !.total_usdc = @ + covered,
                   !.cum_covered = @ + covered,
                   !.cum_lp_absorbed = @ + (amount - covered)]
<1>1. covered \in Nat /\ covered <= amount /\ covered <= p.buffer
  BY DEF Least, PoolInv, PoolOK
<1>2. draw_buffer(p, amount) = q
  BY DEF draw_buffer
<1> HIDE DEF covered
<1>3. PoolOK(q)
  BY <1>1 DEF PoolInv, PoolOK, PoolFields
<1>4. PoolInv(q)
  BY <1>1, <1>3 DEF PoolInv, PoolOK, PoolFields
<1>5. Backed(p) => Backed(q)
  BY <1>1 DEF PoolInv, PoolOK, PoolFields, Backed, CashCovers
<1> QED
  BY <1>2, <1>4, <1>5

(* Quotients of naturals, rounded down. *)
LEMMA DivBound ==
  ASSUME NEW m \in Nat, NEW n \in Nat \ {0}
  PROVE  (m \div n) \in Nat /\ n * (m \div n) <= m
OBVIOUS

(* Fees are a part of the amount they are taken from. *)
LEMMA FeeRange ==
  ASSUME NEW c, ConfigOK(c), NEW amount \in Nat
  PROVE  /\ DepositFee(c, amount) \in Nat /\ DepositFee(c, amount) <= amount
         /\ WithdrawFee(c, amount) \in Nat /\ WithdrawFee(c, amount) <= amount
<1>0. c.deposit_fee_bps \in 0..MAX_FEE_BPS /\ c.withdraw_fee_bps \in 0..MAX_FEE_BPS
  BY ConfigRates
<1>1. c.deposit_fee_bps \in 0..BASIS_POINTS /\ c.withdraw_fee_bps \in 0..BASIS_POINTS
  BY <1>0 DEF MAX_FEE_BPS, BASIS_POINTS
<1> QED
  BY <1>1, BpsOfRange DEF DepositFee, WithdrawFee

LEMMA AumType ==
  ASSUME NEW p, PoolOK(p)
  PROVE  calculate_aum(p) \in Nat
BY DEF PoolOK, calculate_aum, Floor0

(* A deposit keeps the books. *)
LEMMA DepositKeeps ==
  ASSUME NEW p, PoolInv(p), NEW c, ConfigOK(c), NEW amount \in Nat, NEW n \in Int
  PROVE  LET q == Deposited(p, c, amount, n)
         IN  PoolInv(q) /\ (Backed(p) => Backed(q)) /\ q.circulating = p.circulating + n
<1> DEFINE fee == DepositFee(c, amount)
           q == [p EXCEPT !.cash = @ + amount, !.total_usdc = @ + (amount - fee),
                          !.total_fees = @ + fee, !.circulating = @ + n]
<1>1. fee \in Nat /\ fee <= amount
  BY FeeRange
<1>2. Deposited(p, c, amount, n) = q
  BY DEF Deposited
<1> HIDE DEF fee
<1>3. PoolOK(q)
  BY <1>1 DEF PoolInv, PoolOK, PoolFields
<1>4. PoolInv(q) /\ q.circulating = p.circulating + n
  BY <1>1, <1>3 DEF PoolInv, PoolOK, PoolFields
<1>5. Backed(p) => Backed(q)
  BY <1>1 DEF PoolInv, PoolOK, PoolFields, Backed, CashCovers
<1> QED
  BY <1>2, <1>4, <1>5

(* A withdrawal within the cash and above the solvency floor keeps the books. *)
LEMMA WithdrawKeeps ==
  ASSUME NEW p, PoolInv(p), NEW c, ConfigOK(c), NEW gross \in Nat, NEW n \in Int,
         p.cash - (gross - WithdrawFee(c, gross)) >= p.reserved_payout + p.shortfall_reserve
  PROVE  LET q == Withdrawn(p, c, gross, n)
         IN  PoolInv(q) /\ (Backed(p) => Backed(q)) /\ q.circulating = p.circulating - n
<1> DEFINE fee == WithdrawFee(c, gross)
           q == [p EXCEPT !.cash = @ - (gross - fee), !.total_usdc = @ - gross,
                          !.total_fees = @ + fee, !.circulating = @ - n]
<1>1. fee \in Nat /\ fee <= gross /\ p.cash - (gross - fee) >= p.reserved_payout + p.shortfall_reserve
  BY FeeRange
<1>2. Withdrawn(p, c, gross, n) = q
  BY DEF Withdrawn
<1> HIDE DEF fee
<1>3. PoolOK(q)
  BY <1>1 DEF PoolInv, PoolOK, PoolFields
<1>4. PoolInv(q) /\ q.circulating = p.circulating - n
  BY <1>1, <1>3 DEF PoolInv, PoolOK, PoolFields
<1>5. Backed(p) => Backed(q)
  BY <1>1 DEF PoolInv, PoolOK, PoolFields, Backed, CashCovers
<1> QED
  BY <1>2, <1>4, <1>5
=============================================================================
