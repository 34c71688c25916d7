--------------------------- MODULE GatewayProofs ---------------------------
(***************************************************************************)
(* Proofs about the parts of the gateway, for every set of callers, keys,  *)
(* wallets and addresses, every quota, pool and setting of the caps: the   *)
(* headroom it publishes, the database layer under it, its rate limiter    *)
(* and access desk, its live stream (sockets, tail, client), and the parts *)
(* side by side as MCGateway runs them.                                    *)
(***************************************************************************)
EXTENDS MCGateway, SequenceTheorems, FiniteSetTheorems, WellFoundedInduction, TLAPS

-----------------------------------------------------------------------------
\* The arithmetic of skewRoom: against the net position an open may go to the cap or as far as the net was
LEMMA SkewArithmetic ==
    ASSUME NEW net \in Int, NEW k \in Nat, NEW n \in Nat \ {0}, NEW side \in Sides,
           NEW after, after = IF side = "long" THEN net + n ELSE net - n
    PROVE  (Abs(after) <= k \/ Abs(after) <= Abs(net)) <=> n <= SkewRoom(net, k, side)
<1>1. CASE side = "long"
  <2>1. SkewRoom(net, k, side) = IF net >= 0 THEN k - Abs(net) ELSE Abs(net) + (IF Abs(net) > k THEN Abs(net) ELSE k)
    BY <1>1 DEF SkewRoom
  <2>2. after = net + n BY <1>1
  <2> QED BY <2>1, <2>2 DEF Abs
<1>2. CASE side = "short"
  <2>1. SkewRoom(net, k, side) = IF net <= 0 THEN k - Abs(net) ELSE Abs(net) + (IF Abs(net) > k THEN Abs(net) ELSE k)
    BY <1>2 DEF SkewRoom
  <2>2. after = net - n BY <1>2
  <2> QED BY <2>1, <2>2 DEF Abs
<1> QED BY <1>1, <1>2 DEF Sides

\* The skew gate of reserve_for_position accepts exactly the sizes up to SkewRoom
LEMMA SkewRoomExact ==
    ASSUME NEW i \in CapacityInputs, NEW side \in Sides, NEW n \in Nat \ {0}, SkewCapOf(i) \in Nat
    PROVE  PassesSkew(i, side, n) <=> n <= SkewRoom(Net(i), SkewCapOf(i), side)
<1>1. Net(i) \in Int BY DEF CapacityInputs, Net
<1>2. NetAfter(i, side, n) = IF side = "long" THEN Net(i) + n ELSE Net(i) - n BY DEF NetAfter
<1> QED BY <1>1, <1>2, SkewArithmetic DEF PassesSkew

\* A cap is a share of AUM rounded down, so it is a natural number
LEMMA CapsAreNat ==
    ASSUME NEW i \in CapacityInputs
    PROVE  ReserveCapOf(i) \in Nat /\ SideCapOf(i) \in Nat /\ SkewCapOf(i) \in Nat
<1>1. ASSUME NEW a \in Nat, NEW b \in Nat PROVE (a * b) \div BpsOne \in Nat
  <2>1. a * b \in Nat BY <1>1
  <2> QED BY <2>1, BpsOneAssumption
<1> QED BY <1>1 DEF CapacityInputs, ReserveCapOf, SideCapOf, SkewCapOf

\* computeHeadroom against vaultAccepts: without a largest position, an open is accepted exactly when its
\* size is at most the headroom of its side
THEOREM HeadroomIsExact ==
    ASSUME NEW i \in CapacityInputs, i.maxPositionSize = 0, NEW side \in Sides, NEW n \in Nat \ {0}
    PROVE  VaultAccepts(i, side, n) <=> n <= SideHeadroom(i, side)
<1> DEFINE room == SkewRoom(Net(i), SkewCapOf(i), side)
<1>1. ReserveCapOf(i) \in Nat /\ SideCapOf(i) \in Nat /\ SkewCapOf(i) \in Nat BY CapsAreNat
<1>2. PassesSkew(i, side, n) <=> n <= room BY <1>1, SkewRoomExact
<1>3. room \in Int BY <1>1 DEF SkewRoom, Net, Abs, CapacityInputs
<1>4. AggregateRoom(i) \in Int /\ (PassesAggregate(i, n) <=> n <= AggregateRoom(i))
  BY <1>1 DEF PassesAggregate, AggregateRoom, CapacityInputs
<1>5. SideRoom(i, side) \in Int /\ (PassesSide(i, side, n) <=> n <= SideRoom(i, side))
  BY <1>1 DEF PassesSide, SideRoom, SideOi, CapacityInputs
<1>6. LiquidityRoom(i) \in Int /\ (PassesLiquidity(i, n) <=> n <= LiquidityRoom(i))
  BY DEF PassesLiquidity, LiquidityRoom, CapacityInputs
<1>7. GateRoom(i, side) \in Int /\ (n <= GateRoom(i, side) <=>
        n <= AggregateRoom(i) /\ n <= SideRoom(i, side) /\ n <= room /\ n <= LiquidityRoom(i))
  <2> HIDE DEF room
  <2>1. GateRoom(i, side) = Lesser(Lesser(Lesser(AggregateRoom(i), SideRoom(i, side)), room), LiquidityRoom(i))
    BY DEF GateRoom, room
  <2> QED BY <2>1, <1>3, <1>4, <1>5, <1>6 DEF Lesser
<1>8. n <= SideHeadroom(i, side) <=> n <= GateRoom(i, side) BY <1>7 DEF SideHeadroom, Floor0
<1> QED BY <1>2, <1>4, <1>5, <1>6, <1>7, <1>8 DEF VaultAccepts

----------------------------------------------------------------------------
(***************************************************************************)
(* The headroom stays exact while positions open and close, AUM moves and   *)
(* the admin sets caps: the ledger's figures stay natural numbers.           *)
(***************************************************************************)
LedgerOK == pool \in Pools /\ caps \in CapSets \cup {StartCaps}

\* What the service hands to computeHeadroom has the type it expects
LEMMA InputsTyped ==
    ASSUME NEW p \in Pools, NEW c \in CapValues
    PROVE  [Inputs(p, c) EXCEPT !.maxPositionSize = 0] \in CapacityInputs
BY DEF Pools, CapValues, Inputs, CapacityInputs

\* One side of the exposure of an asset changed to a natural number
LEMMA ExposureTyped ==
    ASSUME NEW e \in [long : Nat, short : Nat], NEW side \in Sides, NEW v \in Nat
    PROVE  [e EXCEPT ![side] = v] \in [long : Nat, short : Nat] /\ e[side] \in Nat
<1>1. CASE side = "long" BY <1>1
<1>2. CASE side = "short" BY <1>2
<1> QED BY <1>1, <1>2 DEF Sides

\* Opens, closes, moves of AUM and new caps keep the ledger's figures natural numbers
LEMMA LedgerStep ==
    ASSUME LedgerOK, [CapacityNext]_capacityVars
    PROVE  LedgerOK'
<1> USE DEF LedgerOK
<1>1. ASSUME NEW side \in Sides, NEW n \in CapacitySizes, Open(side, n) PROVE LedgerOK'
  <2>1. n \in Nat BY CapacityConstants
  <2>2. pool' = [pool EXCEPT !.reservedPayout = pool.reservedPayout + n, !.exposure = [pool.exposure EXCEPT ![side] = pool.exposure[side] + n]]
    BY <1>1 DEF Open, Becomes, WithTrade, Pools
  <2>5. pool.exposure[side] + n \in Nat BY <2>1, ExposureTyped DEF Pools
  <2>3. [pool.exposure EXCEPT ![side] = pool.exposure[side] + n] \in [long : Nat, short : Nat]
    BY <2>5, ExposureTyped DEF Pools
  <2>4. caps' = caps BY <1>1 DEF Open, Becomes
  <2>6. pool.reservedPayout + n \in Nat BY <2>1 DEF Pools
  <2>7. pool' \in Pools BY <2>2, <2>3, <2>6 DEF Pools
  <2> QED BY <2>4, <2>7
<1>2. ASSUME NEW side \in Sides, NEW n \in CapacitySizes, CloseTrade(side, n) PROVE LedgerOK'
  <2>1. n \in Nat BY CapacityConstants
  <2>2. pool' = [pool EXCEPT !.reservedPayout = pool.reservedPayout - n, !.exposure = [pool.exposure EXCEPT ![side] = pool.exposure[side] - n]]
    BY <1>2 DEF CloseTrade, Becomes, Pools
  <2>3. pool.exposure[side] - n \in Nat /\ pool.reservedPayout - n \in Nat
    <3>1. pool.exposure[side] >= n /\ pool.reservedPayout >= n BY <1>2 DEF CloseTrade
    <3>2. pool.exposure[side] \in Nat BY DEF Pools, Sides
    <3> QED BY <2>1, <3>1, <3>2 DEF Pools
  <2>4. [pool.exposure EXCEPT ![side] = pool.exposure[side] - n] \in [long : Nat, short : Nat]
    BY <2>3, ExposureTyped DEF Pools
  <2>5. caps' = caps BY <1>2 DEF CloseTrade, Becomes
  <2>6. pool' \in Pools BY <2>2, <2>3, <2>4 DEF Pools
  <2> QED BY <2>5, <2>6
<1>3. ASSUME NEW n \in CapacitySizes, AumFalls(n) \/ AumRises(n) PROVE LedgerOK'
  <2>1. n \in Nat BY CapacityConstants
  <2> QED BY <1>3, <2>1 DEF AumFalls, AumRises, Becomes, Pools
<1>4. ASSUME NEW c \in CapSets, SetCaps(c) PROVE LedgerOK' BY <1>4 DEF SetCaps
<1>5. CASE UNCHANGED <<pool, caps>> BY <1>5
<1>6. ASSUME Snapshot \/ OthersAsk \/ (\E ok \in BOOLEAN : LoadParams(ok)) \/ Refresh \/ RefreshFails \/ RequestFails \/ Tick
      PROVE  UNCHANGED <<pool, caps>>
  BY <1>6 DEF Snapshot, OthersAsk, LoadParams, Refresh, RefreshFails, RequestFails, Tick
<1> QED BY <1>1, <1>2, <1>3, <1>4, <1>5, <1>6 DEF CapacityNext, capacityVars

\* HeadroomExact for every instance: what the gateway publishes is the vault's own decision in every
\* reachable state of the ledger, also after the caps were tightened below what is open
THEOREM HeadroomStaysExact == CapacitySpec => []HeadroomExact
<1>1. CapacityInit => LedgerOK BY CapacityConstants DEF CapacityInit, LedgerOK
<1>2. LedgerOK /\ [CapacityNext]_capacityVars => LedgerOK' BY LedgerStep
<1>3. LedgerOK => HeadroomExact
  <2> SUFFICES ASSUME LedgerOK, NEW side \in Sides, NEW n \in Sizes
               PROVE  LET i == [Inputs(pool, caps) EXCEPT !.maxPositionSize = 0]
                      IN  VaultAccepts(i, side, n) <=> n <= SideHeadroom(i, side)
    BY DEF HeadroomExact
  <2> DEFINE i == [Inputs(pool, caps) EXCEPT !.maxPositionSize = 0]
  <2>1. i \in CapacityInputs BY InputsTyped, CapacityConstants DEF LedgerOK
  <2>2. i.maxPositionSize = 0 BY DEF Inputs
  <2>3. n \in Nat \ {0} BY DEF Sizes, LedgerOK, Pools
  <2> HIDE DEF i
  <2>4. VaultAccepts(i, side, n) <=> n <= SideHeadroom(i, side) BY <2>1, <2>2, <2>3, HeadroomIsExact
  <2> QED BY <2>4 DEF i
<1> QED BY <1>1, <1>2, <1>3, PTL DEF CapacitySpec

-----------------------------------------------------------------------------
\* The database layer.  A client record by itself: one that may be lent is connected, without a transaction
\* and not poisoned; a protocol error always poisons
ClientOK(r) ==
    /\ DOMAIN r = {"state", "holder", "tx", "link", "poisoned"}
    /\ r.state \in {"new", "idle", "held", "gone"} /\ r.holder \in Calls \cup {NoCall}
    /\ r.tx \in {"none", "open", "aborted"} /\ r.link \in {"up", "garbled", "closed"} /\ r.poisoned \in BOOLEAN
    /\ (r.state = "held" <=> r.holder # NoCall)
    /\ r.link = "garbled" => r.poisoned
    /\ r.state \in {"new", "idle"} => r.link = "up" /\ r.tx = "none" /\ ~r.poisoned

CallOK(k) ==
    /\ DOMAIN k = {"pc", "on", "done", "told"}
    /\ k.pc \in {"acquire", "begin", "run", "rollback", "release", "end"}
    /\ k.on \in Clients \cup {NoClient} /\ (k.on = NoClient <=> k.pc \in {"acquire", "end"})
    /\ k.done \in Nat /\ k.told \in {"pending", "ok", "error"}
    /\ k.pc \in {"acquire", "begin", "run"} => k.told = "pending"

\* What a call knows of its client: while it runs statements on a living connection its transaction is open,
\* and when it lets go none is, or the client is destroyed
Phase(pc, r) ==
    /\ pc = "begin" => r.tx = "none"
    /\ pc = "run" => r.tx = "open" \/ r.link # "up"
    /\ pc = "release" => r.tx = "none" \/ r.poisoned \/ r.link = "closed"

Committed(t) == call[t].told = "ok" \/ t \in lost
Booked(t) == IF Committed(t) THEN RowsOf(t) \subseteq table ELSE RowsOf(t) \cap table = {}

DbCore ==
    /\ client = [c \in Clients |-> client[c]] /\ \A c \in Clients : ClientOK(client[c])
    /\ call = [t \in Calls |-> call[t]] /\ \A t \in Calls : CallOK(call[t])
    /\ \A t \in Calls : call[t].on # NoClient =>
           client[call[t].on].holder = t /\ Phase(call[t].pc, client[call[t].on])
    /\ \A c \in Clients : client[c].holder # NoCall => call[client[c].holder].on = c
    /\ IsFiniteSet(Pooled) /\ Cardinality(Pooled) <= PoolMax

DbBooks ==
    /\ \A t \in Calls : Booked(t)
    /\ \A t \in Calls : call[t].told = "pending" => t \notin lost

DbInv ==
    /\ DbCore /\ DbBooks /\ errors \in 0..MaxErrors
    /\ \E m \in Nat : tokens \in [1..m -> Tokens]

LEMMA DbInvInit == DbInit => DbInv
<1> SUFFICES ASSUME DbInit PROVE DbInv
  OBVIOUS
<1> USE DbConstants DEF DbInit, NoCall, NoClient
<1>1. \A c \in Clients : ClientOK(client[c])
  BY DEF NewClient, ClientOK
<1>2. \A t \in Calls : CallOK(call[t]) /\ call[t].on = NoClient /\ call[t].told = "pending"
  BY DEF NewCall, CallOK
<1>3. Pooled = {} /\ \A c \in Clients : client[c].holder = NoCall
  BY DEF Pooled, NewClient
<1>4. IsFiniteSet(Pooled) /\ Cardinality(Pooled) <= PoolMax
  <2>1. IsFiniteSet({}) /\ Cardinality({}) = 0
    BY FS_EmptySet
  <2> QED
    BY <1>3, <2>1
<1>5. DbCore
  BY <1>1, <1>2, <1>3, <1>4 DEF DbCore
<1>6. DbBooks
  BY <1>2 DEF DbBooks, Booked, Committed
<1>7. \E m \in Nat : tokens \in [1..m -> Tokens]
  <2>1. CASE dbScene = "rewrite"
    <3>1. tokens \in UNION {[1..m -> Tokens] : m \in 0..MaxTokens}
      BY <2>1 DEF SeqOf
    <3>2. PICK m \in 0..MaxTokens : tokens \in [1..m -> Tokens]
      BY <3>1
    <3> QED
      BY <3>2
  <2>2. CASE dbScene # "rewrite"
    <3>1. tokens = <<>>
      BY <2>2
    <3>2. tokens \in [1..0 -> Tokens]
      BY <3>1
    <3> QED
      BY <3>2
  <2> QED
    BY <2>1, <2>2
<1> QED
  BY <1>5, <1>6, <1>7 DEF DbInv

\* One call and the client it holds change together: the rest of the pool does not notice
LEMMA DbWorks ==
    ASSUME DbCore, NEW t \in Calls, NEW c \in Clients, call[t].on = c,
           NEW r, ClientOK(r), r.holder = t,
           NEW k, CallOK(k), k.on = c, Phase(k.pc, r),
           client' = [client EXCEPT ![c] = r], call' = [call EXCEPT ![t] = k]
    PROVE  DbCore'
<1> USE DbConstants DEF NoClient, NoCall
<1>1. client[c].holder = t /\ client[c].state = "held" /\ r.state = "held"
  BY DEF DbCore, ClientOK
<1>2. Pooled' = Pooled
  BY <1>1 DEF Pooled, DbCore
<1>3. client' = [x \in Clients |-> client'[x]] /\ \A x \in Clients : ClientOK(client'[x])
  BY DEF DbCore
<1>4. call' = [x \in Calls |-> call'[x]] /\ \A x \in Calls : CallOK(call'[x])
  BY DEF DbCore
<1>5. ASSUME NEW u \in Calls, call'[u].on # NoClient
      PROVE  client'[call'[u].on].holder = u /\ Phase(call'[u].pc, client'[call'[u].on])
  <2>1. CASE u = t
    BY <2>1 DEF DbCore
  <2>2. CASE u # t
    <3>1. call'[u] = call[u] /\ call[u].on # c /\ call[u].on \in Clients
      BY <1>1, <1>5, <2>2 DEF DbCore, CallOK
    <3>2. client'[call[u].on] = client[call[u].on]
      BY <3>1 DEF DbCore
    <3> QED
      BY <1>5, <3>1, <3>2 DEF DbCore
  <2> QED
    BY <2>1, <2>2
<1>6. ASSUME NEW d \in Clients, client'[d].holder # NoCall
      PROVE  call'[client'[d].holder].on = d
  <2>1. CASE d = c
    BY <2>1 DEF DbCore
  <2>2. CASE d # c
    <3>1. client'[d] = client[d] /\ client[d].holder \in Calls
      BY <1>6, <2>2 DEF DbCore, ClientOK
    <3>2. client[d].holder # t
      BY <1>6, <2>2, <3>1 DEF DbCore
    <3> QED
      BY <1>6, <3>1, <3>2 DEF DbCore
  <2> QED
    BY <2>1, <2>2
<1> QED
  BY <1>2, <1>3, <1>4, <1>5, <1>6 DEF DbCore

\* What a failed query makes of a client record
FailedRec(r, kind) ==
    [r EXCEPT !.poisoned = r.poisoned \/ IsConnectionLevel(kind),
              !.tx = IF kind = "closed" THEN "none" ELSE IF kind = "sql" /\ r.tx = "open" THEN "aborted" ELSE r.tx,
              !.link = IF kind = "sql" THEN r.link ELSE kind]

LEMMA DbFails ==
    ASSUME DbCore, NEW t \in Calls, NEW c \in Clients, client[c].holder = t,
           NEW kind \in {"sql", "garbled", "closed"}
    PROVE  LET r == FailedRec(client[c], kind)
           IN  /\ Failed(c, kind) = [client EXCEPT ![c] = r]
               /\ ClientOK(r) /\ r.holder = t
               /\ client[c].tx = "none" => r.tx = "none"
               /\ kind # "sql" => r.poisoned
<1> DEFINE r == FailedRec(client[c], kind)
<1>1. ClientOK(client[c]) /\ client = [x \in Clients |-> client[x]]
  BY DEF DbCore
<1>2. Failed(c, kind) = [client EXCEPT ![c] = r]
  BY <1>1 DEF Failed, FailedRec, ClientOK
<1>3. /\ DOMAIN r = DOMAIN client[c] /\ r.state = client[c].state /\ r.holder = client[c].holder
      /\ r.link = IF kind = "sql" THEN client[c].link ELSE kind
      /\ r.tx = IF kind = "closed" THEN "none"
                ELSE IF kind = "sql" /\ client[c].tx = "open" THEN "aborted" ELSE client[c].tx
  BY <1>1 DEF FailedRec, ClientOK
<1>4. r.poisoned = (client[c].poisoned \/ IsConnectionLevel(kind))
  BY <1>1 DEF FailedRec, ClientOK
<1>5. r.poisoned \in BOOLEAN /\ (kind # "sql" => r.poisoned) /\ (client[c].poisoned => r.poisoned)
  BY <1>1, <1>4 DEF IsConnectionLevel, ClientOK
<1> HIDE DEF r
<1>6. ClientOK(r)
  <2>1. client[c].state = "held"
    BY <1>1, DbConstants DEF ClientOK, NoCall
  <2>2. r.link = "garbled" => r.poisoned
    BY <1>1, <1>3, <1>5 DEF ClientOK
  <2> QED
    BY <1>1, <1>3, <1>5, <2>1, <2>2 DEF ClientOK
<1> QED
  BY <1>2, <1>3, <1>5, <1>6 DEF r

\* The rows of one call are not the rows of another, so what one call does to the table is its own affair
LEMMA DbBooksStep ==
    ASSUME DbBooks, NEW t \in Calls, NEW T \in {table, table \cup RowsOf(t)}, table' = T,
           NEW told \in {"pending", "ok", "error"}, \A u \in Calls : call'[u].told = IF u = t THEN told ELSE call[u].told,
           lost \subseteq lost', lost' \subseteq lost \cup {t},
           told = "pending" => t \notin lost',
           (told = "ok" \/ t \in lost') => RowsOf(t) \subseteq T,
           ~(told = "ok" \/ t \in lost') => ~Committed(t) /\ T = table
    PROVE  DbBooks'
<1>1. ASSUME NEW u \in Calls, u # t PROVE Booked(u)'
  <2>1. RowsOf(u) \cap RowsOf(t) = {}
    BY <1>1 DEF RowsOf
  <2>2. Committed(u)' <=> Committed(u)
    BY <1>1 DEF Committed
  <2>3. RowsOf(u)' = RowsOf(u)
    BY DEF RowsOf
  <2>4. Booked(u)
    BY DEF DbBooks
  <2> QED
    BY <2>1, <2>2, <2>3, <2>4 DEF Booked
<1>2. Booked(t)'
  <2>1. RowsOf(t)' = RowsOf(t)
    BY DEF RowsOf
  <2>2. Committed(t)' <=> (told = "ok" \/ t \in lost')
    BY DEF Committed
  <2>3. ~Committed(t) => RowsOf(t) \cap table = {}
    BY DEF DbBooks, Booked
  <2> QED
    BY <2>1, <2>2, <2>3 DEF Booked
<1>3. \A u \in Calls : call'[u].told = "pending" => u \notin lost'
  BY DEF DbBooks
<1> QED
  BY <1>1, <1>2, <1>3 DEF DbBooks

\* A call whose verdict is still out, or stays what it was, disturbs no rows
LEMMA DbBooksQuiet ==
    ASSUME DbCore, DbBooks, NEW t \in Calls, NEW k, call' = [call EXCEPT ![t] = k],
           k.told = call[t].told \/ (call[t].told = "pending" /\ k.told = "error"),
           table' = table, lost' = lost
    PROVE  DbBooks'
<1>1. k.told \in {"pending", "ok", "error"} /\ call[t].told \in {"pending", "ok", "error"}
  BY DEF DbCore, CallOK
<1>2. \A u \in Calls : call'[u].told = IF u = t THEN k.told ELSE call[u].told
  BY DEF DbCore
<1>3. Booked(t) /\ (call[t].told = "pending" => t \notin lost)
  BY DEF DbBooks
<1>4. (k.told = "ok" \/ t \in lost) <=> Committed(t)
  BY <1>1, <1>3 DEF Committed
<1>5. (k.told = "pending" => t \notin lost') /\ ((k.told = "ok" \/ t \in lost') => RowsOf(t) \subseteq table)
      /\ (~(k.told = "ok" \/ t \in lost') => ~Committed(t))
  BY <1>1, <1>3, <1>4 DEF Booked
<1> HIDE DEF Committed
<1> QED
  BY <1>1, <1>2, <1>5, DbBooksStep

\* A call at work holds a living record of the pool
LEMMA DbHolds ==
    ASSUME DbCore, NEW t \in Calls, call[t].pc \in {"begin", "run", "rollback", "release"}
    PROVE  /\ call[t].on \in Clients /\ client[call[t].on].holder = t /\ client[call[t].on].state = "held"
           /\ ClientOK(client[call[t].on]) /\ CallOK(call[t]) /\ Phase(call[t].pc, client[call[t].on])
<1>1. CallOK(call[t]) /\ call[t].on \in Clients
  BY DEF DbCore, CallOK
<1>2. call[t].on # NoClient
  BY <1>1, DbConstants DEF NoClient
<1> QED
  BY <1>1, <1>2, DbConstants DEF DbCore, ClientOK, NoCall

DbQuiet == UNCHANGED <<dbScene, tokens>>

LEMMA DbErrors ==
    ASSUME errors \in 0..MaxErrors, Err \/ UNCHANGED errors
    PROVE  errors' \in 0..MaxErrors
BY DbConstants DEF Err

LEMMA DbBegin ==
    ASSUME DbInv, NEW t \in Calls, Begin(t)
    PROVE  DbInv'
<1> DEFINE c == call[t].on
<1>1. DbCore /\ DbBooks /\ call[t].pc = "begin" /\ call[t].told = "pending"
  BY DEF DbInv, DbCore, CallOK, Begin, At
<1>2. /\ c \in Clients /\ client[c].holder = t /\ ClientOK(client[c]) /\ CallOK(call[t]) /\ client[c].state = "held"
      /\ client[c].tx = "none"
  BY <1>1, DbHolds DEF Phase
<1>3. UNCHANGED <<dbScene, table, lost, tokens>> /\ (Err \/ UNCHANGED errors)
  BY DEF Begin, Fault
<1>4. DbCore' /\ DbBooks'
  <2>1. CASE client' = DbOpened(c) /\ Up(c) /\ call' = [call EXCEPT ![t].pc = "run"]
    <3> DEFINE r == [client[c] EXCEPT !.tx = "open"]
               k == [call[t] EXCEPT !.pc = "run"]
    <3>1. client' = [client EXCEPT ![c] = r] /\ call' = [call EXCEPT ![t] = k]
      BY <2>1 DEF DbOpened
    <3>2. ClientOK(r) /\ r.holder = t /\ Phase("run", r)
      BY <1>2 DEF ClientOK, Phase
    <3>3. CallOK(k) /\ k.on = c /\ k.pc = "run" /\ k.told = call[t].told
      BY <1>1, <1>2 DEF CallOK
    <3> HIDE DEF r, k, c
    <3>4. DbCore'
      BY <1>1, <1>2, <3>1, <3>2, <3>3, DbWorks DEF c
    <3> QED
      BY <1>1, <1>3, <3>1, <3>3, <3>4, DbBooksQuiet
  <2>2. CASE \E kind \in DbFailures(c) : client' = Failed(c, kind) /\ BeginFailed(t)
    <3>1. PICK kind \in {"sql", "garbled", "closed"} : client' = Failed(c, kind) /\ BeginFailed(t)
      BY <1>2, <2>2 DEF DbFailures, Up, ClientOK
    <3> DEFINE r == FailedRec(client[c], kind)
               k == [call[t] EXCEPT !.pc = "release", !.told = "error"]
    <3>2. client' = [client EXCEPT ![c] = r] /\ ClientOK(r) /\ r.holder = t /\ r.tx = "none"
      BY <1>1, <1>2, <3>1, DbFails
    <3>3. call' = [call EXCEPT ![t] = k]
      BY <1>1, <3>1 DEF BeginFailed, DbCore
    <3>4. CallOK(k) /\ k.on = c /\ k.pc = "release" /\ k.told = "error"
      BY <1>1, <1>2 DEF CallOK
    <3>5. Phase("release", r)
      BY <3>2 DEF Phase
    <3> HIDE DEF r, k, c
    <3>6. DbCore'
      BY <1>1, <1>2, <3>2, <3>3, <3>4, <3>5, DbWorks DEF c
    <3> QED
      BY <1>1, <1>3, <3>3, <3>4, <3>6, DbBooksQuiet
  <2> QED
    BY <2>1, <2>2 DEF Begin
<1> QED
  BY <1>3, <1>4, DbErrors DEF DbInv

TurnsBack(t, kind) ==
    /\ client' = Failed(call[t].on, kind)
    /\ call' = [call EXCEPT ![t] = [call[t] EXCEPT !.pc = "rollback", !.told = "error"]]

\* A query of a call at work that fails: the call turns to its rollback
LEMMA DbTurnsBack ==
    ASSUME DbCore, NEW t \in Calls, call[t].pc = "run", NEW kind \in {"sql", "garbled", "closed"},
           TurnsBack(t, kind)
    PROVE  DbCore' /\ \A u \in Calls : call'[u].told = IF u = t THEN "error" ELSE call[u].told
<1> DEFINE c == call[t].on
           r == FailedRec(client[c], kind)
           k == [call[t] EXCEPT !.pc = "rollback", !.told = "error"]
<1>1. DbCore /\ c \in Clients /\ call[t].on = c /\ client[c].holder = t /\ CallOK(call[t])
  BY DbHolds
<1>2. client' = [client EXCEPT ![c] = r] /\ ClientOK(r) /\ r.holder = t
  BY <1>1, DbFails DEF TurnsBack
<1>3. call' = [call EXCEPT ![t] = k] /\ call = [u \in Calls |-> call[u]]
  BY DEF DbCore, TurnsBack
<1>4. CallOK(k) /\ k.on = c /\ k.pc = "rollback" /\ k.told = "error"
  BY <1>1, DbConstants DEF CallOK, NoClient
<1>5. Phase(k.pc, r)
  BY <1>4 DEF Phase
<1> HIDE DEF r, k, c
<1>6. DbCore'
  BY <1>1, <1>2, <1>3, <1>4, <1>5, DbWorks
<1> QED
  BY <1>3, <1>4, <1>6

LEMMA DbRun ==
    ASSUME DbInv, NEW t \in Calls, RunOn(t)
    PROVE  DbInv'
<1> DEFINE c == call[t].on
<1>1. DbCore /\ DbBooks /\ call[t].pc = "run" /\ call[t].told = "pending"
  BY DEF DbInv, DbCore, CallOK, RunOn, At
<1>2. /\ c \in Clients /\ client[c].holder = t /\ ClientOK(client[c]) /\ CallOK(call[t]) /\ client[c].state = "held"
      /\ Phase("run", client[c])
  BY <1>1, DbHolds
<1>3. UNCHANGED <<dbScene, lost, tokens>> /\ (Err \/ UNCHANGED errors)
  BY DEF RunOn, Fault
<1>4. DbCore' /\ DbBooks'
  <2>1. CASE /\ Up(c) /\ call' = [call EXCEPT ![t].done = @ + 1] /\ UNCHANGED client
             /\ table' = IF client[c].tx = "none" THEN table \cup {<<t, call[t].done + 1>>} ELSE table
    <3> DEFINE k == [call[t] EXCEPT !.done = @ + 1]
    <3>1. client' = [client EXCEPT ![c] = client[c]] /\ call' = [call EXCEPT ![t] = k]
      BY <1>1, <2>1 DEF DbCore
    <3>2. CallOK(k) /\ k.on = c /\ k.pc = "run" /\ k.told = call[t].told
      BY <1>1, <1>2 DEF CallOK
    <3>3. table' = table
      BY <1>2, <2>1 DEF Phase, Up
    <3> HIDE DEF k, c
    <3>4. DbCore'
      BY <1>1, <1>2, <3>1, <3>2, DbWorks DEF c
    <3> QED
      BY <1>1, <1>3, <3>1, <3>2, <3>3, <3>4, DbBooksQuiet
  <2>2. CASE \E kind \in DbFailures(c) :
               /\ client' = Failed(c, kind) /\ call' = [call EXCEPT ![t].pc = "rollback", ![t].told = "error"]
               /\ UNCHANGED table
    <3>1. PICK kind \in {"sql", "garbled", "closed"} :
            /\ client' = Failed(c, kind) /\ call' = [call EXCEPT ![t].pc = "rollback", ![t].told = "error"]
            /\ UNCHANGED table
      BY <1>2, <2>2 DEF DbFailures, Up, ClientOK
    <3>2. call' = [call EXCEPT ![t] = [call[t] EXCEPT !.pc = "rollback", !.told = "error"]]
      BY <1>1, <3>1 DEF DbCore
    <3>4. DbCore'
      BY <1>1, <3>1, <3>2, DbTurnsBack DEF TurnsBack
    <3>3. [call[t] EXCEPT !.pc = "rollback", !.told = "error"].told = "error"
      BY <1>2 DEF CallOK
    <3> QED
      BY <1>1, <1>3, <3>1, <3>2, <3>3, <3>4, DbBooksQuiet
  <2> QED
    BY <2>1, <2>2 DEF RunOn
<1> QED
  BY <1>3, <1>4, DbErrors DEF DbInv

LEMMA DbCommit ==
    ASSUME DbInv, NEW t \in Calls, Commit(t)
    PROVE  DbInv'
<1> DEFINE c == call[t].on
<1>1. DbCore /\ DbBooks /\ call[t].pc = "run" /\ call[t].told = "pending" /\ t \notin lost
  BY DEF DbInv, DbCore, CallOK, Commit, At, DbBooks
<1>2. /\ c \in Clients /\ client[c].holder = t /\ ClientOK(client[c]) /\ CallOK(call[t]) /\ client[c].state = "held"
  BY <1>1, DbHolds
<1>3. UNCHANGED <<dbScene, tokens>> /\ (Err \/ UNCHANGED errors) /\ ~Committed(t)
  BY <1>1 DEF Commit, Fault, Committed
<1>4. DbCore' /\ DbBooks'
  <2>1. CASE /\ client' = [client EXCEPT ![c].tx = "none"] /\ table' = table \cup RowsOf(t)
             /\ call' = [call EXCEPT ![t].pc = "release", ![t].told = "ok"] /\ UNCHANGED lost
    <3> DEFINE r == [client[c] EXCEPT !.tx = "none"]
               k == [call[t] EXCEPT !.pc = "release", !.told = "ok"]
    <3>1. client' = [client EXCEPT ![c] = r] /\ call' = [call EXCEPT ![t] = k] /\ call = [u \in Calls |-> call[u]]
      BY <1>1, <2>1 DEF DbCore
    <3>2. ClientOK(r) /\ r.holder = t /\ Phase("release", r)
      BY <1>2 DEF ClientOK, Phase
    <3>3. CallOK(k) /\ k.on = c /\ k.pc = "release" /\ k.told = "ok"
      BY <1>1, <1>2 DEF CallOK
    <3> HIDE DEF r, k, c
    <3>4. DbCore'
      BY <1>1, <1>2, <3>1, <3>2, <3>3, DbWorks DEF c
    <3>5. \A u \in Calls : call'[u].told = IF u = t THEN "ok" ELSE call[u].told
      BY <3>1, <3>3
    <3>6. DbBooks'
      BY <1>1, <2>1, <3>5, DbBooksStep
    <3> QED
      BY <3>4, <3>6
  <2>2. CASE \E kind \in {"sql", "garbled", "closed"} :
               /\ client' = Failed(c, kind) /\ call' = [call EXCEPT ![t].pc = "rollback", ![t].told = "error"]
               /\ \/ UNCHANGED <<table, lost>>
                  \/ table' = table \cup RowsOf(t) /\ lost' = lost \cup {t}
    <3>0. call' = [call EXCEPT ![t] = [call[t] EXCEPT !.pc = "rollback", !.told = "error"]]
      BY <1>1, <2>2 DEF DbCore
    <3>1. DbCore' /\ \A u \in Calls : call'[u].told = IF u = t THEN "error" ELSE call[u].told
      BY <1>1, <2>2, <3>0, DbTurnsBack DEF TurnsBack
    <3>2. CASE UNCHANGED <<table, lost>>
      BY <1>1, <1>3, <3>1, <3>2, DbBooksStep
    <3>3. CASE table' = table \cup RowsOf(t) /\ lost' = lost \cup {t}
      BY <1>1, <1>3, <3>1, <3>3, DbBooksStep
    <3> QED
      BY <2>2, <3>1, <3>2, <3>3
  <2>3. DbFailures(c) \subseteq {"sql", "garbled", "closed"}
    BY <1>2 DEF DbFailures, Up, ClientOK
  <2> QED
    BY <2>1, <2>2, <2>3 DEF Commit
<1> QED
  BY <1>3, <1>4, DbErrors DEF DbInv

LEMMA DbRollback ==
    ASSUME DbInv, NEW t \in Calls, Rollback(t)
    PROVE  DbInv'
<1> DEFINE c == call[t].on
           k == [call[t] EXCEPT !.pc = "release"]
<1>1. DbCore /\ DbBooks /\ call[t].pc = "rollback"
  BY DEF DbInv, Rollback, At
<1>2. c \in Clients /\ client[c].holder = t /\ ClientOK(client[c]) /\ CallOK(call[t]) /\ client[c].state = "held"
  BY <1>1, DbHolds
<1>3. UNCHANGED <<dbScene, table, lost, tokens>> /\ (Err \/ UNCHANGED errors) /\ call' = [call EXCEPT ![t] = k]
  BY DEF Rollback
<1>4. CallOK(k) /\ k.on = c /\ k.pc = "release" /\ k.told = call[t].told
  BY <1>1, <1>2, DbConstants DEF CallOK, NoClient
<1>5. PICK r : client' = [client EXCEPT ![c] = r] /\ ClientOK(r) /\ r.holder = t /\ Phase("release", r)
  <2>1. CASE client' = [client EXCEPT ![c].tx = "none"]
    <3> DEFINE r == [client[c] EXCEPT !.tx = "none"]
    <3>1. client' = [client EXCEPT ![c] = r]
      BY <2>1
    <3>2. ClientOK(r) /\ r.holder = t /\ Phase("release", r)
      BY <1>2 DEF ClientOK, Phase
    <3> QED
      BY <3>1, <3>2
  <2>2. CASE \E kind \in {"garbled", "closed"} : client' = Failed(c, kind)
    <3>1. PICK kind \in {"garbled", "closed"} : client' = Failed(c, kind)
      BY <2>2
    <3>2. LET r == FailedRec(client[c], kind)
          IN  client' = [client EXCEPT ![c] = r] /\ ClientOK(r) /\ r.holder = t /\ r.poisoned
      BY <1>1, <1>2, <3>1, DbFails
    <3> QED
      BY <3>2 DEF Phase
  <2>3. ~Up(c) => client[c].link \in {"garbled", "closed"}
    BY <1>2 DEF Up, ClientOK
  <2> QED
    BY <2>1, <2>2, <2>3 DEF Rollback
<1> HIDE DEF k, c
<1>6. DbCore'
  BY <1>1, <1>2, <1>3, <1>4, <1>5, DbWorks DEF c
<1>7. DbBooks'
  BY <1>1, <1>3, <1>4, DbBooksQuiet
<1> QED
  BY <1>3, <1>6, <1>7, DbErrors DEF DbInv

\* A client lent to a caller, taken back or discarded: only that client's place in the pool changes
LEMMA DbLend ==
    ASSUME DbCore, NEW t \in Calls, call[t].pc = "acquire", NEW c \in Available,
           client' = [client EXCEPT ![c].state = "held", ![c].holder = t],
           call' = [call EXCEPT ![t].pc = "begin", ![t].on = c]
    PROVE  DbCore' /\ \A u \in Calls : call'[u].told = call[u].told
<1> DEFINE r == [client[c] EXCEPT !.state = "held", !.holder = t]
           k == [call[t] EXCEPT !.pc = "begin", !.on = c]
<1> USE DbConstants DEF NoClient, NoCall
<1>1. /\ c \in Clients /\ ClientOK(client[c]) /\ CallOK(call[t]) /\ client[c].state \in {"idle", "new"}
      /\ client[c].state = "new" => Cardinality(Pooled) < PoolMax
  BY DEF Available, DbCore
<1>2. client[c].holder = NoCall /\ call[t].on = NoClient
  BY <1>1 DEF ClientOK, CallOK
<1>3. client' = [client EXCEPT ![c] = r] /\ call' = [call EXCEPT ![t] = k]
  BY DEF DbCore
<1>4. ClientOK(r) /\ r.holder = t /\ r.state = "held" /\ Phase("begin", r)
  BY <1>1 DEF ClientOK, Phase
<1>5. CallOK(k) /\ k.on = c /\ k.pc = "begin" /\ k.told = call[t].told
  BY <1>1 DEF CallOK
<1> HIDE DEF r, k
<1>6. /\ client' = [x \in Clients |-> client'[x]] /\ \A x \in Clients : ClientOK(client'[x])
      /\ call' = [u \in Calls |-> call'[u]] /\ \A u \in Calls : CallOK(call'[u])
  BY <1>1, <1>3, <1>4, <1>5 DEF DbCore
<1>7. IsFiniteSet(Pooled') /\ Cardinality(Pooled') <= PoolMax
  <2>1. Pooled' = Pooled \cup {c}
    BY <1>1, <1>3, <1>4 DEF Pooled, DbCore
  <2>2. IsFiniteSet(Pooled) /\ Cardinality(Pooled) <= PoolMax /\ Cardinality(Pooled) \in Nat
    BY FS_CardinalityType DEF DbCore
  <2>3. c \in Pooled \/ client[c].state = "new"
    BY <1>1 DEF Pooled
  <2>4. IsFiniteSet(Pooled \cup {c})
        /\ Cardinality(Pooled \cup {c}) = IF c \in Pooled THEN Cardinality(Pooled) ELSE Cardinality(Pooled) + 1
    BY <2>2, FS_AddElement
  <2> QED
    BY <1>1, <2>1, <2>2, <2>3, <2>4
<1>8. ASSUME NEW u \in Calls, call'[u].on # NoClient
      PROVE  client'[call'[u].on].holder = u /\ Phase(call'[u].pc, client'[call'[u].on])
  <2>1. CASE u = t
    <3>1. call'[u] = k /\ client'[c] = r
      BY <1>1, <1>3, <2>1 DEF DbCore
    <3> QED
      BY <1>4, <1>5, <2>1, <3>1
  <2>2. CASE u # t
    <3>1. call'[u] = call[u] /\ call[u].on \in Clients /\ client[call[u].on].holder = u
      BY <1>3, <1>8, <2>2 DEF DbCore, CallOK
    <3>2. call[u].on # c
      BY <1>2, <3>1
    <3>3. client'[call[u].on] = client[call[u].on]
      BY <1>3, <3>1, <3>2 DEF DbCore
    <3> QED
      BY <1>8, <3>1, <3>3 DEF DbCore
  <2> QED
    BY <2>1, <2>2
<1>9. ASSUME NEW d \in Clients, client'[d].holder # NoCall
      PROVE  call'[client'[d].holder].on = d
  <2>1. CASE d = c
    BY <1>1, <1>3, <1>4, <1>5, <2>1 DEF DbCore
  <2>2. CASE d # c
    <3>1. client'[d] = client[d] /\ client[d].holder \in Calls /\ call[client[d].holder].on = d
      BY <1>3, <1>9, <2>2 DEF DbCore, ClientOK
    <3>2. client[d].holder # t
      BY <1>2, <3>1
    <3> QED
      BY <1>3, <3>1, <3>2 DEF DbCore
  <2> QED
    BY <2>1, <2>2
<1>10. \A u \in Calls : call'[u].told = call[u].told
  BY <1>3, <1>5 DEF DbCore
<1> QED
  BY <1>6, <1>7, <1>8, <1>9, <1>10 DEF DbCore

\* A client goes idle or goes for good, by itself or with the call that held it
LEMMA DbGoes ==
    ASSUME DbCore, NEW c \in Clients, client[c].state \in {"idle", "held"},
           NEW r, ClientOK(r), r.state \in {"idle", "gone"}, r.holder = NoCall,
           client' = [client EXCEPT ![c] = r], call' = [u \in Calls |-> call'[u]],
           \A u \in Calls : CallOK(call'[u]),
           \A u \in Calls : call'[u] = call[u] \/ (call[u].on = c /\ call'[u].on = NoClient),
           \A u \in Calls : call[u].on = c => call'[u].on = NoClient
    PROVE  DbCore'
<1> USE DbConstants DEF NoClient, NoCall
<1>1. client' = [x \in Clients |-> client'[x]] /\ \A x \in Clients : ClientOK(client'[x])
  BY DEF DbCore
<1>2. IsFiniteSet(Pooled') /\ Cardinality(Pooled') <= PoolMax
  <2>1. Pooled' \subseteq Pooled
    BY DEF Pooled, DbCore
  <2>2. IsFiniteSet(Pooled) /\ Cardinality(Pooled) <= PoolMax /\ Cardinality(Pooled) \in Nat
    BY FS_CardinalityType DEF DbCore
  <2>3. IsFiniteSet(Pooled') /\ Cardinality(Pooled') <= Cardinality(Pooled)
    BY <2>1, <2>2, FS_Subset
  <2>4. Cardinality(Pooled') \in Nat
    BY <2>3, FS_CardinalityType
  <2> QED
    BY <2>2, <2>3, <2>4
<1>3. ASSUME NEW u \in Calls, call'[u].on # NoClient
      PROVE  client'[call'[u].on].holder = u /\ Phase(call'[u].pc, client'[call'[u].on])
  <2>1. call'[u] = call[u] /\ call[u].on # c /\ call[u].on \in Clients
    BY <1>3 DEF DbCore, CallOK
  <2>2. client'[call[u].on] = client[call[u].on]
    BY <2>1 DEF DbCore
  <2> QED
    BY <1>3, <2>1, <2>2 DEF DbCore
<1>4. ASSUME NEW d \in Clients, client'[d].holder # NoCall
      PROVE  call'[client'[d].holder].on = d
  <2>1. d # c /\ client'[d] = client[d] /\ client[d].holder \in Calls /\ call[client[d].holder].on = d
    BY <1>4 DEF DbCore, ClientOK
  <2> QED
    BY <2>1
<1> QED
  BY <1>1, <1>2, <1>3, <1>4 DEF DbCore

LEMMA DbAcquire ==
    ASSUME DbInv, NEW t \in Calls, Acquire(t) \/ AcquireTimesOut(t)
    PROVE  DbInv'
<1>1. DbCore /\ DbBooks /\ call[t].pc = "acquire" /\ call[t].told = "pending" /\ CallOK(call[t])
      /\ UNCHANGED <<dbScene, table, lost, errors, tokens>> /\ call = [u \in Calls |-> call[u]]
  BY DEF DbInv, DbCore, CallOK, Acquire, AcquireTimesOut, At
<1>2. CASE Acquire(t)
  <2>1. PICK c \in Available : /\ client' = [client EXCEPT ![c].state = "held", ![c].holder = t]
                               /\ call' = [call EXCEPT ![t].pc = "begin", ![t].on = c]
    BY <1>2 DEF Acquire
  <2>2. DbCore' /\ \A u \in Calls : call'[u].told = call[u].told
    BY <1>1, <2>1, DbLend
  <2>3. DbBooks'
    BY <1>1, <2>2 DEF DbBooks, Booked, Committed, RowsOf
  <2> QED
    BY <1>1, <2>2, <2>3 DEF DbInv
<1>3. CASE AcquireTimesOut(t)
  <2> DEFINE k == [call[t] EXCEPT !.pc = "end", !.told = "error"]
  <2>1. call' = [call EXCEPT ![t] = k] /\ client' = client
    BY <1>1, <1>3 DEF AcquireTimesOut
  <2>2. CallOK(k) /\ k.on = call[t].on /\ k.on = NoClient /\ k.told = "error"
    BY <1>1, DbConstants DEF CallOK
  <2> HIDE DEF k
  <2>3. DbBooks'
    BY <1>1, <2>1, <2>2, DbBooksQuiet
  <2>4. Pooled' = Pooled
    BY <2>1 DEF Pooled
  <2>5. \A u \in Calls : call'[u].on = call[u].on /\ CallOK(call'[u]) /\ (u # t => call'[u] = call[u])
    BY <1>1, <2>1, <2>2 DEF DbCore
  <2>6. call' = [u \in Calls |-> call'[u]]
    BY <1>1, <2>1
  <2>7. \A d \in Clients : client[d].holder \in Calls \cup {NoCall}
    BY <1>1 DEF DbCore, ClientOK
  <2>8. DbCore'
    BY <1>1, <2>1, <2>2, <2>4, <2>5, <2>6, <2>7 DEF DbCore
  <2> QED
    BY <1>1, <2>3, <2>8 DEF DbInv
<1> QED
  BY <1>2, <1>3

LEMMA DbRelease ==
    ASSUME DbInv, NEW t \in Calls, Release(t)
    PROVE  DbInv'
<1> DEFINE c == call[t].on
           k == [call[t] EXCEPT !.pc = "end", !.on = NoClient]
<1>1. DbCore /\ DbBooks /\ call[t].pc = "release" /\ UNCHANGED <<dbScene, table, lost, errors, tokens>>
      /\ client' = Released(c) /\ call' = [call EXCEPT ![t] = k] /\ call = [u \in Calls |-> call[u]]
  BY DEF DbInv, DbCore, Release, At
<1>2. c \in Clients /\ client[c].holder = t /\ ClientOK(client[c]) /\ CallOK(call[t]) /\ client[c].state = "held"
      /\ Phase("release", client[c])
  BY <1>1, DbHolds
<1>3. CallOK(k) /\ k.on = NoClient /\ k.told = call[t].told
  BY <1>2, DbConstants DEF CallOK
<1>4. PICK r : client' = [client EXCEPT ![c] = r] /\ ClientOK(r) /\ r.state \in {"idle", "gone"} /\ r.holder = NoCall
  <2>1. CASE client[c].poisoned \/ client[c].link = "closed"
    <3> DEFINE r == [NewClient EXCEPT !.state = "gone"]
    <3>1. client' = [client EXCEPT ![c] = r]
      BY <1>1, <2>1 DEF Released
    <3>2. ClientOK(r) /\ r.state = "gone" /\ r.holder = NoCall
      BY DEF ClientOK, NewClient
    <3> QED
      BY <3>1, <3>2
  <2>2. CASE ~(client[c].poisoned \/ client[c].link = "closed")
    <3> DEFINE r == [client[c] EXCEPT !.state = "idle", !.holder = NoCall]
    <3>1. client' = [client EXCEPT ![c] = r]
      BY <1>1, <2>2 DEF Released
    <3>2. ClientOK(r) /\ r.state = "idle" /\ r.holder = NoCall
      BY <1>2, <2>2 DEF ClientOK, Phase
    <3> QED
      BY <3>1, <3>2
  <2> QED
    BY <2>1, <2>2
<1>5. \A u \in Calls : call[u].on = c => u = t
  BY <1>1, <1>2, DbConstants DEF DbCore, NoClient
<1> HIDE DEF k, c
<1>6. \A u \in Calls : /\ CallOK(call'[u]) /\ (call[u].on = c => call'[u].on = NoClient)
                       /\ call'[u] = call[u] \/ (call[u].on = c /\ call'[u].on = NoClient)
  BY <1>1, <1>3, <1>5 DEF DbCore, c
<1>7. call' = [u \in Calls |-> call'[u]]
  BY <1>1
<1>8. DbCore'
  BY <1>1, <1>2, <1>4, <1>6, <1>7, DbGoes
<1>9. DbBooks'
  BY <1>1, <1>3, DbBooksQuiet
<1> QED
  BY <1>1, <1>8, <1>9 DEF DbInv

LEMMA DbDies ==
    ASSUME DbInv, NEW c \in Clients, ConnectionDies(c)
    PROVE  DbInv'
<1>1. DbCore /\ DbBooks /\ Up(c) /\ UNCHANGED <<dbScene, call, table, lost, tokens>> /\ (Err \/ UNCHANGED errors)
      /\ ClientOK(client[c]) /\ client[c].state \in {"idle", "held"}
  BY DEF DbInv, DbCore, ConnectionDies
<1>2. \A u \in Calls : call'[u] = call[u] /\ CallOK(call[u]) /\ call' = [x \in Calls |-> call'[x]]
  BY <1>1 DEF DbCore
<1>3. CASE client[c].state = "idle"
  <2> DEFINE r == [NewClient EXCEPT !.state = "gone"]
  <2>1. client' = [client EXCEPT ![c] = r]
    BY <1>3 DEF ConnectionDies
  <2>2. ClientOK(r) /\ r.state = "gone" /\ r.holder = NoCall
    BY DEF ClientOK, NewClient
  <2>3. \A u \in Calls : call[u].on # c
    BY <1>1, <1>3, DbConstants DEF DbCore, ClientOK, NoClient, NoCall
  <2>4. call' = [x \in Calls |-> call'[x]]
    BY <1>1 DEF DbCore
  <2> HIDE DEF r
  <2>5. DbCore'
    BY <1>1, <1>2, <2>1, <2>2, <2>3, <2>4, DbGoes
  <2> QED
    BY <1>1, <2>5, DbErrors DEF DbInv, DbBooks, Booked, Committed, RowsOf
<1>4. CASE client[c].state = "held"
  <2> DEFINE t == client[c].holder
             r == [client[c] EXCEPT !.link = "closed", !.tx = "none"]
  <2>1. t \in Calls /\ call[t].on = c /\ Phase(call[t].pc, client[c])
    BY <1>1, <1>4, DbConstants DEF DbCore, ClientOK, NoCall, NoClient
  <2>2. client' = [client EXCEPT ![c] = r] /\ call' = [call EXCEPT ![t] = call[t]]
    BY <1>1, <1>4, <2>1 DEF ConnectionDies, DbCore
  <2>3. ClientOK(r) /\ r.holder = t /\ Phase(call[t].pc, r)
    BY <1>1, <1>4, <2>1 DEF ClientOK, Phase
  <2> HIDE DEF t, r
  <2>4. DbCore'
    BY <1>1, <1>2, <2>1, <2>2, <2>3, DbWorks
  <2> QED
    BY <1>1, <2>4, DbErrors DEF DbInv, DbBooks, Booked, Committed, RowsOf
<1> QED
  BY <1>1, <1>3, <1>4

THEOREM StoreInvariant == DbSpec => []DbInv
<1>1. DbInv /\ [DbNext]_dbVars => DbInv'
  <2> SUFFICES ASSUME DbInv, [DbNext]_dbVars PROVE DbInv'
    OBVIOUS
  <2>1. CASE UNCHANGED dbVars
    BY <2>1 DEF dbVars, DbInv, DbCore, DbBooks, Booked, Committed, RowsOf, Pooled
  <2> QED
    BY <2>1, DbAcquire, DbBegin, DbRun, DbCommit, DbRollback, DbRelease, DbDies DEF DbNext
<1> QED
  BY DbInvInit, <1>1, PTL DEF DbSpec

\* A statement that asks for as many arguments as the caller passes binds each where it was meant
LEMMA BindingSound ==
    ASSUME NEW m \in Nat, tokens \in [1..m -> Tokens]
    PROVE  BoundAsMeant
<1> DEFINE H == Holders(tokens)
           M == Meant(tokens)
<1>1. IsFiniteSet(1..m) /\ H \subseteq 1..m /\ M \subseteq H
  <2>1. 0 \in Int /\ 1 \in Int
    OBVIOUS
  <2> QED
    BY <2>1, FS_Interval DEF Holders, Meant
<1>2. IsFiniteSet(H)
  BY <1>1, FS_Subset
<1>3. SUFFICES ASSUME Cardinality(M) = Cardinality(H)
               PROVE  \A i \in H : i \in M /\ Numbered(tokens, i) = MeantNumber(tokens, i)
  BY DEF BoundAsMeant, Accepted
<1>4. M = H
  BY <1>1, <1>2, <1>3, FS_Subset
<1> QED
  BY <1>4 DEF Numbered, MeantNumber

\* However queries fail, connections die and answers to COMMIT get lost: no call ends with a client in its
\* hands, a client back in the pool is connected and outside any transaction, a call's rows are all there or
\* none as it was told, and no argument lands on an operator (packages/db)
THEOREM StoreIsSafe == DbSpec => []StoreSafe
<1>1. DbInv => StoreSafe
  <2> SUFFICES ASSUME DbInv PROVE StoreSafe
    OBVIOUS
  <2>1. DbCore /\ DbBooks
    BY DEF DbInv
  <2>2. DbTypeOK
    BY <2>1 DEF DbInv, DbCore, ClientOK, DbTypeOK
  <2>3. NoClientLeaked
    BY <2>1, DbConstants DEF DbCore, ClientOK, CallOK, NoClientLeaked, NoCall, NoClient
  <2>4. PooledIsClean
    BY <2>1 DEF DbCore, ClientOK, PooledIsClean, Up
  <2>5. AllOrNothing
    BY <2>1 DEF DbBooks, Booked, Committed, AllOrNothing
  <2>6. BoundAsMeant
    BY BindingSound DEF DbInv
  <2> QED
    BY <2>2, <2>3, <2>4, <2>5, <2>6 DEF StoreSafe
<1> QED
  BY <1>1, StoreInvariant, PTL

-----------------------------------------------------------------------------
\* The limiter.  A row counts requests that arrived: each raises it at most once, so the rows and the requests
\* that may still raise them are together no more than what arrived
Joins == {JoinBucket([ip |-> i]) : i \in Ips}
RowKeys == (Owners \cup Ips \cup Joins) \X Nat
Cnt(p) == IF p \in DOMAIN rows THEN rows[p] ELSE 0
Early == {s \in Slots : slot[s].pc \in {"lookup", "count"}}
Late == {s \in Slots : slot[s].pc \in {"lookup", "count", "join"}}

SlotOK(r) ==
    /\ DOMAIN r = {"pc", "ip", "key", "route", "user", "stamp"}
    /\ r.pc \in {"free", "lookup", "count", "join"} /\ r.user \in Keys \cup {NoKey}
    /\ r.pc # "free" => r.ip \in Ips
    /\ r.pc \in {"count", "join"} => r.stamp \in 1..window

RateShape ==
    /\ window \in 1..MaxWindow /\ revoked \subseteq Keys /\ arrived \in Nat
    /\ slot = [s \in Slots |-> slot[s]] /\ \A s \in Slots : SlotOK(slot[s])
    /\ DOMAIN rows \subseteq RowKeys
    /\ \A p \in DOMAIN rows : p[2] \in 1..window /\ rows[p] \in Nat \ {0}

RateCounts ==
    /\ IsFiniteSet(Late)
    /\ \A p \in RowKeys : Cnt(p) + Cardinality(IF p[1] \in Joins THEN Late ELSE Early) <= arrived

RateQuota ==
    /\ served \in [Owners -> Nat] /\ joined \in [Ips -> Nat]
    /\ \A o \in Owners : served[o] <= Limit /\ served[o] <= Cnt(<<o, window>>)
    /\ \A i \in Ips : joined[i] <= JoinLimit /\ joined[i] <= Cnt(<<<<"join", i>>, window>>)

RateInv == RateShape /\ RateCounts /\ RateQuota

LEMMA RateInvInit == RateInit => RateInv
<1> SUFFICES ASSUME RateInit PROVE RateInv
  OBVIOUS
<1> USE RateConstants DEF RateInit
<1>1. Late = {} /\ Early = {} /\ DOMAIN rows = {}
  BY DEF Late, Early, Free
<1>2. RateShape
  BY <1>1 DEF RateShape, SlotOK, Free
<1>3. RateCounts
  BY <1>1, FS_EmptySet DEF RateCounts, Cnt
<1>4. RateQuota
  BY <1>1 DEF RateQuota, Cnt
<1> QED
  BY <1>2, <1>3, <1>4 DEF RateInv

\* What is in flight is finite, and both sets of it are counted by naturals
LEMMA InFlight ==
    ASSUME RateCounts
    PROVE  /\ IsFiniteSet(Late) /\ IsFiniteSet(Early) /\ Early \subseteq Late
           /\ Cardinality(Late) \in Nat /\ Cardinality(Early) \in Nat
<1>1. IsFiniteSet(Late) /\ Early \subseteq Late
  BY DEF RateCounts, Late, Early
<1>2. IsFiniteSet(Early)
  BY <1>1, FS_Subset
<1> QED
  BY <1>1, <1>2, FS_CardinalityType

LEMMA CntType == ASSUME RateShape, NEW p PROVE Cnt(p) \in Nat
BY DEF RateShape, Cnt

\* One request changes its place while the rows stay: nobody can raise a row who could not before
LEMMA SlotMoves ==
    ASSUME RateInv, NEW s \in Slots, NEW r, SlotOK(r), slot' = [slot EXCEPT ![s] = r],
           UNCHANGED <<window, rows, revoked, served, joined>>,
           \/ /\ arrived' = arrived
              /\ r.pc \in {"lookup", "count"} => slot[s].pc \in {"lookup", "count"}
              /\ r.pc = "join" => slot[s].pc \in {"lookup", "count", "join"}
           \/ arrived' = arrived + 1
    PROVE  RateInv'
<1>1. RateShape /\ RateCounts /\ RateQuota
  BY DEF RateInv
<1>2. RateShape'
  <2>1. \A u \in Slots : slot'[u] = IF u = s THEN r ELSE slot[u]
    BY <1>1 DEF RateShape
  <2>2. \A u \in Slots : SlotOK(slot[u])'
    BY <1>1, <2>1 DEF RateShape, SlotOK
  <2>3. slot' = [u \in Slots |-> slot'[u]]
    BY <1>1 DEF RateShape
  <2> QED
    BY <1>1, <2>2, <2>3 DEF RateShape, RowKeys, Joins
<1>3. \A p : Cnt(p)' = Cnt(p)
  BY DEF Cnt
<1>4. RateQuota'
  BY <1>1, <1>3 DEF RateQuota
<1>5. RateCounts'
  <2>1. IsFiniteSet(Late) /\ IsFiniteSet(Early) /\ Cardinality(Late) \in Nat /\ Cardinality(Early) \in Nat
    BY <1>1, InFlight
  <2>2. Late' \subseteq Late \cup {s} /\ Early' \subseteq Early \cup {s}
    BY <1>1 DEF Late, Early, RateShape
  <2>3. /\ IsFiniteSet(Late \cup {s}) /\ Cardinality(Late \cup {s}) <= Cardinality(Late) + 1
        /\ IsFiniteSet(Early \cup {s}) /\ Cardinality(Early \cup {s}) <= Cardinality(Early) + 1
        /\ Cardinality(Late \cup {s}) \in Nat /\ Cardinality(Early \cup {s}) \in Nat
    <3>1. /\ IsFiniteSet(Late \cup {s})
          /\ Cardinality(Late \cup {s}) = IF s \in Late THEN Cardinality(Late) ELSE Cardinality(Late) + 1
      BY <2>1, FS_AddElement
    <3>2. /\ IsFiniteSet(Early \cup {s})
          /\ Cardinality(Early \cup {s}) = IF s \in Early THEN Cardinality(Early) ELSE Cardinality(Early) + 1
      BY <2>1, FS_AddElement
    <3> QED
      BY <2>1, <3>1, <3>2
  <2>4. /\ IsFiniteSet(Late') /\ Cardinality(Late') \in Nat /\ Cardinality(Late') <= Cardinality(Late) + 1
        /\ IsFiniteSet(Early') /\ Cardinality(Early') \in Nat /\ Cardinality(Early') <= Cardinality(Early) + 1
    <3>1. /\ IsFiniteSet(Late') /\ Cardinality(Late') <= Cardinality(Late \cup {s})
      BY <2>2, <2>3, FS_Subset
    <3>2. /\ IsFiniteSet(Early') /\ Cardinality(Early') <= Cardinality(Early \cup {s})
      BY <2>2, <2>3, FS_Subset
    <3>3. Cardinality(Late') \in Nat /\ Cardinality(Early') \in Nat
      BY <3>1, <3>2, FS_CardinalityType
    <3> QED
      BY <2>1, <2>3, <3>1, <3>2, <3>3
  <2>5. ASSUME arrived' = arrived
        PROVE  Cardinality(Late') <= Cardinality(Late) /\ Cardinality(Early') <= Cardinality(Early)
    <3>1. CASE arrived' = arrived + 1
      BY <1>1, <2>5, <3>1 DEF RateShape
    <3>2. CASE ~(arrived' = arrived + 1)
      <4>1. Late' \subseteq Late /\ Early' \subseteq Early
        BY <1>1, <3>2 DEF Late, Early, RateShape
      <4> QED
        BY <2>1, <4>1, FS_Subset
    <3> QED
      BY <3>1, <3>2
  <2>6. arrived \in Nat /\ RowKeys' = RowKeys /\ \A p : Cnt(p) \in Nat
    BY <1>1, CntType DEF RateShape, RowKeys
  <2>7. ASSUME NEW p \in RowKeys
        PROVE  Cnt(p)' + Cardinality(IF p[1] \in Joins THEN Late' ELSE Early') <= arrived'
    <3>1. Cnt(p) + Cardinality(IF p[1] \in Joins THEN Late ELSE Early) <= arrived
      BY <1>1 DEF RateCounts
    <3>2. Cnt(p) \in Nat /\ Cnt(p)' = Cnt(p)
      BY <1>3, <2>6
    <3>3. CASE arrived' = arrived
      BY <2>1, <2>4, <2>5, <2>6, <3>1, <3>2, <3>3
    <3>4. CASE arrived' = arrived + 1
      BY <2>1, <2>4, <2>6, <3>1, <3>2, <3>4
    <3> QED
      BY <3>3, <3>4
  <2> QED
    BY <2>4, <2>6, <2>7 DEF RateCounts
<1> QED
  BY <1>2, <1>4, <1>5 DEF RateInv

\* One request raises one row and can not raise it again
LEMMA RateCounted ==
    ASSUME RateInv, NEW s \in Slots, NEW b, NEW w \in 1..window, <<b, w>> \in RowKeys,
           NEW r, SlotOK(r), slot' = [slot EXCEPT ![s] = r], rows' = WithRow(b, w),
           \/ b \notin Joins /\ slot[s].pc = "count" /\ r.pc \in {"join", "free"}
           \/ b \in Joins /\ slot[s].pc = "join" /\ r.pc = "free",
           UNCHANGED <<window, revoked, arrived>>
    PROVE  /\ RateShape' /\ RateCounts'
           /\ \A q : Cnt(q)' = IF q = <<b, w>> THEN Cnt(q) + 1 ELSE Cnt(q)
           /\ Cnt(<<b, w>>)' = Upserted(b, w)
<1> DEFINE p == <<b, w>>
<1>1. RateShape /\ RateCounts
  BY DEF RateInv
<1>2. p \in RowKeys /\ p[1] = b /\ p[2] = w
  OBVIOUS
<1> HIDE DEF p
<1>3. rows' = [q \in DOMAIN rows \cup {p} |-> IF q = p THEN Upserted(b, w) ELSE rows[q]]
  BY DEF WithRow, p
<1>4. Upserted(b, w) = Cnt(p) + 1
  BY <1>1 DEF Upserted, Cnt, RateShape, p
<1>5. \A q : Cnt(q)' = IF q = p THEN Cnt(q) + 1 ELSE Cnt(q)
  BY <1>3, <1>4 DEF Cnt
<1>6. \A q : Cnt(q) \in Nat
  BY <1>1, CntType
<1>7. RateShape'
  <2>1. slot' = [u \in Slots |-> slot'[u]] /\ \A u \in Slots : SlotOK(slot[u])'
    BY <1>1 DEF RateShape, SlotOK
  <2>2. DOMAIN rows' \subseteq RowKeys' /\ \A q \in DOMAIN rows' : q[2] \in 1..window' /\ rows'[q] \in Nat \ {0}
    BY <1>1, <1>2, <1>3, <1>4, <1>6 DEF RateShape, RowKeys, Joins
  <2> QED
    BY <1>1, <2>1, <2>2 DEF RateShape
<1>8. RateCounts'
  <2>1. IsFiniteSet(Late) /\ IsFiniteSet(Early) /\ Cardinality(Late) \in Nat /\ Cardinality(Early) \in Nat
    BY <1>1, InFlight
  <2>2. Late' \subseteq Late /\ Early' \subseteq Early
    BY <1>1 DEF Late, Early, RateShape
  <2>3. /\ IsFiniteSet(Late') /\ Cardinality(Late') <= Cardinality(Late)
        /\ IsFiniteSet(Early') /\ Cardinality(Early') <= Cardinality(Early)
    BY <2>1, <2>2, FS_Subset
  <2>4. Cardinality(Late') \in Nat /\ Cardinality(Early') \in Nat
    BY <2>3, FS_CardinalityType
  <2>5. b \in Joins => Cardinality(Late') <= Cardinality(Late) - 1
    <3> SUFFICES ASSUME b \in Joins PROVE Cardinality(Late') <= Cardinality(Late) - 1
      OBVIOUS
    <3>1. s \in Late /\ Late' = Late \ {s}
      BY <1>1 DEF Late, RateShape
    <3>2. Cardinality(Late \ {s}) = IF s \in Late THEN Cardinality(Late) - 1 ELSE Cardinality(Late)
      BY <2>1, FS_RemoveElement
    <3> QED
      BY <2>1, <3>1, <3>2
  <2>6. b \notin Joins => Cardinality(Early') <= Cardinality(Early) - 1
    <3> SUFFICES ASSUME b \notin Joins PROVE Cardinality(Early') <= Cardinality(Early) - 1
      OBVIOUS
    <3>1. s \in Early /\ Early' = Early \ {s}
      BY <1>1 DEF Early, RateShape
    <3>2. Cardinality(Early \ {s}) = IF s \in Early THEN Cardinality(Early) - 1 ELSE Cardinality(Early)
      BY <2>1, FS_RemoveElement
    <3> QED
      BY <2>1, <3>1, <3>2
  <2>7. arrived' = arrived /\ arrived \in Nat /\ RowKeys' = RowKeys /\ Joins' = Joins
    BY <1>1 DEF RateShape, RowKeys, Joins
  <2>8. ASSUME NEW q \in RowKeys
        PROVE  Cnt(q)' + Cardinality(IF q[1] \in Joins THEN Late' ELSE Early') <= arrived
    <3>1. Cnt(q) + Cardinality(IF q[1] \in Joins THEN Late ELSE Early) <= arrived
      BY <1>1 DEF RateCounts
    <3>2. CASE q = p
      <4>1. CASE b \in Joins
        BY <1>2, <1>5, <1>6, <2>1, <2>4, <2>5, <2>7, <3>1, <3>2, <4>1
      <4>2. CASE b \notin Joins
        BY <1>2, <1>5, <1>6, <2>1, <2>4, <2>6, <2>7, <3>1, <3>2, <4>2
      <4> QED
        BY <4>1, <4>2
    <3>3. CASE q # p
      BY <1>5, <1>6, <2>1, <2>3, <2>4, <2>7, <3>1, <3>3
    <3> QED
      BY <3>2, <3>3
  <2> QED
    BY <2>3, <2>7, <2>8 DEF RateCounts
<1> QED
  BY <1>4, <1>5, <1>7, <1>8 DEF p

LEMMA RateArrives ==
    ASSUME RateInv, NEW s \in Slots, NEW i \in Ips, NEW k \in Keys \cup {NoKey}, NEW route \in Routes,
           NEW restricted \in BOOLEAN, Arrive(s, i, k, route, restricted)
    PROVE  RateInv'
<1> DEFINE r == [Free EXCEPT !.pc = "lookup", !.ip = i, !.key = k, !.route = route]
<1>1. RateShape
  BY DEF RateInv
<1>2. SlotOK(r)
  BY DEF SlotOK, Free
<1>3. arrived' = arrived + 1 /\ UNCHANGED <<window, rows, revoked, served, joined>>
  BY DEF Arrive
<1>4. slot' = [slot EXCEPT ![s] = r] \/ slot' = [slot EXCEPT ![s] = slot[s]]
  BY <1>1 DEF Arrive, RateShape
<1>5. SlotOK(slot[s])
  BY <1>1 DEF RateShape
<1> HIDE DEF r
<1> QED
  BY <1>2, <1>3, <1>4, <1>5, SlotMoves

LEMMA RateResolves ==
    ASSUME RateInv, NEW s \in Slots, ResolveRequestUser(s)
    PROVE  RateInv'
<1> DEFINE r == [slot[s] EXCEPT !.user = IF slot[s].key \in Keys \ revoked THEN slot[s].key ELSE NoKey,
                                !.stamp = window, !.pc = "count"]
<1>1. RateShape /\ SlotOK(slot[s]) /\ slot[s].pc = "lookup"
  BY DEF RateInv, RateShape, ResolveRequestUser
<1>2. slot' = [slot EXCEPT ![s] = r]
  BY <1>1 DEF ResolveRequestUser, RateShape
<1>3. SlotOK(r) /\ r.pc = "count"
  BY <1>1 DEF SlotOK, RateShape
<1>4. UNCHANGED <<window, rows, revoked, served, joined>> /\ arrived' = arrived
  BY DEF ResolveRequestUser
<1> HIDE DEF r
<1> QED
  BY <1>1, <1>2, <1>3, <1>4, SlotMoves

\* The user behind a key of the table is one of the owners; nobody else is counted as one
LEMMA KeyOwner == \A k \in Keys \cup {NoKey} : k # NoKey => k[1] \in Owners
BY DEF Keys

LEMMA RateConsumes ==
    ASSUME RateInv, NEW s \in Slots, CheckAndConsume(s)
    PROVE  RateInv'
<1> DEFINE r == slot[s]
<1>1. RateShape /\ RateQuota /\ SlotOK(r) /\ r.pc = "count" /\ UNCHANGED <<window, revoked, arrived>>
  BY DEF RateInv, RateShape, CheckAndConsume
<1>2. PICK b, w, k : b = Bucket(r) /\ w = r.stamp /\ k = r.user
  OBVIOUS
<1>3. /\ w \in 1..window /\ window \in Nat /\ b \in Owners \cup Ips
      /\ k # NoKey => b = k[1] /\ b \in Owners
  BY <1>1, <1>2, KeyOwner, RateConstants DEF SlotOK, RateShape, Bucket
<1>4. b \notin Joins /\ <<b, w>> \in RowKeys
  BY <1>3, RateConstants DEF Joins, JoinBucket, RowKeys
<1>5. PICK q : /\ slot' = [slot EXCEPT ![s] = q] /\ SlotOK(q) /\ q.pc \in {"join", "free"}
               /\ joined' = joined
               /\ \/ served' = served
                  \/ /\ Upserted(b, w) <= Limit /\ k # NoKey /\ w = window
                     /\ served' = [served EXCEPT ![b] = @ + 1]
  <2>1. SlotOK(Free) /\ Free.pc = "free"
    BY DEF SlotOK, Free
  <2>2. CASE Refuse(s)
    BY <2>1, <2>2 DEF Refuse
  <2>3. CASE slot' = [slot EXCEPT ![s].pc = "join"] /\ UNCHANGED <<served, joined>>
    <3> DEFINE q == [r EXCEPT !.pc = "join"]
    <3>1. slot' = [slot EXCEPT ![s] = q]
      BY <2>3
    <3>2. SlotOK(q) /\ q.pc = "join"
      BY <1>1 DEF SlotOK
    <3> QED
      BY <2>3, <3>1, <3>2
  <2>4. CASE Pass(s) /\ ~(Upserted(b, w) > IF k # NoKey THEN Limit ELSE PublicLimit)
    <3>1. k # NoKey => Upserted(b, w) <= Limit
      <4>1. Upserted(b, w) \in Nat
        BY <1>1 DEF Upserted, RateShape
      <4> QED
        BY <2>4, <4>1, RateConstants
    <3> QED
      BY <1>2, <1>3, <2>1, <2>4, <3>1 DEF Pass
  <2> QED
    BY <1>2, <2>2, <2>3, <2>4 DEF CheckAndConsume
<1>6. /\ RateShape' /\ RateCounts' /\ Cnt(<<b, w>>)' = Upserted(b, w)
      /\ \A p : Cnt(p)' = IF p = <<b, w>> THEN Cnt(p) + 1 ELSE Cnt(p)
  <2>1. rows' = WithRow(b, w) /\ UNCHANGED <<window, revoked, arrived>>
    BY <1>1, <1>2 DEF CheckAndConsume
  <2>2. b \notin Joins /\ slot[s].pc = "count" /\ q.pc \in {"join", "free"}
    BY <1>1, <1>4, <1>5
  <2> QED
    BY <1>3, <1>4, <1>5, <2>1, <2>2, RateCounted
<1>7. \A p : Cnt(p) \in Nat /\ Cnt(p)' \in Nat /\ Cnt(p) <= Cnt(p)'
  BY <1>1, <1>6, CntType
<1> HIDE DEF r
<1>8. RateQuota'
  <2>0. window' = window /\ Limit \in Nat /\ served \in [Owners -> Nat] /\ joined \in [Ips -> Nat]
    BY <1>1, RateConstants DEF RateQuota
  <2>1. ASSUME NEW i \in Ips PROVE joined'[i] <= JoinLimit /\ joined'[i] <= Cnt(<<<<"join", i>>, window>>)'
    BY <1>1, <1>5, <1>7, <2>0, RateConstants DEF RateQuota
  <2>2. CASE served' = served
    BY <1>1, <1>5, <1>7, <2>0, <2>1, <2>2 DEF RateQuota
  <2>3. CASE /\ Upserted(b, w) <= Limit /\ k # NoKey /\ w = window
             /\ served' = [served EXCEPT ![b] = @ + 1]
    <3>1. b \in Owners /\ served'[b] = served[b] + 1 /\ \A x \in Owners : x # b => served'[x] = served[x]
      BY <1>3, <2>0, <2>3
    <3>2. Cnt(<<b, w>>)' = Cnt(<<b, w>>) + 1 /\ Cnt(<<b, w>>)' <= Limit
      BY <1>6, <2>3
    <3>3. served[b] \in Nat /\ served[b] <= Cnt(<<b, w>>)
      BY <1>1, <2>0, <2>3, <3>1 DEF RateQuota
    <3>4. served'[b] <= Limit /\ served'[b] <= Cnt(<<b, w>>)'
      BY <1>7, <2>0, <3>1, <3>2, <3>3
    <3>5. \A x \in Owners : served'[x] <= Limit /\ served'[x] <= Cnt(<<x, w>>)'
      <4>1. ASSUME NEW x \in Owners, x # b PROVE served'[x] <= Limit /\ served'[x] <= Cnt(<<x, w>>)'
        <5>1. served[x] \in Nat /\ served[x] <= Limit /\ served[x] <= Cnt(<<x, w>>)
          BY <1>1, <2>0, <2>3 DEF RateQuota
        <5>2. Cnt(<<x, w>>) \in Nat /\ Cnt(<<x, w>>)' \in Nat /\ Cnt(<<x, w>>) <= Cnt(<<x, w>>)'
          BY <1>7
        <5> QED
          BY <3>1, <4>1, <5>1, <5>2
      <4> QED
        BY <3>4, <4>1
    <3>6. served' \in [Owners -> Nat] /\ joined' \in [Ips -> Nat]
      BY <1>5, <2>0, <2>3, <3>1
    <3> QED
      BY <2>0, <2>1, <2>3, <3>5, <3>6 DEF RateQuota
  <2> QED
    BY <1>5, <2>2, <2>3
<1> QED
  BY <1>6, <1>8 DEF RateInv

LEMMA RateJoins ==
    ASSUME RateInv, NEW s \in Slots, ConsumeJoin(s)
    PROVE  RateInv'
<1>1. PICK i, b, w : i = slot[s].ip /\ b = <<"join", i>> /\ w = window
  OBVIOUS
<1>2. /\ RateShape /\ RateQuota /\ SlotOK(slot[s]) /\ slot[s].pc = "join" /\ i \in Ips
      /\ rows' = WithRow(b, w) /\ UNCHANGED <<window, revoked, arrived>>
      /\ slot' = [slot EXCEPT ![s] = Free] /\ served' = served
      /\ \/ joined' = joined
         \/ ~(Upserted(b, w) > JoinLimit) /\ joined' = [joined EXCEPT ![i] = @ + 1]
  BY <1>1 DEF RateInv, RateShape, SlotOK, ConsumeJoin, Refuse, JoinBucket
<1>3. w \in 1..window /\ window \in Nat /\ b \in Joins /\ <<b, w>> \in RowKeys
  BY <1>1, <1>2, RateConstants DEF RateShape, Joins, JoinBucket, RowKeys
<1>4. SlotOK(Free) /\ Free.pc = "free"
  BY DEF SlotOK, Free
<1>5. /\ RateShape' /\ RateCounts' /\ Cnt(<<b, w>>)' = Upserted(b, w)
      /\ \A p : Cnt(p)' = IF p = <<b, w>> THEN Cnt(p) + 1 ELSE Cnt(p)
  <2>1. b \in Joins /\ slot[s].pc = "join" /\ Free.pc = "free"
    BY <1>2, <1>3, <1>4
  <2>2. slot' = [slot EXCEPT ![s] = Free] /\ rows' = WithRow(b, w) /\ UNCHANGED <<window, revoked, arrived>>
    BY <1>2
  <2> QED
    BY <1>3, <1>4, <2>1, <2>2, RateCounted
<1>6. \A p : Cnt(p) \in Nat /\ Cnt(p)' \in Nat /\ Cnt(p) <= Cnt(p)'
  BY <1>2, <1>5, CntType
<1>7. RateQuota'
  <2>0. window' = window /\ JoinLimit \in Nat /\ Limit \in Nat /\ served \in [Owners -> Nat] /\ joined \in [Ips -> Nat]
    BY <1>2, RateConstants DEF RateQuota
  <2>1. \A o \in Owners : served'[o] <= Limit /\ served'[o] <= Cnt(<<o, window>>)'
    BY <1>2, <1>6, <2>0 DEF RateQuota
  <2>2. CASE joined' = joined
    BY <1>2, <1>6, <2>0, <2>1, <2>2 DEF RateQuota
  <2>3. CASE ~(Upserted(b, w) > JoinLimit) /\ joined' = [joined EXCEPT ![i] = @ + 1]
    <3>1. joined'[i] = joined[i] + 1 /\ \A x \in Ips : x # i => joined'[x] = joined[x]
      BY <1>2, <2>0, <2>3
    <3>2. Cnt(<<b, w>>)' = Cnt(<<b, w>>) + 1 /\ Cnt(<<b, w>>)' <= JoinLimit
      BY <1>5, <1>6, <2>0, <2>3
    <3>3. joined[i] \in Nat /\ joined[i] <= Cnt(<<b, w>>)
      BY <1>1, <1>2, <2>0 DEF RateQuota
    <3>4. joined'[i] <= JoinLimit /\ joined'[i] <= Cnt(<<b, w>>)'
      BY <1>6, <2>0, <3>1, <3>2, <3>3
    <3>5. ASSUME NEW x \in Ips
          PROVE  joined'[x] <= JoinLimit /\ joined'[x] <= Cnt(<<<<"join", x>>, w>>)'
      <4>1. CASE x = i
        BY <1>1, <3>4, <4>1
      <4>2. CASE x # i
        <5>1. joined[x] \in Nat /\ joined[x] <= JoinLimit /\ joined[x] <= Cnt(<<<<"join", x>>, w>>)
          BY <1>1, <1>2, <2>0 DEF RateQuota
        <5>2. /\ Cnt(<<<<"join", x>>, w>>) \in Nat /\ Cnt(<<<<"join", x>>, w>>)' \in Nat
              /\ Cnt(<<<<"join", x>>, w>>) <= Cnt(<<<<"join", x>>, w>>)'
          BY <1>6
        <5> QED
          BY <3>1, <4>2, <5>1, <5>2
      <4> QED
        BY <4>1, <4>2
    <3>6. joined' \in [Ips -> Nat] /\ served' \in [Owners -> Nat]
      BY <1>2, <2>0, <2>3
    <3> QED
      BY <1>1, <2>0, <2>1, <3>5, <3>6 DEF RateQuota
  <2> QED
    BY <1>2, <2>2, <2>3
<1> QED
  BY <1>5, <1>7 DEF RateInv

\* The clock and the sweeping timer: the rows of the running window are never touched
LEMMA RateTimers ==
    ASSUME RateInv, SweepExpired \/ NextWindow
    PROVE  RateInv'
<1>1. RateShape /\ RateCounts /\ RateQuota /\ window \in Nat
  BY RateConstants DEF RateInv, RateShape
<1>2. \A p : Cnt(p) \in Nat
  BY <1>1, CntType
<1>3. RowKeys' = RowKeys /\ Joins' = Joins /\ Late' = Late /\ Early' = Early /\ arrived' = arrived /\ slot' = slot
  BY DEF RowKeys, Joins, Late, Early, SweepExpired, NextWindow
<1>4. Cardinality(Late) \in Nat /\ Cardinality(Early) \in Nat /\ arrived \in Nat
  BY <1>1, InFlight DEF RateShape
<1>5. CASE SweepExpired
  <2>1. rows' = [p \in {q \in DOMAIN rows : ~(q[2] < window)} |-> rows[p]] /\ UNCHANGED <<window, revoked, served, joined>>
    BY <1>5 DEF SweepExpired, Expired
  <2>2. \A p : Cnt(p)' \in Nat /\ Cnt(p)' <= Cnt(p)
    BY <1>2, <2>1 DEF Cnt
  <2>3. \A b : Cnt(<<b, window>>)' = Cnt(<<b, window>>)
    BY <1>1, <2>1 DEF Cnt
  <2>4. RateShape'
    BY <1>1, <1>3, <2>1 DEF RateShape, SlotOK
  <2>5. RateCounts'
    BY <1>1, <1>2, <1>3, <1>4, <2>2 DEF RateCounts
  <2>6. RateQuota'
    BY <1>1, <2>1, <2>3 DEF RateQuota
  <2> QED
    BY <2>4, <2>5, <2>6 DEF RateInv
<1>6. CASE NextWindow
  <2>1. /\ window < MaxWindow /\ window' = window + 1 /\ UNCHANGED <<rows, revoked>>
        /\ served' = [o \in Owners |-> 0] /\ joined' = [i \in Ips |-> 0]
    BY <1>6 DEF NextWindow
  <2>2. \A p : Cnt(p)' = Cnt(p)
    BY <2>1 DEF Cnt
  <2>3. RateShape'
    <3>1. \A u \in Slots : SlotOK(slot[u])'
      BY <1>1, <1>3, <2>1 DEF RateShape, SlotOK
    <3>2. window' \in 1..MaxWindow
      BY <1>1, <2>1, RateConstants DEF RateShape
    <3>3. \A p \in DOMAIN rows' : p[2] \in 1..window' /\ rows'[p] \in Nat \ {0}
      BY <1>1, <2>1 DEF RateShape
    <3> QED
      BY <1>1, <1>3, <2>1, <3>1, <3>2, <3>3 DEF RateShape
  <2>4. RateCounts'
    BY <1>1, <1>3, <2>2 DEF RateCounts
  <2>5. RateQuota'
    BY <1>2, <2>1, <2>2, RateConstants DEF RateQuota
  <2> QED
    BY <2>3, <2>4, <2>5 DEF RateInv
<1> QED
  BY <1>5, <1>6

THEOREM RateInvariant == RateSpec => []RateInv
<1>1. RateInv /\ [RateNext]_rateVars => RateInv'
  <2> SUFFICES ASSUME RateInv, [RateNext]_rateVars PROVE RateInv'
    OBVIOUS
  <2>1. CASE UNCHANGED rateVars
    BY <2>1 DEF rateVars, RateInv, RateShape, RateCounts, RateQuota, SlotOK, RowKeys, Joins, Cnt, Late, Early
  <2>2. ASSUME NEW k \in Keys, RevokeAny(k) PROVE RateInv'
    BY <2>2 DEF RevokeAny, RateInv, RateShape, RateCounts, RateQuota, SlotOK, RowKeys, Joins, Cnt, Late, Early
  <2> QED
    BY <2>1, <2>2, RateArrives, RateResolves, RateConsumes, RateJoins, RateTimers DEF RateNext
<1> QED
  BY RateInvInit, <1>1, PTL DEF RateSpec

\* However requests overlap, keys multiply or are revoked and the timer sweeps: a wallet and an address stay
\* within their quota of every window, and a row never counts more than arrived (services/rateLimit.ts)
THEOREM RateIsSafe == RateSpec => []RateSafe
<1>1. RateInv => RateSafe
  <2> SUFFICES ASSUME RateInv PROVE RateSafe
    OBVIOUS
  <2>1. RateShape /\ RateCounts /\ RateQuota
    BY DEF RateInv
  <2>2. Cardinality(Late) \in Nat /\ Cardinality(Early) \in Nat
    BY <2>1, InFlight
  <2>3. ASSUME NEW p \in DOMAIN rows PROVE p[2] \in 1..window /\ rows[p] \in 1..arrived
    <3>1. p \in RowKeys /\ rows[p] \in Nat \ {0} /\ Cnt(p) = rows[p] /\ p[2] \in 1..window /\ arrived \in Nat
      BY <2>1 DEF RateShape, Cnt
    <3>2. Cnt(p) + Cardinality(IF p[1] \in Joins THEN Late ELSE Early) <= arrived
      BY <2>1, <3>1 DEF RateCounts
    <3>3. rows[p] <= arrived
      BY <2>2, <3>1, <3>2
    <3> QED
      BY <3>1, <3>3
  <2> QED
    BY <2>1, <2>3 DEF RateShape, RateQuota, RateSafe, RateTypeOK, QuotaPerOwner, JoinBudget
<1> QED
  BY <1>1, RateInvariant, PTL

-----------------------------------------------------------------------------
\* A finite set as a sequence: each member once
LEMMA SeqOfSet ==
    ASSUME NEW S, IsFiniteSet(S)
    PROVE  /\ Cardinality(S) \in Nat /\ SetToSeq(S) \in [1..Cardinality(S) -> S]
           /\ SetToSeq(S) \in Seq(S) /\ Len(SetToSeq(S)) = Cardinality(S)
           /\ \A x \in S : \E i \in 1..Cardinality(S) : SetToSeq(S)[i] = x
           /\ \A i, j \in 1..Cardinality(S) : SetToSeq(S)[i] = SetToSeq(S)[j] => i = j
<1> DEFINE n == Cardinality(S)
           f == SetToSeq(S)
<1>1. n \in Nat /\ ExistsBijection(1..n, S)
  BY FS_CardinalityType
<1>2. \E g \in [1..n -> S] : IsInjective(g)
  BY <1>1 DEF ExistsBijection, Bijection, Injection, IsInjective
<1>3. f \in [1..n -> S] /\ IsInjective(f)
  BY <1>2 DEF SetToSeq
<1>4. f \in Injection(1..n, S)
  BY <1>3 DEF Injection, IsInjective
<1>5. IsFiniteSet(1..n) /\ Cardinality(1..n) = n
  BY <1>1, FS_Interval
<1>6. f \in Surjection(1..n, S)
  BY <1>4, <1>5, FS_Injection
<1>7. \A x \in S : \E i \in 1..n : f[i] = x
  BY <1>6 DEF Surjection
<1>9. \A i, j \in 1..n : f[i] = f[j] => i = j
  BY <1>3 DEF IsInjective
<1> HIDE DEF f, n
<1>8. f \in Seq(S) /\ Len(f) = n
  BY <1>1, <1>3
<1> QED
  BY <1>1, <1>3, <1>7, <1>8, <1>9 DEF f, n

-----------------------------------------------------------------------------
\* The shape of the desk's state
Labels == {"none", "admin-panel", "referral-dashboard"}
KeyRec == [owner : Wallets, ch : Nat, label : Labels, revoked : BOOLEAN]
Events == (DOMAIN StatusAfter \cup {"forget_email"}) \X Wallets
Post == {"retire", "count", "issue"}
Pcs == {"idle", "key", "unlock", "verify", "approved?", "cookie", "mail", "send", "mark"} \cup Post

ReqOK(r, n) ==
    /\ DOMAIN r = {"pc", "wallet", "ch", "label", "todo"}
    /\ r.pc \in Pcs /\ r.label \in Labels /\ r.ch \in Nat /\ r.todo \subseteq Wallets
    /\ r.pc \notin {"idle", "mail"} => r.wallet \in Wallets
    /\ r.pc \in {"key", "verify"} \cup Post => r.ch \in 1..n
    /\ r.pc \in {"send", "mark"} => r.wallet \in r.todo

ReqShape == req = [b \in Browsers |-> req[b]] /\ \A b \in Browsers : ReqOK(req[b], issued)

LedgerShape ==
    /\ grants \in [Wallets -> Statuses] /\ email \in [Wallets -> BOOLEAN] /\ sent \in [Wallets -> BOOLEAN]
    /\ mails \in [Wallets -> Nat] /\ audit \in Seq(Events) /\ Len(audit) <= MaxAudit

DayShape ==
    /\ cookie \in [Wallets -> Nat] /\ revokedDay \in [Wallets -> Nat] /\ day \in 1..MaxDay
    /\ \A w \in Wallets : cookie[w] <= day /\ revokedDay[w] <= day

KeyShape ==
    /\ pending \in [Flows -> [Wallets -> Nat]] /\ issued \in Nat
    /\ keys \in Seq(KeyRec) /\ \A i \in DOMAIN keys : keys[i].ch \in 1..issued
    /\ session \in [Browsers -> Nat] /\ \A b \in Browsers : session[b] <= Len(keys)

DeskShape == scene \in Scenes /\ LedgerShape /\ DayShape /\ KeyShape /\ ReqShape

LEMMA SeqFacts ==
    ASSUME NEW S, NEW s \in Seq(S)
    PROVE  Len(s) \in Nat /\ DOMAIN s = 1..Len(s) /\ \A i \in DOMAIN s : s[i] \in S
OBVIOUS

LEMMA StatusDomain == DOMAIN StatusAfter = {"approve", "reject", "revoke"}
                      /\ StatusAfter.approve = "approved" /\ StatusAfter.reject = "rejected" /\ StatusAfter.revoke = "revoked"
BY DEF StatusAfter

\* Pairs of one decision with the wallets of a set are as many as the wallets
LEMMA TaggedSize ==
    ASSUME NEW a, NEW S, IsFiniteSet(S)
    PROVE  IsFiniteSet({<<a, w>> : w \in S}) /\ Cardinality({<<a, w>> : w \in S}) = Cardinality(S)
<1> DEFINE T == {<<a, w>> : w \in S}
           g == [w \in S |-> <<a, w>>]
<1>1. g \in Bijection(S, T)
  <2>1. g \in [S -> T] /\ \A x, y \in S : g[x] = g[y] => x = y
    OBVIOUS
  <2>2. \A y \in T : \E x \in S : g[x] = y
    OBVIOUS
  <2> HIDE DEF g, T
  <2> QED
    BY <2>1, <2>2 DEF Bijection, Injection, Surjection, IsInjective
<1>2. ExistsBijection(S, T)
  BY <1>1 DEF ExistsBijection
<1> QED
  BY <1>2, FS_Bijection

\* What one decision adds to the log
LEMMA LogGrows ==
    ASSUME LedgerShape, NEW a \in DOMAIN StatusAfter, NEW S \in SUBSET Wallets,
           Len(audit) + Cardinality(S) <= MaxAudit
    PROVE  LET L == DecisionLog(a, S)
               n == Len(audit)
           IN  /\ L \in Seq(Events) /\ Len(L) <= MaxAudit /\ Len(L) \in Nat /\ Len(L) >= n
               /\ DOMAIN L = 1..Len(L) /\ n \in Nat
               /\ \A i \in 1..n : L[i] = audit[i]
               /\ \A i \in (n+1)..Len(L) : \E w \in S : L[i] = <<a, w>>
               /\ \A w \in S : \E i \in (n+1)..Len(L) : L[i] = <<a, w>>
               /\ \A i, j \in (n+1)..Len(L) : L[i] = L[j] => i = j
<1> DEFINE T == {<<a, w>> : w \in S}
           t == SetToSeq(T)
           n == Len(audit)
           L == DecisionLog(a, S)
<1>1. IsFiniteSet(S) /\ audit \in Seq(Events) /\ n \in Nat /\ Cardinality(S) \in Nat
  <2>1. IsFiniteSet(S)
    BY AccessConstants, FS_Subset
  <2> QED
    BY <2>1, FS_CardinalityType DEF LedgerShape
<1>2. IsFiniteSet(T) /\ Cardinality(T) = Cardinality(S)
  BY <1>1, TaggedSize
<1>3. /\ t \in [1..Cardinality(S) -> T] /\ t \in Seq(T) /\ Len(t) = Cardinality(S)
      /\ \A x \in T : \E i \in 1..Cardinality(S) : t[i] = x
      /\ \A i, j \in 1..Cardinality(S) : t[i] = t[j] => i = j
  <2> HIDE DEF T
  <2> QED
    BY <1>2, SeqOfSet
<1>4. T \subseteq Events
  BY DEF Events
<1>5. L = audit \o t
  BY DEF DecisionLog, Logged
<1>6. t \in Seq(Events)
  <2> HIDE DEF t, T
  <2> QED
    BY <1>3, <1>4
<1> HIDE DEF t, L
<1>7. /\ L \in Seq(Events) /\ Len(L) = n + Cardinality(S)
      /\ \A i \in 1..n : L[i] = audit[i]
      /\ \A i \in (n+1)..Len(L) : L[i] = t[i - n]
  <2> HIDE DEF T, n
  <2>1. L \in Seq(Events) /\ Len(L) = Len(audit) + Len(t)
    BY <1>1, <1>5, <1>6
  <2>2. n = Len(audit)
    BY DEF n
  <2>3. \A i \in 1..(n + Len(t)) : L[i] = IF i <= n THEN audit[i] ELSE t[i - n]
    BY <1>1, <1>5, <1>6, <2>2
  <2> QED
    BY <1>1, <1>3, <2>1, <2>2, <2>3
<1>8. \A i \in (n+1)..Len(L) : \E w \in S : L[i] = <<a, w>>
  <2> SUFFICES ASSUME NEW i \in (n+1)..Len(L) PROVE \E w \in S : L[i] = <<a, w>>
    OBVIOUS
  <2>1. i - n \in 1..Cardinality(S)
    BY <1>1, <1>7
  <2>2. t[i - n] \in T
    BY <1>3, <2>1
  <2> QED
    BY <1>7, <2>2
<1>9. \A w \in S : \E i \in (n+1)..Len(L) : L[i] = <<a, w>>
  <2> SUFFICES ASSUME NEW w \in S PROVE \E i \in (n+1)..Len(L) : L[i] = <<a, w>>
    OBVIOUS
  <2>1. PICK j \in 1..Cardinality(S) : t[j] = <<a, w>>
    BY <1>3
  <2>2. n + j \in (n+1)..Len(L) /\ (n + j) - n = j
    BY <1>1, <1>7
  <2> QED
    BY <1>7, <2>1, <2>2
<1>11. \A i, j \in (n+1)..Len(L) : L[i] = L[j] => i = j
  <2> SUFFICES ASSUME NEW i \in (n+1)..Len(L), NEW j \in (n+1)..Len(L), L[i] = L[j] PROVE i = j
    OBVIOUS
  <2>1. i - n \in 1..Cardinality(S) /\ j - n \in 1..Cardinality(S)
    BY <1>1, <1>7
  <2>2. t[i - n] = t[j - n]
    BY <1>7
  <2>3. i - n = j - n
    BY <1>3, <2>1, <2>2
  <2> QED
    BY <1>1, <1>7, <2>3
<1>10. Len(L) <= MaxAudit /\ Len(L) \in Nat /\ Len(L) >= n /\ DOMAIN L = 1..Len(L)
  BY <1>1, <1>7, SeqFacts
<1> QED
  BY <1>1, <1>7, <1>8, <1>9, <1>10, <1>11 DEF L

LEMMA ReqMoves ==
    ASSUME ReqShape, issued \in Nat, issued' \in Nat, issued <= issued',
           NEW b \in Browsers, NEW r, ReqOK(r, issued'), req' = [req EXCEPT ![b] = r]
    PROVE  ReqShape'
<1>1. \A c \in Browsers : ReqOK(req[c], issued')
  BY DEF ReqShape, ReqOK
<1>2. \A c \in Browsers : req'[c] = IF c = b THEN r ELSE req[c]
  BY DEF ReqShape
<1>3. req' = [c \in Browsers |-> req'[c]]
  BY DEF ReqShape
<1> QED
  BY <1>1, <1>2, <1>3 DEF ReqShape

LEMMA ReqStays ==
    ASSUME ReqShape, issued \in Nat, issued' \in Nat, issued <= issued', req' = req
    PROVE  ReqShape'
BY DEF ReqShape, ReqOK

LEMMA IdleOK == \A n \in Nat : ReqOK(Idle, n) /\ Idle.pc = "idle" /\ Idle.todo = {}
BY DEF ReqOK, Idle, Pcs, Labels, Post

\* What is in the log at the start
LEMMA FirstLog ==
    ASSUME AccessInit
    PROVE  /\ audit \in Seq(Events) /\ Len(audit) <= MaxAudit
           /\ \A i \in DOMAIN audit : \E w \in Wallets : grants[w] = "approved" /\ audit[i] = <<"approve", w>>
           /\ \A w \in Wallets : grants[w] = "approved" => \E i \in DOMAIN audit : audit[i] = <<"approve", w>>
           /\ \A i, j \in DOMAIN audit : audit[i] = audit[j] => i = j
<1> DEFINE V == {v \in Wallets : grants[v] = "approved"}
           T == {<<"approve", w>> : w \in V}
<1>1. IsFiniteSet(V) /\ Cardinality(V) <= Cardinality(Wallets) /\ Cardinality(V) \in Nat /\ Cardinality(Wallets) \in Nat
  <2>1. IsFiniteSet(V) /\ Cardinality(V) <= Cardinality(Wallets)
    BY AccessConstants, FS_Subset
  <2> QED
    BY <2>1, AccessConstants, FS_CardinalityType
<1>2. IsFiniteSet(T) /\ Cardinality(T) = Cardinality(V)
  <2> HIDE DEF V
  <2> QED
    BY <1>1, TaggedSize
<1>3. audit = SetToSeq(T)
  BY DEF AccessInit
<1>4. T \subseteq Events
  BY DEF Events, StatusAfter
<1>5. /\ audit \in Seq(T) /\ Len(audit) = Cardinality(V)
      /\ \A x \in T : \E i \in 1..Cardinality(V) : audit[i] = x
      /\ \A i, j \in 1..Cardinality(V) : audit[i] = audit[j] => i = j
  <2> HIDE DEF T, V
  <2> QED
    BY <1>2, <1>3, SeqOfSet
<1>6. audit \in Seq(Events) /\ Len(audit) <= MaxAudit /\ DOMAIN audit = 1..Cardinality(V) /\ \A i \in DOMAIN audit : audit[i] \in T
  <2> HIDE DEF T, V
  <2> QED
    BY <1>1, <1>4, <1>5, AccessConstants
<1> QED
  BY <1>5, <1>6

LEMMA ShapeInit == AccessInit => DeskShape
<1> SUFFICES ASSUME AccessInit PROVE DeskShape
  OBVIOUS
<1> USE AccessConstants
<1>1. audit \in Seq(Events) /\ Len(audit) <= MaxAudit
  BY FirstLog
<1>2. /\ scene \in Scenes /\ grants \in [Wallets -> Statuses] /\ email \in [Wallets -> BOOLEAN] /\ sent \in [Wallets -> BOOLEAN]
      /\ mails \in [Wallets -> Nat] /\ pending \in [Flows -> [Wallets -> Nat]]
      /\ cookie \in [Wallets -> Nat] /\ revokedDay \in [Wallets -> Nat] /\ day \in 1..MaxDay
      /\ \A w \in Wallets : cookie[w] <= day /\ revokedDay[w] <= day
  BY DEF AccessInit, Never, Statuses
<1>3. /\ issued \in Nat /\ keys \in Seq(KeyRec) /\ \A i \in DOMAIN keys : keys[i].ch \in 1..issued
      /\ session \in [Browsers -> Nat] /\ \A b \in Browsers : session[b] <= Len(keys)
  <2>1. CASE keys = <<>> /\ session = [b \in Browsers |-> 0] /\ issued = 0
    BY <2>1
  <2>2. CASE SignedIn
    <3> DEFINE n == Cardinality(Browsers)
               at == SetToSeq(Browsers)
    <3>1. PICK who \in [Browsers -> Wallets] :
            /\ keys = [i \in 1..n |-> Key(who[at[i]], i, "referral-dashboard")]
            /\ session = [b \in Browsers |-> CHOOSE i \in DOMAIN at : at[i] = b]
      BY <2>2 DEF SignedIn
    <3>2. issued = n /\ n \in Nat /\ at \in [1..n -> Browsers] /\ \A b \in Browsers : \E i \in 1..n : at[i] = b
      BY <2>2, SeqOfSet DEF SignedIn
    <3> HIDE DEF n, at
    <3>9. DOMAIN at = 1..n
      BY <3>2
    <3>3. \A b \in Browsers : session[b] \in 1..n
      <4> SUFFICES ASSUME NEW b \in Browsers PROVE session[b] \in 1..n
        OBVIOUS
      <4>1. session[b] = CHOOSE i \in DOMAIN at : at[i] = b
        BY <3>1
      <4>2. \E i \in DOMAIN at : at[i] = b
        BY <3>2, <3>9
      <4>3. (CHOOSE i \in DOMAIN at : at[i] = b) \in DOMAIN at
        BY <4>2
      <4> QED
        BY <3>9, <4>1, <4>3
    <3>4. \A i \in 1..n : keys[i] \in KeyRec /\ keys[i].ch = i
      BY <3>1, <3>2 DEF Key, KeyRec, Labels
    <3>5. keys \in [1..n -> KeyRec]
      BY <3>1, <3>4
    <3>6. keys \in Seq(KeyRec) /\ Len(keys) = n /\ DOMAIN keys = 1..n
      BY <3>2, <3>5
    <3>7. session = [b \in Browsers |-> session[b]] /\ \A b \in Browsers : session[b] \in Nat /\ session[b] <= n
      BY <3>1, <3>2, <3>3
    <3>8. \A i \in DOMAIN keys : keys[i].ch \in 1..issued
      <4> SUFFICES ASSUME NEW i \in DOMAIN keys PROVE keys[i].ch \in 1..issued
        OBVIOUS
      <4>1. i \in 1..n /\ keys[i].ch = i
        BY <3>4, <3>6
      <4> QED
        BY <3>2, <4>1
    <3> QED
      BY <3>2, <3>6, <3>7, <3>8
  <2> QED
    BY <2>1, <2>2 DEF AccessInit
<1>4. ReqShape
  <2>1. req = [b \in Browsers |-> Idle]
    BY DEF AccessInit
  <2> QED
    BY <1>3, <2>1, IdleOK DEF ReqShape
<1> QED
  <2>1. LedgerShape
    BY <1>1, <1>2 DEF LedgerShape
  <2>2. DayShape
    BY <1>2 DEF DayShape
  <2>3. KeyShape
    BY <1>2, <1>3 DEF KeyShape
  <2> QED
    BY <1>2, <1>4, <2>1, <2>2, <2>3 DEF DeskShape

-----------------------------------------------------------------------------
\* The invariant.  A challenge is worth one key: it is in one hand, be it a wallet that has not yet shown it,
\* a request past the check, or a key
InHand(w) == pending["key"][w]
Challenges ==
    /\ \A i, j \in DOMAIN keys : keys[i].ch = keys[j].ch => i = j
    /\ \A w \in Wallets : InHand(w) <= issued
    /\ \A w, v \in Wallets : InHand(w) = InHand(v) /\ InHand(w) # 0 => w = v
    /\ \A i \in DOMAIN keys, w \in Wallets : keys[i].ch # InHand(w)
    /\ \A b \in Browsers : req[b].pc \in Post =>
           /\ \A i \in DOMAIN keys : keys[i].ch # req[b].ch
           /\ \A w \in Wallets : InHand(w) # req[b].ch
    /\ \A b, c \in Browsers : req[b].pc \in Post /\ req[c].pc \in Post /\ req[b].ch = req[c].ch => b = c

\* A request past the count will add a key
Issuing(w) == {b \in Browsers : req[b].pc = "issue" /\ req[b].wallet = w}
KeyRoom == \A w \in Wallets :
    Cardinality(LiveKeys(w)) + Cardinality(Issuing(w)) <= MaxKeysPerOwner + Cardinality(Browsers) - 1

ApprovedOnce(w) == <<"approve", w>> \in Range(audit)
Entitled(w) == w \in AllowList \cup AdminWallets \/ ApprovedOnce(w)
Checked == {"verify"} \cup Post
Entitlement ==
    /\ \A w \in Wallets : grants[w] = "approved" => ApprovedOnce(w)
    /\ \A i \in DOMAIN keys : Entitled(keys[i].owner)
    /\ \A w \in Wallets : cookie[w] # Never => ApprovedOnce(w)
    /\ \A b \in Browsers : req[b].pc \in Checked => Entitled(req[b].wallet)
    /\ \A b \in Browsers : req[b].pc = "cookie" => ApprovedOnce(req[b].wallet)

\* Access withdrawn after the check is withdrawn on the day of the cookie
Ages ==
    /\ \A w \in Wallets : revokedDay[w] # Never => cookie[w] <= revokedDay[w] /\ grants[w] # "approved"
    /\ \A b \in Browsers : req[b].pc = "cookie" => revokedDay[req[b].wallet] \in {Never, day}

\* A request that will still mail w for a decision; each decision is owed one mail at most
Owes(r, w) == w \in r.todo /\ (r.pc \in {"mail", "send"} \/ (r.pc = "mark" /\ r.wallet # w))
Owing(w) == {b \in Browsers : Owes(req[b], w)}
Approvals(w) == {i \in DOMAIN audit : audit[i] = <<"approve", w>>}
Mails ==
    /\ \A w \in Wallets : mails[w] + Cardinality(Owing(w)) <= Cardinality(Approvals(w))
    /\ \A w \in Wallets : sent[w] => mails[w] > 0
    /\ \A b \in Browsers : req[b].pc = "mark" => mails[req[b].wallet] > 0

AccessInv == DeskShape /\ Challenges /\ KeyRoom /\ Entitlement /\ Ages /\ AuditTellsStatus /\ Mails

\* The counted sets are finite
LEMMA Counted ==
    ASSUME DeskShape, NEW w \in Wallets
    PROVE  /\ IsFiniteSet(LiveKeys(w)) /\ Cardinality(LiveKeys(w)) \in Nat
           /\ IsFiniteSet(Issuing(w)) /\ Cardinality(Issuing(w)) \in Nat /\ Cardinality(Issuing(w)) <= Cardinality(Browsers)
           /\ IsFiniteSet(Owing(w)) /\ Cardinality(Owing(w)) \in Nat
           /\ IsFiniteSet(Approvals(w)) /\ Cardinality(Approvals(w)) \in Nat
           /\ Cardinality(Browsers) \in Nat
<1>1. IsFiniteSet(1..Len(keys)) /\ IsFiniteSet(1..Len(audit)) /\ IsFiniteSet(Browsers)
  <2>1. Len(keys) \in Int /\ Len(audit) \in Int /\ 1 \in Int
    BY DEF DeskShape, LedgerShape, KeyShape
  <2> QED
    BY <2>1, FS_Interval, AccessConstants
<1>2. LiveKeys(w) \subseteq 1..Len(keys) /\ Approvals(w) \subseteq 1..Len(audit)
  BY DEF LiveKeys, Approvals, DeskShape, LedgerShape, KeyShape
<1>3. Issuing(w) \subseteq Browsers /\ Owing(w) \subseteq Browsers
  BY DEF Issuing, Owing
<1>4. IsFiniteSet(LiveKeys(w)) /\ IsFiniteSet(Approvals(w))
  BY <1>1, <1>2, FS_Subset
<1>5. IsFiniteSet(Issuing(w)) /\ IsFiniteSet(Owing(w)) /\ Cardinality(Issuing(w)) <= Cardinality(Browsers)
  BY <1>1, <1>3, FS_Subset
<1> QED
  BY <1>1, <1>4, <1>5, FS_CardinalityType

-----------------------------------------------------------------------------
\* What a step may do to the requests without the groups of the invariant noticing
QuietCh(q, r) == r.pc \in Post => q.pc \in Post /\ r.ch = q.ch
QuietRoom(q, r) == r.pc = "issue" => q.pc = "issue" /\ r.wallet = q.wallet
QuietEntry(q, r) ==
    /\ r.pc \in Checked => (q.pc \in Checked /\ r.wallet = q.wallet) \/ Entitled(r.wallet)
    /\ r.pc = "cookie" => (q.pc = "cookie" /\ r.wallet = q.wallet) \/ ApprovedOnce(r.wallet)
QuietAge(q, r) == r.pc = "cookie" => (q.pc = "cookie" /\ r.wallet = q.wallet) \/ revokedDay[r.wallet] = Never
QuietMail(q, r) ==
    /\ \A w \in Wallets : Owes(r, w) => Owes(q, w)
    /\ r.pc = "mark" => q.pc = "mark" /\ r.wallet = q.wallet

ChQuiet == \A b \in Browsers : QuietCh(req[b], req'[b])
RoomQuiet == \A b \in Browsers : QuietRoom(req[b], req'[b])
EntryQuiet == \A b \in Browsers : QuietEntry(req[b], req'[b])
AgeQuiet == \A b \in Browsers : QuietAge(req[b], req'[b])
MailQuiet == \A b \in Browsers : QuietMail(req[b], req'[b])

Moves(b, r) == req' = [req EXCEPT ![b] = r]

LEMMA Quietly ==
    ASSUME ReqShape, NEW b \in Browsers, NEW r, Moves(b, r)
    PROVE  /\ QuietCh(req[b], r) => ChQuiet
           /\ QuietRoom(req[b], r) => RoomQuiet
           /\ QuietEntry(req[b], r) => EntryQuiet
           /\ QuietAge(req[b], r) => AgeQuiet
           /\ QuietMail(req[b], r) => MailQuiet
<1>1. \A c \in Browsers : req'[c] = IF c = b THEN r ELSE req[c]
  BY DEF ReqShape, Moves
<1>2. \A q : QuietCh(q, q) /\ QuietRoom(q, q) /\ QuietEntry(q, q) /\ QuietAge(q, q) /\ QuietMail(q, q)
  BY DEF QuietCh, QuietRoom, QuietEntry, QuietAge, QuietMail
<1> QED
  BY <1>1, <1>2 DEF ChQuiet, RoomQuiet, EntryQuiet, AgeQuiet, MailQuiet

LEMMA NobodyMoves ==
    ASSUME req' = req
    PROVE  ChQuiet /\ RoomQuiet /\ EntryQuiet /\ AgeQuiet /\ MailQuiet
BY DEF ChQuiet, RoomQuiet, EntryQuiet, AgeQuiet, MailQuiet, QuietCh, QuietRoom, QuietEntry, QuietAge, QuietMail

LEMMA IdleIsQuiet ==
    \A q : QuietCh(q, Idle) /\ QuietRoom(q, Idle) /\ QuietEntry(q, Idle) /\ QuietAge(q, Idle) /\ QuietMail(q, Idle)
BY IdleOK DEF QuietCh, QuietRoom, QuietEntry, QuietAge, QuietMail, Post, Checked, Owes

\* Keys are never taken away nor change hands, and a revoked one stays revoked
KeysAge ==
    /\ keys' \in Seq(KeyRec) /\ Len(keys') = Len(keys)
    /\ \A i \in DOMAIN keys :
           keys'[i].ch = keys[i].ch /\ keys'[i].owner = keys[i].owner /\ (keys[i].revoked => keys'[i].revoked)
LogExtends ==
    /\ audit' \in Seq(Events) /\ Len(audit) <= Len(audit')
    /\ \A i \in DOMAIN audit : audit'[i] = audit[i]
PendingShrinks == issued <= issued' /\ \A w \in Wallets : InHand(w)' \in {0, InHand(w)}

LEMMA KeysStay ==
    ASSUME KeyShape, KeysAge
    PROVE  /\ DOMAIN keys' = DOMAIN keys
           /\ \A i \in DOMAIN keys : /\ keys'[i].ch = keys[i].ch /\ keys[i].ch \in Nat \ {0}
                                      /\ keys'[i].owner = keys[i].owner /\ (keys[i].revoked => keys'[i].revoked)
<1>1. DOMAIN keys = 1..Len(keys) /\ DOMAIN keys' = 1..Len(keys')
  BY DEF KeyShape, KeysAge
<1>2. \A i \in DOMAIN keys : keys[i].ch \in Nat \ {0}
  BY DEF KeyShape
<1>3. DOMAIN keys' = DOMAIN keys
  BY <1>1 DEF KeysAge
<1>4. \A i \in DOMAIN keys :
        keys'[i].ch = keys[i].ch /\ keys'[i].owner = keys[i].owner /\ (keys[i].revoked => keys'[i].revoked)
  BY DEF KeysAge
<1> QED
  BY <1>2, <1>3, <1>4

LEMMA ChallengesKeep ==
    ASSUME DeskShape, DeskShape', Challenges, KeysAge, PendingShrinks, ChQuiet
    PROVE  Challenges'
<1>1. DOMAIN keys' = DOMAIN keys /\ \A i \in DOMAIN keys : keys'[i].ch = keys[i].ch /\ keys[i].ch \in Nat \ {0}
  BY KeysStay DEF DeskShape
<1>2. issued \in Nat /\ issued' \in Nat /\ issued <= issued'
  BY DEF DeskShape, KeyShape, PendingShrinks
<1>3. \A w \in Wallets : InHand(w) \in Nat /\ InHand(w)' \in {0, InHand(w)}
  BY DEF DeskShape, KeyShape, PendingShrinks, InHand, Flows
<1>4. \A b \in Browsers : req'[b].pc \in Post => req[b].pc \in Post /\ req'[b].ch = req[b].ch /\ req[b].ch \in Nat \ {0}
  BY <1>2 DEF ChQuiet, QuietCh, DeskShape, ReqShape, ReqOK
<1>5. \A i, j \in DOMAIN keys' : keys'[i].ch = keys'[j].ch => i = j
  BY <1>1 DEF Challenges
<1>6. \A w \in Wallets : InHand(w)' <= issued'
  BY <1>2, <1>3 DEF Challenges
<1>7. \A w, v \in Wallets : InHand(w)' = InHand(v)' /\ InHand(w)' # 0 => w = v
  BY <1>3 DEF Challenges
<1>8. \A i \in DOMAIN keys', w \in Wallets : keys'[i].ch # InHand(w)'
  BY <1>1, <1>3 DEF Challenges
<1>9. ASSUME NEW b \in Browsers, req'[b].pc \in Post
      PROVE  /\ \A i \in DOMAIN keys' : keys'[i].ch # req'[b].ch
             /\ \A w \in Wallets : InHand(w)' # req'[b].ch
  BY <1>1, <1>3, <1>4, <1>9 DEF Challenges
<1>10. \A b, c \in Browsers : req'[b].pc \in Post /\ req'[c].pc \in Post /\ req'[b].ch = req'[c].ch => b = c
  BY <1>4 DEF Challenges
<1> QED
  BY <1>5, <1>6, <1>7, <1>8, <1>9, <1>10 DEF Challenges

LEMMA RoomKeeps ==
    ASSUME DeskShape, KeyRoom, KeysAge, RoomQuiet
    PROVE  KeyRoom'
<1> SUFFICES ASSUME NEW w \in Wallets
             PROVE  Cardinality(LiveKeys(w)') + Cardinality(Issuing(w)') <= MaxKeysPerOwner + Cardinality(Browsers) - 1
  BY DEF KeyRoom
<1>1. LiveKeys(w)' \subseteq LiveKeys(w)
  BY KeysStay DEF LiveKeys, Live, DeskShape
<1>2. Issuing(w)' \subseteq Issuing(w)
  BY DEF Issuing, RoomQuiet, QuietRoom
<1>3. /\ Cardinality(LiveKeys(w)') <= Cardinality(LiveKeys(w)) /\ Cardinality(LiveKeys(w)') \in Nat
      /\ Cardinality(Issuing(w)') <= Cardinality(Issuing(w)) /\ Cardinality(Issuing(w)') \in Nat
  BY <1>1, <1>2, Counted, FS_Subset, FS_CardinalityType
<1>4. Cardinality(LiveKeys(w)) + Cardinality(Issuing(w)) <= MaxKeysPerOwner + Cardinality(Browsers) - 1
  BY DEF KeyRoom
<1> QED
  BY <1>3, <1>4, Counted, AccessConstants

\* What the log held it holds
LEMMA LogMonotone ==
    ASSUME LedgerShape, LogExtends
    PROVE  \A w : (ApprovedOnce(w) => ApprovedOnce(w)') /\ (Entitled(w) => Entitled(w)') /\ Approvals(w) \subseteq Approvals(w)'
<1>1. DOMAIN audit \subseteq DOMAIN audit' /\ \A i \in DOMAIN audit : audit'[i] = audit[i]
  <2>1. DOMAIN audit = 1..Len(audit) /\ DOMAIN audit' = 1..Len(audit') /\ Len(audit) \in Nat /\ Len(audit') \in Nat
    BY DEF LedgerShape, LogExtends
  <2> QED
    BY <2>1 DEF LogExtends
<1> QED
  BY <1>1 DEF ApprovedOnce, Entitled, Approvals, Range

GrantsAsLogged == \A w \in Wallets : grants'[w] = "approved" => grants[w] = "approved" \/ ApprovedOnce(w)'
OwnersEntitled == \A i \in DOMAIN keys' : Entitled(keys'[i].owner)
CookiesEntitled == \A w \in Wallets : cookie'[w] # Never => cookie[w] # Never \/ ApprovedOnce(w)

LEMMA EntitlementKeeps ==
    ASSUME DeskShape, Entitlement, LogExtends, GrantsAsLogged, OwnersEntitled, CookiesEntitled, EntryQuiet
    PROVE  Entitlement'
<1>1. \A w : (ApprovedOnce(w) => ApprovedOnce(w)') /\ (Entitled(w) => Entitled(w)')
  BY LogMonotone DEF DeskShape
<1>2. \A w \in Wallets : grants'[w] = "approved" => ApprovedOnce(w)'
  BY <1>1 DEF Entitlement, GrantsAsLogged
<1>3. \A i \in DOMAIN keys' : Entitled(keys[i].owner)'
  <2> SUFFICES ASSUME NEW i \in DOMAIN keys' PROVE Entitled(keys[i].owner)'
    OBVIOUS
  <2>1. PICK o : o = keys'[i].owner
    OBVIOUS
  <2>2. Entitled(o)'
    BY <1>1, <2>1 DEF OwnersEntitled
  <2> QED
    BY <2>1, <2>2
<1>4. \A w \in Wallets : cookie'[w] # Never => ApprovedOnce(w)'
  BY <1>1 DEF Entitlement, CookiesEntitled
<1>5. ASSUME NEW b \in Browsers
      PROVE  /\ req'[b].pc \in Checked => Entitled(req[b].wallet)'
             /\ req'[b].pc = "cookie" => ApprovedOnce(req[b].wallet)'
  <2>1. PICK o : o = req'[b].wallet
    OBVIOUS
  <2>2. /\ req'[b].pc \in Checked => Entitled(o)
        /\ req'[b].pc = "cookie" => ApprovedOnce(o)
    BY <2>1 DEF EntryQuiet, QuietEntry, Entitlement
  <2>3. /\ req'[b].pc \in Checked => Entitled(o)'
        /\ req'[b].pc = "cookie" => ApprovedOnce(o)'
    BY <1>1, <2>2
  <2> QED
    BY <2>1, <2>3
<1> QED
  BY <1>2, <1>3, <1>4, <1>5 DEF Entitlement

LEMMA AgesKeep ==
    ASSUME Ages, UNCHANGED <<grants, revokedDay, cookie, day>>, AgeQuiet
    PROVE  Ages'
BY DEF Ages, AgeQuiet, QuietAge

LEMMA StatusKeeps ==
    ASSUME AuditTellsStatus, UNCHANGED <<grants, audit>>
    PROVE  AuditTellsStatus'
BY DEF AuditTellsStatus

SentKeeps == \A w \in Wallets : sent'[w] => sent[w] \/ mails[w] > 0
LEMMA MailsKeep ==
    ASSUME DeskShape, Mails, LogExtends, mails' = mails, SentKeeps, MailQuiet
    PROVE  Mails'
<1>1. ASSUME NEW w \in Wallets PROVE mails'[w] + Cardinality(Owing(w)') <= Cardinality(Approvals(w)')
  <2>1. Owing(w)' \subseteq Owing(w)
    BY DEF Owing, MailQuiet, QuietMail
  <2>2. Approvals(w) \subseteq Approvals(w)' /\ Approvals(w)' \subseteq 1..Len(audit') /\ Len(audit') \in Int
    BY LogMonotone DEF DeskShape, LogExtends, Approvals
  <2>3. IsFiniteSet(Approvals(w)')
    <3>1. 1 \in Int
      OBVIOUS
    <3> QED
      BY <2>2, <3>1, FS_Interval, FS_Subset
  <2>4. /\ Cardinality(Owing(w)') <= Cardinality(Owing(w)) /\ Cardinality(Owing(w)') \in Nat
        /\ Cardinality(Approvals(w)) <= Cardinality(Approvals(w)') /\ Cardinality(Approvals(w)') \in Nat
    BY <2>1, <2>2, <2>3, Counted, FS_Subset, FS_CardinalityType
  <2>5. mails[w] + Cardinality(Owing(w)) <= Cardinality(Approvals(w)) /\ mails[w] \in Nat
    BY DEF Mails, DeskShape, LedgerShape
  <2> QED
    BY <2>4, <2>5, Counted
<1>2. \A w \in Wallets : sent'[w] => mails'[w] > 0
  BY DEF Mails, SentKeeps
<1>3. \A b \in Browsers : req'[b].pc = "mark" => mails'[req'[b].wallet] > 0
  BY DEF Mails, MailQuiet, QuietMail
<1> QED
  BY <1>1, <1>2, <1>3 DEF Mails

\* A step of the keys and the requests alone
LEMMA DeskRests ==
    ASSUME AccessInv, DeskShape', UNCHANGED <<grantVars, cookie, day>>, KeysAge, PendingShrinks,
           ChQuiet, RoomQuiet, EntryQuiet, AgeQuiet, MailQuiet
    PROVE  AccessInv'
<1>1. UNCHANGED <<grants, email, sent, mails, audit, revokedDay, cookie, day>>
  BY DEF grantVars
<1>2. LogExtends /\ GrantsAsLogged /\ CookiesEntitled /\ SentKeeps
  BY <1>1 DEF AccessInv, DeskShape, LedgerShape, LogExtends, GrantsAsLogged, CookiesEntitled, SentKeeps
<1>3. OwnersEntitled
  BY KeysStay DEF AccessInv, DeskShape, OwnersEntitled, Entitlement
<1> QED
  BY <1>1, <1>2, <1>3, ChallengesKeep, RoomKeeps, EntitlementKeeps, AgesKeep, StatusKeeps, MailsKeep DEF AccessInv

LEMMA KeysRest ==
    ASSUME DeskShape, keys' = keys
    PROVE  KeysAge
BY DEF DeskShape, KeyShape, KeysAge

LEMMA HandsRest ==
    ASSUME DeskShape, pending' = pending, issued' = issued
    PROVE  PendingShrinks
BY DEF DeskShape, KeyShape, PendingShrinks, InHand

\* A request moves on, and nothing of the shape beside
LEMMA ShapeOfMove ==
    ASSUME DeskShape, scene' = scene, UNCHANGED <<grantVars, pending, issued, keyVars, cookie, day>>,
           NEW b \in Browsers, NEW r, Moves(b, r), ReqOK(r, issued)
    PROVE  DeskShape'
<1>1. UNCHANGED <<grants, email, sent, mails, audit, revokedDay, pending, issued, keys, session, cookie, day>>
  BY DEF grantVars, keyVars
<1>2. LedgerShape' /\ DayShape' /\ KeyShape'
  BY <1>1 DEF DeskShape, LedgerShape, DayShape, KeyShape
<1>3. ReqShape'
  <2>1. issued \in Nat /\ issued' \in Nat /\ issued <= issued' /\ ReqOK(r, issued')
    BY <1>1 DEF DeskShape, KeyShape
  <2> QED
    BY <2>1, ReqMoves DEF DeskShape, Moves
<1> QED
  BY <1>2, <1>3 DEF DeskShape

LEMMA JustMoves ==
    ASSUME AccessInv, scene' = scene, UNCHANGED <<grantVars, pending, issued, keyVars, cookie, day>>,
           NEW b \in Browsers, NEW r, Moves(b, r), ReqOK(r, issued),
           QuietCh(req[b], r), QuietRoom(req[b], r), QuietEntry(req[b], r), QuietAge(req[b], r), QuietMail(req[b], r)
    PROVE  AccessInv'
<1>1. DeskShape /\ DeskShape' /\ ReqShape
  BY ShapeOfMove DEF AccessInv, DeskShape
<1>2. UNCHANGED <<keys, pending, issued>>
  BY DEF keyVars
<1>3. ChQuiet /\ RoomQuiet /\ EntryQuiet /\ AgeQuiet /\ MailQuiet
  BY <1>1, Quietly
<1> QED
  BY <1>1, <1>2, <1>3, KeysRest, HandsRest, DeskRests

\* What a step of a program counter leaves of the request
LEMMA GotoMoves ==
    ASSUME ReqShape, NEW b \in Browsers, NEW pc, Goto(b, pc)
    PROVE  \E r : /\ Moves(b, r) /\ DOMAIN r = {"pc", "wallet", "ch", "label", "todo"} /\ r.pc = pc /\ r.wallet = req[b].wallet
                  /\ r.ch = req[b].ch /\ r.label = req[b].label /\ r.todo = req[b].todo
<1> DEFINE r == [req[b] EXCEPT !.pc = pc]
<1>1. Moves(b, r)
  BY DEF Moves, Goto
<1>2. /\ DOMAIN r = {"pc", "wallet", "ch", "label", "todo"} /\ r.pc = pc /\ r.wallet = req[b].wallet
      /\ r.ch = req[b].ch /\ r.label = req[b].label /\ r.todo = req[b].todo
  BY DEF ReqShape, ReqOK
<1> QED
  BY <1>1, <1>2

LEMMA FinishMoves ==
    ASSUME NEW b \in Browsers, Finish(b)
    PROVE  Moves(b, Idle)
BY DEF Finish, Moves

\* A request that ends
LEMMA JustEnds ==
    ASSUME AccessInv, scene' = scene, UNCHANGED <<grantVars, pending, issued, keyVars, cookie, day>>,
           NEW b \in Browsers, Moves(b, Idle)
    PROVE  AccessInv'
<1>1. issued \in Nat
  BY DEF AccessInv, DeskShape, KeyShape
<1> QED
  BY <1>1, JustMoves, IdleOK, IdleIsQuiet

-----------------------------------------------------------------------------
LEMMA AcPostedAgain ==
    ASSUME AccessInv, scene' = scene, NEW b \in Browsers, NEW c \in Browsers, PostedAgain(b, c)
    PROVE  AccessInv'
<1> DEFINE r == [req[c] EXCEPT !.pc = "key"]
<1>1. Moves(b, r) /\ ReqOK(req[c], issued) /\ req[c].pc = "verify"
      /\ UNCHANGED <<grantVars, pending, issued, keyVars, cookie, day>>
  BY DEF PostedAgain, Moves, AccessInv, DeskShape, ReqShape
<1>2. ReqOK(r, issued) /\ r.pc = "key"
  BY <1>1 DEF ReqOK, Pcs, Post
<1> HIDE DEF r
<1>3. QuietCh(req[b], r) /\ QuietRoom(req[b], r) /\ QuietEntry(req[b], r) /\ QuietAge(req[b], r) /\ QuietMail(req[b], r)
  BY <1>2 DEF QuietCh, QuietRoom, QuietEntry, QuietAge, QuietMail, Post, Checked, Owes
<1> QED
  BY <1>1, <1>2, <1>3, JustMoves

LEMMA AcBetaGate ==
    ASSUME AccessInv, scene' = scene, NEW b \in Browsers, BetaGate(b)
    PROVE  AccessInv'
<1>1. req[b].pc = "key" /\ UNCHANGED <<grantVars, pending, issued, keyVars, cookie, day>> /\ ReqShape /\ ReqOK(req[b], issued)
  BY DEF BetaGate, AccessInv, DeskShape, ReqShape
<1>2. CASE ~InBeta(req[b].wallet)
  BY <1>1, <1>2, FinishMoves, JustEnds DEF BetaGate
<1>3. CASE InBeta(req[b].wallet)
  <2>1. PICK r : /\ Moves(b, r) /\ DOMAIN r = {"pc", "wallet", "ch", "label", "todo"} /\ r.pc = "verify" /\ r.wallet = req[b].wallet
                 /\ r.ch = req[b].ch /\ r.label = req[b].label /\ r.todo = req[b].todo
    <3>1. Goto(b, "verify")
      BY <1>3 DEF BetaGate
    <3> QED
      BY <1>1, <3>1, GotoMoves
  <2>2. ReqOK(r, issued) /\ r.wallet \in Wallets
    BY <1>1, <2>1 DEF ReqOK, Pcs, Post
  <2>3. Entitled(r.wallet)
    BY <1>3, <2>1, <2>2 DEF InBeta, IsApproved, Entitled, AccessInv, Entitlement
  <2>4. QuietCh(req[b], r) /\ QuietRoom(req[b], r) /\ QuietEntry(req[b], r) /\ QuietAge(req[b], r) /\ QuietMail(req[b], r)
    BY <2>1, <2>3 DEF QuietCh, QuietRoom, QuietEntry, QuietAge, QuietMail, Post, Checked, Owes
  <2> QED
    BY <1>1, <2>1, <2>2, <2>4, JustMoves
<1> QED
  BY <1>2, <1>3

-----------------------------------------------------------------------------
\* A step of the keys and the requests of which the challenges and the room under the cap are shown apart
LEMMA RestKeeps ==
    ASSUME AccessInv, DeskShape', UNCHANGED <<grantVars, cookie, day>>, Challenges', KeyRoom', OwnersEntitled,
           EntryQuiet, AgeQuiet, MailQuiet
    PROVE  AccessInv'
<1>1. UNCHANGED <<grants, email, sent, mails, audit, revokedDay, cookie, day>>
  BY DEF grantVars
<1>2. LogExtends /\ GrantsAsLogged /\ CookiesEntitled /\ SentKeeps
  BY <1>1 DEF AccessInv, DeskShape, LedgerShape, LogExtends, GrantsAsLogged, CookiesEntitled, SentKeeps
<1> QED
  BY <1>1, <1>2, EntitlementKeeps, AgesKeep, StatusKeeps, MailsKeep DEF AccessInv

LEMMA OwnersStay ==
    ASSUME AccessInv, KeysAge
    PROVE  OwnersEntitled
BY KeysStay DEF AccessInv, DeskShape, OwnersEntitled, Entitlement

\* The shape after a step of the keys, the challenges and the requests
LEMMA ShapeOfKeys ==
    ASSUME DeskShape, scene' = scene, UNCHANGED <<grantVars, cookie, day>>, KeyShape', ReqShape'
    PROVE  DeskShape'
<1>1. UNCHANGED <<grants, email, sent, mails, audit, revokedDay, cookie, day>>
  BY DEF grantVars
<1> QED
  BY <1>1 DEF DeskShape, LedgerShape, DayShape

\* A challenge is taken out of a wallet's hand
LEMMA HandOpens ==
    ASSUME DeskShape, NEW f \in Flows, NEW w \in Wallets, pending' = [pending EXCEPT ![f][w] = 0],
           issued' = issued, UNCHANGED keyVars
    PROVE  /\ KeyShape' /\ PendingShrinks /\ KeysAge
           /\ \A v \in Wallets : InHand(v)' = IF f = "key" /\ v = w THEN 0 ELSE InHand(v)
<1>1. /\ keys' = keys /\ session' = session /\ issued \in Nat
      /\ pending \in [Flows -> [Wallets -> Nat]]
  BY DEF DeskShape, KeyShape, keyVars
<1>2. pending' \in [Flows -> [Wallets -> Nat]]
  BY <1>1
<1>3. \A v \in Wallets : InHand(v)' = IF f = "key" /\ v = w THEN 0 ELSE InHand(v)
  BY <1>1 DEF InHand, Flows
<1>4. KeyShape'
  BY <1>1, <1>2 DEF DeskShape, KeyShape
<1>5. PendingShrinks
  BY <1>1, <1>3 DEF PendingShrinks
<1> QED
  BY <1>1, <1>3, <1>4, <1>5, KeysRest

LEMMA AcExpire ==
    ASSUME AccessInv, scene' = scene, NEW f \in Flows, NEW w \in Wallets, Expire(f, w)
    PROVE  AccessInv'
<1>1. DeskShape /\ ReqShape /\ issued \in Nat /\ req' = req /\ issued' = issued /\ UNCHANGED <<grantVars, cookie, day>>
  BY DEF AccessInv, DeskShape, KeyShape, Expire
<1>2. KeyShape' /\ PendingShrinks /\ KeysAge
  BY <1>1, HandOpens DEF Expire
<1>3. ReqShape'
  BY <1>1, ReqStays
<1>4. DeskShape'
  BY <1>1, <1>2, <1>3, ShapeOfKeys
<1> QED
  BY <1>1, <1>2, <1>4, NobodyMoves, DeskRests

\* A request whose proof does not fit ends, its wallet's challenge spent
LEMMA ProofSpent ==
    ASSUME AccessInv, scene' = scene, NEW f \in Flows, NEW b \in Browsers, NEW w \in Wallets, Verify(f, w),
           UNCHANGED <<grantVars, issued, keyVars, cookie, day>>, Moves(b, Idle)
    PROVE  AccessInv'
<1>1. DeskShape /\ ReqShape /\ issued \in Nat /\ issued' = issued /\ UNCHANGED <<grantVars, cookie, day>> /\ UNCHANGED keyVars
  BY DEF AccessInv, DeskShape, KeyShape
<1>2. KeyShape' /\ PendingShrinks /\ KeysAge
  BY <1>1, HandOpens DEF Verify
<1>3. ReqShape'
  <2>1. issued' \in Nat /\ issued <= issued' /\ ReqOK(Idle, issued') /\ req' = [req EXCEPT ![b] = Idle]
    BY <1>1, IdleOK DEF Moves
  <2> QED
    BY <1>1, <2>1, ReqMoves
<1>4. DeskShape'
  BY <1>1, <1>2, <1>3, ShapeOfKeys
<1>5. ChQuiet /\ RoomQuiet /\ EntryQuiet /\ AgeQuiet /\ MailQuiet
  BY <1>1, IdleIsQuiet, Quietly
<1> QED
  BY <1>1, <1>2, <1>4, <1>5, DeskRests

LEMMA AcVerifyUnlockProof ==
    ASSUME AccessInv, scene' = scene, NEW b \in Browsers, VerifyUnlockProof(b)
    PROVE  AccessInv'
<1> DEFINE w == req[b].wallet
<1>1. /\ DeskShape /\ ReqShape /\ issued \in Nat /\ issued' = issued /\ UNCHANGED <<grantVars, cookie, day>> /\ UNCHANGED keyVars
      /\ req[b].pc = "unlock" /\ Verify("unlock", w) /\ ReqOK(req[b], issued)
  BY DEF AccessInv, DeskShape, KeyShape, ReqShape, VerifyUnlockProof
<1>2. w \in Wallets /\ "unlock" \in Flows
  BY <1>1 DEF ReqOK, Flows
<1>3. CASE ~ProofFits("unlock", w, req[b].ch)
  <2>1. Moves(b, Idle)
    BY <1>3, FinishMoves DEF VerifyUnlockProof
  <2> QED
    BY <1>1, <1>2, <2>1, ProofSpent
<1>4. CASE ProofFits("unlock", w, req[b].ch)
  <2>1. PICK r : /\ Moves(b, r) /\ DOMAIN r = {"pc", "wallet", "ch", "label", "todo"} /\ r.pc = "approved?" /\ r.wallet = req[b].wallet
                 /\ r.ch = req[b].ch /\ r.label = req[b].label /\ r.todo = req[b].todo
    <3>1. Goto(b, "approved?")
      BY <1>4 DEF VerifyUnlockProof
    <3> QED
      BY <1>1, <3>1, GotoMoves
  <2>2. ReqOK(r, issued)
    BY <1>1, <2>1 DEF ReqOK, Pcs, Post
  <2>3. QuietCh(req[b], r) /\ QuietRoom(req[b], r) /\ QuietEntry(req[b], r) /\ QuietAge(req[b], r) /\ QuietMail(req[b], r)
    BY <2>1 DEF QuietCh, QuietRoom, QuietEntry, QuietAge, QuietMail, Post, Checked, Owes
  <2>4. KeyShape' /\ PendingShrinks /\ KeysAge
    BY <1>1, <1>2, HandOpens DEF Verify
  <2>5. ReqShape'
    <3>1. issued' \in Nat /\ issued <= issued' /\ ReqOK(r, issued') /\ req' = [req EXCEPT ![b] = r]
      BY <1>1, <2>1, <2>2 DEF Moves
    <3> QED
      BY <1>1, <3>1, ReqMoves
  <2>6. DeskShape'
    BY <1>1, <2>4, <2>5, ShapeOfKeys
  <2>7. ChQuiet /\ RoomQuiet /\ EntryQuiet /\ AgeQuiet /\ MailQuiet
    BY <1>1, <2>1, <2>3, Quietly
  <2> QED
    BY <1>1, <2>4, <2>6, <2>7, DeskRests
<1> QED
  BY <1>3, <1>4

\* The proof fits: the challenge passes from the wallet to the request
LEMMA AcVerifyKeyProof ==
    ASSUME AccessInv, scene' = scene, NEW b \in Browsers, VerifyKeyProof(b)
    PROVE  AccessInv'
<1> DEFINE w == req[b].wallet
<1>1. /\ DeskShape /\ ReqShape /\ issued \in Nat /\ issued' = issued /\ UNCHANGED <<grantVars, cookie, day>> /\ UNCHANGED keyVars
      /\ req[b].pc = "verify" /\ Verify("key", w) /\ ReqOK(req[b], issued) /\ Challenges /\ KeyRoom
  BY DEF AccessInv, DeskShape, KeyShape, ReqShape, VerifyKeyProof
<1>2. w \in Wallets /\ "key" \in Flows /\ req[b].ch \in Nat \ {0}
  BY <1>1 DEF ReqOK, Flows, Post
<1>3. CASE ~ProofFits("key", w, req[b].ch)
  <2>1. Moves(b, Idle)
    BY <1>3, FinishMoves DEF VerifyKeyProof
  <2> QED
    BY <1>1, <1>2, <2>1, ProofSpent
<1>4. CASE ProofFits("key", w, req[b].ch)
  <2>1. PICK pc \in {"retire", "count"} : Goto(b, pc)
    BY <1>4 DEF VerifyKeyProof
  <2>2. PICK r : /\ Moves(b, r) /\ DOMAIN r = {"pc", "wallet", "ch", "label", "todo"} /\ r.pc = pc /\ r.wallet = req[b].wallet
                 /\ r.ch = req[b].ch /\ r.label = req[b].label /\ r.todo = req[b].todo
    BY <1>1, <2>1, GotoMoves
  <2>3. ReqOK(r, issued)
    BY <1>1, <2>1, <2>2 DEF ReqOK, Pcs, Post
  <2>4. QuietRoom(req[b], r) /\ QuietEntry(req[b], r) /\ QuietAge(req[b], r) /\ QuietMail(req[b], r)
    BY <1>1, <2>1, <2>2 DEF QuietRoom, QuietEntry, QuietAge, QuietMail, Post, Checked, Owes
  <2>5. /\ KeyShape' /\ KeysAge
        /\ \A v \in Wallets : InHand(v)' = IF v = w THEN 0 ELSE InHand(v)
    BY <1>1, <1>2, HandOpens DEF Verify
  <2>6. ReqShape'
    <3>1. issued' \in Nat /\ issued <= issued' /\ ReqOK(r, issued') /\ req' = [req EXCEPT ![b] = r]
      BY <1>1, <2>2, <2>3 DEF Moves
    <3> QED
      BY <1>1, <3>1, ReqMoves
  <2>7. DeskShape'
    BY <1>1, <2>5, <2>6, ShapeOfKeys
  <2>8. RoomQuiet /\ EntryQuiet /\ AgeQuiet /\ MailQuiet
    BY <1>1, <2>2, <2>4, Quietly
  <2>9. Challenges'
    <3>1. InHand(w) = req[b].ch /\ keys' = keys /\ \A v \in Wallets : InHand(v) \in Nat
      BY <1>1, <1>4 DEF ProofFits, InHand, keyVars, DeskShape, KeyShape, Flows
    <3>2. \A c \in Browsers : req'[c] = IF c = b THEN r ELSE req[c]
      BY <1>1, <2>2 DEF Moves, ReqShape
    <3>3. \A i \in DOMAIN keys : keys[i].ch \in Nat \ {0} /\ keys[i].ch # req[b].ch
      BY <1>1, <1>2, <3>1 DEF DeskShape, KeyShape, Challenges
    <3>4. \A v \in Wallets : InHand(v)' # req[b].ch /\ InHand(v)' \in {0, InHand(v)}
      BY <1>1, <1>2, <2>5, <3>1 DEF Challenges
    <3>5. \A c \in Browsers : req[c].pc \in Post => req[c].ch # req[b].ch /\ req[c].ch \in Nat \ {0}
      BY <1>1, <1>2, <3>1 DEF Challenges, ReqShape, ReqOK
    <3>6. \A i, j \in DOMAIN keys' : keys'[i].ch = keys'[j].ch => i = j
      BY <1>1, <3>1 DEF Challenges
    <3>7. \A v \in Wallets : InHand(v)' <= issued'
      BY <1>1, <3>4 DEF Challenges
    <3>8. \A u, v \in Wallets : InHand(u)' = InHand(v)' /\ InHand(u)' # 0 => u = v
      BY <1>1, <3>4 DEF Challenges
    <3>9. \A i \in DOMAIN keys', v \in Wallets : keys'[i].ch # InHand(v)'
      BY <1>1, <3>1, <3>3, <3>4 DEF Challenges
    <3>10. ASSUME NEW c \in Browsers, req'[c].pc \in Post
           PROVE  /\ \A i \in DOMAIN keys' : keys'[i].ch # req'[c].ch
                  /\ \A v \in Wallets : InHand(v)' # req'[c].ch
      <4>1. CASE c = b
        BY <2>2, <3>1, <3>2, <3>3, <3>4, <4>1
      <4>2. CASE c # b
        <5>1. req'[c] = req[c] /\ req[c].pc \in Post
          BY <3>2, <3>10, <4>2
        <5> QED
          BY <1>1, <3>1, <3>4, <3>5, <5>1 DEF Challenges
      <4> QED
        BY <4>1, <4>2
    <3>11. \A c, d \in Browsers : req'[c].pc \in Post /\ req'[d].pc \in Post /\ req'[c].ch = req'[d].ch => c = d
      BY <1>1, <2>2, <3>2, <3>5 DEF Challenges
    <3> QED
      BY <3>6, <3>7, <3>8, <3>9, <3>10, <3>11 DEF Challenges
  <2> QED
    BY <1>1, <2>5, <2>7, <2>8, <2>9, RoomKeeps, OwnersStay, RestKeeps
<1> QED
  BY <1>3, <1>4

\* A fresh challenge: newer than any that was issued
LEMMA AcSignChallenge ==
    ASSUME AccessInv, scene' = scene, NEW b \in Browsers, NEW f \in Flows, NEW w \in Wallets, NEW label \in Labels,
           SignChallenge(b, f, w, label)
    PROVE  AccessInv'
<1> DEFINE r == [Idle EXCEPT !.pc = f, !.wallet = w, !.ch = issued + 1, !.label = label]
<1>1. /\ DeskShape /\ ReqShape /\ KeyShape /\ Challenges /\ KeyRoom /\ issued \in Nat /\ issued' = issued + 1
      /\ UNCHANGED <<grantVars, cookie, day>> /\ keys' = keys /\ session' = session
      /\ pending' = [pending EXCEPT ![f][w] = issued + 1] /\ Moves(b, r)
  BY DEF AccessInv, DeskShape, KeyShape, SignChallenge, IssueChallenge, Moves, keyVars
<1>2. ReqOK(r, issued') /\ r.pc = f /\ r.todo = {}
  BY <1>1 DEF ReqOK, Idle, Flows, Pcs, Post
<1> HIDE DEF r
<1>3. QuietCh(req[b], r) /\ QuietRoom(req[b], r) /\ QuietEntry(req[b], r) /\ QuietAge(req[b], r) /\ QuietMail(req[b], r)
  BY <1>2 DEF QuietCh, QuietRoom, QuietEntry, QuietAge, QuietMail, Post, Checked, Owes, Flows
<1>4. \A v \in Wallets : InHand(v)' = (IF f = "key" /\ v = w THEN issued + 1 ELSE InHand(v)) /\ InHand(v) \in Nat
  BY <1>1 DEF InHand, Flows, KeyShape
<1>5. KeyShape'
  <2>1. pending' \in [Flows -> [Wallets -> Nat]]
    BY <1>1 DEF KeyShape
  <2>2. \A i \in DOMAIN keys' : keys'[i].ch \in 1..issued'
    BY <1>1 DEF KeyShape
  <2>3. issued' \in Nat
    BY <1>1
  <2> QED
    BY <1>1, <2>1, <2>2, <2>3 DEF KeyShape
<1>6. ReqShape'
  <2>1. issued' \in Nat /\ issued <= issued' /\ req' = [req EXCEPT ![b] = r]
    BY <1>1 DEF Moves
  <2> QED
    BY <1>1, <1>2, <2>1, ReqMoves
<1>7. DeskShape'
  BY <1>1, <1>5, <1>6, ShapeOfKeys
<1>8. ChQuiet /\ RoomQuiet /\ EntryQuiet /\ AgeQuiet /\ MailQuiet
  BY <1>1, <1>3, Quietly
<1>9. KeysAge
  BY <1>1, KeysRest
<1>10. Challenges'
  <2>1. \A i \in DOMAIN keys : keys[i].ch \in Nat /\ keys[i].ch # issued + 1
    BY <1>1 DEF KeyShape
  <2>2. \A v \in Wallets : InHand(v) <= issued
    BY <1>1 DEF Challenges
  <2>3. \A c \in Browsers : req'[c].pc \in Post =>
          req[c].pc \in Post /\ req'[c].ch = req[c].ch /\ req[c].ch \in Nat \ {0} /\ req[c].ch # issued + 1
    <3> SUFFICES ASSUME NEW c \in Browsers, req'[c].pc \in Post
                 PROVE  req[c].pc \in Post /\ req'[c].ch = req[c].ch /\ req[c].ch \in Nat \ {0} /\ req[c].ch # issued + 1
      OBVIOUS
    <3>1. req[c].pc \in Post /\ req'[c].ch = req[c].ch
      BY <1>8 DEF ChQuiet, QuietCh
    <3>2. req[c].ch \in 1..issued
      BY <1>1, <3>1 DEF ReqShape, ReqOK
    <3> QED
      BY <1>1, <3>1, <3>2
  <2>4. \A i, j \in DOMAIN keys' : keys'[i].ch = keys'[j].ch => i = j
    BY <1>1 DEF Challenges
  <2>5. \A v \in Wallets : InHand(v)' <= issued'
    BY <1>1, <1>4, <2>2
  <2>6. \A u, v \in Wallets : InHand(u)' = InHand(v)' /\ InHand(u)' # 0 => u = v
    <3> SUFFICES ASSUME NEW u \in Wallets, NEW v \in Wallets, InHand(u)' = InHand(v)', InHand(u)' # 0, u # v
                 PROVE  FALSE
      OBVIOUS
    <3>1. InHand(u) = InHand(v) /\ InHand(u) # 0
      BY <1>1, <1>4, <2>2
    <3> QED
      BY <1>1, <3>1 DEF Challenges
  <2>7. \A i \in DOMAIN keys', v \in Wallets : keys'[i].ch # InHand(v)'
    BY <1>1, <1>4, <2>1 DEF Challenges
  <2>8. ASSUME NEW c \in Browsers, req'[c].pc \in Post
        PROVE  /\ \A i \in DOMAIN keys' : keys'[i].ch # req'[c].ch
               /\ \A v \in Wallets : InHand(v)' # req'[c].ch
    BY <1>1, <1>4, <2>3, <2>8 DEF Challenges
  <2>9. \A c, d \in Browsers : req'[c].pc \in Post /\ req'[d].pc \in Post /\ req'[c].ch = req'[d].ch => c = d
    BY <1>1, <2>3 DEF Challenges
  <2> QED
    BY <2>4, <2>5, <2>6, <2>7, <2>8, <2>9 DEF Challenges
<1> QED
  BY <1>1, <1>7, <1>8, <1>9, <1>10, RoomKeeps, OwnersStay, RestKeeps

\* Keys are revoked
LEMMA KeysOnlyRevoked ==
    ASSUME AccessInv, scene' = scene, KeysAge, session' \in [Browsers -> Nat],
           \A b \in Browsers : session'[b] <= Len(keys),
           UNCHANGED <<grantVars, cookie, day>>, UNCHANGED <<pending, issued>>, ReqShape',
           ChQuiet, RoomQuiet, EntryQuiet, AgeQuiet, MailQuiet
    PROVE  AccessInv'
<1>1. DeskShape /\ KeyShape
  BY DEF AccessInv, DeskShape
<1>2. KeyShape'
  <2>1. DOMAIN keys' = DOMAIN keys /\ \A i \in DOMAIN keys : keys'[i].ch = keys[i].ch
    BY <1>1, KeysStay
  <2>2. \A i \in DOMAIN keys' : keys'[i].ch \in 1..issued'
    BY <1>1, <2>1 DEF KeyShape
  <2>3. keys' \in Seq(KeyRec) /\ Len(keys') = Len(keys)
    BY DEF KeysAge
  <2> QED
    BY <1>1, <2>2, <2>3 DEF KeyShape
<1>3. DeskShape'
  BY <1>1, <1>2, ShapeOfKeys
<1> QED
  BY <1>1, <1>3, HandsRest, DeskRests

\* Revoking one key
LEMMA OneRevoked ==
    ASSUME KeyShape, NEW i \in DOMAIN keys, keys' = [keys EXCEPT ![i].revoked = TRUE]
    PROVE  KeysAge
<1>1. keys' \in Seq(KeyRec) /\ Len(keys') = Len(keys)
  <2>1. keys \in [1..Len(keys) -> KeyRec] /\ Len(keys) \in Nat /\ i \in 1..Len(keys)
    BY DEF KeyShape
  <2>2. [keys[i] EXCEPT !.revoked = TRUE] \in KeyRec
    BY <2>1 DEF KeyRec
  <2>3. keys' \in [1..Len(keys) -> KeyRec]
    BY <2>1, <2>2
  <2> QED
    BY <2>1, <2>3
<1>2. \A j \in DOMAIN keys : /\ keys'[j].ch = keys[j].ch /\ keys'[j].owner = keys[j].owner
                             /\ (keys[j].revoked => keys'[j].revoked)
  <2> SUFFICES ASSUME NEW j \in DOMAIN keys
               PROVE  /\ keys'[j].ch = keys[j].ch /\ keys'[j].owner = keys[j].owner
                      /\ (keys[j].revoked => keys'[j].revoked)
    OBVIOUS
  <2>1. keys[j] \in KeyRec
    BY DEF KeyShape
  <2>2. keys'[j] = IF j = i THEN [keys[j] EXCEPT !.revoked = TRUE] ELSE keys[j]
    BY DEF KeyShape
  <2> QED
    BY <2>1, <2>2 DEF KeyRec
<1> QED
  BY <1>1, <1>2 DEF KeysAge

LEMMA AcRevoke ==
    ASSUME AccessInv, scene' = scene, NEW b \in Browsers, NEW i \in DOMAIN keys, Revoke(b, i)
    PROVE  AccessInv'
<1>1. /\ ReqShape /\ KeyShape /\ session' = session /\ req' = req /\ UNCHANGED <<pending, issued>>
      /\ UNCHANGED <<grantVars, cookie, day>> /\ keys' = [keys EXCEPT ![i].revoked = TRUE]
  BY DEF AccessInv, DeskShape, Revoke
<1>2. KeysAge
  BY <1>1, OneRevoked
<1>3. ReqShape' /\ session' \in [Browsers -> Nat] /\ \A c \in Browsers : session'[c] <= Len(keys)
  BY <1>1, ReqStays DEF KeyShape
<1> QED
  BY <1>1, <1>2, <1>3, NobodyMoves, KeysOnlyRevoked

LEMMA AcSignOutAndRevoke ==
    ASSUME AccessInv, scene' = scene, NEW b \in Browsers, SignOutAndRevoke(b)
    PROVE  AccessInv'
<1>1. /\ ReqShape /\ KeyShape /\ DeskShape /\ session' = [session EXCEPT ![b] = 0] /\ req' = req /\ UNCHANGED <<pending, issued>>
      /\ UNCHANGED <<grantVars, cookie, day>> /\ keys' \in {keys, [keys EXCEPT ![session[b]].revoked = TRUE]} /\ session[b] # 0
  BY DEF AccessInv, DeskShape, SignOutAndRevoke
<1>2. session[b] \in DOMAIN keys
  BY <1>1 DEF KeyShape
<1>3. KeysAge
  BY <1>1, <1>2, OneRevoked, KeysRest
<1>4. ReqShape' /\ session' \in [Browsers -> Nat] /\ \A c \in Browsers : session'[c] <= Len(keys)
  BY <1>1, ReqStays DEF KeyShape
<1> QED
  BY <1>1, <1>3, <1>4, NobodyMoves, KeysOnlyRevoked

LEMMA AcRevokeAllWithLabel ==
    ASSUME AccessInv, scene' = scene, NEW b \in Browsers, RevokeAllWithLabel(b)
    PROVE  AccessInv'
<1>1. /\ ReqShape /\ KeyShape /\ session' = session /\ UNCHANGED <<pending, issued>> /\ issued \in Nat
      /\ UNCHANGED <<grantVars, cookie, day>> /\ req[b].pc = "retire" /\ ReqOK(req[b], issued) /\ Goto(b, "count")
  BY DEF AccessInv, DeskShape, KeyShape, ReqShape, RevokeAllWithLabel
<1>2. keys' = [i \in DOMAIN keys |->
                  IF keys[i].owner = req[b].wallet /\ keys[i].label = req[b].label
                  THEN [keys[i] EXCEPT !.revoked = TRUE] ELSE keys[i]]
  BY DEF RevokeAllWithLabel
<1>3. KeysAge
  <2>1. DOMAIN keys = 1..Len(keys) /\ Len(keys) \in Nat /\ \A i \in DOMAIN keys : keys[i] \in KeyRec
    BY <1>1, SeqFacts DEF KeyShape
  <2>2. \A i \in DOMAIN keys : /\ keys'[i] \in KeyRec /\ keys'[i].ch = keys[i].ch /\ keys'[i].owner = keys[i].owner
                               /\ (keys[i].revoked => keys'[i].revoked)
    BY <1>2, <2>1 DEF KeyRec
  <2>3. keys' \in [1..Len(keys) -> KeyRec]
    BY <1>2, <2>1, <2>2
  <2>4. keys' \in Seq(KeyRec) /\ Len(keys') = Len(keys)
    BY <2>1, <2>3
  <2> QED
    BY <2>2, <2>4 DEF KeysAge
<1>4. PICK r : /\ Moves(b, r) /\ DOMAIN r = {"pc", "wallet", "ch", "label", "todo"} /\ r.pc = "count" /\ r.wallet = req[b].wallet
               /\ r.ch = req[b].ch /\ r.label = req[b].label /\ r.todo = req[b].todo
  BY <1>1, GotoMoves
<1>5. ReqOK(r, issued)
  BY <1>1, <1>4 DEF ReqOK, Pcs, Post
<1>6. QuietCh(req[b], r) /\ QuietRoom(req[b], r) /\ QuietEntry(req[b], r) /\ QuietAge(req[b], r) /\ QuietMail(req[b], r)
  BY <1>1, <1>4 DEF QuietCh, QuietRoom, QuietEntry, QuietAge, QuietMail, Post, Checked, Owes
<1>7. ChQuiet /\ RoomQuiet /\ EntryQuiet /\ AgeQuiet /\ MailQuiet
  BY <1>1, <1>4, <1>6, Quietly
<1>8. ReqShape'
  <2>1. issued' \in Nat /\ issued <= issued' /\ ReqOK(r, issued') /\ req' = [req EXCEPT ![b] = r]
    BY <1>1, <1>4, <1>5 DEF Moves
  <2> QED
    BY <1>1, <2>1, ReqMoves
<1>9. session' \in [Browsers -> Nat] /\ \A c \in Browsers : session'[c] <= Len(keys)
  BY <1>1 DEF KeyShape
<1> QED
  BY <1>1, <1>3, <1>7, <1>8, <1>9, KeysOnlyRevoked

\* The count is below the cap: whatever the other browsers are about to add, it is one each
LEMMA AcCountActive ==
    ASSUME AccessInv, scene' = scene, NEW b \in Browsers, CountActive(b)
    PROVE  AccessInv'
<1> DEFINE o == req[b].wallet
<1>1. /\ DeskShape /\ ReqShape /\ Challenges /\ KeyRoom /\ issued \in Nat /\ issued' = issued /\ pending' = pending /\ keys' = keys
      /\ UNCHANGED <<grantVars, pending, issued, keyVars, cookie, day>> /\ UNCHANGED <<grantVars, cookie, day>>
      /\ req[b].pc = "count" /\ ReqOK(req[b], issued)
  BY DEF AccessInv, DeskShape, KeyShape, ReqShape, CountActive, keyVars
<1>2. CASE AtLimit(o)
  <2>1. Moves(b, Idle)
    BY <1>2, FinishMoves DEF CountActive
  <2> QED
    BY <1>1, <2>1, JustEnds
<1>3. CASE ~AtLimit(o)
  <2>1. PICK r : /\ Moves(b, r) /\ DOMAIN r = {"pc", "wallet", "ch", "label", "todo"} /\ r.pc = "issue" /\ r.wallet = req[b].wallet
                 /\ r.ch = req[b].ch /\ r.label = req[b].label /\ r.todo = req[b].todo
    <3>1. Goto(b, "issue")
      BY <1>3 DEF CountActive
    <3> QED
      BY <1>1, <3>1, GotoMoves
  <2>2. ReqOK(r, issued)
    BY <1>1, <2>1 DEF ReqOK, Pcs, Post
  <2>3. QuietCh(req[b], r) /\ QuietEntry(req[b], r) /\ QuietAge(req[b], r) /\ QuietMail(req[b], r)
    BY <1>1, <2>1 DEF QuietCh, QuietEntry, QuietAge, QuietMail, Post, Checked, Owes
  <2>4. DeskShape'
    BY <1>1, <2>1, <2>2, ShapeOfMove
  <2>5. ChQuiet /\ EntryQuiet /\ AgeQuiet /\ MailQuiet
    BY <1>1, <2>1, <2>3, Quietly
  <2>6. KeyRoom'
    <3> SUFFICES ASSUME NEW w \in Wallets
                 PROVE  Cardinality(LiveKeys(w)') + Cardinality(Issuing(w)') <= MaxKeysPerOwner + Cardinality(Browsers) - 1
      BY DEF KeyRoom
    <3>1. LiveKeys(w)' = LiveKeys(w)
      BY <1>1 DEF LiveKeys, Live
    <3>2. \A c \in Browsers : req'[c] = IF c = b THEN r ELSE req[c]
      BY <1>1, <2>1 DEF Moves, ReqShape
    <3>3. CASE w = o
      <4>1. Cardinality(LiveKeys(w)) < MaxKeysPerOwner /\ Cardinality(LiveKeys(w)) \in Nat
        BY <1>1, <1>3, <3>3, Counted, AccessConstants DEF AtLimit
      <4>2. Cardinality(Issuing(w)') \in Nat /\ Cardinality(Issuing(w)') <= Cardinality(Browsers)
        <5>1. Issuing(w)' \subseteq Browsers
          BY DEF Issuing
        <5> QED
          BY <5>1, AccessConstants, FS_Subset, FS_CardinalityType
      <4> QED
        BY <1>1, <3>1, <4>1, <4>2, Counted, AccessConstants
    <3>4. CASE w # o
      <4>1. Issuing(w)' \subseteq Issuing(w)
        BY <2>1, <3>2, <3>4 DEF Issuing
      <4>2. Cardinality(Issuing(w)') \in Nat /\ Cardinality(Issuing(w)') <= Cardinality(Issuing(w))
        BY <1>1, <4>1, Counted, FS_Subset, FS_CardinalityType
      <4>3. Cardinality(LiveKeys(w)) + Cardinality(Issuing(w)) <= MaxKeysPerOwner + Cardinality(Browsers) - 1
        BY <1>1 DEF KeyRoom
      <4> QED
        BY <1>1, <3>1, <4>2, <4>3, Counted, AccessConstants
    <3> QED
      BY <3>3, <3>4
  <2>7. KeysAge /\ PendingShrinks
    BY <1>1, KeysRest, HandsRest
  <2> QED
    BY <1>1, <2>4, <2>5, <2>6, <2>7, ChallengesKeep, OwnersStay, RestKeeps
<1> QED
  BY <1>2, <1>3

\* The key: the challenge passes from the request to it, and one request less is past the count
LEMMA AcIssue ==
    ASSUME AccessInv, scene' = scene, NEW b \in Browsers, Issue(b)
    PROVE  AccessInv'
<1> DEFINE n == Len(keys)
           o == req[b].wallet
           k == Key(o, req[b].ch, req[b].label)
<1>1. /\ DeskShape /\ ReqShape /\ KeyShape /\ Challenges /\ KeyRoom /\ Entitlement
      /\ issued \in Nat /\ issued' = issued /\ pending' = pending /\ UNCHANGED <<grantVars, cookie, day>>
      /\ req[b].pc = "issue" /\ ReqOK(req[b], issued) /\ keys' = Append(keys, k)
      /\ session' \in {session, [session EXCEPT ![b] = n + 1]} /\ n \in Nat /\ keys \in Seq(KeyRec) /\ DOMAIN keys = 1..n
  BY SeqFacts DEF AccessInv, DeskShape, KeyShape, ReqShape, Issue
<1>2. Moves(b, Idle)
  BY FinishMoves DEF Issue
<1>3. o \in Wallets /\ req[b].ch \in 1..issued /\ k \in KeyRec /\ k.ch = req[b].ch /\ k.owner = o /\ k.revoked = FALSE
  BY <1>1 DEF ReqOK, Key, KeyRec, Post
<1> HIDE DEF k, o
<1>4. /\ keys' \in Seq(KeyRec) /\ Len(keys') = n + 1 /\ DOMAIN keys' = 1..(n + 1)
      /\ \A i \in 1..n : keys'[i] = keys[i]
      /\ keys'[n + 1] = k
  BY <1>1, <1>3
<1>5. KeyShape'
  <2>1. \A i \in DOMAIN keys' : keys'[i].ch \in 1..issued'
    <3> SUFFICES ASSUME NEW i \in 1..(n + 1) PROVE keys'[i].ch \in 1..issued
      BY <1>1, <1>4
    <3>1. CASE i = n + 1
      BY <1>3, <1>4, <3>1
    <3>2. CASE i \in 1..n
      BY <1>1, <1>4, <3>2 DEF KeyShape
    <3> QED
      BY <1>1, <3>1, <3>2
  <2>2. session' \in [Browsers -> Nat] /\ \A c \in Browsers : session'[c] <= Len(keys')
    <3>1. session \in [Browsers -> Nat] /\ \A c \in Browsers : session[c] <= n
      BY <1>1 DEF KeyShape
    <3> HIDE DEF n
    <3>2. CASE session' = session
      BY <1>1, <1>4, <3>1, <3>2
    <3>3. CASE session' = [session EXCEPT ![b] = n + 1]
      BY <1>1, <1>4, <3>1, <3>3
    <3> QED
      BY <1>1, <3>2, <3>3
  <2> QED
    BY <1>1, <1>4, <2>1, <2>2 DEF KeyShape
<1>6. ReqShape'
  <2>1. issued' \in Nat /\ issued <= issued' /\ ReqOK(Idle, issued') /\ req' = [req EXCEPT ![b] = Idle]
    BY <1>1, <1>2, IdleOK DEF Moves
  <2> QED
    BY <1>1, <2>1, ReqMoves
<1>7. DeskShape'
  BY <1>1, <1>5, <1>6, ShapeOfKeys
<1>8. ChQuiet /\ EntryQuiet /\ AgeQuiet /\ MailQuiet
  BY <1>1, <1>2, IdleIsQuiet, Quietly
<1>9. \A c \in Browsers : req'[c] = IF c = b THEN Idle ELSE req[c]
  BY <1>1, <1>2 DEF Moves, ReqShape
<1>10. OwnersEntitled
  <2> SUFFICES ASSUME NEW i \in 1..(n + 1) PROVE Entitled(keys'[i].owner)
    BY <1>4 DEF OwnersEntitled
  <2>1. CASE i = n + 1
    BY <1>1, <1>3, <1>4, <2>1 DEF Entitlement, Checked, Post, o
  <2>2. CASE i \in 1..n
    BY <1>1, <1>4, <2>2 DEF Entitlement
  <2> QED
    BY <1>1, <2>1, <2>2
<1>11. Challenges'
  <2>1. \A i \in 1..n : keys[i].ch # req[b].ch
    BY <1>1 DEF Challenges, Post
  <2>2. \A w \in Wallets : InHand(w)' = InHand(w) /\ InHand(w) # req[b].ch
    BY <1>1 DEF Challenges, Post, InHand
  <2>3. \A c \in Browsers : req'[c].pc \in Post => c # b /\ req'[c] = req[c] /\ req[c].pc \in Post /\ req[c].ch # req[b].ch
    BY <1>1, <1>9, IdleOK DEF Challenges, Post
  <2>4. \A i, j \in DOMAIN keys' : keys'[i].ch = keys'[j].ch => i = j
    <3> SUFFICES ASSUME NEW i \in 1..(n + 1), NEW j \in 1..(n + 1), keys'[i].ch = keys'[j].ch PROVE i = j
      BY <1>4
    <3>1. CASE i \in 1..n /\ j \in 1..n
      BY <1>1, <1>4, <3>1 DEF Challenges
    <3>2. CASE i = n + 1 /\ j \in 1..n
      BY <1>3, <1>4, <2>1, <3>2
    <3>3. CASE i \in 1..n /\ j = n + 1
      BY <1>3, <1>4, <2>1, <3>3
    <3> QED
      BY <1>1, <3>1, <3>2, <3>3
  <2>5. \A w \in Wallets : InHand(w)' <= issued'
    BY <1>1, <2>2 DEF Challenges
  <2>6. \A w, v \in Wallets : InHand(w)' = InHand(v)' /\ InHand(w)' # 0 => w = v
    BY <1>1, <2>2 DEF Challenges
  <2>7. \A i \in DOMAIN keys', w \in Wallets : keys'[i].ch # InHand(w)'
    <3> SUFFICES ASSUME NEW i \in 1..(n + 1), NEW w \in Wallets PROVE keys'[i].ch # InHand(w)
      BY <1>4, <2>2
    <3>1. CASE i \in 1..n
      BY <1>1, <1>4, <3>1 DEF Challenges
    <3>2. CASE i = n + 1
      BY <1>3, <1>4, <2>2, <3>2
    <3> QED
      BY <1>1, <3>1, <3>2
  <2>8. ASSUME NEW c \in Browsers, req'[c].pc \in Post
        PROVE  /\ \A i \in DOMAIN keys' : keys'[i].ch # req'[c].ch
               /\ \A w \in Wallets : InHand(w)' # req'[c].ch
    <3>1. req'[c] = req[c] /\ req[c].pc \in Post /\ req[c].ch # req[b].ch
      BY <2>3, <2>8
    <3>2. \A w \in Wallets : InHand(w)' # req'[c].ch
      BY <1>1, <2>2, <3>1 DEF Challenges
    <3>3. ASSUME NEW i \in 1..(n + 1) PROVE keys'[i].ch # req[c].ch
      <4>1. CASE i \in 1..n
        BY <1>1, <1>4, <3>1, <4>1 DEF Challenges
      <4>2. CASE i = n + 1
        BY <1>3, <1>4, <3>1, <4>2
      <4> QED
        BY <1>1, <4>1, <4>2
    <3> QED
      BY <1>4, <3>1, <3>2, <3>3
  <2>9. \A c, d \in Browsers : req'[c].pc \in Post /\ req'[d].pc \in Post /\ req'[c].ch = req'[d].ch => c = d
    BY <1>1, <2>3 DEF Challenges
  <2> QED
    BY <2>4, <2>5, <2>6, <2>7, <2>8, <2>9 DEF Challenges
<1>12. KeyRoom'
  <2> SUFFICES ASSUME NEW w \in Wallets
               PROVE  Cardinality(LiveKeys(w)') + Cardinality(Issuing(w)') <= MaxKeysPerOwner + Cardinality(Browsers) - 1
    BY DEF KeyRoom
  <2>1. /\ IsFiniteSet(LiveKeys(w)) /\ Cardinality(LiveKeys(w)) \in Nat /\ IsFiniteSet(Issuing(w)) /\ Cardinality(Issuing(w)) \in Nat
        /\ Cardinality(Browsers) \in Nat /\ MaxKeysPerOwner \in Nat
        /\ Cardinality(LiveKeys(w)) + Cardinality(Issuing(w)) <= MaxKeysPerOwner + Cardinality(Browsers) - 1
    BY <1>1, Counted, AccessConstants DEF KeyRoom
  <2>2. CASE w = o
    <3>1. LiveKeys(w)' \subseteq LiveKeys(w) \cup {n + 1}
      BY <1>1, <1>4 DEF LiveKeys, Live
    <3>2. Issuing(w)' = Issuing(w) \ {b} /\ b \in Issuing(w)
      BY <1>1, <1>9, <2>2, IdleOK DEF Issuing, o
    <3>3. n + 1 \notin LiveKeys(w)
      BY <1>1 DEF LiveKeys
    <3>4. IsFiniteSet(LiveKeys(w) \cup {n + 1}) /\ Cardinality(LiveKeys(w) \cup {n + 1}) = Cardinality(LiveKeys(w)) + 1
      BY <2>1, <3>3, FS_AddElement
    <3>5. Cardinality(LiveKeys(w)') <= Cardinality(LiveKeys(w)) + 1 /\ Cardinality(LiveKeys(w)') \in Nat
      BY <3>1, <3>4, FS_Subset, FS_CardinalityType
    <3>6. Cardinality(Issuing(w)') = Cardinality(Issuing(w)) - 1
      BY <2>1, <3>2, FS_RemoveElement
    <3> QED
      BY <2>1, <3>5, <3>6
  <2>3. CASE w # o
    <3>1. LiveKeys(w)' \subseteq LiveKeys(w)
      <4> SUFFICES ASSUME NEW i \in 1..(n + 1), keys'[i].owner = w, ~keys'[i].revoked PROVE i \in LiveKeys(w)
        BY <1>4 DEF LiveKeys, Live
      <4>1. i # n + 1
        BY <1>3, <1>4, <2>3
      <4> QED
        BY <1>1, <1>4, <4>1 DEF LiveKeys, Live
    <3>2. Issuing(w)' \subseteq Issuing(w)
      BY <1>9, IdleOK DEF Issuing
    <3>3. /\ Cardinality(LiveKeys(w)') <= Cardinality(LiveKeys(w)) /\ Cardinality(LiveKeys(w)') \in Nat
          /\ Cardinality(Issuing(w)') <= Cardinality(Issuing(w)) /\ Cardinality(Issuing(w)') \in Nat
      BY <2>1, <3>1, <3>2, FS_Subset, FS_CardinalityType
    <3> QED
      BY <2>1, <3>3
  <2> QED
    BY <2>2, <2>3
<1> QED
  BY <1>1, <1>7, <1>8, <1>10, <1>11, <1>12, RestKeeps

-----------------------------------------------------------------------------
\* Steps that leave keys and challenges alone
LEMMA KeysSleep ==
    ASSUME AccessInv, DeskShape', UNCHANGED <<pending, issued, keyVars>>, ChQuiet, RoomQuiet
    PROVE  Challenges' /\ KeyRoom' /\ OwnersEntitled
<1>1. DeskShape /\ Challenges /\ KeyRoom /\ keys' = keys /\ pending' = pending /\ issued' = issued
  BY DEF AccessInv, keyVars
<1>2. KeysAge /\ PendingShrinks
  BY <1>1, KeysRest, HandsRest
<1> QED
  BY <1>1, <1>2, ChallengesKeep, RoomKeeps, OwnersStay

LEMMA AcCheckApproved ==
    ASSUME AccessInv, scene' = scene, NEW b \in Browsers, CheckApproved(b)
    PROVE  AccessInv'
<1>1. /\ req[b].pc = "approved?" /\ UNCHANGED <<grantVars, pending, issued, keyVars, cookie, day>> /\ ReqShape /\ ReqOK(req[b], issued)
      /\ Entitlement /\ Ages
  BY DEF CheckApproved, AccessInv, DeskShape, ReqShape
<1>2. CASE ~IsApproved(req[b].wallet)
  BY <1>1, <1>2, FinishMoves, JustEnds DEF CheckApproved
<1>3. CASE IsApproved(req[b].wallet)
  <2>1. PICK r : /\ Moves(b, r) /\ DOMAIN r = {"pc", "wallet", "ch", "label", "todo"} /\ r.pc = "cookie" /\ r.wallet = req[b].wallet
                 /\ r.ch = req[b].ch /\ r.label = req[b].label /\ r.todo = req[b].todo
    <3>1. Goto(b, "cookie")
      BY <1>3 DEF CheckApproved
    <3> QED
      BY <1>1, <3>1, GotoMoves
  <2>2. ReqOK(r, issued) /\ r.wallet \in Wallets
    BY <1>1, <2>1 DEF ReqOK, Pcs, Post
  <2>3. ApprovedOnce(r.wallet) /\ revokedDay[r.wallet] = Never
    BY <1>1, <1>3, <2>1, <2>2 DEF IsApproved, Entitlement, Ages
  <2>4. QuietCh(req[b], r) /\ QuietRoom(req[b], r) /\ QuietEntry(req[b], r) /\ QuietAge(req[b], r) /\ QuietMail(req[b], r)
    BY <2>1, <2>3 DEF QuietCh, QuietRoom, QuietEntry, QuietAge, QuietMail, Post, Checked, Owes
  <2> QED
    BY <1>1, <2>1, <2>2, <2>4, JustMoves
<1> QED
  BY <1>2, <1>3

LEMMA AcMakeWalletCookie ==
    ASSUME AccessInv, scene' = scene, NEW b \in Browsers, MakeWalletCookie(b)
    PROVE  AccessInv'
<1> DEFINE o == req[b].wallet
<1>1. /\ DeskShape /\ DayShape /\ ReqShape /\ Entitlement /\ Ages /\ AuditTellsStatus /\ Mails
      /\ UNCHANGED <<grants, email, sent, mails, audit, revokedDay, pending, issued, keys, session, day>>
      /\ UNCHANGED <<pending, issued, keyVars>>
      /\ issued \in Nat /\ req[b].pc = "cookie" /\ ReqOK(req[b], issued) /\ cookie' = [cookie EXCEPT ![o] = day]
  BY DEF AccessInv, DeskShape, KeyShape, ReqShape, MakeWalletCookie, grantVars, keyVars
<1>2. Moves(b, Idle)
  BY FinishMoves DEF MakeWalletCookie
<1>3. o \in Wallets /\ ApprovedOnce(o) /\ revokedDay[o] \in {Never, day}
  BY <1>1 DEF ReqOK, Entitlement, Ages
<1>4. ChQuiet /\ RoomQuiet /\ EntryQuiet /\ MailQuiet /\ AgeQuiet
  BY <1>1, <1>2, IdleIsQuiet, Quietly
<1> HIDE DEF o
<1>5. \A w \in Wallets : cookie'[w] = IF w = o THEN day ELSE cookie[w]
  BY <1>1 DEF DayShape
<1>6. DayShape'
  <2>1. cookie' \in [Wallets -> Nat]
    BY <1>1, <1>3 DEF DayShape
  <2> QED
    BY <1>1, <1>5, <2>1 DEF DayShape
<1>7. ReqShape'
  <2>1. issued' \in Nat /\ issued <= issued' /\ ReqOK(Idle, issued') /\ req' = [req EXCEPT ![b] = Idle]
    BY <1>1, <1>2, IdleOK DEF Moves
  <2> QED
    BY <1>1, <2>1, ReqMoves
<1>8. DeskShape'
  BY <1>1, <1>6, <1>7 DEF DeskShape, LedgerShape, KeyShape
<1>9. Ages'
  <2>1. \A w \in Wallets : revokedDay'[w] # Never => cookie'[w] <= revokedDay'[w] /\ grants'[w] # "approved"
    <3> SUFFICES ASSUME NEW w \in Wallets, revokedDay[w] # Never PROVE cookie'[w] <= revokedDay[w] /\ grants[w] # "approved"
      BY <1>1
    <3>1. grants[w] # "approved" /\ cookie[w] <= revokedDay[w]
      BY <1>1 DEF Ages
    <3>2. w = o => cookie'[w] <= revokedDay[w]
      BY <1>1, <1>3, <1>5 DEF DayShape
    <3> QED
      BY <1>5, <3>1, <3>2
  <2>2. \A c \in Browsers : req'[c].pc = "cookie" => revokedDay'[req'[c].wallet] \in {Never, day'}
    BY <1>1, <1>4 DEF Ages, AgeQuiet, QuietAge
  <2> QED
    BY <2>1, <2>2 DEF Ages
<1>10. CookiesEntitled /\ LogExtends /\ GrantsAsLogged /\ SentKeeps
  BY <1>1, <1>3, <1>5 DEF CookiesEntitled, LogExtends, GrantsAsLogged, SentKeeps, DeskShape, LedgerShape
<1>11. Challenges' /\ KeyRoom' /\ OwnersEntitled
  BY <1>1, <1>4, <1>8, KeysSleep
<1>12. Entitlement' /\ AuditTellsStatus' /\ Mails'
  BY <1>1, <1>4, <1>10, <1>11, EntitlementKeeps, StatusKeeps, MailsKeep
<1> QED
  BY <1>8, <1>9, <1>11, <1>12 DEF AccessInv

LEMMA AcNextDay ==
    ASSUME AccessInv, scene' = scene, NextDay
    PROVE  AccessInv'
<1>1. /\ DeskShape /\ DayShape /\ ReqShape /\ Entitlement /\ Ages /\ AuditTellsStatus /\ Mails
      /\ UNCHANGED <<grants, email, sent, mails, audit, revokedDay, pending, issued, keys, session, req, cookie>>
      /\ UNCHANGED <<pending, issued, keyVars>> /\ day < MaxDay /\ day' = day + 1
      /\ \A b \in Browsers : req[b].pc # "cookie"
  BY DEF AccessInv, DeskShape, NextDay, grantVars, keyVars
<1>2. ChQuiet /\ RoomQuiet /\ EntryQuiet /\ MailQuiet
  BY <1>1, NobodyMoves
<1>3. DayShape'
  BY <1>1, AccessConstants DEF DayShape
<1>4. DeskShape'
  BY <1>1, <1>3 DEF DeskShape, LedgerShape, KeyShape, ReqShape
<1>5. Ages'
  BY <1>1 DEF Ages
<1>6. CookiesEntitled /\ LogExtends /\ GrantsAsLogged /\ SentKeeps
  BY <1>1 DEF CookiesEntitled, LogExtends, GrantsAsLogged, SentKeeps, DeskShape, LedgerShape
<1>7. Challenges' /\ KeyRoom' /\ OwnersEntitled
  BY <1>1, <1>2, <1>4, KeysSleep
<1>8. Entitlement' /\ AuditTellsStatus' /\ Mails'
  BY <1>1, <1>2, <1>6, <1>7, EntitlementKeeps, StatusKeeps, MailsKeep
<1> QED
  BY <1>4, <1>5, <1>7, <1>8 DEF AccessInv

\* The entries of the log that say what a wallet's status is
Mine(w) == {i \in DOMAIN audit : audit[i][2] = w /\ audit[i][1] \in DOMAIN StatusAfter}
StatusIsTold(w) == IF Mine(w) = {} THEN grants[w] \in {"none", "pending"}
           ELSE \E final \in Mine(w) : grants[w] = StatusAfter[audit[final][1]] /\ \A i \in Mine(w) : i <= final

LEMMA StatusTold == AuditTellsStatus <=> \A w \in Wallets : StatusIsTold(w)
BY DEF AuditTellsStatus, StatusIsTold, Mine

\* A wallet without a grant is in no decision
LEMMA NoneIsUntouched ==
    ASSUME LedgerShape, NEW w \in Wallets, StatusIsTold(w), grants[w] = "none"
    PROVE  Mine(w) = {}
<1> SUFFICES ASSUME Mine(w) # {} PROVE FALSE
  OBVIOUS
<1>1. PICK final \in Mine(w) : grants[w] = StatusAfter[audit[final][1]]
  BY DEF StatusIsTold
<1>2. audit[final][1] \in DOMAIN StatusAfter
  BY DEF Mine
<1> QED
  BY <1>1, <1>2, StatusDomain

LEMMA AcJoin ==
    ASSUME AccessInv, scene' = scene, NEW w \in Wallets, Join(w)
    PROVE  AccessInv'
<1>1. /\ DeskShape /\ LedgerShape /\ ReqShape /\ Entitlement /\ Ages /\ AuditTellsStatus /\ Mails
      /\ UNCHANGED <<sent, mails, audit, revokedDay, pending, issued, keys, session, req, cookie, day>>
      /\ UNCHANGED <<pending, issued, keyVars>>
      /\ grants[w] = "none" /\ grants' = [grants EXCEPT ![w] = "pending"]
      /\ email' \in {email, [email EXCEPT ![w] = TRUE]}
  BY DEF AccessInv, DeskShape, Join, keyVars
<1>2. ChQuiet /\ RoomQuiet /\ EntryQuiet /\ MailQuiet
  BY <1>1, NobodyMoves
<1>3. \A v \in Wallets : grants'[v] = IF v = w THEN "pending" ELSE grants[v]
  BY <1>1 DEF LedgerShape
<1>4. LedgerShape'
  <2>1. grants' \in [Wallets -> Statuses]
    BY <1>1 DEF LedgerShape, Statuses
  <2>2. email' \in [Wallets -> BOOLEAN]
    BY <1>1 DEF LedgerShape
  <2> QED
    BY <1>1, <2>1, <2>2 DEF LedgerShape
<1>5. DeskShape'
  BY <1>1, <1>4 DEF DeskShape, DayShape, KeyShape, ReqShape
<1>6. Ages'
  BY <1>1, <1>3 DEF Ages
<1>7. CookiesEntitled /\ LogExtends /\ GrantsAsLogged /\ SentKeeps
  BY <1>1, <1>3 DEF CookiesEntitled, LogExtends, GrantsAsLogged, SentKeeps, LedgerShape
<1>8. Challenges' /\ KeyRoom' /\ OwnersEntitled
  BY <1>1, <1>2, <1>5, KeysSleep
<1>9. Entitlement' /\ Mails'
  BY <1>1, <1>2, <1>7, <1>8, EntitlementKeeps, MailsKeep
<1>10. AuditTellsStatus'
  <2>1. \A v \in Wallets : StatusIsTold(v) /\ Mine(v)' = Mine(v)
    BY <1>1, StatusTold DEF Mine
  <2>2. Mine(w) = {}
    BY <1>1, <2>1, NoneIsUntouched
  <2>3. \A v \in Wallets : StatusIsTold(v)'
    BY <1>1, <1>3, <2>1, <2>2 DEF StatusIsTold
  <2> QED
    BY <2>3, StatusTold DEF AuditTellsStatus, StatusIsTold, Mine
<1> QED
  BY <1>5, <1>6, <1>8, <1>9, <1>10 DEF AccessInv

-----------------------------------------------------------------------------
\* A decision.  The wallets it touches have it as their last entry, the others keep theirs
LEMMA DecisionTold ==
    ASSUME LedgerShape, NEW a \in DOMAIN StatusAfter, NEW done \in SUBSET Wallets, Len(audit) + Cardinality(done) <= MaxAudit,
           audit' = DecisionLog(a, done),
           grants' = [w \in Wallets |-> IF w \in done THEN StatusAfter[a] ELSE grants[w]],
           NEW w \in Wallets, StatusIsTold(w)
    PROVE  StatusIsTold(w)'
<1> DEFINE n == Len(audit)
           m == Len(audit')
<1>1. /\ n \in Nat /\ m \in Nat /\ n <= m /\ DOMAIN audit = 1..n /\ DOMAIN audit' = 1..m
      /\ \A i \in 1..n : audit'[i] = audit[i]
      /\ \A i \in (n+1)..m : \E v \in done : audit'[i] = <<a, v>>
      /\ \A v \in done : \E i \in (n+1)..m : audit'[i] = <<a, v>>
      /\ \A i, j \in (n+1)..m : audit'[i] = audit'[j] => i = j
  <2>1. DOMAIN audit = 1..n
    BY SeqFacts DEF LedgerShape
  <2> QED
    BY <2>1, LogGrows
<1> HIDE DEF n, m
<1>2. CASE w \in done
  <2>1. PICK k \in (n+1)..m : audit'[k] = <<a, w>>
    BY <1>1, <1>2
  <2>2. k \in Mine(w)'
    BY <1>1, <2>1 DEF Mine
  <2>3. ASSUME NEW i \in Mine(w)' PROVE i <= k
    <3>1. i \in 1..m /\ audit'[i][2] = w
      BY <1>1 DEF Mine
    <3>2. CASE i \in 1..n
      BY <1>1, <3>2
    <3>3. CASE i \in (n+1)..m
      <4>1. PICK v \in done : audit'[i] = <<a, v>>
        BY <1>1, <3>3
      <4>2. audit'[i] = audit'[k]
        BY <2>1, <3>1, <4>1
      <4>3. i = k
        BY <1>1, <3>3, <4>2
      <4> QED
        BY <1>1, <4>3
    <3> QED
      BY <1>1, <3>1, <3>2, <3>3
  <2>4. grants'[w] = StatusAfter[audit'[k][1]]
    BY <1>2, <2>1
  <2> QED
    BY <2>2, <2>3, <2>4 DEF StatusIsTold
<1>3. CASE w \notin done
  <2>1. Mine(w)' = Mine(w)
    <3>1. ASSUME NEW i \in Mine(w)' PROVE i \in Mine(w)
      <4>1. i \in 1..m /\ audit'[i][2] = w /\ audit'[i][1] \in DOMAIN StatusAfter
        BY <1>1 DEF Mine
      <4>2. i \notin (n+1)..m
        <5> SUFFICES ASSUME i \in (n+1)..m PROVE FALSE
          OBVIOUS
        <5>1. PICK v \in done : audit'[i] = <<a, v>>
          BY <1>1
        <5> QED
          BY <1>3, <4>1, <5>1
      <4>3. i \in 1..n /\ audit'[i] = audit[i]
        BY <1>1, <4>1, <4>2
      <4> QED
        BY <1>1, <4>1, <4>3 DEF Mine
    <3>2. ASSUME NEW i \in Mine(w) PROVE i \in Mine(w)'
      BY <1>1 DEF Mine
    <3> QED
      BY <3>1, <3>2
  <2>2. grants'[w] = grants[w] /\ \A i \in Mine(w) : audit'[i] = audit[i]
    BY <1>1, <1>3 DEF Mine
  <2> QED
    BY <2>1, <2>2 DEF StatusIsTold
<1> QED
  BY <1>2, <1>3

\* The mails a decision owes are one for each approval it logs
LEMMA ApprovalOwes ==
    ASSUME DeskShape, LogExtends, NEW done \in SUBSET Wallets, NEW b \in Browsers, NEW r, Moves(b, r),
           req[b].pc = "idle", r.pc = "mail", r.todo = done, Mails, mails' = mails,
           \A w \in done : \E i \in DOMAIN audit' \ DOMAIN audit : audit'[i] = <<"approve", w>>,
           NEW w \in Wallets
    PROVE  mails'[w] + Cardinality(Owing(w)') <= Cardinality(Approvals(w)')
<1>1. \A c \in Browsers : req'[c] = IF c = b THEN r ELSE req[c]
  BY DEF Moves, DeskShape, ReqShape
<1>2. Approvals(w) \subseteq Approvals(w)'
  BY LogMonotone DEF DeskShape
<1>3. IsFiniteSet(Approvals(w)')
  <2>1. Approvals(w)' \subseteq 1..Len(audit') /\ Len(audit') \in Int /\ 1 \in Int
    BY DEF LogExtends, Approvals
  <2> QED
    BY <2>1, FS_Interval, FS_Subset
<1>4. Cardinality(Approvals(w)') \in Nat
  BY <1>3, FS_CardinalityType
<1>5. /\ mails[w] \in Nat /\ mails[w] + Cardinality(Owing(w)) <= Cardinality(Approvals(w))
      /\ IsFiniteSet(Owing(w)) /\ Cardinality(Owing(w)) \in Nat /\ IsFiniteSet(Approvals(w)) /\ Cardinality(Approvals(w)) \in Nat
  BY Counted DEF Mails, DeskShape, LedgerShape
<1>6. CASE w \in done
  <2>1. PICK i \in DOMAIN audit' \ DOMAIN audit : audit'[i] = <<"approve", w>>
    BY <1>6
  <2>2. i \notin Approvals(w) /\ Approvals(w) \cup {i} \subseteq Approvals(w)'
    BY <1>2, <2>1 DEF Approvals
  <2>3. Cardinality(Approvals(w) \cup {i}) = Cardinality(Approvals(w)) + 1
    BY <1>5, <2>2, FS_AddElement
  <2>4. Cardinality(Approvals(w)) + 1 <= Cardinality(Approvals(w)')
    BY <1>3, <2>2, <2>3, FS_Subset
  <2>5. Owing(w)' \subseteq Owing(w) \cup {b} /\ b \notin Owing(w)
    BY <1>1 DEF Owing, Owes
  <2>6. IsFiniteSet(Owing(w) \cup {b}) /\ Cardinality(Owing(w) \cup {b}) = Cardinality(Owing(w)) + 1
    BY <1>5, <2>5, FS_AddElement
  <2>7. Cardinality(Owing(w)') <= Cardinality(Owing(w)) + 1 /\ Cardinality(Owing(w)') \in Nat
    BY <2>5, <2>6, FS_Subset, FS_CardinalityType
  <2> QED
    BY <1>4, <1>5, <2>4, <2>7
<1>7. CASE w \notin done
  <2>1. Owing(w)' \subseteq Owing(w)
    BY <1>1, <1>7 DEF Owing, Owes
  <2>2. Cardinality(Owing(w)') <= Cardinality(Owing(w)) /\ Cardinality(Owing(w)') \in Nat
    BY <1>5, <2>1, FS_Subset, FS_CardinalityType
  <2>3. Cardinality(Approvals(w)) <= Cardinality(Approvals(w)')
    BY <1>2, <1>3, FS_Subset
  <2> QED
    BY <1>4, <1>5, <2>2, <2>3
<1> QED
  BY <1>6, <1>7

LEMMA AcDecide ==
    ASSUME AccessInv, scene' = scene, NEW b \in Browsers, NEW ws \in SUBSET Wallets, NEW a \in DOMAIN StatusAfter,
           Decide(b, ws, a)
    PROVE  AccessInv'
<1> DEFINE done == Touched(ws, a)
           n == Len(audit)
           m == Len(audit')
<1>1. /\ DeskShape /\ LedgerShape /\ DayShape /\ ReqShape /\ Entitlement /\ Ages /\ AuditTellsStatus /\ Mails /\ issued \in Nat
      /\ UNCHANGED <<email, sent, mails, pending, issued, keys, session, cookie, day>>
      /\ UNCHANGED <<pending, issued, keyVars>>
      /\ req[b].pc = "idle" /\ n + Cardinality(done) <= MaxAudit /\ audit' = DecisionLog(a, done)
      /\ grants' = [w \in Wallets |-> IF w \in done THEN StatusAfter[a] ELSE grants[w]]
      /\ revokedDay' = [w \in Wallets |-> IF w \notin done THEN revokedDay[w] ELSE IF a = "approve" THEN Never ELSE day]
      /\ req' = IF a = "approve" /\ done # {} THEN [req EXCEPT ![b] = [Idle EXCEPT !.pc = "mail", !.todo = done]] ELSE req
  BY DEF AccessInv, DeskShape, KeyShape, Decide, keyVars
<1>2. done \in SUBSET Wallets /\ a \in {"approve", "reject", "revoke"}
  BY StatusDomain DEF Touched
<1> HIDE DEF done
<1>3. /\ audit' \in Seq(Events) /\ m <= MaxAudit /\ m \in Nat /\ m >= n /\ n \in Nat /\ DOMAIN audit' = 1..m /\ DOMAIN audit = 1..n
      /\ \A i \in 1..n : audit'[i] = audit[i]
      /\ \A v \in done : \E i \in (n+1)..m : audit'[i] = <<a, v>>
  <2>1. DOMAIN audit = 1..n
    BY <1>1, SeqFacts DEF LedgerShape
  <2> QED
    BY <1>1, <1>2, <2>1, LogGrows
<1>4. LogExtends
  BY <1>3 DEF LogExtends
<1>5. LedgerShape'
  <2>1. grants' \in [Wallets -> Statuses]
    BY <1>1, <1>2, StatusDomain DEF LedgerShape, Statuses
  <2> QED
    BY <1>1, <1>3, <2>1 DEF LedgerShape
<1>6. DayShape'
  <2>1. \A w \in Wallets : revokedDay'[w] \in Nat /\ revokedDay'[w] <= day
    BY <1>1 DEF DayShape, Never
  <2>2. revokedDay' \in [Wallets -> Nat]
    BY <1>1, <2>1
  <2> QED
    BY <1>1, <2>1, <2>2 DEF DayShape
<1>7. PICK r : Moves(b, r) /\ ReqOK(r, issued) /\ r.pc \in {"idle", "mail"}
               /\ IF a = "approve" /\ done # {} THEN r.pc = "mail" /\ r.todo = done ELSE r = req[b]
  <2>1. CASE a = "approve" /\ done # {}
    <3> DEFINE r == [Idle EXCEPT !.pc = "mail", !.todo = done]
    <3>1. Moves(b, r) /\ r.pc = "mail" /\ r.todo = done /\ ReqOK(r, issued)
      BY <1>1, <1>2, <2>1 DEF Moves, ReqOK, Idle, Pcs, Labels, Post
    <3> QED
      BY <2>1, <3>1
  <2>2. CASE ~(a = "approve" /\ done # {})
    <3>1. Moves(b, req[b]) /\ ReqOK(req[b], issued)
      BY <1>1, <2>2 DEF Moves, ReqShape
    <3> QED
      BY <1>1, <2>2, <3>1
  <2> QED
    BY <2>1, <2>2
<1>8. QuietCh(req[b], r) /\ QuietRoom(req[b], r) /\ QuietEntry(req[b], r) /\ QuietAge(req[b], r)
  BY <1>7 DEF QuietCh, QuietRoom, QuietEntry, QuietAge, Post, Checked
<1>9. ChQuiet /\ RoomQuiet /\ EntryQuiet
  BY <1>1, <1>7, <1>8, Quietly
<1>10. \A c \in Browsers : req'[c] = IF c = b THEN r ELSE req[c]
  BY <1>1, <1>7 DEF Moves, ReqShape
<1>11. ReqShape'
  <2>1. issued' = issued /\ issued \in Nat /\ ReqShape
    BY <1>1
  <2>2. ReqOK(r, issued') /\ req' = [req EXCEPT ![b] = r]
    BY <1>7, <2>1 DEF Moves
  <2>3. issued' \in Nat /\ issued <= issued'
    BY <2>1
  <2> QED
    BY <2>1, <2>2, <2>3, ReqMoves
<1>12. DeskShape'
  BY <1>1, <1>5, <1>6, <1>11 DEF DeskShape, KeyShape
<1>13. Challenges' /\ KeyRoom' /\ OwnersEntitled
  BY <1>1, <1>9, <1>12, KeysSleep
<1>14. Entitlement'
  <2>1. GrantsAsLogged
    <3> SUFFICES ASSUME NEW w \in Wallets, grants'[w] = "approved" PROVE grants[w] = "approved" \/ ApprovedOnce(w)'
      BY DEF GrantsAsLogged
    <3>1. CASE w \notin done
      BY <1>1, <3>1
    <3>2. CASE w \in done
      <4>1. a = "approve"
        BY <1>1, <1>2, <3>2, StatusDomain
      <4>2. PICK i \in (n+1)..m : audit'[i] = <<"approve", w>>
        BY <1>3, <3>2, <4>1
      <4>3. i \in DOMAIN audit'
        BY <1>3
      <4> QED
        BY <4>2, <4>3 DEF ApprovedOnce, Range
    <3> QED
      BY <3>1, <3>2
  <2>2. CookiesEntitled
    BY <1>1 DEF CookiesEntitled
  <2> QED
    BY <1>1, <1>4, <1>9, <1>13, <2>1, <2>2, EntitlementKeeps
<1>15. Ages'
  <2>1. ASSUME NEW w \in Wallets, revokedDay'[w] # Never PROVE cookie'[w] <= revokedDay'[w] /\ grants'[w] # "approved"
    <3>1. CASE w \notin done
      BY <1>1, <2>1, <3>1 DEF Ages
    <3>2. CASE w \in done
      <4>1. a # "approve" /\ revokedDay'[w] = day /\ grants'[w] = StatusAfter[a]
        BY <1>1, <2>1, <3>2
      <4>2. StatusAfter[a] # "approved"
        BY <1>2, <4>1, StatusDomain
      <4> QED
        BY <1>1, <4>1, <4>2 DEF DayShape
    <3> QED
      BY <3>1, <3>2
  <2>2. ASSUME NEW c \in Browsers, req'[c].pc = "cookie" PROVE revokedDay'[req'[c].wallet] \in {Never, day'}
    <3>1. req'[c] = req[c] /\ req[c].wallet \in Wallets
      BY <1>1, <1>7, <1>10, <2>2 DEF ReqShape, ReqOK
    <3>2. revokedDay[req[c].wallet] \in {Never, day}
      BY <1>1, <2>2, <3>1 DEF Ages
    <3> QED
      BY <1>1, <3>1, <3>2
  <2> QED
    BY <2>1, <2>2 DEF Ages
<1>16. AuditTellsStatus'
  <2>1. \A w \in Wallets : StatusIsTold(w)
    BY <1>1, StatusTold
  <2>2. ASSUME NEW w \in Wallets PROVE StatusIsTold(w)'
    BY <1>1, <1>2, <2>1, DecisionTold
  <2> QED
    BY <2>2 DEF AuditTellsStatus, StatusIsTold, Mine
<1>17. Mails'
  <2>1. CASE a = "approve" /\ done # {}
    <3>1. \A w \in done : \E i \in DOMAIN audit' \ DOMAIN audit : audit'[i] = <<"approve", w>>
      <4> SUFFICES ASSUME NEW w \in done PROVE \E i \in DOMAIN audit' \ DOMAIN audit : audit'[i] = <<"approve", w>>
        OBVIOUS
      <4>1. PICK i \in (n+1)..m : audit'[i] = <<"approve", w>>
        BY <1>3, <2>1
      <4>2. i \in DOMAIN audit' /\ i \notin DOMAIN audit
        BY <1>3
      <4> QED
        BY <4>1, <4>2
    <3>2. r.pc = "mail" /\ r.todo = done /\ mails' = mails /\ sent' = sent
      BY <1>1, <1>7, <2>1
    <3>3. ASSUME NEW w \in Wallets PROVE mails'[w] + Cardinality(Owing(w)') <= Cardinality(Approvals(w)')
      BY <1>1, <1>2, <1>4, <1>7, <3>1, <3>2, ApprovalOwes
    <3>4. \A c \in Browsers : req'[c].pc = "mark" => mails'[req'[c].wallet] > 0
      BY <1>1, <1>10, <3>2 DEF Mails
    <3> QED
      BY <1>1, <3>2, <3>3, <3>4 DEF Mails
  <2>2. CASE ~(a = "approve" /\ done # {})
    <3>1. req' = req /\ mails' = mails /\ sent' = sent
      BY <1>1, <2>2
    <3>2. MailQuiet /\ SentKeeps
      BY <3>1, NobodyMoves DEF SentKeeps
    <3> QED
      BY <1>1, <1>4, <3>1, <3>2, MailsKeep
  <2> QED
    BY <2>1, <2>2
<1> QED
  BY <1>12, <1>13, <1>14, <1>15, <1>16, <1>17 DEF AccessInv

-----------------------------------------------------------------------------
\* The mail loop
LEMMA AcReadGrant ==
    ASSUME AccessInv, scene' = scene, NEW b \in Browsers, ReadGrant(b)
    PROVE  AccessInv'
<1>1. /\ req[b].pc = "mail" /\ UNCHANGED <<grantVars, pending, issued, keyVars, cookie, day>> /\ ReqShape /\ ReqOK(req[b], issued)
      /\ DOMAIN req[b] = {"pc", "wallet", "ch", "label", "todo"}
  BY DEF ReadGrant, AccessInv, DeskShape, ReqShape, ReqOK
<1>2. PICK w \in req[b].todo :
         req' = [req EXCEPT ![b] = IF NeedsMail(w) THEN [@ EXCEPT !.pc = "send", !.wallet = w]
                                   ELSE IF @.todo = {w} THEN Idle ELSE [@ EXCEPT !.todo = req[b].todo \ {w}]]
  BY DEF ReadGrant
<1>3. CASE NeedsMail(w)
  <2> DEFINE r == [req[b] EXCEPT !.pc = "send", !.wallet = w]
  <2>1. Moves(b, r)
    BY <1>2, <1>3 DEF Moves
  <2>2. ReqOK(r, issued) /\ r.pc = "send" /\ r.todo = req[b].todo
    BY <1>1 DEF ReqOK, Pcs, Post
  <2> HIDE DEF r
  <2>3. QuietCh(req[b], r) /\ QuietRoom(req[b], r) /\ QuietEntry(req[b], r) /\ QuietAge(req[b], r) /\ QuietMail(req[b], r)
    BY <1>1, <2>2 DEF QuietCh, QuietRoom, QuietEntry, QuietAge, QuietMail, Post, Checked, Owes
  <2> QED
    BY <1>1, <2>1, <2>2, <2>3, JustMoves
<1>4. CASE ~NeedsMail(w) /\ req[b].todo = {w}
  <2>1. Moves(b, Idle)
    BY <1>2, <1>4 DEF Moves
  <2> QED
    BY <1>1, <2>1, JustEnds
<1>5. CASE ~NeedsMail(w) /\ req[b].todo # {w}
  <2> DEFINE r == [req[b] EXCEPT !.todo = req[b].todo \ {w}]
  <2>1. Moves(b, r)
    BY <1>2, <1>5 DEF Moves
  <2>2. ReqOK(r, issued) /\ r.pc = "mail" /\ r.todo \subseteq req[b].todo
    BY <1>1 DEF ReqOK, Pcs, Post
  <2> HIDE DEF r
  <2>3. QuietCh(req[b], r) /\ QuietRoom(req[b], r) /\ QuietEntry(req[b], r) /\ QuietAge(req[b], r) /\ QuietMail(req[b], r)
    BY <1>1, <2>2 DEF QuietCh, QuietRoom, QuietEntry, QuietAge, QuietMail, Post, Checked, Owes
  <2> QED
    BY <1>1, <2>1, <2>2, <2>3, JustMoves
<1> QED
  BY <1>3, <1>4, <1>5

\* After a mail its wallet is owed no more
LEMMA NextMailMoves ==
    ASSUME ReqShape, NEW b \in Browsers, req[b].pc \in {"send", "mark"}, NextMail(b)
    PROVE  \E r : /\ Moves(b, r) /\ ReqOK(r, issued) /\ r.pc \in {"idle", "mail"}
                  /\ \A w \in Wallets : Owes(r, w) => w \in req[b].todo /\ w # req[b].wallet
<1>1. ReqOK(req[b], issued)
  BY DEF ReqShape
<1>2. CASE req[b].todo = {req[b].wallet}
  <2>1. Moves(b, Idle)
    BY <1>2 DEF NextMail, Moves
  <2>2. issued \in Nat => ReqOK(Idle, issued)
    BY IdleOK
  <2>3. ReqOK(Idle, issued) /\ Idle.pc = "idle" /\ \A w \in Wallets : ~Owes(Idle, w)
    BY DEF ReqOK, Idle, Pcs, Labels, Post, Owes
  <2> QED
    BY <2>1, <2>3
<1>3. CASE req[b].todo # {req[b].wallet}
  <2> DEFINE r == [req[b] EXCEPT !.pc = "mail", !.todo = req[b].todo \ {req[b].wallet}]
  <2>1. Moves(b, r)
    BY <1>3 DEF NextMail, Moves
  <2>2. ReqOK(r, issued) /\ r.pc = "mail" /\ r.todo = req[b].todo \ {req[b].wallet}
    BY <1>1 DEF ReqOK, Pcs, Post
  <2> HIDE DEF r
  <2> QED
    BY <2>1, <2>2 DEF Owes
<1> QED
  BY <1>2, <1>3

\* Steps of the mail loop: only mails and marks change besides the request
LEMMA MailStep ==
    ASSUME AccessInv, scene' = scene, UNCHANGED <<grants, email, audit, revokedDay, pending, issued, keyVars, cookie, day>>,
           mails' \in [Wallets -> Nat], sent' \in [Wallets -> BOOLEAN],
           NEW b \in Browsers, NEW r, Moves(b, r), ReqOK(r, issued), r.pc \in {"idle", "mail", "mark"}, Mails'
    PROVE  AccessInv'
<1>1. /\ DeskShape /\ ReqShape /\ Entitlement /\ Ages /\ AuditTellsStatus
      /\ UNCHANGED <<grants, email, audit, revokedDay, pending, issued, keys, session, cookie, day>>
      /\ UNCHANGED <<pending, issued, keyVars>> /\ UNCHANGED <<grants, revokedDay, cookie, day>>
  BY DEF AccessInv, DeskShape, keyVars
<1>2. QuietCh(req[b], r) /\ QuietRoom(req[b], r) /\ QuietEntry(req[b], r) /\ QuietAge(req[b], r)
  BY DEF QuietCh, QuietRoom, QuietEntry, QuietAge, Post, Checked
<1>3. ChQuiet /\ RoomQuiet /\ EntryQuiet /\ AgeQuiet
  BY <1>1, <1>2, Quietly
<1>4. ReqShape'
  <2>1. issued' = issued /\ issued \in Nat
    BY <1>1 DEF DeskShape, KeyShape
  <2>2. ReqOK(r, issued') /\ req' = [req EXCEPT ![b] = r]
    BY <2>1 DEF Moves
  <2>3. issued' \in Nat /\ issued <= issued'
    BY <2>1
  <2> QED
    BY <1>1, <2>1, <2>2, <2>3, ReqMoves
<1>5. DeskShape'
  BY <1>1, <1>4 DEF DeskShape, LedgerShape, DayShape, KeyShape
<1>6. Challenges' /\ KeyRoom' /\ OwnersEntitled
  BY <1>1, <1>3, <1>5, KeysSleep
<1>7. CookiesEntitled /\ LogExtends /\ GrantsAsLogged
  BY <1>1 DEF CookiesEntitled, LogExtends, GrantsAsLogged, DeskShape, LedgerShape
<1>8. Entitlement' /\ Ages' /\ AuditTellsStatus'
  BY <1>1, <1>3, <1>6, <1>7, EntitlementKeeps, AgesKeep, StatusKeeps
<1> QED
  BY <1>5, <1>6, <1>8 DEF AccessInv

LEMMA AcSendApproval ==
    ASSUME AccessInv, scene' = scene, NEW b \in Browsers, SendApproval(b)
    PROVE  AccessInv'
<1> DEFINE o == req[b].wallet
<1>1. /\ DeskShape /\ LedgerShape /\ ReqShape /\ Mails /\ req[b].pc = "send" /\ ReqOK(req[b], issued)
      /\ UNCHANGED <<grants, email, audit, revokedDay, pending, issued, keyVars, cookie, day>>
      /\ sent' = sent /\ audit' = audit /\ mails \in [Wallets -> Nat] /\ sent \in [Wallets -> BOOLEAN]
  BY DEF AccessInv, DeskShape, ReqShape, LedgerShape, SendApproval
<1>2. o \in Wallets /\ o \in req[b].todo
  BY <1>1 DEF ReqOK
<1>3. PICK accepted \in BOOLEAN : /\ mails' = IF accepted THEN [mails EXCEPT ![req[b].wallet] = @ + 1] ELSE mails
                                  /\ AfterSend(b, accepted)
  BY DEF SendApproval
<1>4. LogExtends
  BY <1>1 DEF LogExtends, LedgerShape
<1>5. CASE ~accepted
  <2>1. mails' = mails /\ NextMail(b)
    BY <1>3, <1>5 DEF AfterSend, MarkAfter
  <2>2. PICK r : /\ Moves(b, r) /\ ReqOK(r, issued) /\ r.pc \in {"idle", "mail"}
                 /\ \A w \in Wallets : Owes(r, w) => w \in req[b].todo /\ w # req[b].wallet
    BY <1>1, <2>1, NextMailMoves
  <2>3. QuietMail(req[b], r)
    BY <1>1, <2>2 DEF QuietMail, Owes
  <2>4. MailQuiet /\ SentKeeps
    BY <1>1, <2>2, <2>3, Quietly DEF SentKeeps
  <2>5. Mails'
    BY <1>1, <1>4, <2>1, <2>4, MailsKeep
  <2> QED
    BY <1>1, <2>1, <2>2, <2>5, MailStep
<1>6. CASE accepted
  <2>1. mails' = [mails EXCEPT ![o] = @ + 1] /\ Goto(b, "mark")
    BY <1>3, <1>6 DEF AfterSend, MarkAfter
  <2>2. PICK r : /\ Moves(b, r) /\ DOMAIN r = {"pc", "wallet", "ch", "label", "todo"} /\ r.pc = "mark" /\ r.wallet = req[b].wallet
                 /\ r.ch = req[b].ch /\ r.label = req[b].label /\ r.todo = req[b].todo
    BY <1>1, <2>1, GotoMoves
  <2>3. ReqOK(r, issued)
    BY <1>1, <2>2 DEF ReqOK, Pcs, Post
  <2>4. \A c \in Browsers : req'[c] = IF c = b THEN r ELSE req[c]
    BY <1>1, <2>2 DEF Moves, ReqShape
  <2>5. mails' \in [Wallets -> Nat] /\ \A w \in Wallets : mails'[w] = IF w = o THEN mails[w] + 1 ELSE mails[w]
    BY <1>1, <1>2, <2>1
  <2>6. ASSUME NEW w \in Wallets PROVE mails'[w] + Cardinality(Owing(w)') <= Cardinality(Approvals(w)')
    <3>1. Approvals(w)' = Approvals(w)
      BY <1>1 DEF Approvals
    <3>2. /\ mails[w] \in Nat /\ mails[w] + Cardinality(Owing(w)) <= Cardinality(Approvals(w))
          /\ IsFiniteSet(Owing(w)) /\ Cardinality(Owing(w)) \in Nat /\ Cardinality(Approvals(w)) \in Nat
      BY <1>1, Counted DEF Mails
    <3>3. CASE w = o
      <4>1. b \in Owing(w) /\ Owing(w)' \subseteq Owing(w) \ {b}
        BY <1>1, <1>2, <2>2, <2>4, <3>3 DEF Owing, Owes
      <4>2. IsFiniteSet(Owing(w) \ {b}) /\ Cardinality(Owing(w) \ {b}) = Cardinality(Owing(w)) - 1
        BY <3>2, <4>1, FS_RemoveElement
      <4>3. Cardinality(Owing(w)') <= Cardinality(Owing(w)) - 1 /\ Cardinality(Owing(w)') \in Nat
        BY <4>1, <4>2, FS_Subset, FS_CardinalityType
      <4> QED
        BY <2>5, <3>1, <3>2, <3>3, <4>3
    <3>4. CASE w # o
      <4>1. Owing(w)' \subseteq Owing(w)
        BY <1>1, <2>2, <2>4, <3>4 DEF Owing, Owes
      <4>2. Cardinality(Owing(w)') <= Cardinality(Owing(w)) /\ Cardinality(Owing(w)') \in Nat
        BY <3>2, <4>1, FS_Subset, FS_CardinalityType
      <4> QED
        BY <2>5, <3>1, <3>2, <3>4, <4>2
    <3> QED
      BY <3>3, <3>4
  <2>7. \A w \in Wallets : mails[w] \in Nat /\ mails'[w] >= mails[w]
    BY <1>1, <2>5
  <2>8. \A w \in Wallets : sent'[w] => mails'[w] > 0
    BY <1>1, <2>5, <2>7 DEF Mails
  <2>9. ASSUME NEW c \in Browsers, req'[c].pc = "mark" PROVE mails'[req'[c].wallet] > 0
    <3>1. CASE c = b
      BY <1>1, <1>2, <2>2, <2>4, <2>5, <2>7, <3>1
    <3>2. CASE c # b
      <4>1. req'[c] = req[c] /\ req[c].wallet \in Wallets /\ mails[req[c].wallet] > 0
        BY <1>1, <2>4, <2>9, <3>2 DEF Mails, ReqShape, ReqOK
      <4> QED
        BY <2>7, <2>5, <4>1
    <3> QED
      BY <3>1, <3>2
  <2>10. Mails'
    BY <2>6, <2>8, <2>9 DEF Mails
  <2> QED
    BY <1>1, <2>2, <2>3, <2>5, <2>10, MailStep
<1> QED
  BY <1>5, <1>6

LEMMA AcMarkEmailSent ==
    ASSUME AccessInv, scene' = scene, NEW b \in Browsers, MarkEmailSent(b)
    PROVE  AccessInv'
<1> DEFINE o == req[b].wallet
<1>1. /\ DeskShape /\ LedgerShape /\ ReqShape /\ Mails /\ req[b].pc = "mark" /\ ReqOK(req[b], issued)
      /\ UNCHANGED <<grants, email, audit, revokedDay, pending, issued, keyVars, cookie, day>>
      /\ audit' = audit /\ mails' = mails /\ mails \in [Wallets -> Nat] /\ sent \in [Wallets -> BOOLEAN]
      /\ sent' = [sent EXCEPT ![o] = TRUE] /\ NextMail(b)
  BY DEF AccessInv, DeskShape, ReqShape, LedgerShape, MarkEmailSent
<1>2. o \in Wallets /\ mails[o] > 0
  BY <1>1 DEF ReqOK, Mails
<1>3. PICK r : /\ Moves(b, r) /\ ReqOK(r, issued) /\ r.pc \in {"idle", "mail"}
               /\ \A w \in Wallets : Owes(r, w) => w \in req[b].todo /\ w # req[b].wallet
  BY <1>1, NextMailMoves
<1>4. QuietMail(req[b], r)
  BY <1>1, <1>3 DEF QuietMail, Owes
<1>5. MailQuiet /\ LogExtends
  BY <1>1, <1>3, <1>4, Quietly DEF LogExtends, LedgerShape
<1>6. SentKeeps
  BY <1>1, <1>2 DEF SentKeeps
<1>7. Mails'
  BY <1>1, <1>5, <1>6, MailsKeep
<1>8. sent' \in [Wallets -> BOOLEAN]
  BY <1>1
<1> QED
  BY <1>1, <1>3, <1>7, <1>8, MailStep

LEMMA AcForget ==
    ASSUME AccessInv, scene' = scene, NEW b \in Browsers, NEW w \in Wallets, Forget(b, w)
    PROVE  AccessInv'
<1> DEFINE n == Len(audit)
           e == <<"forget_email", w>>
<1>1. /\ DeskShape /\ LedgerShape /\ ReqShape /\ Entitlement /\ Ages /\ AuditTellsStatus /\ Mails
      /\ UNCHANGED <<grants, mails, revokedDay, pending, issued, keys, session, req, cookie, day>>
      /\ UNCHANGED <<pending, issued, keyVars>> /\ UNCHANGED <<grants, revokedDay, cookie, day>>
      /\ n < MaxAudit /\ audit' = Append(audit, e) /\ email' = [email EXCEPT ![w] = FALSE] /\ sent' = [sent EXCEPT ![w] = FALSE]
  BY DEF AccessInv, DeskShape, Forget, keyVars
<1>2. audit \in Seq(Events) /\ n \in Nat /\ DOMAIN audit = 1..n /\ e \in Events
  BY <1>1, SeqFacts DEF LedgerShape, Events
<1>3. /\ audit' \in Seq(Events) /\ Len(audit') = n + 1 /\ DOMAIN audit' = 1..(n + 1)
      /\ \A i \in 1..n : audit'[i] = audit[i]
      /\ audit'[n + 1] = e
  <2> HIDE DEF e
  <2> QED
    BY <1>1, <1>2
<1>4. LogExtends
  BY <1>2, <1>3 DEF LogExtends
<1>5. LedgerShape'
  <2>1. email' \in [Wallets -> BOOLEAN] /\ sent' \in [Wallets -> BOOLEAN]
    BY <1>1 DEF LedgerShape
  <2>2. Len(audit') <= MaxAudit
    BY <1>1, <1>2, <1>3, AccessConstants
  <2>3. grants' \in [Wallets -> Statuses] /\ mails' \in [Wallets -> Nat]
    BY <1>1 DEF LedgerShape
  <2> QED
    BY <1>3, <2>1, <2>2, <2>3 DEF LedgerShape
<1>6. DeskShape'
  BY <1>1, <1>5 DEF DeskShape, DayShape, KeyShape, ReqShape
<1>7. ChQuiet /\ RoomQuiet /\ EntryQuiet /\ AgeQuiet /\ MailQuiet
  BY <1>1, NobodyMoves
<1>8. CookiesEntitled /\ GrantsAsLogged
  BY <1>1 DEF CookiesEntitled, GrantsAsLogged
<1>9. SentKeeps
  BY <1>1 DEF SentKeeps, LedgerShape
<1>10. Challenges' /\ KeyRoom' /\ OwnersEntitled
  BY <1>1, <1>6, <1>7, KeysSleep
<1>11. Entitlement' /\ Ages' /\ Mails'
  BY <1>1, <1>4, <1>7, <1>8, <1>9, <1>10, EntitlementKeeps, AgesKeep, MailsKeep
<1>12. AuditTellsStatus'
  <2>1. ASSUME NEW v \in Wallets PROVE StatusIsTold(v)'
    <3>1. StatusIsTold(v)
      BY <1>1, StatusTold
    <3>2. Mine(v)' = Mine(v)
      <4>1. ASSUME NEW i \in Mine(v)' PROVE i \in Mine(v)
        <5>1. i \in 1..(n + 1) /\ audit'[i][1] \in DOMAIN StatusAfter /\ audit'[i][2] = v
          BY <1>3 DEF Mine
        <5>2. i # n + 1
          BY <1>3, <5>1, StatusDomain
        <5>3. i \in 1..n
          BY <1>2, <5>1, <5>2
        <5> QED
          BY <1>2, <1>3, <5>1, <5>3 DEF Mine
      <4>2. ASSUME NEW i \in Mine(v) PROVE i \in Mine(v)'
        BY <1>2, <1>3 DEF Mine
      <4> QED
        BY <4>1, <4>2
    <3>3. \A i \in Mine(v) : audit'[i] = audit[i]
      BY <1>2, <1>3 DEF Mine
    <3>4. grants'[v] = grants[v]
      BY <1>1
    <3> QED
      BY <3>1, <3>2, <3>3, <3>4 DEF StatusIsTold
  <2> QED
    BY <2>1 DEF AuditTellsStatus, StatusIsTold, Mine
<1> QED
  BY <1>6, <1>10, <1>11, <1>12 DEF AccessInv

LEMMA AcRestart ==
    ASSUME AccessInv, scene' = scene, Restart
    PROVE  AccessInv'
<1>1. /\ DeskShape /\ KeyShape /\ issued \in Nat /\ issued' = issued /\ UNCHANGED <<grantVars, cookie, day>>
      /\ keys' = keys /\ session' = session
      /\ pending' = [f \in Flows |-> [w \in Wallets |-> 0]] /\ req' = [b \in Browsers |-> Idle]
  BY DEF AccessInv, DeskShape, KeyShape, Restart, keyVars
<1>2. ReqShape'
  <2>1. \A b \in Browsers : req'[b] = Idle /\ ReqOK(req'[b], issued')
    BY <1>1, IdleOK
  <2>2. req' = [b \in Browsers |-> req'[b]]
    BY <1>1
  <2> QED
    BY <2>1, <2>2 DEF ReqShape
<1>3. KeyShape'
  <2>1. pending' \in [Flows -> [Wallets -> Nat]]
    BY <1>1
  <2> QED
    BY <1>1, <2>1 DEF KeyShape
<1>4. DeskShape'
  BY <1>1, <1>2, <1>3, ShapeOfKeys
<1>5. PendingShrinks
  <2>1. \A w \in Wallets : InHand(w)' = 0
    BY <1>1 DEF InHand, Flows
  <2> QED
    BY <1>1, <2>1 DEF PendingShrinks
<1>6. ChQuiet /\ RoomQuiet /\ EntryQuiet /\ AgeQuiet /\ MailQuiet
  <2>1. \A b \in Browsers : req'[b] = Idle
    BY <1>1
  <2> QED
    BY <2>1, IdleIsQuiet DEF ChQuiet, RoomQuiet, EntryQuiet, AgeQuiet, MailQuiet
<1> QED
  BY <1>1, <1>4, <1>5, <1>6, KeysRest, DeskRests

-----------------------------------------------------------------------------
\* The keys of the browsers that are signed in at the start
LEMMA FirstKeys ==
    ASSUME AccessInit
    PROVE  /\ DOMAIN keys = 1..Len(keys) /\ Len(keys) \in Nat /\ Len(keys) <= Cardinality(Browsers)
           /\ \A i \in DOMAIN keys : keys[i].ch = i
           /\ \A i \in DOMAIN keys : keys[i].owner \in Wallets
                /\ (grants[keys[i].owner] = "approved" \/ keys[i].owner \in AdminWallets)
<1>1. IsFiniteSet(Browsers) /\ Cardinality(Browsers) \in Nat
  BY AccessConstants, FS_CardinalityType
<1>2. CASE keys = <<>>
  BY <1>1, <1>2
<1>3. CASE SignedIn
  <2> DEFINE n == Cardinality(Browsers)
             at == SetToSeq(Browsers)
  <2>1. PICK who \in [Browsers -> Wallets] :
          /\ \A b \in Browsers : grants[who[b]] = "approved" \/ who[b] \in AdminWallets
          /\ keys = [i \in 1..n |-> Key(who[at[i]], i, "referral-dashboard")]
    BY <1>3 DEF SignedIn
  <2>2. n \in Nat /\ at \in [1..n -> Browsers]
    BY <1>1, SeqOfSet
  <2> HIDE DEF n, at
  <2>3. \A i \in 1..n : keys[i].ch = i /\ keys[i].owner = who[at[i]] /\ at[i] \in Browsers
    BY <2>1, <2>2 DEF Key
  <2>4. DOMAIN keys = 1..n /\ Len(keys) = n
    <3>1. DeskShape
      BY ShapeInit
    <3>2. DOMAIN keys = 1..Len(keys) /\ Len(keys) \in Nat
      BY <3>1 DEF DeskShape, KeyShape
    <3>3. DOMAIN keys = 1..n
      BY <2>1
    <3>4. Len(keys) = n
      <4>1. PICK l \in Nat : l = Len(keys)
        BY <3>2
      <4>2. \A i \in Nat : i \in 1..l <=> i \in 1..n
        BY <3>2, <3>3, <4>1
      <4>3. (1 <= l => l <= n) /\ (1 <= n => n <= l)
        BY <2>2, <4>2
      <4> QED
        BY <2>2, <4>1, <4>3
    <3> QED
      BY <3>3, <3>4
  <2>5. \A i \in DOMAIN keys : keys[i].owner \in Wallets
                /\ (grants[keys[i].owner] = "approved" \/ keys[i].owner \in AdminWallets)
    BY <2>1, <2>3, <2>4
  <2> QED
    BY <2>2, <2>3, <2>4, <2>5 DEF n
<1> QED
  BY <1>2, <1>3 DEF AccessInit

LEMMA AcInit == AccessInit => AccessInv
<1> SUFFICES ASSUME AccessInit PROVE AccessInv
  OBVIOUS
<1>1. DeskShape
  BY ShapeInit
<1>2. /\ \A b \in Browsers : req[b] = Idle
      /\ \A w \in Wallets : InHand(w) = 0 /\ cookie[w] = Never /\ revokedDay[w] = Never /\ mails[w] = 0 /\ sent[w] = FALSE
      /\ grants \in [Wallets -> {"none", "approved"}] /\ issued \in Nat
  <2>1. issued \in Nat
    BY <1>1 DEF DeskShape, KeyShape
  <2> QED
    BY <2>1 DEF AccessInit, InHand, Flows
<1>3. /\ DOMAIN keys = 1..Len(keys) /\ Len(keys) \in Nat /\ Len(keys) <= Cardinality(Browsers)
      /\ \A i \in DOMAIN keys : keys[i].ch = i
      /\ \A i \in DOMAIN keys : keys[i].owner \in Wallets
           /\ (grants[keys[i].owner] = "approved" \/ keys[i].owner \in AdminWallets)
  BY FirstKeys
<1>4. /\ \A i \in DOMAIN audit : \E w \in Wallets : grants[w] = "approved" /\ audit[i] = <<"approve", w>>
      /\ \A w \in Wallets : grants[w] = "approved" => \E i \in DOMAIN audit : audit[i] = <<"approve", w>>
      /\ \A i, j \in DOMAIN audit : audit[i] = audit[j] => i = j
  BY FirstLog
<1>5. Idle.pc = "idle" /\ Idle.todo = {}
  BY IdleOK
<1>6. Challenges
  BY <1>2, <1>3, <1>5 DEF Challenges, Post
<1>7. KeyRoom
  <2> SUFFICES ASSUME NEW w \in Wallets
               PROVE  Cardinality(LiveKeys(w)) + Cardinality(Issuing(w)) <= MaxKeysPerOwner + Cardinality(Browsers) - 1
    BY DEF KeyRoom
  <2>1. Issuing(w) = {}
    BY <1>2, <1>5 DEF Issuing
  <2>2. LiveKeys(w) \subseteq 1..Len(keys)
    BY <1>3 DEF LiveKeys
  <2>3. IsFiniteSet(1..Len(keys)) /\ Cardinality(1..Len(keys)) = Len(keys)
    <3>1. PICK l \in Nat : l = Len(keys)
      BY <1>3
    <3>2. IsFiniteSet(1..l) /\ Cardinality(1..l) = l
      BY FS_Interval
    <3> QED
      BY <3>1, <3>2
  <2>4. Cardinality(LiveKeys(w)) <= Len(keys)
    BY <2>2, <2>3, FS_Subset
  <2>5. Cardinality(Issuing(w)) = 0
    BY <2>1, FS_EmptySet
  <2> QED
    BY <1>1, <1>3, <2>4, <2>5, Counted, AccessConstants
<1>8. Entitlement
  <2>1. \A w \in Wallets : grants[w] = "approved" => ApprovedOnce(w)
    BY <1>4 DEF ApprovedOnce, Range
  <2>2. \A i \in DOMAIN keys : Entitled(keys[i].owner)
    BY <1>3, <2>1 DEF Entitled
  <2> QED
    BY <1>2, <1>5, <2>1, <2>2 DEF Entitlement, Checked, Post
<1>9. Ages
  BY <1>2, <1>5 DEF Ages
<1>10. AuditTellsStatus
  <2>1. ASSUME NEW w \in Wallets PROVE StatusIsTold(w)
    <3>1. CASE grants[w] # "approved"
      <4>1. Mine(w) = {}
        <5> SUFFICES ASSUME NEW i \in Mine(w) PROVE FALSE
          OBVIOUS
        <5>1. i \in DOMAIN audit /\ audit[i][2] = w
          BY DEF Mine
        <5>2. PICK v \in Wallets : grants[v] = "approved" /\ audit[i] = <<"approve", v>>
          BY <1>4, <5>1
        <5> QED
          BY <3>1, <5>1, <5>2
      <4>2. grants[w] = "none"
        BY <1>2, <3>1
      <4> QED
        BY <4>1, <4>2 DEF StatusIsTold
    <3>2. CASE grants[w] = "approved"
      <4>1. PICK k \in DOMAIN audit : audit[k] = <<"approve", w>>
        BY <1>4, <3>2
      <4>2. k \in Mine(w)
        BY <4>1, StatusDomain DEF Mine
      <4>3. ASSUME NEW i \in Mine(w) PROVE i = k
        <5>1. i \in DOMAIN audit /\ audit[i][2] = w
          BY DEF Mine
        <5>2. PICK v \in Wallets : audit[i] = <<"approve", v>>
          BY <1>4, <5>1
        <5>3. audit[i] = audit[k]
          BY <4>1, <5>1, <5>2
        <5> QED
          BY <1>4, <5>1, <5>3
      <4>4. k \in Nat
        BY <1>1, SeqFacts DEF DeskShape, LedgerShape
      <4>5. grants[w] = StatusAfter[audit[k][1]]
        BY <3>2, <4>1, StatusDomain
      <4>6. \A i \in Mine(w) : i <= k
        BY <4>3, <4>4
      <4> QED
        BY <4>2, <4>5, <4>6 DEF StatusIsTold
    <3> QED
      BY <3>1, <3>2
  <2> QED
    BY <2>1, StatusTold
<1>11. Mails
  <2>1. ASSUME NEW w \in Wallets PROVE mails[w] + Cardinality(Owing(w)) <= Cardinality(Approvals(w))
    <3>1. Owing(w) = {}
      BY <1>2, <1>5 DEF Owing, Owes
    <3>2. Cardinality(Owing(w)) = 0
      BY <3>1, FS_EmptySet
    <3> QED
      BY <1>1, <1>2, <3>2, Counted
  <2> QED
    BY <1>2, <1>5, <2>1 DEF Mails
<1> QED
  BY <1>1, <1>6, <1>7, <1>8, <1>9, <1>10, <1>11 DEF AccessInv

\* Nothing of the invariant moves when nothing does
LEMMA AcStutter ==
    ASSUME AccessInv, UNCHANGED accessVars
    PROVE  AccessInv'
<1>1. UNCHANGED <<scene, grants, email, sent, mails, audit, revokedDay, pending, issued, keys, session, req, cookie, day>>
  BY DEF accessVars, grantVars, keyVars
<1>2. DeskShape'
  BY <1>1 DEF AccessInv, DeskShape, LedgerShape, DayShape, KeyShape, ReqShape
<1>3. UNCHANGED <<grantVars, cookie, day>> /\ keys' = keys /\ pending' = pending /\ issued' = issued /\ req' = req
  BY <1>1 DEF grantVars
<1>4. KeysAge /\ PendingShrinks
  BY <1>3, KeysRest, HandsRest DEF AccessInv
<1> QED
  BY <1>2, <1>3, <1>4, NobodyMoves, DeskRests

LEMMA AcKeyStep ==
    ASSUME AccessInv, scene' = scene, KeyStep
    PROVE  AccessInv'
<1>1. ASSUME NEW b \in Browsers, NEW w \in Wallets, AdminSignIn(b, w) \/ ReferralSignIn(b, w) PROVE AccessInv'
  <2>1. "key" \in Flows /\ "admin-panel" \in Labels /\ "referral-dashboard" \in Labels
    BY DEF Flows, Labels
  <2> QED
    BY <1>1, <2>1, AcSignChallenge DEF AdminSignIn, ReferralSignIn
<1>2. "key" \in Flows
  BY DEF Flows
<1> QED
  BY <1>1, <1>2, AcBetaGate, AcVerifyKeyProof, AcRevokeAllWithLabel, AcCountActive, AcIssue, AcRevoke, AcSignOutAndRevoke,
     AcPostedAgain, AcExpire DEF KeyStep

LEMMA AcAct ==
    ASSUME AccessInv, scene' = scene, NEW b \in Browsers, NEW ws \in SUBSET Wallets, NEW a \in DOMAIN StatusAfter, Act(b, ws, a)
    PROVE  AccessInv'
BY AcDecide DEF Act

LEMMA AcPanelStep ==
    ASSUME AccessInv, scene' = scene, PanelStep
    PROVE  AccessInv'
<1>1. ASSUME NEW w \in Wallets, NEW attest \in BOOLEAN, PostWaitlist(w, attest) PROVE AccessInv'
  BY <1>1, AcJoin DEF PostWaitlist
<1> QED
  BY <1>1, AcAct, AcReadGrant, AcSendApproval, AcMarkEmailSent, AcForget DEF PanelStep

LEMMA AcSiteStep ==
    ASSUME AccessInv, scene' = scene, SiteStep
    PROVE  AccessInv'
<1>1. ASSUME NEW b \in Browsers, NEW w \in Wallets, Unlock(b, w) PROVE AccessInv'
  <2>1. "unlock" \in Flows /\ "none" \in Labels
    BY DEF Flows, Labels
  <2> QED
    BY <1>1, <2>1, AcSignChallenge DEF Unlock
<1>2. ASSUME NEW b \in Browsers, NEW w \in Wallets, NEW a \in DOMAIN StatusAfter, Act(b, {w}, a) PROVE AccessInv'
  <2>1. {w} \in SUBSET Wallets
    OBVIOUS
  <2> QED
    BY <1>2, <2>1, AcAct
<1>3. "unlock" \in Flows
  BY DEF Flows
<1> QED
  BY <1>1, <1>2, <1>3, AcVerifyUnlockProof, AcCheckApproved, AcMakeWalletCookie, AcReadGrant, AcExpire, AcNextDay DEF SiteStep

\* What the desk believes of keys, challenges, decisions, mails and days, in every reachable state
THEOREM AccessInvariant == AccessSpec => []AccessInv
<1>1. AccessInv /\ [AccessNext]_accessVars => AccessInv'
  <2> SUFFICES ASSUME AccessInv, [AccessNext]_accessVars PROVE AccessInv'
    OBVIOUS
  <2>1. CASE UNCHANGED accessVars
    BY <2>1, AcStutter
  <2>2. CASE AccessNext
    BY <2>2, AcKeyStep, AcPanelStep, AcSiteStep, AcRestart DEF AccessNext
  <2> QED
    BY <2>1, <2>2
<1> QED
  BY AcInit, <1>1, PTL DEF AccessSpec

\* However requests overlap, posts are repeated and the gateway restarts: a challenge buys one key, the cap on keys
\* gives way by the other browsers at most, only the approved hold keys and cookies, the log tells every status, no
\* decision mails a wallet twice, and a withdrawn wallet ages out (walletAuth.ts, apiKeys.ts, accessGrants.ts, gate.ts)
THEOREM AccessIsSafe == AccessSpec => []AccessSafe
<1>1. AccessInv => AccessSafe
  <2> SUFFICES ASSUME AccessInv PROVE AccessSafe
    OBVIOUS
  <2>1. DeskShape /\ LedgerShape /\ DayShape /\ KeyShape /\ Challenges /\ KeyRoom /\ Entitlement /\ Ages /\ AuditTellsStatus /\ Mails
    BY DEF AccessInv, DeskShape
  <2>2. AccessTypeOK
    <3>1. cookie \in [Wallets -> 0..day]
      <4>1. cookie \in [Wallets -> Nat] /\ day \in Nat /\ \A w \in Wallets : cookie[w] <= day
        BY <2>1, AccessConstants DEF DayShape
      <4> QED
        BY <4>1
    <3>2. \A b \in Browsers : session[b] \in 0..Len(keys)
      BY <2>1 DEF KeyShape
    <3> QED
      BY <2>1, <3>1, <3>2 DEF LedgerShape, DayShape, KeyShape, AccessTypeOK
  <2>3. OneKeyPerChallenge
    BY <2>1 DEF Challenges, OneKeyPerChallenge
  <2>4. KeyCap
    <3> SUFFICES ASSUME NEW w \in Wallets PROVE Cardinality(LiveKeys(w)) <= MaxKeysPerOwner + Cardinality(Browsers) - 1
      BY DEF KeyCap
    <3>1. Cardinality(LiveKeys(w)) + Cardinality(Issuing(w)) <= MaxKeysPerOwner + Cardinality(Browsers) - 1
      BY <2>1 DEF KeyRoom
    <3> QED
      BY <2>1, <3>1, Counted, AccessConstants
  <2>5. OnlyTheApproved
    <3>1. \A i \in DOMAIN keys : keys[i].owner \in Wallets
      <4>1. \A i \in DOMAIN keys : keys[i] \in KeyRec
        BY <2>1, SeqFacts DEF KeyShape
      <4> QED
        BY <4>1 DEF KeyRec
    <3> QED
      BY <2>1, <3>1 DEF Entitlement, Entitled, ApprovedOnce, OnlyTheApproved
  <2>6. MailMarkTruthful
    <3>1. ASSUME NEW w \in Wallets PROVE mails[w] <= Cardinality(Approvals(w))
      <4>1. mails[w] + Cardinality(Owing(w)) <= Cardinality(Approvals(w)) /\ mails[w] \in Nat
        BY <2>1 DEF Mails, LedgerShape
      <4> QED
        BY <2>1, <4>1, Counted
    <3> QED
      BY <2>1, <3>1 DEF Mails, Approvals, MailMarkTruthful
  <2>7. AgesOut
    BY <2>1, AccessConstants DEF Ages, DayShape, AgesOut, MayEnter, VerifyGateCookie
  <2> QED
    BY <2>1, <2>2, <2>3, <2>4, <2>5, <2>6, <2>7 DEF AccessSafe
<1> QED
  BY <1>1, AccessInvariant, PTL

\* The limiter and the desk beside each other and beside the other parts of the gateway: nobody gets in, stays in
\* or is served beyond what the desk granted (services of the keys, the grants and the limits)
THEOREM AdmissionIsSafe == MCSafe => []AdmissionSafe
<1>1. MCInit => AccessInit /\ RateInit
  BY DEF MCInit
<1>2. [MCNext]_<<deskVars, streamVars, readVars, dbVars, part>> => [AccessNext]_accessVars /\ [RateNext]_rateVars
  <2>1. ASSUME UNCHANGED deskVars PROVE UNCHANGED accessVars /\ UNCHANGED rateVars
    BY <2>1 DEF deskVars
  <2>2. ASSUME MCNext PROVE [AccessNext]_accessVars /\ [RateNext]_rateVars
    BY <2>1, <2>2 DEF MCNext
  <2> QED
    BY <2>1, <2>2
<1>3. AccessSafe /\ RateSafe => AdmissionSafe
  BY DEF AdmissionSafe
<1>4. MCSafe => AccessSpec /\ RateSpec
  BY <1>1, <1>2, PTL DEF MCSafe, AccessSpec, RateSpec
<1> QED
  BY <1>3, <1>4, AccessIsSafe, RateIsSafe, PTL

-----------------------------------------------------------------------------
(***************************************************************************)
(* The live stream: the registry of sockets.                                 *)
(***************************************************************************)

\* A connection the registry may hold: what it listens to and whom it stands for, it has shown a key of
Connection == [tokens : 0..MsgRate, isAlive : BOOLEAN, subscriptions : SUBSET Channels,
               user : Accounts \cup {NoUser}, proved : SUBSET Accounts]
KeyShown(c) == c.subscriptions \ {"events"} \subseteq c.proved /\ (c.user # NoUser => c.user \in c.proved)
OfAddress(i, held) == {s \in held : IpOf[s] = i}

WiresOK ==
    /\ wire \in [Sockets -> {"new", "open", "dead", "closing", "closed"}]
    /\ \A s \in Registered : wire[s] \in {"open", "dead", "closing"}
HeldOK ==
    /\ connections \in [Registered -> Connection] /\ Registered \subseteq Sockets
    /\ \A s \in Registered : KeyShown(connections[s])
CountsOK ==
    /\ IsFiniteSet(Registered) /\ Cardinality(Registered) <= MaxConnections
    /\ perIp \in [SocketIps -> Nat] /\ \A i \in SocketIps : perIp[i] = Cardinality(OfAddress(i, Registered))
LoginsOK ==
    /\ logins \in [Sockets -> [good : SUBSET Accounts, bad : Nat]]
    /\ \A s \in Sockets : IsFiniteSet(logins[s].good) /\ logins[s].bad <= MaxWaiting
FailuresOK ==
    /\ failedLogins \in [DOMAIN failedLogins -> Nat] /\ DOMAIN failedLogins \subseteq Sockets
    /\ \A s \in DOMAIN failedLogins : failedLogins[s] + logins[s].bad < MaxFailedLogins + MaxWaiting
RegistryInv == WiresOK /\ HeldOK /\ CountsOK
LoginsInv == LoginsOK /\ FailuresOK
SocketsInv == RegistryInv /\ LoginsInv

\* The caps and budgets are positive numbers
LEMMA SoConstants ==
    /\ IpOf \in [Sockets -> SocketIps] /\ NoUser \notin Accounts
    /\ MaxConnections \in Nat \ {0} /\ MaxPerIp \in Nat \ {0} /\ MsgRate \in Nat \ {0}
    /\ MaxFailedLogins \in Nat \ {0} /\ MaxWaiting \in Nat \ {0}
<1>1. \A x \in {MaxConnections, MaxPerIp, MsgRate, MaxFailedLogins, MaxWaiting} : x \in Nat \ {0}
  BY LiveSocketsConstants
<1> QED
  BY <1>1, LiveSocketsConstants

\* What the count of an address becomes when some of the registered sockets go
LEMMA SoCountWithout ==
    ASSUME NEW held, IsFiniteSet(held), NEW gone, NEW i
    PROVE  /\ Cardinality(OfAddress(i, held)) \in Nat /\ Cardinality(OfAddress(i, held \ gone)) \in Nat
           /\ Cardinality(OfAddress(i, held \ gone))
                = Cardinality(OfAddress(i, held)) - Cardinality(OfAddress(i, gone \cap held))
<1> DEFINE here == OfAddress(i, held)
<1>1. here \subseteq held
  BY DEF OfAddress
<1>2. IsFiniteSet(here)
  BY <1>1, FS_Subset
<1>3. OfAddress(i, held \ gone) = here \ gone
  BY DEF OfAddress
<1>4. OfAddress(i, gone \cap held) = here \cap gone
  BY DEF OfAddress
<1>5. IsFiniteSet(here \ gone) /\ Cardinality(here \ gone) = Cardinality(here) - Cardinality(here \cap gone)
  BY <1>2, FS_Difference
<1>6. Cardinality(here) \in Nat /\ Cardinality(here \ gone) \in Nat
  BY <1>2, <1>5, FS_CardinalityType
<1> QED
  BY <1>3, <1>4, <1>5, <1>6

\* ... and when one more is registered
LEMMA SoCountWith ==
    ASSUME NEW held, IsFiniteSet(held), NEW s, s \notin held, NEW i
    PROVE  Cardinality(OfAddress(i, held \cup {s}))
             = IF IpOf[s] = i THEN Cardinality(OfAddress(i, held)) + 1 ELSE Cardinality(OfAddress(i, held))
<1> DEFINE here == OfAddress(i, held)
<1>1. here \subseteq held
  BY DEF OfAddress
<1>2. IsFiniteSet(here)
  BY <1>1, FS_Subset
<1>3. CASE IpOf[s] = i
  <2>1. OfAddress(i, held \cup {s}) = here \cup {s}
    BY <1>3 DEF OfAddress
  <2>2. s \notin here
    BY <1>1
  <2>3. Cardinality(here \cup {s}) = Cardinality(here) + 1
    BY <1>2, <2>2, FS_AddElement
  <2> QED
    BY <1>3, <2>1, <2>3
<1>4. CASE IpOf[s] # i
  <2>1. OfAddress(i, held \cup {s}) = here
    BY <1>4 DEF OfAddress
  <2> QED
    BY <1>4, <2>1
<1> QED
  BY <1>3, <1>4

\* Nobody comes or goes: the entries may change as long as the key behind each was shown
LEMMA SoSameHeld ==
    ASSUME RegistryInv, connections' \in [Registered -> Connection], perIp' = perIp,
           \A s \in Registered : KeyShown(connections'[s]),
           wire' \in [Sockets -> {"new", "open", "dead", "closing", "closed"}],
           \A s \in Registered : wire'[s] \in {"open", "dead", "closing"}
    PROVE  RegistryInv'
<1>1. Registered' = Registered
  BY DEF Registered
<1>2. WiresOK'
  BY <1>1 DEF WiresOK
<1>3. HeldOK'
  BY <1>1 DEF RegistryInv, HeldOK
<1>4. CountsOK'
  BY <1>1 DEF RegistryInv, CountsOK
<1> QED
  BY <1>2, <1>3, <1>4 DEF RegistryInv

\* Some go, whatever state they were in, and the count of each address is kept
LEMMA SoSomeGo ==
    ASSUME RegistryInv, NEW gone,
           connections' \in [Registered \ gone -> Connection],
           \A s \in Registered \ gone : KeyShown(connections'[s]),
           perIp' = [i \in SocketIps |-> IpCount(i, gone)],
           wire' \in [Sockets -> {"new", "open", "dead", "closing", "closed"}],
           \A s \in Registered \ gone : wire'[s] = wire[s]
    PROVE  RegistryInv'
<1>1. Registered' = Registered \ gone
  BY DEF Registered
<1>2. WiresOK'
  BY <1>1 DEF WiresOK, RegistryInv
<1>3. HeldOK'
  BY <1>1 DEF RegistryInv, HeldOK
<1>4. CountsOK'
  <2>1. IsFiniteSet(Registered) /\ Cardinality(Registered) <= MaxConnections
    BY DEF RegistryInv, CountsOK
  <2>2. IsFiniteSet(Registered \ gone) /\ Cardinality(Registered \ gone) <= Cardinality(Registered)
    BY <2>1, FS_Subset
  <2>3. Cardinality(Registered) \in Nat /\ Cardinality(Registered \ gone) \in Nat
    BY <2>1, <2>2, FS_CardinalityType
  <2>4. \A i \in SocketIps : perIp'[i] = Cardinality(OfAddress(i, Registered \ gone)) /\ perIp'[i] \in Nat
    <3>1. TAKE i \in SocketIps
    <3>2. perIp'[i] = perIp[i] - Cardinality(OfAddress(i, gone \cap Registered))
      BY DEF IpCount, Left, OfAddress
    <3>3. perIp[i] = Cardinality(OfAddress(i, Registered))
      BY DEF RegistryInv, CountsOK
    <3>4. /\ Cardinality(OfAddress(i, Registered \ gone)) \in Nat
          /\ Cardinality(OfAddress(i, Registered \ gone))
               = Cardinality(OfAddress(i, Registered)) - Cardinality(OfAddress(i, gone \cap Registered))
      BY <2>1, SoCountWithout
    <3> QED
      BY <3>2, <3>3, <3>4
  <2>5. perIp' \in [SocketIps -> Nat]
    BY <2>4
  <2> QED
    BY <1>1, <2>1, <2>2, <2>3, <2>4, <2>5, SoConstants DEF CountsOK
<1> QED
  BY <1>2, <1>3, <1>4 DEF RegistryInv

\* Unregister and close: a message that breaks the budget, a slow reader
LEMMA SoEvicted ==
    ASSUME RegistryInv, NEW gone, Unregister(gone), Closing(gone)
    PROVE  RegistryInv'
<1>1. connections' \in [Registered \ gone -> Connection] /\ \A s \in Registered \ gone : KeyShown(connections'[s])
  BY DEF Unregister, RegistryInv, HeldOK
<1>2. perIp' = [i \in SocketIps |-> IpCount(i, gone)]
  BY DEF Unregister
<1>3. wire' \in [Sockets -> {"new", "open", "dead", "closing", "closed"}] /\ \A s \in Registered \ gone : wire'[s] = wire[s]
  BY DEF Closing, RegistryInv, WiresOK, HeldOK
<1> QED
  BY <1>1, <1>2, <1>3, SoSomeGo

\* A message leaves the registry alone, changes the entry of its socket, or ends it
LEMMA SoMessage ==
    ASSUME RegistryInv, NEW s \in Registered, NEW c \in Connection, KeyShown(c),
           connections' = [connections EXCEPT ![s] = c], perIp' = perIp, wire' = wire \/ Closing({s})
    PROVE  RegistryInv'
<1>1. connections' \in [Registered -> Connection] /\ \A t \in Registered : KeyShown(connections'[t])
  BY DEF RegistryInv, HeldOK
<1>2. wire' \in [Sockets -> {"new", "open", "dead", "closing", "closed"}]
  BY DEF Closing, RegistryInv, WiresOK
<1>3. \A t \in Registered : wire'[t] \in {"open", "dead", "closing"}
  BY DEF Closing, RegistryInv, WiresOK, HeldOK
<1> QED
  BY <1>1, <1>2, <1>3, SoSameHeld

\* allowMessage takes a token; what the socket has shown stays shown
LEMMA SoSpent ==
    ASSUME RegistryInv, NEW s \in Registered, ~(connections[s].tokens < 1)
    PROVE  Spent(s) \in Connection /\ KeyShown(Spent(s)) /\ Spent(s).subscriptions = connections[s].subscriptions
           /\ Spent(s).user = connections[s].user /\ Spent(s).proved = connections[s].proved
<1>1. connections[s] \in Connection /\ KeyShown(connections[s])
  BY DEF RegistryInv, HeldOK
<1>2. connections[s].tokens \in 0..MsgRate /\ connections[s].tokens - 1 \in 0..MsgRate
  BY <1>1, SoConstants DEF Connection
<1>3. Spent(s) = [connections[s] EXCEPT !.tokens = connections[s].tokens - 1]
  BY DEF Spent
<1>4. Spent(s) \in Connection
  BY <1>1, <1>2, <1>3 DEF Connection
<1>5. Spent(s).subscriptions = connections[s].subscriptions /\ Spent(s).user = connections[s].user /\ Spent(s).proved = connections[s].proved
  BY <1>1, <1>3 DEF Connection
<1> QED
  BY <1>1, <1>4, <1>5 DEF KeyShown

\* A socket that is new, closed or gone is not registered
LEMMA SoRegister ==
    ASSUME RegistryInv, NEW s \in Sockets, Register(s)
    PROVE  RegistryInv'
<1>1. wire[s] = "new" /\ s \notin Registered
  BY DEF Register, RegistryInv, WiresOK
<1>2. CASE Cardinality(Registered) >= MaxConnections \/ perIp[IpOf[s]] >= MaxPerIp
  <2>1. wire' = [wire EXCEPT ![s] = "closing"] /\ connections' = connections /\ perIp' = perIp
    BY <1>2 DEF Register
  <2>2. wire' \in [Sockets -> {"new", "open", "dead", "closing", "closed"}] /\ \A t \in Registered : wire'[t] = wire[t]
    BY <1>1, <2>1 DEF RegistryInv, WiresOK, HeldOK
  <2>3. connections' \in [Registered -> Connection] /\ \A t \in Registered : KeyShown(connections'[t])
    BY <2>1 DEF RegistryInv, HeldOK
  <2>4. \A t \in Registered : wire'[t] \in {"open", "dead", "closing"}
    BY <2>2 DEF RegistryInv, WiresOK
  <2> QED
    BY <2>1, <2>2, <2>3, <2>4, SoSameHeld
<1>3. CASE ~(Cardinality(Registered) >= MaxConnections \/ perIp[IpOf[s]] >= MaxPerIp)
  <2>1. /\ wire' = [wire EXCEPT ![s] = "open"] /\ perIp' = [perIp EXCEPT ![IpOf[s]] = perIp[IpOf[s]] + 1]
        /\ connections' = [t \in Registered \cup {s} |-> IF t = s THEN WsConnection ELSE connections[t]]
    BY <1>3 DEF Register
  <2>2. Registered' = Registered \cup {s}
    BY <2>1 DEF Registered
  <2>3. WsConnection \in Connection /\ KeyShown(WsConnection)
    BY SoConstants DEF WsConnection, Connection, KeyShown
  <2>4. HeldOK'
    BY <2>1, <2>2, <2>3 DEF RegistryInv, HeldOK
  <2>5. WiresOK'
    BY <2>1, <2>2 DEF RegistryInv, WiresOK, HeldOK
  <2>6. IsFiniteSet(Registered) /\ Cardinality(Registered) \in Nat /\ Cardinality(Registered) < MaxConnections
    BY <1>3, FS_CardinalityType, SoConstants DEF RegistryInv, CountsOK
  <2>7. IsFiniteSet(Registered \cup {s}) /\ Cardinality(Registered \cup {s}) = Cardinality(Registered) + 1
    BY <1>1, <2>6, FS_AddElement
  <2>8. perIp \in [SocketIps -> Nat] /\ IpOf[s] \in SocketIps
    BY SoConstants DEF RegistryInv, CountsOK
  <2>9. perIp' \in [SocketIps -> Nat]
    BY <2>1, <2>8
  <2>10. \A i \in SocketIps : perIp'[i] = Cardinality(OfAddress(i, Registered \cup {s}))
    <3>1. TAKE i \in SocketIps
    <3>2. perIp'[i] = IF IpOf[s] = i THEN perIp[i] + 1 ELSE perIp[i]
      BY <2>1, <2>8
    <3>3. perIp[i] = Cardinality(OfAddress(i, Registered))
      BY DEF RegistryInv, CountsOK
    <3> QED
      BY <1>1, <2>6, <3>2, <3>3, SoCountWith
  <2>11. CountsOK'
    BY <2>2, <2>6, <2>7, <2>9, <2>10, SoConstants DEF CountsOK
  <2> QED
    BY <2>4, <2>5, <2>11 DEF RegistryInv
<1> QED
  BY <1>2, <1>3

\* Every message and event about a socket leaves the registry in order
LEMMA SoRegistryEvent ==
    ASSUME RegistryInv, NEW s \in Sockets,
           Ping(s) \/ Refill(s) \/ Pong(s) \/ PeerDies(s) \/ PeerCloses(s) \/ OnClose(s) \/ LoginRefused(s)
    PROVE  RegistryInv'
<1>1. CASE Ping(s)
  <2>1. s \in Registered
    BY <1>1 DEF Ping, Message
  <2>2. CASE connections[s].tokens < 1
    BY <1>1, <2>2, SoEvicted DEF Ping, Message
  <2>3. CASE ~(connections[s].tokens < 1)
    <3>1. connections' = [connections EXCEPT ![s] = Spent(s)] /\ perIp' = perIp /\ wire' = wire
      BY <1>1, <2>3 DEF Ping, Message
    <3> QED
      BY <2>1, <2>3, <3>1, SoSpent, SoMessage
  <2> QED
    BY <2>2, <2>3
<1>2. CASE Refill(s)
  <2> DEFINE c == [connections[s] EXCEPT !.tokens = MsgRate]
  <2>1. s \in Registered /\ connections' = [connections EXCEPT ![s].tokens = MsgRate] /\ perIp' = perIp /\ wire' = wire
    BY <1>2 DEF Refill
  <2>2. connections' = [connections EXCEPT ![s] = c]
    BY <2>1
  <2>3. connections[s] \in Connection /\ KeyShown(connections[s])
    BY <2>1 DEF RegistryInv, HeldOK
  <2>4. c \in Connection /\ KeyShown(c)
    BY <2>3, SoConstants DEF Connection, KeyShown
  <2> QED
    BY <2>1, <2>2, <2>4, SoMessage
<1>3. CASE Pong(s)
  <2> DEFINE c == [connections[s] EXCEPT !.isAlive = TRUE]
  <2>1. s \in Registered /\ connections' = [connections EXCEPT ![s].isAlive = TRUE] /\ perIp' = perIp /\ wire' = wire
    BY <1>3 DEF Pong
  <2>2. connections' = [connections EXCEPT ![s] = c]
    BY <2>1
  <2>3. connections[s] \in Connection /\ KeyShown(connections[s])
    BY <2>1 DEF RegistryInv, HeldOK
  <2>4. c \in Connection /\ KeyShown(c)
    BY <2>3 DEF Connection, KeyShown
  <2> QED
    BY <2>1, <2>2, <2>4, SoMessage
<1>4. CASE PeerDies(s) \/ PeerCloses(s)
  <2>1. connections' = connections /\ perIp' = perIp
    BY <1>4 DEF PeerDies, PeerCloses
  <2>2. wire' \in [Sockets -> {"new", "open", "dead", "closing", "closed"}] /\ \A t \in Registered : wire'[t] \in {"open", "dead", "closing"}
    BY <1>4 DEF PeerDies, PeerCloses, RegistryInv, WiresOK, HeldOK
  <2>3. connections' \in [Registered -> Connection] /\ \A t \in Registered : KeyShown(connections'[t])
    BY <2>1 DEF RegistryInv, HeldOK
  <2> QED
    BY <2>1, <2>2, <2>3, SoSameHeld
<1>5. CASE OnClose(s)
  <2>1. Unregister({s}) /\ wire' = [wire EXCEPT ![s] = "closed"]
    BY <1>5 DEF OnClose
  <2>2. /\ connections' \in [Registered \ {s} -> Connection] /\ \A t \in Registered \ {s} : KeyShown(connections'[t])
        /\ perIp' = [i \in SocketIps |-> IpCount(i, {s})]
    BY <2>1 DEF Unregister, RegistryInv, HeldOK
  <2>3. wire' \in [Sockets -> {"new", "open", "dead", "closing", "closed"}] /\ \A t \in Registered \ {s} : wire'[t] = wire[t]
    BY <2>1 DEF RegistryInv, WiresOK, HeldOK
  <2> QED
    BY <2>2, <2>3, SoSomeGo
<1>6. CASE LoginRefused(s)
  <2>1. connections' = connections /\ perIp' = perIp /\ wire' = wire
    BY <1>6 DEF LoginRefused
  <2> QED
    BY <2>1, SoSameHeld DEF RegistryInv, HeldOK, WiresOK
<1> QED
  BY <1>1, <1>2, <1>3, <1>4, <1>5, <1>6

\* canSubscribe lets a socket listen to an account only as that account
LEMMA SoRegistrySubscribe ==
    ASSUME RegistryInv, NEW s \in Sockets, NEW ch \in Channels, Subscribe(s, ch) \/ Unsubscribe(s, ch)
    PROVE  RegistryInv'
<1>1. s \in Registered
  BY DEF Subscribe, Unsubscribe, Message
<1>2. CASE connections[s].tokens < 1
  BY <1>2, SoEvicted DEF Subscribe, Unsubscribe, Message
<1>3. CASE ~(connections[s].tokens < 1)
  <2> DEFINE spent == Spent(s)
  <2> DEFINE more == [spent EXCEPT !.subscriptions = IF CanSubscribe(s, ch) THEN spent.subscriptions \cup {ch} ELSE spent.subscriptions]
  <2> DEFINE less == [spent EXCEPT !.subscriptions = spent.subscriptions \ {ch}]
  <2>1. spent \in Connection /\ KeyShown(spent) /\ spent.user = connections[s].user
    BY <1>1, <1>3, SoSpent
  <2> HIDE DEF spent
  <2>2. more \in Connection /\ less \in Connection
    BY <2>1 DEF Connection
  <2>3. KeyShown(less)
    BY <2>1 DEF KeyShown, Connection
  <2>4. KeyShown(more)
    <3>1. more.proved = spent.proved /\ more.user = spent.user
      BY <2>1 DEF Connection
    <3>2. CASE CanSubscribe(s, ch)
      <4>1. more.subscriptions = spent.subscriptions \cup {ch}
        BY <2>1, <3>2 DEF Connection
      <4>2. ch = "events" \/ ch \in spent.proved
        BY <2>1, <3>2, SoConstants DEF CanSubscribe, KeyShown, Channels
      <4> QED
        BY <2>1, <3>1, <4>1, <4>2 DEF KeyShown
    <3>3. CASE ~CanSubscribe(s, ch)
      <4>1. more.subscriptions = spent.subscriptions
        BY <2>1, <3>3 DEF Connection
      <4> QED
        BY <2>1, <3>1, <4>1 DEF KeyShown
    <3> QED
      BY <3>2, <3>3
  <2>5. perIp' = perIp /\ wire' = wire
    BY <1>3 DEF Subscribe, Unsubscribe, Message
  <2>6. connections' = [connections EXCEPT ![s] = more] \/ connections' = [connections EXCEPT ![s] = less]
    BY <1>3 DEF Subscribe, Unsubscribe, Message, spent
  <2> HIDE DEF more, less
  <2> QED
    BY <1>1, <2>2, <2>3, <2>4, <2>5, <2>6, SoMessage
<1> QED
  BY <1>2, <1>3

\* A login is asked for, and answered: the answer finds the connection or does not
LEMMA SoRegistryLogin ==
    ASSUME RegistryInv, NEW s \in Sockets,
           (\E cred \in Accounts \cup {"missing", "wrong"} : Login(s, cred)) \/ \E o \in Accounts : LoginWithBearer(s, o)
    PROVE  RegistryInv'
<1>1. ASSUME NEW cred \in Accounts \cup {"missing", "wrong"}, Login(s, cred) PROVE RegistryInv'
  <2>1. s \in Registered
    BY <1>1 DEF Login, Message
  <2>2. CASE connections[s].tokens < 1
    BY <1>1, <2>2, SoEvicted DEF Login, Message
  <2>3. CASE ~(connections[s].tokens < 1)
    <3>1. connections' = [connections EXCEPT ![s] = Spent(s)] /\ perIp' = perIp /\ (wire' = wire \/ Closing({s}))
      BY <1>1, <2>3 DEF Login, Message
    <3> QED
      BY <2>1, <2>3, <3>1, SoSpent, SoMessage
  <2> QED
    BY <2>2, <2>3
<1>2. ASSUME NEW o \in Accounts, LoginWithBearer(s, o) PROVE RegistryInv'
  <2>1. wire' = wire /\ perIp' = perIp
    BY <1>2 DEF LoginWithBearer
  <2>2. CASE s \in Registered
    <3> DEFINE c == [connections[s] EXCEPT !.user = o, !.proved = connections[s].proved \cup {o}]
    <3>1. connections' = [connections EXCEPT ![s].user = o, ![s].proved = @ \cup {o}]
      BY <1>2, <2>2 DEF LoginWithBearer
    <3>2. connections' = [connections EXCEPT ![s] = c]
      BY <2>2, <3>1 DEF RegistryInv, HeldOK
    <3>3. connections[s] \in Connection /\ KeyShown(connections[s])
      BY <2>2 DEF RegistryInv, HeldOK
    <3>4. c \in Connection /\ KeyShown(c)
      BY <3>3 DEF Connection, KeyShown
    <3> QED
      BY <2>1, <2>2, <3>2, <3>4, SoMessage
  <2>3. CASE s \notin Registered
    <3>1. connections' = connections
      BY <1>2, <2>3 DEF LoginWithBearer
    <3> QED
      BY <2>1, <3>1, SoSameHeld DEF RegistryInv, HeldOK, WiresOK
  <2> QED
    BY <2>2, <2>3
<1> QED
  BY <1>1, <1>2

\* The heartbeat and the fan-out end several sockets at once
LEMMA SoRegistrySweep ==
    ASSUME RegistryInv, PingSweep \/ \E ch \in Channels, slow \in SUBSET Sockets : Broadcast(ch, slow)
    PROVE  RegistryInv'
<1>1. CASE PingSweep
  <2> DEFINE gone == {s \in Registered : ~connections[s].isAlive}
  <2>1. /\ Closing(gone) /\ perIp' = [i \in SocketIps |-> IpCount(i, gone)]
        /\ connections' = [s \in Registered \ gone |-> Pinged(s)]
    BY <1>1 DEF PingSweep
  <2>2. \A s \in Registered : Pinged(s) \in Connection /\ KeyShown(Pinged(s))
    BY DEF Pinged, RegistryInv, HeldOK, Connection, KeyShown
  <2>3. wire' \in [Sockets -> {"new", "open", "dead", "closing", "closed"}] /\ \A s \in Registered \ gone : wire'[s] = wire[s]
    BY <2>1 DEF Closing, RegistryInv, WiresOK, HeldOK
  <2> HIDE DEF gone
  <2>4. connections' \in [Registered \ gone -> Connection] /\ \A s \in Registered \ gone : KeyShown(connections'[s])
    BY <2>1, <2>2
  <2> QED
    BY <2>1, <2>3, <2>4, SoSomeGo
<1>2. CASE \E ch \in Channels, slow \in SUBSET Sockets : Broadcast(ch, slow)
  BY <1>2, SoEvicted DEF Broadcast
<1> QED
  BY <1>1, <1>2

\* Failures are counted, and what waits for the database with them, below the cap on both
LEMMA SoLogins ==
    ASSUME LoginsInv, SocketsNext
    PROVE  LoginsInv'
<1>1. ASSUME UNCHANGED <<failedLogins, logins>> PROVE LoginsInv'
  BY <1>1 DEF LoginsInv, LoginsOK, FailuresOK
<1>2. ASSUME NEW s \in Sockets, OnClose(s) PROVE LoginsInv'
  <2>1. logins' = logins /\ failedLogins' = [t \in DOMAIN failedLogins \ {s} |-> failedLogins[t]]
    BY <1>2 DEF OnClose, Uncount
  <2> QED
    BY <2>1 DEF LoginsInv, LoginsOK, FailuresOK
<1>3. ASSUME NEW s \in Sockets, NEW o \in Accounts, LoginWithBearer(s, o) PROVE LoginsInv'
  <2>1. logins' = [logins EXCEPT ![s].good = @ \ {o}] /\ failedLogins' = [t \in DOMAIN failedLogins \ {s} |-> failedLogins[t]]
    BY <1>3 DEF LoginWithBearer, Uncount
  <2>2. logins[s].good \ {o} \subseteq Accounts /\ IsFiniteSet(logins[s].good \ {o})
    BY FS_Subset DEF LoginsInv, LoginsOK
  <2>3. LoginsOK'
    BY <2>1, <2>2 DEF LoginsInv, LoginsOK
  <2>4. \A t \in Sockets : logins'[t].bad = logins[t].bad
    BY <2>1 DEF LoginsInv, LoginsOK
  <2>5. FailuresOK'
    BY <2>1, <2>4 DEF LoginsInv, FailuresOK
  <2> QED
    BY <2>3, <2>5 DEF LoginsInv
<1>4. ASSUME NEW s \in Sockets, LoginRefused(s) PROVE LoginsInv'
  <2>1. /\ logins[s].bad > 0 /\ logins' = [logins EXCEPT ![s].bad = @ - 1]
        /\ failedLogins' = [t \in DOMAIN failedLogins \cup {s} |-> IF t = s THEN Failures(s) + 1 ELSE failedLogins[t]]
    BY <1>4 DEF LoginRefused, Count
  <2>2. LoginsOK'
    BY <2>1, SoConstants DEF LoginsInv, LoginsOK
  <2>3. \A t \in Sockets : logins'[t].bad = IF t = s THEN logins[s].bad - 1 ELSE logins[t].bad
    BY <2>1 DEF LoginsInv, LoginsOK
  <2>4. Failures(s) \in Nat /\ Failures(s) + logins[s].bad < MaxFailedLogins + MaxWaiting
    <3>1. logins[s].bad \in Nat /\ logins[s].bad <= MaxWaiting
      BY DEF LoginsInv, LoginsOK
    <3>2. CASE s \in DOMAIN failedLogins
      <4>1. Failures(s) = failedLogins[s]
        BY <3>2 DEF Failures
      <4> QED
        BY <3>2, <4>1 DEF LoginsInv, FailuresOK
    <3>3. CASE s \notin DOMAIN failedLogins
      <4>1. Failures(s) = 0
        BY <3>3 DEF Failures
      <4> QED
        BY <3>1, <4>1, SoConstants
    <3> QED
      BY <3>2, <3>3
  <2>5. logins[s].bad \in Nat
    BY DEF LoginsInv, LoginsOK
  <2>6. FailuresOK'
    BY <2>1, <2>3, <2>4, <2>5, SoConstants DEF LoginsInv, FailuresOK
  <2> QED
    BY <2>2, <2>6 DEF LoginsInv
<1>5. ASSUME NEW s \in Sockets, NEW cred \in Accounts \cup {"missing", "wrong"}, Login(s, cred) PROVE LoginsInv'
  <2>1. CASE UNCHANGED <<failedLogins, logins>>
    BY <1>1, <2>1
  <2>2. CASE ~TooMany(s) /\ Count(s) /\ logins' = logins
    <3>1. Failures(s) \in Nat /\ Failures(s) < MaxFailedLogins
      BY <2>2, SoConstants DEF TooMany, Failures, LoginsInv, FailuresOK
    <3>2. failedLogins' = [t \in DOMAIN failedLogins \cup {s} |-> IF t = s THEN Failures(s) + 1 ELSE failedLogins[t]]
      BY <2>2 DEF Count
    <3>3. LoginsOK' /\ logins[s].bad \in Nat /\ IsFiniteSet(logins[s].good)
      BY <2>2 DEF LoginsInv, LoginsOK
    <3>4. logins[s].bad < MaxWaiting
      <4>1. Cardinality(logins[s].good) + logins[s].bad < MaxWaiting
        BY <1>5 DEF Login
      <4>2. Cardinality(logins[s].good) \in Nat
        BY <3>3, FS_CardinalityType
      <4> QED
        BY <3>3, <4>1, <4>2, SoConstants
    <3>5. Failures(s) + 1 + logins[s].bad < MaxFailedLogins + MaxWaiting
      BY <3>1, <3>3, <3>4, SoConstants
    <3>6. \A t \in DOMAIN failedLogins' : failedLogins'[t] \in Nat /\ failedLogins'[t] + logins'[t].bad < MaxFailedLogins + MaxWaiting
      BY <2>2, <3>1, <3>2, <3>5 DEF LoginsInv, FailuresOK
    <3>7. DOMAIN failedLogins' \subseteq Sockets /\ failedLogins' = [t \in DOMAIN failedLogins' |-> failedLogins'[t]]
      BY <3>2 DEF LoginsInv, FailuresOK
    <3>8. FailuresOK'
      BY <3>6, <3>7 DEF FailuresOK
    <3> QED
      BY <3>3, <3>8 DEF LoginsInv
  <2>3. CASE /\ ~TooMany(s) /\ failedLogins' = failedLogins
             /\ logins' = [logins EXCEPT ![s] = Waiting(s, cred)]
             /\ cred # "missing"
    <3> DEFINE l == logins[s]
    <3> DEFINE m == Waiting(s, cred)
    <3>1. l \in [good : SUBSET Accounts, bad : Nat] /\ IsFiniteSet(l.good) /\ l.bad <= MaxWaiting
      BY DEF LoginsInv, LoginsOK
    <3>2. Cardinality(l.good) \in Nat /\ l.bad < MaxWaiting
      <4>1. Cardinality(l.good) + l.bad < MaxWaiting
        BY <1>5 DEF Login
      <4>2. Cardinality(l.good) \in Nat /\ l.bad \in Nat
        BY <3>1, FS_CardinalityType
      <4> HIDE DEF l
      <4> QED
        BY <4>1, <4>2, SoConstants
    <3>3. logins' = [logins EXCEPT ![s] = m]
      BY <2>3
    <3> HIDE DEF l
    <3>4. IsFiniteSet(l.good \cup {cred})
      BY <3>1, FS_AddElement
    <3>5. m \in [good : SUBSET Accounts, bad : Nat] /\ IsFiniteSet(m.good) /\ m.bad <= MaxWaiting /\ m.bad <= l.bad + 1
      <4>1. CASE cred = "wrong"
        <5>1. m = [l EXCEPT !.bad = l.bad + 1]
          BY <4>1 DEF Waiting, l
        <5>2. m.good = l.good /\ m.bad = l.bad + 1 /\ m \in [good : SUBSET Accounts, bad : Nat]
          BY <3>1, <5>1
        <5> HIDE DEF m
        <5> QED
          BY <3>1, <3>2, <5>2, SoConstants
      <4>2. CASE cred # "wrong"
        <5>1. m = [l EXCEPT !.good = l.good \cup {cred}]
          BY <4>2 DEF Waiting, l
        <5>2. m.good = l.good \cup {cred} /\ m.bad = l.bad /\ m \in [good : SUBSET Accounts, bad : Nat]
          BY <2>3, <3>1, <4>2, <5>1
        <5> HIDE DEF m
        <5> QED
          BY <3>1, <3>4, <5>2
      <4> QED
        BY <4>1, <4>2
    <3> HIDE DEF m
    <3>6. LoginsOK'
      BY <3>3, <3>5 DEF LoginsInv, LoginsOK
    <3>7. \A t \in Sockets : logins'[t] = IF t = s THEN m ELSE logins[t]
      BY <3>3 DEF LoginsInv, LoginsOK
    <3>8. s \in DOMAIN failedLogins => failedLogins[s] \in Nat /\ failedLogins[s] < MaxFailedLogins
      BY <2>3, SoConstants DEF TooMany, Failures, LoginsInv, FailuresOK
    <3>9. FailuresOK'
      BY <2>3, <3>2, <3>5, <3>7, <3>8, SoConstants DEF LoginsInv, FailuresOK, l
    <3> QED
      BY <3>6, <3>9 DEF LoginsInv
  <2> QED
    BY <1>5, <2>1, <2>2, <2>3 DEF Login, Message
<1>6. ASSUME NEW s \in Sockets, NEW ch \in Channels, Subscribe(s, ch) \/ Unsubscribe(s, ch) PROVE UNCHANGED <<failedLogins, logins>>
  BY <1>6 DEF Subscribe, Unsubscribe, Message
<1>7. ASSUME NEW s \in Sockets, Register(s) \/ Ping(s) \/ Refill(s) \/ Pong(s) \/ PeerDies(s) \/ PeerCloses(s)
      PROVE UNCHANGED <<failedLogins, logins>>
  BY <1>7 DEF Register, Ping, Message, Refill, Pong, PeerDies, PeerCloses
<1>8. ASSUME PingSweep \/ \E ch \in Channels, slow \in SUBSET Sockets : Broadcast(ch, slow) PROVE UNCHANGED <<failedLogins, logins>>
  BY <1>8 DEF PingSweep, Broadcast
<1> QED
  BY <1>1, <1>2, <1>3, <1>4, <1>5, <1>6, <1>7, <1>8 DEF SocketsNext, SocketStep

LEMMA SoInit == SocketsInit => SocketsInv
<1> SUFFICES ASSUME SocketsInit PROVE SocketsInv
  OBVIOUS
<1>1. Registered = {}
  BY DEF SocketsInit, Registered
<1>2. WiresOK /\ HeldOK
  BY <1>1 DEF SocketsInit, WiresOK, HeldOK
<1>3. IsFiniteSet({}) /\ Cardinality({}) = 0
  BY FS_EmptySet
<1>4. \A i \in SocketIps : OfAddress(i, {}) = {}
  BY DEF OfAddress
<1>5. CountsOK
  <2>1. Cardinality(Registered) <= MaxConnections /\ IsFiniteSet(Registered)
    BY <1>1, <1>3, SoConstants
  <2>2. perIp = [i \in SocketIps |-> 0]
    BY DEF SocketsInit
  <2>3. \A i \in SocketIps : perIp[i] = Cardinality(OfAddress(i, Registered))
    BY <1>1, <1>3, <1>4, <2>2
  <2>4. perIp \in [SocketIps -> Nat]
    BY <2>2
  <2> QED
    BY <2>1, <2>3, <2>4 DEF CountsOK
<1>6. LoginsOK /\ FailuresOK
  <2>1. logins = [s \in Sockets |-> [good |-> {}, bad |-> 0]]
    BY DEF SocketsInit
  <2>2. failedLogins = [s \in {} |-> 0]
    BY DEF SocketsInit
  <2>3. DOMAIN failedLogins = {} /\ failedLogins \in [DOMAIN failedLogins -> Nat]
    BY <2>2
  <2>4. LoginsOK
    <3>1. [good |-> {}, bad |-> 0] \in [good : SUBSET Accounts, bad : Nat]
      OBVIOUS
    <3>2. \A s \in Sockets : logins[s] = [good |-> {}, bad |-> 0]
      BY <2>1
    <3>3. logins \in [Sockets -> [good : SUBSET Accounts, bad : Nat]]
      BY <2>1, <3>1
    <3>4. \A s \in Sockets : logins[s].good = {} /\ logins[s].bad = 0
      BY <3>2
    <3> QED
      <4>1. \A s \in Sockets : IsFiniteSet(logins[s].good) /\ logins[s].bad <= MaxWaiting
        <5>1. TAKE s \in Sockets
        <5>2. logins[s].good = {} /\ logins[s].bad = 0
          BY <3>4
        <5>3. IsFiniteSet(logins[s].good)
          BY <1>3, <5>2, Zenon
        <5>4. logins[s].bad <= MaxWaiting
          BY <5>2, SoConstants
        <5> QED
          BY <5>3, <5>4
      <4> QED
        BY <3>3, <4>1 DEF LoginsOK
  <2> QED
    BY <2>3, <2>4 DEF FailuresOK
<1> QED
  BY <1>2, <1>5, <1>6 DEF SocketsInv, RegistryInv, LoginsInv

LEMMA SoStep == SocketsInv /\ [SocketsNext]_socketVars => SocketsInv'
<1>1. ASSUME SocketsInv, SocketsNext PROVE SocketsInv'
  <2>1. LoginsInv'
    BY <1>1, SoLogins DEF SocketsInv
  <2>2. RegistryInv
    BY <1>1 DEF SocketsInv
  <2>3. ASSUME NEW s \in Sockets, SocketStep(s) PROVE RegistryInv'
    BY <2>2, <2>3, SoRegister, SoRegistryEvent, SoRegistrySubscribe, SoRegistryLogin DEF SocketStep
  <2>4. RegistryInv'
    BY <1>1, <2>2, <2>3, SoRegistrySweep DEF SocketsNext
  <2> QED
    BY <2>1, <2>4 DEF SocketsInv
<1>2. ASSUME SocketsInv, UNCHANGED socketVars PROVE SocketsInv'
  BY <1>2 DEF socketVars, SocketsInv, RegistryInv, LoginsInv, WiresOK, HeldOK, CountsOK, LoginsOK, FailuresOK, Registered
<1> QED
  BY <1>1, <1>2

LEMMA SoSafe == SocketsInv => SocketsSafe
<1> SUFFICES ASSUME SocketsInv PROVE SocketsSafe
  OBVIOUS
<1>1. SocketsTypeOK
  BY DEF SocketsInv, RegistryInv, WiresOK, HeldOK, CountsOK, SocketsTypeOK, Connection
<1>2. PerIpExact
  BY DEF SocketsInv, RegistryInv, CountsOK, PerIpExact, OfAddress
<1>3. AccountPrivacy
  BY DEF SocketsInv, RegistryInv, HeldOK, AccountPrivacy, KeyShown
<1>4. FailureCap
  BY DEF SocketsInv, LoginsInv, FailuresOK, FailureCap
<1> QED
  BY <1>1, <1>2, <1>3, <1>4 DEF SocketsSafe

-----------------------------------------------------------------------------
(***************************************************************************)
(* The live stream: the tail of the event table.                             *)
(***************************************************************************)

\* The rows a poll has in hand are committed rows, and when one of them is above a row, that row was
\* passed before or another of its stamp is in hand too
PageInHand(got) ==
    /\ got \in Seq(1..Len(committed)) /\ Len(got) <= PageLimit
    /\ \A k \in 1..Len(got) : \A i \in 1..Len(committed) :
         committed[i] <= committed[got[k]] => committed[i] <= cursor \/ \E m \in 1..Len(got) : committed[got[m]] = committed[i]

\* One writer stamps and commits, so what is committed is not younger than what it writes
RowsOK ==
    /\ committed \in Seq(Nat) /\ now \in Nat /\ writing \in Nat /\ cursor \in Nat /\ since \in Nat
    /\ Len(committed) <= MaxRows /\ (writing # 0 => Len(committed) < MaxRows)
    /\ \A i \in 1..Len(committed) : committed[i] <= now /\ (writing # 0 => committed[i] <= writing)
    /\ writing <= now /\ cursor <= now /\ since <= now
EmittedOK == emitted \in [1..MaxRows -> Nat]
PollsOK ==
    /\ poll \in [Polls -> [on : BOOLEAN, got : Seq(1..Len(committed))]]
    /\ \A p \in Polls : PageInHand(poll[p].got)

\* The cursor stands where the tailer started, or at a row it has broadcast
CursorOK == cursor <= since \/ \E j \in 1..Len(committed) : committed[j] = cursor /\ emitted[j] > 0
TiesOnly ==
    \A i \in 1..Len(committed) : since < committed[i] /\ committed[i] <= cursor =>
        \E j \in 1..Len(committed) : committed[j] = committed[i] /\ emitted[j] > 0
TailInv == RowsOK /\ EmittedOK /\ PollsOK /\ CursorOK /\ TiesOnly

LEMMA TlConstants == MaxRows \in Nat \ {0} /\ MaxNow \in Nat \ {0} /\ PageLimit \in Nat \ {0}
<1>1. \A x \in {MaxRows, MaxNow, PageLimit} : x \in Nat \ {0}
  BY LiveTailConstants
<1> QED
  BY <1>1

\* A set of naturals has a least element
LessThan == {p \in Nat \X Nat : p[1] < p[2]}

LEMMA TlLeast ==
  ASSUME NEW T \in SUBSET Nat, T # {}
  PROVE  \E x \in T : \A y \in T : ~(y < x)
<1>1. IsWellFoundedOn(LessThan, Nat)
  <2>1. OpToRel(<, Nat) = LessThan
    BY DEF OpToRel, LessThan
  <2> QED
    BY <2>1, NatLessThanWellFounded
<1>2. \E x \in T : \A y \in T : ~(<<y, x>> \in LessThan)
  BY <1>1, WFMin
<1> QED
  BY <1>2 DEF LessThan

\* Max of a bounded set of naturals is one of them and above the others
LEMMA TlMax ==
    ASSUME NEW T \in SUBSET Nat, T # {}, NEW n \in Nat, \A x \in T : x <= n
    PROVE  Max(T) \in T /\ \A x \in T : x <= Max(T)
<1> DEFINE U == {n - x : x \in T}
<1>1. U \in SUBSET Nat /\ U # {}
  <2>1. \A x \in T : x \in Nat /\ n - x \in Nat
    OBVIOUS
  <2>2. PICK x \in T : TRUE
    OBVIOUS
  <2>3. n - x \in U
    OBVIOUS
  <2> QED
    BY <2>1, <2>3
<1>2. PICK u \in U : \A y \in U : ~(y < u)
  BY <1>1, TlLeast
<1>3. PICK x \in T : u = n - x
  BY <1>2
<1>4. \A y \in T : x >= y
  <2>1. TAKE y \in T
  <2>2. n - y \in U
    OBVIOUS
  <2>3. ~(n - y < n - x)
    BY <1>2, <1>3, <2>2
  <2> QED
    BY <2>3
<1>5. \E z \in T : \A y \in T : z >= y
  BY <1>4
<1>6. Max(T) \in T /\ \A y \in T : Max(T) >= y
  BY <1>5 DEF Max
<1> QED
  BY <1>6

LEMMA TlMin ==
    ASSUME NEW a \in Nat, NEW b \in Nat
    PROVE  Min({a, b}) = IF a <= b THEN a ELSE b
<1> DEFINE m == IF a <= b THEN a ELSE b
<1>1. m \in {a, b} /\ \A y \in {a, b} : m =< y
  OBVIOUS
<1>2. Min({a, b}) \in {a, b} /\ \A y \in {a, b} : Min({a, b}) =< y
  BY <1>1 DEF Min
<1> QED
  BY <1>1, <1>2

\* A row at a place of the order does not come before the rows at the places below
LEMMA TlSorted ==
    ASSUME NEW L \in Nat, NEW v \in [1..L -> Nat], \A k \in 1..(L - 1) : v[k] <= v[k + 1],
           NEW a \in 1..L, NEW b \in 1..L, a <= b
    PROVE  v[a] <= v[b]
<1> DEFINE T == {n \in a..L : ~(v[a] <= v[n])}
<1> SUFFICES ASSUME ~(v[a] <= v[b]) PROVE FALSE
  OBVIOUS
<1>0. b \in T
  OBVIOUS
<1>1. T \in SUBSET Nat
  OBVIOUS
<1>2. PICK x \in T : \A y \in T : ~(y < x)
  BY <1>0, <1>1, TlLeast
<1>3. x \in a..L /\ ~(v[a] <= v[x]) /\ x # a
  BY <1>2
<1>4. x - 1 \in a..L /\ x - 1 < x /\ x - 1 \in 1..(L - 1) /\ (x - 1) + 1 = x
  BY <1>3
<1>5. v[a] <= v[x - 1]
  BY <1>2, <1>4
<1>6. v[x - 1] <= v[x]
  BY <1>4
<1> QED
  BY <1>3, <1>4, <1>5, <1>6

\* An order of a finite set lists each of its elements
LEMMA TlOrderIsFull ==
    ASSUME NEW S, IsFiniteSet(S), NEW s \in SetToSeqs(S)
    PROVE  /\ Cardinality(S) \in Nat /\ s \in [1..Cardinality(S) -> S] /\ Len(s) = Cardinality(S)
           /\ \A y \in S : \E k \in 1..Len(s) : s[k] = y
<1> DEFINE n == Cardinality(S)
<1>1. n \in Nat
  BY FS_CardinalityType
<1>2. s \in [1..n -> S] /\ \A i, j \in 1..n : i # j => s[i] # s[j]
  BY DEF SetToSeqs
<1>3. Len(s) = n
  BY <1>1, <1>2
<1>4. ASSUME NEW y \in S, \A k \in 1..n : s[k] # y PROVE FALSE
  <2>1. IsFiniteSet(S \ {y}) /\ Cardinality(S \ {y}) = n - 1
    BY FS_RemoveElement
  <2>2. IsFiniteSet(1..n) /\ Cardinality(1..n) = n
    BY <1>1, FS_Interval
  <2>3. s \in [1..n -> S \ {y}]
    BY <1>2, <1>4
  <2>4. Cardinality(S \ {y}) < Cardinality(1..n)
    BY <1>1, <2>1, <2>2
  <2> HIDE DEF n
  <2>5. \E i, j \in 1..n : i # j /\ s[i] = s[j]
    BY <2>1, <2>2, <2>3, <2>4, FS_PigeonHole
  <2> QED
    BY <1>2, <2>5
<1> QED
  BY <1>1, <1>2, <1>3, <1>4

\* The query returns the rows above the cursor from the lowest on, so it stops short of a stamp only
\* where the page is full
LEMMA TlPage ==
    ASSUME RowsOK, NEW page \in Page
    PROVE  PageInHand(page)
<1>1. committed \in Seq(Nat) /\ Len(committed) \in Nat /\ DOMAIN committed = 1..Len(committed)
  BY DEF RowsOK
<1>2. Newer \subseteq 1..Len(committed) /\ Newer = {i \in 1..Len(committed) : committed[i] > cursor}
  BY <1>1 DEF Newer
<1>3. IsFiniteSet(Newer)
  <2>1. IsFiniteSet(1..Len(committed))
    BY <1>1, FS_Interval
  <2> QED
    BY <1>2, <2>1, FS_Subset
<1>4. PICK s \in SetToSeqs(Newer) : InOrder(s) /\ page = SubSeq(s, 1, Min({PageLimit, Len(s)}))
  BY DEF Page
<1> DEFINE L == Cardinality(Newer)
<1>5. /\ L \in Nat /\ s \in [1..L -> Newer] /\ Len(s) = L
      /\ \A y \in Newer : \E k \in 1..Len(s) : s[k] = y
  BY <1>3, TlOrderIsFull
<1> HIDE DEF L
<1> DEFINE n == Min({PageLimit, L})
<1>6. n \in Nat /\ n <= PageLimit /\ n <= L
  BY <1>5, TlConstants, TlMin
<1>7. page = SubSeq(s, 1, n)
  BY <1>4, <1>5
<1> HIDE DEF n
<1>8. \A i \in 1..n : s[i] \in Newer /\ s[i] \in 1..Len(committed)
  BY <1>2, <1>5, <1>6
<1>9. page \in Seq(1..Len(committed)) /\ Len(page) = n /\ \A i \in 1..n : page[i] = s[i]
  <2>1. /\ SubSeq(s, 1, n) \in Seq(1..Len(committed))
        /\ Len(SubSeq(s, 1, n)) = IF 1 <= n THEN n - 1 + 1 ELSE 0
        /\ \A i \in 1..(n - 1 + 1) : SubSeq(s, 1, n)[i] = s[1 + i - 1]
    BY <1>6, <1>8, SubSeqProperties
  <2>2. n - 1 + 1 = n /\ \A i \in 1..n : 1 + i - 1 = i
    BY <1>6
  <2> QED
    BY <1>6, <1>7, <2>1, <2>2
<1> DEFINE v == [k \in 1..L |-> committed[s[k]]]
<1>10. v \in [1..L -> Nat] /\ \A k \in 1..(L - 1) : v[k] <= v[k + 1]
  <2>1. \A k \in 1..L : s[k] \in 1..Len(committed)
    BY <1>2, <1>5
  <2>2. v \in [1..L -> Nat]
    BY <1>1, <2>1
  <2>3. \A k \in 1..(L - 1) : committed[s[k]] <= committed[s[k + 1]]
    BY <1>4, <1>5 DEF InOrder
  <2>4. \A k \in 1..(L - 1) : k \in 1..L /\ k + 1 \in 1..L
    BY <1>5
  <2> QED
    BY <2>2, <2>3, <2>4
<1>11. ASSUME NEW k \in 1..n, NEW i \in 1..Len(committed), committed[i] <= committed[page[k]], ~(committed[i] <= cursor)
       PROVE  \E m \in 1..n : committed[page[m]] = committed[i]
  <2>1. committed[i] \in Nat /\ cursor \in Nat
    BY <1>1 DEF RowsOK
  <2>2. i \in Newer
    BY <1>2, <1>11, <2>1
  <2>3. PICK q \in 1..L : s[q] = i
    BY <1>5, <2>2
  <2>4. CASE q <= n
    <3>1. q \in 1..n
      BY <1>6, <2>4
    <3> QED
      BY <1>9, <2>3, <3>1
  <2>5. CASE ~(q <= n)
    <3>1. k \in 1..L /\ k <= q
      BY <1>5, <1>6, <2>5
    <3>2. v[k] <= v[q]
      BY <1>5, <1>10, <3>1, TlSorted
    <3>3. v[k] = committed[page[k]] /\ v[q] = committed[i]
      BY <1>9, <2>3, <3>1
    <3>4. committed[page[k]] \in Nat
      BY <1>10, <3>1, <3>3
    <3>5. committed[page[k]] <= committed[i]
      BY <3>2, <3>3
    <3> HIDE DEF v
    <3>6. committed[page[k]] = committed[i]
      BY <1>11, <2>1, <3>4, <3>5
    <3> QED
      BY <3>6
  <2> QED
    BY <2>4, <2>5
<1> QED
  BY <1>6, <1>9, <1>11 DEF PageInHand

\* What is in hand stays in order while the cursor only rises and the rows stay as they are
LEMMA TlHandKeeps ==
    ASSUME RowsOK, PollsOK, committed' = committed, cursor <= cursor', cursor' \in Nat,
           poll' \in [Polls -> [on : BOOLEAN, got : Seq(1..Len(committed))]],
           \A p \in Polls : poll'[p].got = poll[p].got \/ poll'[p].got = <<>> \/ poll'[p].got \in Page
    PROVE  PollsOK'
<1>1. \A i \in 1..Len(committed) : committed[i] \in Nat /\ cursor \in Nat
  BY DEF RowsOK
<1>2. ASSUME NEW got, PageInHand(got) PROVE PageInHand(got)'
  <2>1. got \in Seq(1..Len(committed')) /\ Len(got) <= PageLimit
    BY <1>2 DEF PageInHand
  <2>2. ASSUME NEW k \in 1..Len(got), NEW i \in 1..Len(committed), committed[i] <= committed[got[k]]
        PROVE  committed[i] <= cursor' \/ \E m \in 1..Len(got) : committed[got[m]] = committed[i]
    <3>1. committed[i] <= cursor \/ \E m \in 1..Len(got) : committed[got[m]] = committed[i]
      BY <1>2, <2>2 DEF PageInHand
    <3>2. committed[i] <= cursor => committed[i] <= cursor'
      BY <1>1
    <3> QED
      BY <3>1, <3>2
  <2>3. \A k \in 1..Len(got) : \A i \in 1..Len(committed') : committed'[i] <= committed'[got[k]] =>
            committed'[i] <= cursor' \/ \E m \in 1..Len(got) : committed'[got[m]] = committed'[i]
    BY <2>2
  <2> QED
    BY <2>1, <2>3, Zenon DEF PageInHand
<1>3. PageInHand(<<>>)
  BY TlConstants DEF PageInHand
<1>4. \A p \in Polls : PageInHand(poll'[p].got)
  BY <1>3, TlPage DEF PollsOK
<1> QED
  BY <1>2, <1>4 DEF PollsOK

\* A step of the clock, the writer or the gateway that leaves the broadcasts and the cursor alone
LEMMA TlQuiet ==
    ASSUME TailInv, UNCHANGED <<committed, cursor, emitted, since>>
    PROVE  CursorOK' /\ TiesOnly' /\ EmittedOK'
BY DEF TailInv, CursorOK, TiesOnly, EmittedOK

LEMMA TlWriter ==
    ASSUME TailInv, Clock \/ InsertEvent \/ RollbackEvent
    PROVE  TailInv'
<1>1. UNCHANGED <<committed, cursor, poll, emitted, up, since>>
  BY DEF Clock, InsertEvent, RollbackEvent
<1>2. RowsOK'
  <2>1. \A i \in 1..Len(committed) : committed[i] \in Nat
    <3>1. committed \in Seq(Nat)
      BY DEF TailInv, RowsOK
    <3> QED
      BY <3>1, ElementOfSeq
  <2>2. CASE Clock
    BY <2>1, <2>2 DEF Clock, TailInv, RowsOK
  <2>3. CASE InsertEvent
    BY <2>1, <2>3 DEF InsertEvent, TailInv, RowsOK
  <2>4. CASE RollbackEvent
    BY <2>1, <2>4 DEF RollbackEvent, TailInv, RowsOK
  <2> QED
    BY <2>2, <2>3, <2>4
<1>3. PollsOK'
  BY <1>1 DEF TailInv, PollsOK, PageInHand
<1> QED
  BY <1>1, <1>2, <1>3, TlQuiet DEF TailInv

\* The row committed last is no older than any other: a cursor at or above its stamp stands exactly there
LEMMA TlCommit ==
    ASSUME TailInv, CommitEvent
    PROVE  TailInv'
<1> DEFINE n == Len(committed)
<1>1. /\ writing # 0 /\ committed' = Append(committed, writing) /\ writing' = 0
      /\ UNCHANGED <<now, cursor, poll, emitted, since>>
  BY DEF CommitEvent
<1>2. /\ committed \in Seq(Nat) /\ n \in Nat /\ writing \in Nat /\ n < MaxRows /\ writing <= now
      /\ now \in Nat /\ cursor \in Nat /\ since \in Nat
      /\ \A i \in 1..n : committed[i] \in Nat /\ committed[i] <= now /\ committed[i] <= writing
  BY <1>1 DEF TailInv, RowsOK
<1>3. /\ committed' \in Seq(Nat) /\ Len(committed') = n + 1 /\ committed'[n + 1] = writing
      /\ \A i \in 1..n : committed'[i] = committed[i]
  BY <1>1, <1>2, AppendProperties
<1>4. \A i \in 1..Len(committed') : i \in 1..n \/ i = n + 1
  BY <1>2, <1>3
<1> HIDE DEF n
<1>5. RowsOK'
  BY <1>1, <1>2, <1>3, <1>4, TlConstants DEF TailInv, RowsOK
<1>6. EmittedOK'
  BY <1>1 DEF TailInv, EmittedOK
<1>7. 1..n \subseteq 1..Len(committed')
  BY <1>2, <1>3
<1>8. PollsOK'
  <2>1. Seq(1..n) \subseteq Seq(1..Len(committed'))
    BY <1>7, SeqMonotonic
  <2>2. poll' \in [Polls -> [on : BOOLEAN, got : Seq(1..Len(committed'))]]
    <3>1. poll \in [Polls -> [on : BOOLEAN, got : Seq(1..n)]]
      BY DEF TailInv, PollsOK, n
    <3> QED
      BY <1>1, <2>1, <3>1
  <2>3. ASSUME NEW p \in Polls PROVE PageInHand(poll[p].got)'
    <3> DEFINE got == poll[p].got
    <3>1. PageInHand(got)
      BY DEF TailInv, PollsOK
    <3>2. got \in Seq(1..n) /\ Len(got) \in Nat /\ \A k \in 1..Len(got) : got[k] \in 1..n
      BY <3>1 DEF PageInHand, n
    <3>3. ASSUME NEW k \in 1..Len(got), NEW i \in 1..Len(committed'), committed'[i] <= committed'[got[k]]
          PROVE  committed'[i] <= cursor \/ \E m \in 1..Len(got) : committed'[got[m]] = committed'[i]
      <4>1. got[k] \in 1..n /\ committed'[got[k]] = committed[got[k]]
        BY <1>3, <3>2
      <4>2. CASE i \in 1..n
        <5>1. committed[i] <= committed[got[k]] /\ committed'[i] = committed[i]
          BY <1>3, <3>3, <4>1, <4>2
        <5>2. committed[i] <= cursor \/ \E m \in 1..Len(got) : committed[got[m]] = committed[i]
          BY <3>1, <4>2, <5>1 DEF PageInHand, n
        <5> QED
          BY <1>3, <3>2, <5>1, <5>2
      <4>3. CASE i = n + 1
        <5>1. committed'[i] = writing /\ committed[got[k]] <= writing /\ committed[got[k]] \in Nat
          BY <1>2, <1>3, <4>1, <4>3
        <5>2. writing <= committed[got[k]]
          BY <3>3, <4>1, <5>1
        <5>3. committed[got[k]] = writing
          BY <1>2, <5>1, <5>2
        <5>4. committed'[got[k]] = committed'[i]
          BY <4>1, <5>1, <5>3
        <5> QED
          BY <5>4
      <4> QED
        BY <1>4, <4>2, <4>3
    <3>4. got \in Seq(1..Len(committed')) /\ Len(got) <= PageLimit
      BY <2>1, <3>1, <3>2 DEF PageInHand
    <3> HIDE DEF got
    <3>5. PageInHand(got)'
      <4>1. \A k \in 1..Len(got) : \A i \in 1..Len(committed') : committed'[i] <= committed'[got[k]] =>
                committed'[i] <= cursor' \/ \E m \in 1..Len(got) : committed'[got[m]] = committed'[i]
        BY <1>1, <3>3
      <4>2. got' = got
        BY <1>1 DEF got
      <4> QED
        BY <3>4, <4>1, <4>2, Zenon DEF PageInHand
    <3> QED
      BY <1>1, <3>5 DEF got
  <2> QED
    BY <1>1, <2>2, <2>3 DEF PollsOK
<1>9. CursorOK'
  BY <1>1, <1>3, <1>7 DEF TailInv, CursorOK, n
<1>10. TiesOnly'
  <2>1. ASSUME NEW i \in 1..Len(committed'), since < committed'[i], committed'[i] <= cursor
        PROVE  \E j \in 1..Len(committed') : committed'[j] = committed'[i] /\ emitted[j] > 0
    <3>1. CASE i \in 1..n
      <4>1. committed'[i] = committed[i]
        BY <1>3, <3>1
      <4>2. PICK j \in 1..n : committed[j] = committed[i] /\ emitted[j] > 0
        BY <2>1, <3>1, <4>1 DEF TailInv, TiesOnly, n
      <4> QED
        BY <1>3, <1>7, <4>1, <4>2
    <3>2. CASE i = n + 1
      <4>1. since < writing /\ writing <= cursor
        BY <1>3, <2>1, <3>2
      <4>2. PICK j \in 1..n : committed[j] = cursor /\ emitted[j] > 0
        BY <1>2, <4>1 DEF TailInv, CursorOK, n
      <4>3. cursor = writing
        BY <1>2, <4>1, <4>2
      <4> QED
        BY <1>3, <1>7, <3>2, <4>2, <4>3
    <3> QED
      BY <1>4, <3>1, <3>2
  <2> QED
    BY <1>1, <2>1 DEF TiesOnly
<1> QED
  BY <1>5, <1>6, <1>8, <1>9, <1>10 DEF TailInv

\* The gateway starts and stops
LEMMA TlGateway ==
    ASSUME TailInv, StartTailer \/ StopTailer
    PROVE  TailInv'
<1>1. RowsOK /\ PollsOK
  BY DEF TailInv
<1>2. CASE StartTailer
  <2>1. cursor' = now /\ since' = now /\ UNCHANGED <<now, committed, writing, poll, emitted>>
    BY <1>2 DEF StartTailer
  <2>2. RowsOK'
    BY <1>1, <2>1 DEF RowsOK
  <2>3. PollsOK'
    <3>1. cursor <= cursor' /\ cursor' \in Nat
      BY <1>1, <2>1 DEF RowsOK
    <3> QED
      BY <1>1, <2>1, <3>1, TlHandKeeps DEF PollsOK
  <2>4. CursorOK' /\ EmittedOK'
    BY <1>1, <2>1 DEF TailInv, RowsOK, CursorOK, EmittedOK
  <2>5. TiesOnly'
    BY <1>1, <2>1 DEF RowsOK, TiesOnly
  <2> QED
    BY <2>2, <2>3, <2>4, <2>5 DEF TailInv
<1>3. CASE StopTailer
  <2>1. poll' = [p \in Polls |-> NoPoll] /\ UNCHANGED <<now, committed, writing, cursor, emitted, since>>
    BY <1>3 DEF StopTailer
  <2>2. RowsOK'
    BY <1>1, <2>1 DEF RowsOK
  <2>3. PollsOK'
    <3>1. NoPoll \in [on : BOOLEAN, got : Seq(1..Len(committed))] /\ NoPoll.got = <<>>
      BY DEF NoPoll
    <3>2. cursor <= cursor' /\ cursor' \in Nat
      BY <1>1, <2>1 DEF RowsOK
    <3>3. poll' \in [Polls -> [on : BOOLEAN, got : Seq(1..Len(committed))]] /\ \A p \in Polls : poll'[p].got = <<>>
      BY <2>1, <3>1
    <3> QED
      BY <1>1, <2>1, <3>2, <3>3, TlHandKeeps
  <2> QED
    BY <2>1, <2>2, <2>3, TlQuiet DEF TailInv
<1> QED
  BY <1>2, <1>3

LEMMA TlPoll ==
    ASSUME TailInv, NEW p \in Polls, Poll(p) \/ PollFails(p)
    PROVE  TailInv'
<1>1. RowsOK /\ PollsOK /\ UNCHANGED <<now, committed, writing, cursor, emitted, up, since>>
  BY DEF TailInv, Poll, PollFails
<1>2. RowsOK'
  BY <1>1 DEF RowsOK
<1>3. cursor <= cursor' /\ cursor' \in Nat
  BY <1>1 DEF RowsOK
<1>4. poll \in [Polls -> [on : BOOLEAN, got : Seq(1..Len(committed))]]
  BY <1>1 DEF PollsOK
<1>5. CASE Poll(p)
  <2>1. PICK page \in Page : poll' = [poll EXCEPT ![p] = [on |-> TRUE, got |-> page]]
    BY <1>5 DEF Poll
  <2>2. page \in Seq(1..Len(committed))
    BY <1>1, TlPage DEF PageInHand
  <2>3. poll' \in [Polls -> [on : BOOLEAN, got : Seq(1..Len(committed))]]
    BY <1>4, <2>1, <2>2
  <2>4. \A q \in Polls : poll'[q].got = poll[q].got \/ poll'[q].got \in Page
    BY <1>4, <2>1
  <2>5. PollsOK'
    BY <1>1, <1>3, <2>3, <2>4, TlHandKeeps
  <2> QED
    BY <1>1, <1>2, <2>5, TlQuiet DEF TailInv
<1>6. CASE PollFails(p)
  <2>1. poll' = [poll EXCEPT ![p] = NoPoll]
    BY <1>6 DEF PollFails
  <2>2. NoPoll \in [on : BOOLEAN, got : Seq(1..Len(committed))] /\ NoPoll.got = <<>>
    BY DEF NoPoll
  <2>3. poll' \in [Polls -> [on : BOOLEAN, got : Seq(1..Len(committed))]]
    BY <1>4, <2>1, <2>2
  <2>4. \A q \in Polls : poll'[q].got = poll[q].got \/ poll'[q].got = <<>>
    BY <1>4, <2>1, <2>2
  <2>5. PollsOK'
    BY <1>1, <1>3, <2>3, <2>4, TlHandKeeps
  <2> QED
    BY <1>1, <1>2, <2>5, TlQuiet DEF TailInv
<1> QED
  BY <1>5, <1>6

\* A row in hand is counted when it is broadcast
Times(got, i) == Cardinality({k \in DOMAIN got : got[k] = i})

LEMMA TlTimes ==
    ASSUME NEW got, Len(got) \in Nat, DOMAIN got = 1..Len(got), NEW i
    PROVE  Times(got, i) \in Nat /\ \A k \in DOMAIN got : got[k] = i => Times(got, i) > 0
<1> DEFINE K == {k \in DOMAIN got : got[k] = i}
<1>1. IsFiniteSet(1..Len(got))
  BY FS_Interval
<1>2. IsFiniteSet(K)
  BY <1>1, FS_Subset
<1>3. Cardinality(K) \in Nat /\ (Cardinality(K) = 0 <=> K = {})
  BY <1>2, FS_CardinalityType, FS_EmptySet
<1>4. Times(got, i) = Cardinality(K)
  BY DEF Times
<1>5. \A k \in DOMAIN got : got[k] = i => K # {}
  OBVIOUS
<1> HIDE DEF K
<1> QED
  BY <1>3, <1>4, <1>5

\* The cursor ends at the highest row broadcast or where it was; what it passes over on the way was in
\* hand with its stamp, or passed before
LEMMA TlEmit ==
    ASSUME TailInv, NEW p \in Polls, Emit(p)
    PROVE  TailInv'
<1> DEFINE got == poll[p].got
<1> DEFINE T == {cursor} \cup {committed[got[k]] : k \in DOMAIN got}
<1>1. /\ poll' = [poll EXCEPT ![p] = NoPoll] /\ cursor' = Cursor(got)
      /\ emitted' = [i \in 1..MaxRows |-> emitted[i] + Times(got, i)]
      /\ UNCHANGED <<now, committed, writing, up, since>>
  BY DEF Emit, Times
<1>2. /\ RowsOK /\ PollsOK /\ PageInHand(got) /\ poll \in [Polls -> [on : BOOLEAN, got : Seq(1..Len(committed))]]
      /\ emitted \in [1..MaxRows -> Nat]
  BY DEF TailInv, PollsOK, EmittedOK
<1> HIDE DEF got
<1>3. got \in Seq(1..Len(committed)) /\ DOMAIN got = 1..Len(got) /\ Len(got) \in Nat /\ \A k \in 1..Len(got) : got[k] \in 1..Len(committed)
  BY <1>2 DEF PageInHand
<1>4. /\ cursor \in Nat /\ now \in Nat /\ cursor <= now /\ Len(committed) \in Nat /\ Len(committed) <= MaxRows /\ since \in Nat
      /\ \A i \in 1..Len(committed) : committed[i] \in Nat /\ committed[i] <= now /\ i \in 1..MaxRows
  BY <1>2, TlConstants DEF RowsOK
<1>5. T \in SUBSET Nat /\ T # {} /\ \A x \in T : x <= now
  BY <1>3, <1>4
<1>6. cursor' \in T /\ \A x \in T : x <= cursor'
  <2>1. cursor' = Max(T)
    BY <1>1 DEF Cursor
  <2> HIDE DEF T
  <2> QED
    BY <1>4, <1>5, <2>1, TlMax
<1>7. cursor' \in Nat /\ cursor <= cursor' /\ cursor' <= now
  BY <1>5, <1>6
<1>8. /\ \A i \in 1..MaxRows : Times(got, i) \in Nat /\ emitted'[i] = emitted[i] + Times(got, i)
      /\ \A k \in 1..Len(got) : emitted'[got[k]] > 0
      /\ \A i \in 1..MaxRows : emitted[i] > 0 => emitted'[i] > 0
  <2>1. \A i \in 1..MaxRows : Times(got, i) \in Nat /\ emitted'[i] = emitted[i] + Times(got, i) /\ emitted[i] \in Nat
    BY <1>1, <1>2, <1>3, TlTimes
  <2>2. ASSUME NEW k \in 1..Len(got) PROVE emitted'[got[k]] > 0
    <3>1. got[k] \in 1..MaxRows
      BY <1>3, <1>4
    <3>2. Times(got, got[k]) > 0
      BY <1>3, TlTimes
    <3> QED
      BY <2>1, <3>1, <3>2
  <2> QED
    BY <2>1, <2>2
<1>9. RowsOK'
  BY <1>1, <1>2, <1>7 DEF RowsOK
<1>10. EmittedOK'
  BY <1>1, <1>2, <1>8 DEF EmittedOK
<1>11. PollsOK'
  <2>1. NoPoll \in [on : BOOLEAN, got : Seq(1..Len(committed))] /\ NoPoll.got = <<>>
    BY DEF NoPoll
  <2>2. poll' \in [Polls -> [on : BOOLEAN, got : Seq(1..Len(committed))]]
    BY <1>1, <1>2, <2>1
  <2>3. \A q \in Polls : poll'[q].got = poll[q].got \/ poll'[q].got = <<>>
    BY <1>1, <1>2, <2>1
  <2> QED
    BY <1>1, <1>2, <1>7, <2>2, <2>3, TlHandKeeps
<1>12. CursorOK'
  <2>1. CASE cursor' = cursor
    <3>1. cursor <= since \/ \E j \in 1..Len(committed) : committed[j] = cursor /\ emitted[j] > 0
      BY DEF TailInv, CursorOK
    <3> QED
      BY <1>1, <1>4, <1>8, <2>1, <3>1 DEF CursorOK
  <2>2. CASE cursor' # cursor
    <3>1. PICK k \in 1..Len(got) : cursor' = committed[got[k]]
      BY <1>3, <1>6, <2>2
    <3> QED
      BY <1>1, <1>3, <1>8, <3>1 DEF CursorOK
  <2> QED
    BY <2>1, <2>2
<1>13. ASSUME NEW i \in 1..Len(committed), since < committed[i], committed[i] <= cursor'
       PROVE  \E j \in 1..Len(committed) : committed[j] = committed[i] /\ emitted'[j] > 0
  <2>1. CASE committed[i] <= cursor
    <3>1. PICK j \in 1..Len(committed) : committed[j] = committed[i] /\ emitted[j] > 0
      BY <1>13, <2>1 DEF TailInv, TiesOnly
    <3> QED
      BY <1>4, <1>8, <3>1
  <2>2. CASE ~(committed[i] <= cursor)
    <3>1. cursor' # cursor
      BY <1>13, <2>2
    <3>2. PICK k \in 1..Len(got) : cursor' = committed[got[k]]
      BY <1>3, <1>6, <3>1
    <3>3. PICK m \in 1..Len(got) : committed[got[m]] = committed[i]
      BY <1>2, <1>13, <2>2, <3>2 DEF PageInHand
    <3> QED
      BY <1>3, <1>8, <3>3
  <2> QED
    BY <2>1, <2>2
<1>14. TiesOnly'
  BY <1>1, <1>13 DEF TiesOnly
<1> QED
  BY <1>9, <1>10, <1>11, <1>12, <1>14 DEF TailInv

LEMMA TlInit == TailInit => TailInv
<1> SUFFICES ASSUME TailInit PROVE TailInv
  OBVIOUS
<1>1. /\ now = 1 /\ committed = <<>> /\ writing = 0 /\ cursor = 0 /\ since = 0
      /\ poll = [p \in Polls |-> NoPoll] /\ emitted = [i \in 1..MaxRows |-> 0]
  BY DEF TailInit
<1>2. RowsOK /\ EmittedOK /\ CursorOK /\ TiesOnly
  BY <1>1, TlConstants DEF RowsOK, EmittedOK, CursorOK, TiesOnly
<1>3. PollsOK
  <2>1. NoPoll \in [on : BOOLEAN, got : Seq(1..Len(committed))] /\ NoPoll.got = <<>>
    BY DEF NoPoll
  <2>2. PageInHand(<<>>)
    BY TlConstants DEF PageInHand
  <2> QED
    BY <1>1, <2>1, <2>2 DEF PollsOK
<1> QED
  BY <1>2, <1>3 DEF TailInv

LEMMA TlStep == TailInv /\ [TailNext]_tailVars => TailInv'
<1>1. ASSUME TailInv, TailNext PROVE TailInv'
  BY <1>1, TlWriter, TlCommit, TlGateway, TlPoll, TlEmit DEF TailNext
<1>2. ASSUME TailInv, UNCHANGED tailVars PROVE TailInv'
  <2>1. UNCHANGED <<now, committed, writing, cursor, poll, emitted, up, since>>
    BY <1>2 DEF tailVars
  <2>2. PollsOK' /\ RowsOK'
    BY <1>2, <2>1 DEF TailInv, PollsOK, RowsOK, PageInHand
  <2> QED
    BY <1>2, <2>1, <2>2, TlQuiet DEF TailInv
<1> QED
  BY <1>1, <1>2

LEMMA TlSafe == TailInv => TailSafe
<1> SUFFICES ASSUME TailInv PROVE TailSafe
  OBVIOUS
<1>1. DOMAIN committed = 1..Len(committed) /\ cursor \in Nat /\ now \in Nat /\ cursor <= now
  BY DEF TailInv, RowsOK
<1>2. TailTypeOK
  BY <1>1 DEF TailInv, RowsOK, PollsOK, PageInHand, TailTypeOK
<1>3. LostOnlyInTies
  BY <1>1 DEF TailInv, TiesOnly, LostOnlyInTies
<1> QED
  BY <1>2, <1>3 DEF TailSafe

-----------------------------------------------------------------------------
(***************************************************************************)
(* The SDK's client of the stream, and the three side by side.               *)
(***************************************************************************)

LEMMA WsBackoff == MaxBackoff \in Nat \ {0}
BY WsClientConstants

\* settleConnect clears the timer and whoever waits; only a connection that opened stays connecting
LEMMA WsSettle ==
    ASSUME ClientTypeOK, NEW how, Settle(how)
    PROVE  (timed' => readyPending') /\ (readyPending' => connecting')
BY DEF Settle

LEMMA WsStartCycle ==
    ASSUME NEW s \in WsSockets, NEW w, StartCycle(s, w)
    PROVE  socket' = s /\ (timed' => readyPending') /\ (readyPending' => connecting')
<1>1. readyPending' = TRUE /\ connecting' = TRUE /\ socket' = s
  BY DEF StartCycle, Attempt
<1> QED
  BY <1>1, Zenon

\* nextBackoff stops at the longest wait
LEMMA WsLater ==
    ASSUME attempts \in 0..MaxBackoff, Later
    PROVE  attempts' \in 0..MaxBackoff
BY WsBackoff DEF Later

\* The calls of the application
LEMMA WsCalls ==
    ASSUME ClientTypeOK, Connect \/ Close \/ SetCredentials \/ \E ch \in Feeds : SubscribeTo(ch) \/ UnsubscribeFrom(ch)
    PROVE  ClientTypeOK'
<1>1. CASE Connect
  <2>1. PICK s \in WsSockets : StartCycle(s, TRUE)
    BY <1>1 DEF Connect
  <2>2. subs' = subs /\ attempts' = attempts
    BY <1>1 DEF Connect
  <2> QED
    BY <2>1, <2>2, WsStartCycle DEF ClientTypeOK
<1>2. CASE Close
  <2>1. Settle("closed") /\ socket' = NoSocket /\ subs' = subs /\ attempts' = attempts
    BY <1>2 DEF Close
  <2> QED
    BY <2>1, WsSettle DEF ClientTypeOK
<1>3. CASE SetCredentials
  <2>1. UNCHANGED <<socket, subs, attempts, timed, readyPending, connecting>>
    BY <1>3 DEF SetCredentials
  <2> QED
    BY <2>1 DEF ClientTypeOK
<1>4. ASSUME NEW ch \in Feeds, SubscribeTo(ch) \/ UnsubscribeFrom(ch) PROVE ClientTypeOK'
  <2>1. UNCHANGED <<socket, attempts, timed, readyPending, connecting>> /\ subs' \subseteq Feeds
    BY <1>4 DEF SubscribeTo, UnsubscribeFrom, ClientTypeOK
  <2> QED
    BY <2>1 DEF ClientTypeOK
<1> QED
  BY <1>1, <1>2, <1>3, <1>4

\* The timer and the retries
LEMMA WsTimers ==
    ASSUME ClientTypeOK, ConnectTimeout \/ RetryAttempt \/ RetryCycle
    PROVE  ClientTypeOK'
<1>1. CASE ConnectTimeout
  <2>1. Settle("timeout") /\ UNCHANGED <<socket, subs, attempts>>
    BY <1>1 DEF ConnectTimeout
  <2> QED
    BY <2>1, WsSettle DEF ClientTypeOK
<1>2. CASE RetryAttempt
  <2>1. UNCHANGED <<subs, attempts, readyPending, timed, connecting>>
    BY <1>2 DEF RetryAttempt
  <2>2. socket' = socket \/ socket' \in WsSockets
    BY <1>2 DEF RetryAttempt, Attempt
  <2> QED
    BY <2>1, <2>2 DEF ClientTypeOK
<1>3. CASE RetryCycle
  <2>1. subs' = subs /\ attempts' = attempts
    BY <1>3 DEF RetryCycle
  <2>2. (\E s \in WsSockets : StartCycle(s, FALSE)) \/ UNCHANGED <<socket, readyPending, timed, connecting>>
    BY <1>3 DEF RetryCycle
  <2>3. CASE \E s \in WsSockets : StartCycle(s, FALSE)
    BY <2>1, <2>3, WsStartCycle DEF ClientTypeOK
  <2>4. CASE UNCHANGED <<socket, readyPending, timed, connecting>>
    BY <2>1, <2>4 DEF ClientTypeOK
  <2> QED
    BY <2>2, <2>3, <2>4
<1> QED
  BY <1>1, <1>2, <1>3

\* The events of a socket
LEMMA WsEvents ==
    ASSUME ClientTypeOK, NEW s \in WsSockets, SockStep(s) \/ Drop(s)
    PROVE  ClientTypeOK'
<1>1. CASE OnOpen(s)
  <2>1. UNCHANGED <<socket, subs, timed, readyPending, connecting>> /\ attempts' = 0
    BY <1>1 DEF OnOpen
  <2> QED
    BY <2>1, WsBackoff DEF ClientTypeOK
<1>2. CASE OnMessage(s)
  <2>1. UNCHANGED <<socket, subs, attempts>>
    BY <1>2 DEF OnMessage
  <2>2. Settle("ok") \/ UNCHANGED <<timed, readyPending, outcomes, connecting>>
    BY <1>2 DEF OnMessage
  <2>3. (timed' => readyPending') /\ (readyPending' => connecting')
    BY <2>2, WsSettle DEF ClientTypeOK
  <2> QED
    BY <2>1, <2>3 DEF ClientTypeOK
<1>3. CASE OnSocketClose(s)
  <2>1. subs' = subs /\ (socket' = socket \/ socket' = NoSocket)
    BY <1>3 DEF OnSocketClose
  <2>2. attempts' = attempts \/ Later
    BY <1>3 DEF OnSocketClose
  <2>3. attempts' \in 0..MaxBackoff
    BY <2>2, WsLater DEF ClientTypeOK
  <2>4. \/ Settle("closed")
        \/ UNCHANGED <<readyPending, timed, connecting>>
        \/ ~readyPending /\ UNCHANGED <<readyPending, timed>>
    BY <1>3 DEF OnSocketClose
  <2>5. (timed' => readyPending') /\ (readyPending' => connecting')
    BY <2>4, WsSettle DEF ClientTypeOK
  <2> QED
    BY <2>1, <2>3, <2>5 DEF ClientTypeOK
<1>4. CASE Serve(s) \/ Lookup(s) \/ Drop(s)
  <2>1. UNCHANGED <<socket, subs, attempts, readyPending, timed, connecting>>
    BY <1>4 DEF Serve, Lookup, Drop, netVars
  <2> QED
    BY <2>1 DEF ClientTypeOK
<1> QED
  BY <1>1, <1>2, <1>3, <1>4 DEF SockStep

LEMMA WsInit == ClientInit => ClientTypeOK
BY WsBackoff DEF ClientInit, ClientTypeOK

LEMMA WsStep == ClientTypeOK /\ [ClientNext]_clientVars => ClientTypeOK'
<1>1. ASSUME ClientTypeOK, ClientNext PROVE ClientTypeOK'
  BY <1>1, WsCalls, WsTimers, WsEvents DEF ClientNext
<1>2. ASSUME ClientTypeOK, UNCHANGED clientVars PROVE ClientTypeOK'
  BY <1>2 DEF clientVars, ClientTypeOK
<1> QED
  BY <1>1, <1>2

\* The live stream counts, authorises and forwards rightly and its client's flags fit together
\* (wsManager.ts, ws.ts, liveTailer.ts, packages/sdk ws.ts): the registry's counts per address are exact,
\* a socket listens to an account only after it showed a key of it, the failures overrun their cap only
\* by the logins that waited, and a running tailer passes over a row only in a tie with one it broadcast
THEOREM StreamIsSafe == MCSafe => []StreamSafe
<1> DEFINE Inv == SocketsInv /\ TailInv /\ ClientTypeOK
<1>1. MCInit => Inv
  BY SoInit, TlInit, WsInit DEF MCInit
<1>2. [MCNext]_<<deskVars, streamVars, readVars, dbVars, part>>
        => [SocketsNext]_socketVars /\ [TailNext]_tailVars /\ [ClientNext]_clientVars
  <2>1. ASSUME UNCHANGED streamVars PROVE UNCHANGED socketVars /\ UNCHANGED tailVars /\ UNCHANGED clientVars
    BY <2>1 DEF streamVars
  <2>2. ASSUME MCNext PROVE [SocketsNext]_socketVars /\ [TailNext]_tailVars /\ [ClientNext]_clientVars
    BY <2>1, <2>2 DEF MCNext
  <2> QED
    BY <2>1, <2>2
<1>3. Inv /\ [MCNext]_<<deskVars, streamVars, readVars, dbVars, part>> => Inv'
  BY <1>2, SoStep, TlStep, WsStep
<1>4. Inv => StreamSafe
  BY SoSafe, TlSafe DEF StreamSafe
<1> QED
  BY <1>1, <1>3, <1>4, PTL DEF MCSafe
=============================================================================
