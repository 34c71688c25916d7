---------------------------- MODULE ClientProofs ----------------------------
(***************************************************************************)
(* What a user's browser promises on its own, proved part by part: a trade *)
(* from click to outcome, the trade page, live marks, the wallet session,  *)
(* referrals, liquidity and the faucet.                                    *)
(***************************************************************************)
EXTENDS MCClient, SequenceTheorems, FiniteSetTheorems, TLAPS

----------------------------------------------------------------------------
(***************************************************************************)
(* Trades.  A transaction is alive while it can still trade or has traded. *)
(* One of an intent at most is alive, because a client rebuilds only when  *)
(* the one before it is known to be dead; that is what the invariant says  *)
(* of the transactions of the intent a client works on (Work).             *)
(***************************************************************************)
Requests == [op : {"open", "close", "other"}, asset : BOOLEAN]
WriteKeys == Buckets \cup Debt \cup {"price", "adl"}
Places == {"held", "pool", "landed", "dropped"}
Results == {"none", "ok", "revert", "trap", "budget"}
Outcome == {"none", "success", "failed", "unknown", "pending"}

Transaction ==
  [req : Requests, keys : SUBSET WriteKeys, size : Nat, res : Nat, fee : Nat, seq : Nat,
   intent : Nat, place : Places, result : Results]

TradeClient ==
  [pc : {"idle", "build", "sign", "send", "poll"}, req : Requests, intent : Nat, attempt : 0..1, tx : Nat]

TradeTypes ==
  /\ account \in Nat /\ index \in 1..MaxIndex /\ branch \in Branches
  /\ txs \in Seq(Transaction) /\ told \in Seq(Outcome) /\ cli \in [Clients -> TradeClient]

Landed == {i \in DOMAIN txs : txs[i].place = "landed"}

MayTrade(t) == t.place = "pool" \/ t.result = "ok"

(* What it declares covers every branch, and what it offers is said once. *)
WellBuilt(t) ==
  /\ t.req.asset => \A b \in Branches : Writes(t.req.op, b) \subseteq t.keys
  /\ t.req.asset => t.result # "trap"
  /\ t.fee = BaseFee + t.res
  /\ t.result # "none" => t.place = "landed"

OneAlive ==
  \A i, j \in DOMAIN txs :
    txs[i].intent = txs[j].intent /\ MayTrade(txs[i]) /\ MayTrade(txs[j]) => i = j

(* The trade a client works on: nobody was told of it, nobody else works on  *)
(* it, and only the transaction in hand can be alive.                        *)
Work(c) ==
  /\ cli[c].intent \in DOMAIN told /\ told[cli[c].intent] = "none"
  /\ \A d \in Clients : cli[d].pc # "idle" /\ cli[d].intent = cli[c].intent => d = c
  /\ \A i \in DOMAIN txs :
       txs[i].intent = cli[c].intent /\ MayTrade(txs[i]) => cli[c].pc = "poll" /\ i = cli[c].tx
  /\ cli[c].pc # "build" => cli[c].tx \in DOMAIN txs /\ txs[cli[c].tx].intent = cli[c].intent
  /\ cli[c].pc \in {"sign", "send"} => txs[cli[c].tx].place = "held"

TradeInv ==
  /\ TradeTypes
  /\ account = Cardinality(Landed)
  /\ \A i \in DOMAIN txs : WellBuilt(txs[i]) /\ txs[i].intent \in DOMAIN told
  /\ OneAlive
  /\ \A c \in Clients : cli[c].pc # "idle" => Work(c)
  /\ \A c \in Clients : cli[c].intent \in 0..Len(told) /\ cli[c].tx \in 0..Len(txs)
  /\ ToldTruthfully

LEMMA KeysFinite == IsFiniteSet(WriteKeys)
<1> DEFINE D1 == {} \cup {"buffer"} \cup {"lp"} \cup {"fees"} \cup {"reserve"}
           D2 == D1 \cup {"shortfall"} \cup {"owed"} \cup {"baddebt"}
           D3 == D2 \cup {"price"} \cup {"adl"}
<1>1. IsFiniteSet(D1)
  BY FS_EmptySet, FS_AddElement
<1> HIDE DEF D1
<1>2. IsFiniteSet(D2)
  BY <1>1, FS_AddElement
<1> HIDE DEF D2
<1>3. IsFiniteSet(D3)
  BY <1>2, FS_AddElement
<1>4. D3 = WriteKeys
  BY DEF D1, D2, D3, WriteKeys, Buckets, Debt
<1> QED
  BY <1>3, <1>4

LEMMA KeysCounted ==
  ASSUME NEW S \in SUBSET WriteKeys
  PROVE  IsFiniteSet(S) /\ Cardinality(S) \in Nat
BY KeysFinite, FS_Subset, FS_CardinalityType

LEMMA WidenedType ==
  ASSUME NEW n \in Nat
  PROVE  Widened(n) \in Nat
BY DEF Widened

(* What the conditional keys add covers every branch of a settlement whose   *)
(* asset is named.                                                           *)
LEMMA KeysCover ==
  ASSUME NEW r \in Requests
  PROVE  /\ ConditionalWriteKeys(r) \in SUBSET WriteKeys
         /\ \A b \in Branches : Writes(r.op, b) \in SUBSET WriteKeys
         /\ r.asset => \A b \in Branches : Writes(r.op, b) \subseteq ConditionalWriteKeys(r)
<1>1. CASE r.op = "open"
  BY <1>1 DEF Requests, ConditionalWriteKeys, OpenKeys, Writes, Branches, WriteKeys, Buckets, Debt
<1>2. CASE r.op = "close"
  BY <1>2 DEF Requests, ConditionalWriteKeys, CloseKeys, Writes, Branches, WriteKeys, Buckets, Debt
<1>3. CASE r.op = "other"
  BY <1>3 DEF Requests, ConditionalWriteKeys, Writes
<1> QED
  BY <1>1, <1>2, <1>3 DEF Requests

LEMMA PricedWell ==
  ASSUME NEW t \in Transaction, BaseFee \in Nat, t.fee = BaseFee + t.res, NEW n \in Nat
  PROVE  /\ Priced(t, n) \in Transaction
         /\ Priced(t, n).fee = BaseFee + n /\ Priced(t, n).res = n
         /\ Priced(t, n).req = t.req /\ Priced(t, n).place = t.place /\ Priced(t, n).result = t.result
         /\ Priced(t, n).keys = t.keys /\ Priced(t, n).size = t.size
<1> DEFINE fee == BaseFee + n
<1>1. InclusionPart(t) + n = fee /\ fee \in Nat
  BY DEF InclusionPart, Transaction
<1> HIDE DEF fee
<1>2. Priced(t, n) = [t EXCEPT !.res = n, !.fee = fee]
  BY <1>1 DEF Priced
<1>3. fee = BaseFee + n
  BY DEF fee
<1> QED
  BY <1>1, <1>2, <1>3 DEF Transaction

LEMMA BuiltWell ==
  ASSUME TradeTxConstants, TradeTypes, NEW r \in Requests
  PROVE  /\ BuildTransaction(r) \in Transaction /\ WellBuilt(BuildTransaction(r))
         /\ BuildTransaction(r).place = "held" /\ BuildTransaction(r).result = "none"
<1> DEFINE w == Writes(r.op, branch)
           k == ConditionalWriteKeys(r)
           t == Assemble(r, w, index)
           p == PadFootprint(t, k)
           q == WithResourceHeadroom(p)
<1>1. w \in SUBSET WriteKeys /\ k \in SUBSET WriteKeys /\ (r.asset => \A b \in Branches : Writes(r.op, b) \subseteq k)
  BY KeysCover DEF TradeTypes
<1> HIDE DEF w, k
<1>2. BaseFee \in Nat /\ FeePerKey \in Nat /\ account \in Nat /\ index \in Nat
  BY DEF TradeTxConstants, TradeTypes
<1> DEFINE Good(x) == /\ x \in Transaction /\ x.fee = BaseFee + x.res /\ x.req = r
                      /\ x.place = "held" /\ x.result = "none"
<1>3. Good(t) /\ t.keys = w
  <2>1. SimulatedFee(w) \in Nat
    BY <1>1, KeysCounted DEF SimulatedFee
  <2> QED
    BY <1>1, <1>2, <2>1 DEF Assemble, Transaction, Places, Results
<1> HIDE DEF t
<1>4. Good(p) /\ p.keys = w \cup k
  <2> DEFINE extra == k \ t.keys
             pay == Cardinality(extra) * FeePerKey
  <2>1. pay \in Nat
    BY <1>1, <1>2, KeysCounted
  <2>2. CASE extra = {}
    BY <1>3, <2>2 DEF PadFootprint
  <2>3. CASE extra # {}
    <3> HIDE DEF pay
    <3> DEFINE u == Priced(t, t.res + pay)
    <3>1. p = [u EXCEPT !.keys = u.keys \cup extra]
      BY <2>3, <1>3 DEF PadFootprint, pay
    <3>2. t.res + pay \in Nat
      BY <1>3, <2>1 DEF Transaction
    <3>3. Good(u) /\ u.keys = w
      BY <3>2, <1>2, <1>3, PricedWell
    <3> HIDE DEF u
    <3>4. u.keys \cup extra \in SUBSET WriteKeys /\ u.keys \cup extra = w \cup k
      BY <3>3, <1>1, <1>3
    <3> QED
      BY <3>1, <3>3, <3>4 DEF Transaction
  <2> QED
    BY <2>2, <2>3
<1> HIDE DEF p
<1>5. Good(q) /\ q.keys = w \cup k
  <2>1. p.res \in Nat /\ p.size \in Nat
    BY <1>4 DEF Transaction
  <2>2. Widened(p.res) \in Nat /\ Widened(p.size) \in Nat
    BY <2>1, WidenedType
  <2> DEFINE u == Priced(p, Widened(p.res))
  <2> HIDE DEF p
  <2>3. Good(u) /\ u.keys = w \cup k
    <3>1. p \in Transaction /\ p.fee = BaseFee + p.res
      BY <1>4
    <3> DEFINE n == Widened(p.res)
    <3>2. n \in Nat
      BY <2>2
    <3> HIDE DEF n
    <3>3. LET v == Priced(p, n)
          IN  /\ v \in Transaction /\ v.fee = BaseFee + n /\ v.res = n /\ v.keys = p.keys
              /\ v.req = p.req /\ v.place = p.place /\ v.result = p.result
      BY <3>1, <3>2, <1>2, PricedWell
    <3> QED
      BY <3>3, <1>4 DEF n
  <2>4. q = [u EXCEPT !.size = Widened(p.size)]
    BY DEF WithResourceHeadroom
  <2> HIDE DEF u
  <2> QED
    BY <2>2, <2>3, <2>4 DEF Transaction
<1>6. q = BuildTransaction(r)
  BY DEF q, p, t, w, k, BuildTransaction
<1> HIDE DEF q
<1> QED
  BY <1>1, <1>5, <1>6 DEF WellBuilt

LEMMA RequestsTyped ==
  ASSUME NEW c \in Clients
  PROVE  RequestsOf(c) \subseteq Requests
<1>1. \A op \in {"open", "close", "other"} : Request(op, TRUE) \in Requests /\ Request(op, FALSE) \in Requests
  BY DEF Request, Requests
<1>2. WebRequests \subseteq Requests
  BY <1>1 DEF WebRequests, OpenPosition, ClosePosition, ClosePositionPartial, OpenPositionCross,
     ClosePositionCross, AddCollateral, RemoveCollateral, PlaceLimitOrder, SetStopLoss, SetTakeProfit,
     CancelOrder, DepositCrossMargin, WithdrawCrossMargin, PlaceStopLimitOrder, PlaceTrailingStop
<1>3. Dispatch \subseteq Requests
  BY <1>1 DEF Dispatch, OpenPositionCross, ClosePositionCross, PlaceLimitOrder
<1> QED
  BY <1>2, <1>3 DEF RequestsOf

LEMMA IdleTyped == IdleClient \in TradeClient /\ IdleClient.pc = "idle" /\ IdleClient.intent = 0 /\ IdleClient.tx = 0
BY DEF IdleClient, TradeClient, AddCollateral, Request, Requests

LEMMA TradeInvInit ==
  ASSUME TradeTxConstants, TradeInit
  PROVE  TradeInv
<1>1. TradeTypes
  <2>1. cli \in [Clients -> TradeClient]
    BY IdleTyped DEF TradeInit
  <2> QED
    BY <2>1 DEF TradeInit, TradeTypes, TradeTxConstants, Branches
<1>2. Landed = {} /\ Cardinality(Landed) = 0
  BY FS_EmptySet DEF Landed, TradeInit
<1> QED
  BY <1>1, <1>2, IdleTyped DEF TradeInv, TradeInit, OneAlive, ToldTruthfully

(* The intent a client works on has nothing that can still trade. *)
Spent(n) == \A i \in DOMAIN txs : txs[i].intent = n => ~ MayTrade(txs[i])

(* A client tells how its trade ended and is idle again. *)
LEMMA TellKeeps ==
  ASSUME TradeInv, NEW c \in Clients, cli[c].pc # "idle", NEW o \in Outcome \ {"none"}, Tell(c, o),
         o = "failed" => Spent(cli[c].intent),
         o = "success" => \E i \in TxOf(cli[c].intent) : txs[i].result = "ok",
         UNCHANGED <<ledgerVars, txs>>
  PROVE  TradeInv'
<1> DEFINE n == cli[c].intent
<1>1. n \in DOMAIN told /\ Work(c)
  BY DEF TradeInv, Work
<1>2. /\ told' \in Seq(Outcome) /\ Len(told') = Len(told) /\ DOMAIN told' = DOMAIN told
      /\ told'[n] = o /\ \A k \in DOMAIN told : k # n => told'[k] = told[k]
  <2>1. told \in Seq(Outcome) /\ n \in 1..Len(told) /\ told' = [told EXCEPT ![n] = o]
    BY <1>1 DEF TradeInv, TradeTypes, Tell
  <2> QED
    BY <2>1, ExceptSeq
<1>3. cli' = [cli EXCEPT ![c] = IdleClient] /\ cli \in [Clients -> TradeClient]
  BY DEF Tell, TradeInv, TradeTypes
<1>4. TradeTypes'
  BY <1>2, <1>3, IdleTyped DEF TradeInv, TradeTypes, ledgerVars
<1>5. txs' = txs /\ Landed' = Landed /\ account' = account
  BY DEF Landed, ledgerVars
<1>6. OneAlive' /\ \A i \in DOMAIN txs' : WellBuilt(txs[i])' /\ txs'[i].intent \in DOMAIN told'
  BY <1>2, <1>5 DEF TradeInv, OneAlive, MayTrade, WellBuilt
<1>7. \A d \in Clients : cli'[d].pc # "idle" => Work(d)'
  <2> SUFFICES ASSUME NEW d \in Clients, cli'[d].pc # "idle" PROVE Work(d)'
    OBVIOUS
  <2>1. d # c /\ cli'[d] = cli[d] /\ Work(d)
    BY <1>3, IdleTyped DEF TradeInv
  <2>2. cli[d].intent # n
    BY <2>1 DEF Work
  <2> QED
    BY <1>2, <1>3, <1>5, <2>1, <2>2, IdleTyped DEF Work, MayTrade
<1>8. \A d \in Clients : cli'[d].intent \in 0..Len(told') /\ cli'[d].tx \in 0..Len(txs')
  BY <1>2, <1>3, <1>5, IdleTyped DEF TradeInv
<1>9. ToldTruthfully'
  BY <1>2, <1>5 DEF TradeInv, ToldTruthfully, TxOf, Spent, MayTrade
<1> QED
  BY <1>4, <1>5, <1>6, <1>7, <1>8, <1>9 DEF TradeInv

(* The rebuild after a failure that classifies, or the failure is told. *)
LEMMA FailKeeps ==
  ASSUME TradeInv, NEW c \in Clients, cli[c].pc # "idle", NEW f, Fail(c, f), Spent(cli[c].intent),
         UNCHANGED <<ledgerVars, txs>>
  PROVE  TradeInv'
<1>1. CASE CanRetry(c, f)
  <2>1. cli \in [Clients -> TradeClient] /\ cli[c].attempt < 1 /\ Work(c) /\ told' = told /\ txs' = txs
    BY <1>1 DEF TradeInv, TradeTypes, CanRetry, Fail
  <2> DEFINE e == [cli[c] EXCEPT !.pc = "build", !.attempt = cli[c].attempt + 1]
  <2>2. cli' = [cli EXCEPT ![c] = e]
    BY <1>1, <2>1 DEF Fail
  <2>3. e \in TradeClient /\ e.pc = "build" /\ e.intent = cli[c].intent /\ e.tx = cli[c].tx
    <3> DEFINE k == cli[c].attempt + 1
    <3>1. cli[c] \in TradeClient /\ k \in 0..1
      BY <2>1 DEF TradeClient
    <3> HIDE DEF k
    <3>2. e = [cli[c] EXCEPT !.pc = "build", !.attempt = k]
      BY DEF k
    <3> QED
      BY <3>1, <3>2 DEF TradeClient
  <2> HIDE DEF e
  <2>4. TradeTypes'
    BY <2>1, <2>2, <2>3 DEF TradeInv, TradeTypes, ledgerVars
  <2>5. \A d \in Clients : cli'[d].pc # "idle" => Work(d)'
    <3> SUFFICES ASSUME NEW d \in Clients, cli'[d].pc # "idle" PROVE Work(d)'
      OBVIOUS
    <3>1. Work(d) /\ \A k \in Clients : cli'[k].intent = cli[k].intent /\ (cli'[k].pc # "idle" => cli[k].pc # "idle")
      BY <2>1, <2>2, <2>3 DEF TradeInv
    <3>2. CASE d = c
      BY <3>1, <3>2, <2>1, <2>2, <2>3 DEF Work, MayTrade, Spent
    <3>3. CASE d # c
      BY <3>1, <3>3, <2>1, <2>2, <2>3 DEF Work, MayTrade
    <3> QED
      BY <3>2, <3>3
  <2>6. \A d \in Clients : cli'[d].intent \in 0..Len(told') /\ cli'[d].tx \in 0..Len(txs')
    BY <2>1, <2>2, <2>3 DEF TradeInv
  <2>7. /\ account' = Cardinality(Landed') /\ OneAlive' /\ ToldTruthfully'
        /\ \A i \in DOMAIN txs' : WellBuilt(txs[i])' /\ txs'[i].intent \in DOMAIN told'
    BY <2>1 DEF TradeInv, Landed, OneAlive, MayTrade, ToldTruthfully, TxOf, WellBuilt, ledgerVars
  <2> QED
    BY <2>4, <2>5, <2>6, <2>7 DEF TradeInv
<1>2. CASE ~ CanRetry(c, f)
  <2>1. Tell(c, "failed")
    BY <1>2 DEF Fail
  <2> QED
    BY <2>1, TellKeeps DEF Outcome
<1> QED
  BY <1>1, <1>2

LEMMA ClickKeeps ==
  ASSUME TradeInv, NEW c \in Clients, NEW r \in RequestsOf(c), Click(c, r)
  PROVE  TradeInv'
<1> DEFINE n == Len(told) + 1
           e == [IdleClient EXCEPT !.pc = "build", !.req = r, !.intent = n]
<1>1. /\ told \in Seq(Outcome) /\ cli \in [Clients -> TradeClient] /\ Len(told) \in Nat
      /\ DOMAIN told = 1..Len(told) /\ r \in Requests /\ cli[c].pc = "idle"
  BY RequestsTyped, LenProperties DEF TradeInv, TradeTypes, Click
<1>2. /\ told' \in Seq(Outcome) /\ Len(told') = n /\ DOMAIN told' = 1..n /\ told'[n] = "none"
      /\ \A k \in DOMAIN told : told'[k] = told[k] /\ k \in DOMAIN told' /\ k # n
  <2>1. told' = Append(told, "none") /\ "none" \in Outcome
    BY DEF Click, Outcome
  <2>2. told' \in Seq(Outcome) /\ Len(told') = n /\ told'[n] = "none" /\ \A k \in 1..Len(told) : told'[k] = told[k]
    BY <1>1, <2>1, AppendProperties
  <2> QED
    BY <1>1, <2>2, LenProperties
<1>3. e \in TradeClient /\ e.pc = "build" /\ e.intent = n /\ e.tx = 0
  <2> DEFINE k == n
  <2>1. k \in Nat /\ IdleClient \in TradeClient /\ r \in Requests
    BY <1>1, IdleTyped
  <2> HIDE DEF k
  <2>2. e = [IdleClient EXCEPT !.pc = "build", !.req = r, !.intent = k]
    BY DEF k
  <2>3. e \in TradeClient /\ e.pc = "build" /\ e.intent = k /\ e.tx = IdleClient.tx
    BY <2>1, <2>2 DEF TradeClient
  <2> QED
    BY <2>3, IdleTyped DEF k
<1> HIDE DEF e
<1>4. cli' = [cli EXCEPT ![c] = e]
  BY DEF Click, e
<1>5. txs' = txs /\ UNCHANGED ledgerVars
  BY DEF Click
<1>6. TradeTypes'
  BY <1>1, <1>2, <1>3, <1>4, <1>5 DEF TradeInv, TradeTypes, ledgerVars
<1>7. \A d \in Clients : cli'[d].pc # "idle" => Work(d)'
  <2> SUFFICES ASSUME NEW d \in Clients, cli'[d].pc # "idle" PROVE Work(d)'
    OBVIOUS
  <2>1. CASE d = c
    <3>1. \A k \in Clients : cli[k].intent # n
      BY <1>1 DEF TradeInv
    <3>2. \A i \in DOMAIN txs : txs[i].intent # n
      BY <1>1 DEF TradeInv
    <3> QED
      BY <1>1, <1>2, <1>3, <1>4, <1>5, <2>1, <3>1, <3>2 DEF Work
  <2>2. CASE d # c
    <3>1. Work(d) /\ cli'[d] = cli[d] /\ cli[d].intent # n
      BY <1>1, <1>4, <2>2 DEF TradeInv
    <3>2. \A k \in Clients : cli'[k].pc # "idle" /\ cli'[k].intent = cli[d].intent => k = d
      BY <1>1, <1>3, <1>4, <3>1 DEF Work
    <3> QED
      BY <1>1, <1>2, <1>5, <3>1, <3>2 DEF Work, MayTrade
  <2> QED
    BY <2>1, <2>2
<1>8. \A d \in Clients : cli'[d].intent \in 0..Len(told') /\ cli'[d].tx \in 0..Len(txs')
  BY <1>1, <1>2, <1>3, <1>4, <1>5, LenProperties DEF TradeInv, TradeTypes
<1>9. ToldTruthfully'
  BY <1>1, <1>2, <1>5 DEF TradeInv, ToldTruthfully, TxOf
<1>10. /\ account' = Cardinality(Landed') /\ OneAlive'
       /\ \A i \in DOMAIN txs' : WellBuilt(txs[i])' /\ txs'[i].intent \in DOMAIN told'
  BY <1>2, <1>5 DEF TradeInv, Landed, OneAlive, MayTrade, WellBuilt, ledgerVars
<1> QED
  BY <1>6, <1>7, <1>8, <1>9, <1>10 DEF TradeInv

LEMMA BuiltKeeps ==
  ASSUME TradeTxConstants, TradeInv, NEW c \in Clients, Built(c)
  PROVE  TradeInv'
<1> DEFINE t == [BuildTransaction(cli[c].req) EXCEPT !.intent = cli[c].intent]
           n == Len(txs) + 1
           e == [cli[c] EXCEPT !.pc = "sign", !.tx = n]
<1>1. /\ TradeTypes /\ cli[c] \in TradeClient /\ cli[c].pc = "build" /\ Work(c)
      /\ Len(txs) \in Nat /\ DOMAIN txs = 1..Len(txs)
  BY LenProperties DEF TradeInv, TradeTypes, Built
<1>2. /\ t \in Transaction /\ WellBuilt(t) /\ ~ MayTrade(t) /\ t.intent = cli[c].intent
      /\ t.place = "held" /\ t.result = "none"
  <2> DEFINE b == BuildTransaction(cli[c].req)
  <2>1. b \in Transaction /\ WellBuilt(b) /\ b.place = "held" /\ b.result = "none"
    BY <1>1, BuiltWell DEF TradeClient
  <2> HIDE DEF b
  <2>2. t = [b EXCEPT !.intent = cli[c].intent] /\ cli[c].intent \in Nat
    BY <1>1 DEF TradeClient, b
  <2> HIDE DEF t
  <2>3. /\ t \in Transaction /\ t.intent = cli[c].intent /\ t.place = b.place /\ t.result = b.result
        /\ t.req = b.req /\ t.keys = b.keys /\ t.fee = b.fee /\ t.res = b.res
    BY <2>1, <2>2 DEF Transaction
  <2> QED
    BY <2>1, <2>3 DEF WellBuilt, MayTrade
<1>3. txs' = Append(txs, t) /\ cli' = [cli EXCEPT ![c] = e] /\ UNCHANGED <<ledgerVars, told>>
  BY DEF Built
<1>4. e \in TradeClient /\ e.pc = "sign" /\ e.tx = n /\ e.intent = cli[c].intent
  <2> DEFINE k == n
  <2>1. k \in Nat /\ cli[c] \in TradeClient
    BY <1>1
  <2> HIDE DEF k
  <2>2. e = [cli[c] EXCEPT !.pc = "sign", !.tx = k]
    BY DEF k
  <2>3. e \in TradeClient /\ e.pc = "sign" /\ e.tx = k /\ e.intent = cli[c].intent
    BY <2>1, <2>2 DEF TradeClient
  <2> QED
    BY <2>3 DEF k
<1> HIDE DEF t, e
<1>5. /\ txs' \in Seq(Transaction) /\ Len(txs') = n /\ DOMAIN txs' = 1..n /\ txs'[n] = t
      /\ \A i \in DOMAIN txs : txs'[i] = txs[i] /\ i \in DOMAIN txs' /\ i # n
  <2>1. txs \in Seq(Transaction)
    BY <1>1 DEF TradeTypes
  <2>2. txs' \in Seq(Transaction) /\ Len(txs') = n /\ txs'[n] = t /\ \A i \in 1..Len(txs) : txs'[i] = txs[i]
    BY <1>2, <1>3, <2>1, AppendProperties
  <2> QED
    BY <1>1, <2>2, LenProperties
<1>6. \A i \in DOMAIN txs' : i # n => i \in DOMAIN txs /\ txs'[i] = txs[i]
  BY <1>1, <1>5
<1>7. TradeTypes'
  BY <1>1, <1>3, <1>4, <1>5 DEF TradeTypes, ledgerVars
<1>8. Landed' = Landed /\ account' = account
  BY <1>2, <1>3, <1>5, <1>6 DEF Landed, ledgerVars
<1>9. \A i \in DOMAIN txs' : WellBuilt(txs'[i]) /\ txs'[i].intent \in DOMAIN told'
  BY <1>1, <1>2, <1>3, <1>5, <1>6 DEF TradeInv, Work
<1>10. OneAlive'
  BY <1>2, <1>5, <1>6 DEF TradeInv, OneAlive, MayTrade
<1>11. \A d \in Clients : cli'[d].pc # "idle" => Work(d)'
  <2> SUFFICES ASSUME NEW d \in Clients, cli'[d].pc # "idle" PROVE Work(d)'
    OBVIOUS
  <2>1. /\ \A k \in Clients : cli'[k].intent = cli[k].intent /\ (cli'[k].pc # "idle" => cli[k].pc # "idle")
        /\ Work(d) /\ told' = told
    BY <1>1, <1>3, <1>4 DEF TradeInv, TradeTypes
  <2>2. CASE d = c
    <3>1. cli'[c] = e
      BY <1>1, <1>3 DEF TradeTypes
    <3>2. \A i \in DOMAIN txs' : txs'[i].intent = cli[c].intent => ~ MayTrade(txs'[i])
      BY <1>1, <1>2, <1>5, <1>6 DEF Work
    <3> QED
      BY <1>2, <1>4, <1>5, <2>1, <2>2, <3>1, <3>2 DEF Work, MayTrade
  <2>3. CASE d # c
    <3>1. cli'[d] = cli[d]
      BY <1>1, <1>3, <2>3 DEF TradeTypes
    <3>2. \A i \in DOMAIN txs' :
            txs'[i].intent = cli[d].intent /\ MayTrade(txs'[i]) => cli[d].pc = "poll" /\ i = cli[d].tx
      BY <1>2, <1>5, <1>6, <2>1 DEF Work
    <3>3. cli[d].pc # "build" => cli[d].tx \in DOMAIN txs
      BY <2>1 DEF Work
    <3>4. \A i \in DOMAIN txs : txs'[i] = txs[i] /\ i \in DOMAIN txs'
      BY <1>5
    <3> QED
      BY <2>1, <3>1, <3>2, <3>3, <3>4 DEF Work, MayTrade
  <2> QED
    BY <2>2, <2>3
<1>12. \A d \in Clients : cli'[d].intent \in 0..Len(told') /\ cli'[d].tx \in 0..Len(txs')
  <2>1. told' = told /\ Len(txs') = n /\ cli' = [cli EXCEPT ![c] = e] /\ cli \in [Clients -> TradeClient]
    BY <1>1, <1>3, <1>5 DEF TradeTypes
  <2>2. \A d \in Clients : cli[d].intent \in 0..Len(told) /\ cli[d].tx \in 0..Len(txs)
    BY DEF TradeInv
  <2>3. e.intent = cli[c].intent /\ e.tx = n
    BY <1>4
  <2> HIDE DEF n
  <2>4. n \in Nat /\ n = Len(txs) + 1 /\ Len(txs) \in Nat
    BY <1>1 DEF n
  <2>5. \A d \in Clients : cli'[d] = IF d = c THEN e ELSE cli[d]
    BY <2>1
  <2>6. 0..Len(txs) \subseteq 0..n /\ n \in 0..n
    BY <2>4
  <2> QED
    BY <2>1, <2>2, <2>3, <2>5, <2>6
<1>13. ToldTruthfully'
  BY <1>2, <1>3, <1>5, <1>6 DEF TradeInv, ToldTruthfully, TxOf, MayTrade
<1> QED
  BY <1>7, <1>8, <1>9, <1>10, <1>11, <1>12, <1>13 DEF TradeInv, WellBuilt

LEMMA SignKeeps ==
  ASSUME TradeInv, NEW c \in Clients, Sign(c)
  PROVE  TradeInv'
<1> DEFINE e == [cli[c] EXCEPT !.pc = "send"]
<1>1. cli \in [Clients -> TradeClient] /\ cli[c].pc = "sign" /\ Work(c)
  BY DEF TradeInv, TradeTypes, Sign
<1>2. cli' = [cli EXCEPT ![c] = e] /\ UNCHANGED <<ledgerVars, txs, told>>
  BY DEF Sign
<1>3. e \in TradeClient /\ e.pc = "send" /\ e.intent = cli[c].intent /\ e.tx = cli[c].tx
  BY <1>1 DEF TradeClient
<1> HIDE DEF e
<1>4. TradeTypes'
  BY <1>1, <1>2, <1>3 DEF TradeInv, TradeTypes, ledgerVars
<1>5. \A k \in Clients : cli'[k].intent = cli[k].intent /\ cli'[k].tx = cli[k].tx
                          /\ (cli'[k].pc # "idle" => cli[k].pc # "idle")
  BY <1>1, <1>2, <1>3
<1>6. \A d \in Clients : cli'[d].pc # "idle" => Work(d)'
  <2> SUFFICES ASSUME NEW d \in Clients, cli'[d].pc # "idle" PROVE Work(d)'
    OBVIOUS
  <2>1. Work(d)
    BY <1>5 DEF TradeInv
  <2>2. CASE d = c
    BY <1>1, <1>2, <1>3, <1>5, <2>1, <2>2 DEF Work, MayTrade
  <2>3. CASE d # c
    <3>1. cli'[d] = cli[d]
      BY <1>1, <1>2, <2>3
    <3> QED
      BY <1>2, <1>5, <2>1, <3>1 DEF Work, MayTrade
  <2> QED
    BY <2>2, <2>3
<1>7. /\ account' = Cardinality(Landed') /\ OneAlive' /\ ToldTruthfully'
      /\ \A i \in DOMAIN txs' : WellBuilt(txs[i])' /\ txs'[i].intent \in DOMAIN told'
  BY <1>2 DEF TradeInv, Landed, OneAlive, MayTrade, ToldTruthfully, TxOf, WellBuilt, ledgerVars
<1> QED
  BY <1>2, <1>4, <1>5, <1>6, <1>7 DEF TradeInv

(* Nothing of an intent is alive while its client builds, signs or sends. *)
LEMMA NotSentYet ==
  ASSUME TradeInv, NEW c \in Clients, cli[c].pc \in {"build", "sign", "send"}
  PROVE  Spent(cli[c].intent)
BY DEF TradeInv, Work, Spent

LEMMA EndingsKeep ==
  ASSUME TradeInv, NEW c \in Clients,
         BuildFailed(c) \/ SignRefused(c) \/ SendLater(c) \/ SendError(c)
           \/ PollFinal(c) \/ PollTimeout(c) \/ PollError(c)
  PROVE  TradeInv'
<1>1. CASE BuildFailed(c) \/ SignRefused(c)
  <2>1. Tell(c, "failed") /\ Spent(cli[c].intent) /\ cli[c].pc # "idle" /\ UNCHANGED <<ledgerVars, txs>>
    BY <1>1, NotSentYet DEF BuildFailed, SignRefused
  <2> QED
    BY <2>1, TellKeeps DEF Outcome
<1>2. CASE SendLater(c) \/ SendError(c)
  <2>1. /\ \E f : Fail(c, f)
        /\ Spent(cli[c].intent) /\ cli[c].pc # "idle" /\ UNCHANGED <<ledgerVars, txs>>
    BY <1>2, NotSentYet DEF SendLater, SendError
  <2> QED
    BY <2>1, FailKeeps
<1>3. CASE PollFinal(c)
  <2>1. /\ cli[c].pc = "poll" /\ txs[cli[c].tx].place = "landed" /\ UNCHANGED <<ledgerVars, txs>>
        /\ IF txs[cli[c].tx].result = "ok" THEN Tell(c, "success") ELSE Fail(c, AppliedFacts(txs[cli[c].tx].result))
    BY <1>3 DEF PollFinal
  <2>2. Work(c) /\ cli[c].tx \in DOMAIN txs /\ txs[cli[c].tx].intent = cli[c].intent
    BY <2>1 DEF TradeInv, Work
  <2>3. CASE txs[cli[c].tx].result = "ok"
    <3>1. \E i \in TxOf(cli[c].intent) : txs[i].result = "ok"
      BY <2>2, <2>3 DEF TxOf
    <3> QED
      BY <2>1, <2>3, <3>1, TellKeeps DEF Outcome
  <2>4. CASE txs[cli[c].tx].result # "ok"
    <3>1. Spent(cli[c].intent)
      BY <2>1, <2>2, <2>4 DEF Work, Spent, MayTrade
    <3> QED
      BY <2>1, <2>4, <3>1, FailKeeps
  <2> QED
    BY <2>3, <2>4
<1>4. CASE PollTimeout(c)
  <2>1. Tell(c, "pending") /\ cli[c].pc # "idle" /\ UNCHANGED <<ledgerVars, txs>>
    BY <1>4 DEF PollTimeout, StillPending
  <2> QED
    BY <2>1, TellKeeps DEF Outcome
<1>5. CASE PollError(c)
  <2>1. Tell(c, "unknown") /\ cli[c].pc # "idle" /\ UNCHANGED <<ledgerVars, txs>>
    BY <1>5 DEF PollError
  <2> QED
    BY <2>1, TellKeeps DEF Outcome
<1> QED
  BY <1>1, <1>2, <1>3, <1>4, <1>5

(* One transaction changes. *)
LEMMA TxMoved ==
  ASSUME TradeTypes, NEW i \in DOMAIN txs, NEW t \in Transaction, txs' = [txs EXCEPT ![i] = t]
  PROVE  /\ txs' \in Seq(Transaction) /\ Len(txs') = Len(txs) /\ DOMAIN txs' = DOMAIN txs /\ txs'[i] = t
         /\ \A j \in DOMAIN txs : j # i => txs'[j] = txs[j]
<1>1. txs \in Seq(Transaction) /\ i \in 1..Len(txs)
  BY DEF TradeTypes
<1> QED
  BY <1>1, ExceptSeq, LenProperties

(* What moves a transaction without bringing one to life leaves every client's work as it is. *)
LEMMA WorkKept ==
  ASSUME TradeInv, NEW i \in DOMAIN txs, NEW t \in Transaction, txs' = [txs EXCEPT ![i] = t],
         t.intent = txs[i].intent, MayTrade(t) => MayTrade(txs[i]), txs[i].place = "pool",
         UNCHANGED <<cli, told>>
  PROVE  /\ \A d \in Clients : cli'[d].pc # "idle" => Work(d)'
         /\ \A d \in Clients : cli'[d].intent \in 0..Len(told') /\ cli'[d].tx \in 0..Len(txs')
         /\ OneAlive' /\ \A j \in DOMAIN txs' : txs'[j].intent \in DOMAIN told'
         /\ ToldTruthfully'
<1>1. /\ Len(txs') = Len(txs) /\ DOMAIN txs' = DOMAIN txs /\ txs'[i] = t
      /\ \A j \in DOMAIN txs : j # i => txs'[j] = txs[j]
  BY TxMoved DEF TradeInv
<1>2. \A j \in DOMAIN txs : txs'[j].intent = txs[j].intent /\ (MayTrade(txs'[j]) => MayTrade(txs[j]))
  BY <1>1
<1>3. \A d \in Clients : cli'[d].pc # "idle" => Work(d)'
  <2> SUFFICES ASSUME NEW d \in Clients, cli[d].pc # "idle" PROVE Work(d)'
    OBVIOUS
  <2>1. Work(d)
    BY DEF TradeInv
  <2>2. cli[d].pc \in {"sign", "send"} => cli[d].tx # i
    BY <2>1 DEF Work
  <2> QED
    BY <1>1, <1>2, <2>1, <2>2 DEF Work
<1>4. ToldTruthfully'
  BY <1>1, <1>2 DEF TradeInv, ToldTruthfully, TxOf, MayTrade, WellBuilt
<1> QED
  BY <1>1, <1>2, <1>3, <1>4 DEF TradeInv, OneAlive

LEMMA SendKeeps ==
  ASSUME TradeInv, NEW c \in Clients, Send(c)
  PROVE  TradeInv'
<1> DEFINE i == cli[c].tx
           n == cli[c].intent
           t == [txs[i] EXCEPT !.place = "pool"]
<1>1. /\ TradeTypes /\ cli[c] \in TradeClient /\ cli[c].pc = "send" /\ Work(c)
      /\ i \in DOMAIN txs /\ txs[i].intent = n /\ txs[i].place = "held" /\ WellBuilt(txs[i])
  BY DEF TradeInv, TradeTypes, Send, Work
<1>2. txs[i] \in Transaction
  BY <1>1 DEF TradeTypes
<1>3. /\ t \in Transaction /\ WellBuilt(t) /\ t.intent = n /\ t.place = "pool"
      /\ t.result = "none"
  BY <1>1, <1>2 DEF Transaction, Places, WellBuilt
<1>4. txs' = [txs EXCEPT ![i] = t] /\ UNCHANGED ledgerVars
  BY DEF Send
<1> HIDE DEF t
<1>5. /\ txs' \in Seq(Transaction) /\ Len(txs') = Len(txs) /\ DOMAIN txs' = DOMAIN txs /\ txs'[i] = t
      /\ \A j \in DOMAIN txs : j # i => txs'[j] = txs[j]
  BY <1>1, <1>3, <1>4, TxMoved
<1>6. \/ told' = told /\ cli' = [cli EXCEPT ![c] = [cli[c] EXCEPT !.pc = "poll"]]
      \/ told' = [told EXCEPT ![n] = "unknown"] /\ cli' = [cli EXCEPT ![c] = IdleClient]
  BY DEF Send, Tell
<1>7. /\ told' \in Seq(Outcome) /\ Len(told') = Len(told) /\ DOMAIN told' = DOMAIN told
      /\ \A k \in DOMAIN told : k # n => told'[k] = told[k]
      /\ told'[n] \in {"none", "unknown"}
  <2>1. told \in Seq(Outcome) /\ n \in DOMAIN told /\ n \in 1..Len(told) /\ told[n] = "none"
    BY <1>1 DEF TradeTypes, Work
  <2>2. CASE told' = told
    BY <2>1, <2>2
  <2>3. CASE told' = [told EXCEPT ![n] = "unknown"]
    <3>1. "unknown" \in Outcome
      BY DEF Outcome
    <3>2. /\ told' \in Seq(Outcome) /\ Len(told') = Len(told)
          /\ \A k \in 1..Len(told) : told'[k] = IF k = n THEN "unknown" ELSE told[k]
      BY <2>1, <2>3, <3>1, ExceptSeq
    <3> QED
      BY <2>1, <3>2, LenProperties
  <2> QED
    BY <1>6, <2>2, <2>3
<1>8. \/ /\ told' = told /\ cli' \in [Clients -> TradeClient] /\ cli'[c].pc = "poll" /\ cli'[c].tx = i
         /\ cli'[c].intent = n /\ \A d \in Clients : d # c => cli'[d] = cli[d]
      \/ /\ cli' \in [Clients -> TradeClient] /\ cli'[c].pc = "idle" /\ cli'[c].tx = 0
         /\ cli'[c].intent = 0 /\ \A d \in Clients : d # c => cli'[d] = cli[d]
  <2> DEFINE e == [cli[c] EXCEPT !.pc = "poll"]
  <2>1. /\ e \in TradeClient /\ e.pc = "poll" /\ e.tx = i /\ e.intent = n
        /\ cli \in [Clients -> TradeClient]
    BY <1>1 DEF TradeClient, TradeTypes
  <2>2. \/ told' = told /\ cli' = [cli EXCEPT ![c] = e]
        \/ cli' = [cli EXCEPT ![c] = IdleClient]
    BY <1>6
  <2> HIDE DEF e
  <2> QED
    BY <2>1, <2>2, IdleTyped
<1>9. TradeTypes'
  BY <1>1, <1>4, <1>5, <1>7, <1>8 DEF TradeTypes, ledgerVars
<1>10. \A j \in DOMAIN txs : txs[j].intent = n => ~ MayTrade(txs[j])
  BY <1>1 DEF Work
<1>12. \A d \in Clients : d # c /\ cli[d].pc # "idle" => Work(d) /\ cli[d].intent # n
  BY <1>1 DEF TradeInv, Work
<1>13. \A d \in Clients : cli'[d].pc # "idle" => Work(d)'
  <2> SUFFICES ASSUME NEW d \in Clients, cli'[d].pc # "idle" PROVE Work(d)'
    OBVIOUS
  <2>1. CASE d = c
    <3>1. told' = told /\ cli'[c].pc = "poll" /\ cli'[c].tx = i /\ cli'[c].intent = n
      BY <1>8, <2>1
    <3>2. \A k \in Clients : cli'[k].pc # "idle" /\ cli'[k].intent = n => k = c
      BY <1>8, <1>12
    <3>3. \A j \in DOMAIN txs' : txs'[j].intent = n /\ MayTrade(txs'[j]) => j = i
      BY <1>5, <1>10
    <3> QED
      BY <1>1, <1>3, <1>5, <2>1, <3>1, <3>2, <3>3 DEF Work
  <2>2. CASE d # c
    <3>1. cli'[d] = cli[d] /\ cli[d].pc # "idle"
      BY <1>8, <2>2
    <3>2. Work(d) /\ cli[d].intent # n
      BY <1>12, <2>2, <3>1
    <3>3. \A k \in Clients : cli'[k].pc # "idle" /\ cli'[k].intent = cli[d].intent => k = d
      BY <1>1, <1>8, <3>2 DEF Work
    <3>4. \A j \in DOMAIN txs' : txs'[j].intent = cli[d].intent => j # i /\ txs'[j] = txs[j]
      BY <1>3, <1>5, <3>2
    <3>5. cli[d].pc # "build" => cli[d].tx \in DOMAIN txs /\ txs[cli[d].tx].intent = cli[d].intent /\ cli[d].tx # i
      BY <1>1, <3>2 DEF Work
    <3> QED
      BY <1>5, <1>7, <3>1, <3>2, <3>3, <3>4, <3>5 DEF Work
  <2> QED
    BY <2>1, <2>2
<1>14. \A d \in Clients : cli'[d].intent \in 0..Len(told') /\ cli'[d].tx \in 0..Len(txs')
  BY <1>1, <1>5, <1>7, <1>8 DEF TradeInv, TradeTypes
<1>15. OneAlive'
  BY <1>1, <1>3, <1>5, <1>10 DEF TradeInv, OneAlive
<1>16. ToldTruthfully'
  <2> SUFFICES ASSUME NEW k \in DOMAIN told
               PROVE  /\ told'[k] = "success" => \E j \in TxOf(k)' : txs'[j].result = "ok"
                      /\ told'[k] = "failed" => \A j \in TxOf(k)' : txs'[j].result # "ok" /\ txs'[j].place # "pool"
    BY <1>7 DEF ToldTruthfully
  <2>1. CASE k = n
    BY <1>7, <2>1
  <2>2. CASE k # n
    <3>1. told'[k] = told[k]
      BY <1>7, <2>2
    <3>2. TxOf(k)' = TxOf(k) /\ i \notin TxOf(k)
      BY <1>1, <1>3, <1>5, <2>2 DEF TxOf
    <3>3. \A j \in TxOf(k) : txs'[j] = txs[j]
      BY <1>5, <3>2 DEF TxOf
    <3> QED
      BY <3>1, <3>2, <3>3 DEF TradeInv, ToldTruthfully
  <2> QED
    BY <2>1, <2>2
<1>17. Landed' = Landed /\ account' = account
  BY <1>1, <1>3, <1>4, <1>5 DEF Landed, ledgerVars
<1>18. \A j \in DOMAIN txs' : WellBuilt(txs'[j]) /\ txs'[j].intent \in DOMAIN told'
  BY <1>1, <1>3, <1>5, <1>7 DEF TradeInv, Work
<1> QED
  BY <1>9, <1>13, <1>14, <1>15, <1>16, <1>17, <1>18 DEF TradeInv, WellBuilt

LEMMA ApplyKeeps ==
  ASSUME TradeTxConstants, TradeInv, NEW i \in DOMAIN txs, Apply(i)
  PROVE  TradeInv'
<1>1. PICK result \in Outcomes(txs[i]) :
        /\ txs' = [txs EXCEPT ![i].place = "landed", ![i].result = result]
        /\ index' = IF result = "ok" THEN Grown(txs[i]) ELSE index
  BY DEF Apply
<1> DEFINE t == [txs[i] EXCEPT !.place = "landed", !.result = result]
<1>2. /\ TradeTypes /\ txs[i] \in Transaction /\ txs[i].place = "pool" /\ WellBuilt(txs[i])
      /\ UNCHANGED <<branch, cli, told>> /\ account' = account + 1
  BY DEF TradeInv, TradeTypes, Apply
<1>3. result \in Results \ {"none"} /\ (txs[i].req.asset => result # "trap")
  BY <1>1, <1>2 DEF Outcomes, Results, WellBuilt, TradeTypes
<1>4. /\ t \in Transaction /\ WellBuilt(t) /\ t.intent = txs[i].intent /\ t.place = "landed"
  BY <1>2, <1>3 DEF Transaction, Places, WellBuilt
<1>5. txs' = [txs EXCEPT ![i] = t]
  BY <1>1
<1> HIDE DEF t
<1>6. /\ txs' \in Seq(Transaction) /\ Len(txs') = Len(txs) /\ DOMAIN txs' = DOMAIN txs /\ txs'[i] = t
      /\ \A j \in DOMAIN txs : j # i => txs'[j] = txs[j]
  BY <1>2, <1>4, <1>5, TxMoved
<1>7. index' \in 1..MaxIndex
  BY <1>1, <1>2 DEF Grown, TradeTypes, TradeTxConstants
<1>8. account' = Cardinality(Landed')
  <2>1. Landed' = Landed \cup {i} /\ i \notin Landed
    BY <1>2, <1>4, <1>6 DEF Landed
  <2>2. IsFiniteSet(Landed)
    <3>1. Landed \subseteq 1..Len(txs) /\ Len(txs) \in Nat
      BY <1>2, LenProperties DEF Landed, TradeTypes
    <3>2. IsFiniteSet(1..Len(txs))
      BY <3>1, FS_Interval
    <3> QED
      BY <3>1, <3>2, FS_Subset
  <2> QED
    BY <1>2, <2>1, <2>2, FS_AddElement DEF TradeInv
<1>9. TradeTypes'
  BY <1>2, <1>6, <1>7 DEF TradeTypes
<1>10. \A j \in DOMAIN txs' : WellBuilt(txs'[j])
  BY <1>4, <1>6 DEF TradeInv
<1>11. MayTrade(txs[i])
  BY <1>2 DEF MayTrade
<1> QED
  BY <1>2, <1>4, <1>5, <1>8, <1>9, <1>10, <1>11, WorkKept DEF TradeInv, WellBuilt

LEMMA DropKeeps ==
  ASSUME TradeInv, NEW i \in DOMAIN txs, Drop(i)
  PROVE  TradeInv'
<1> DEFINE t == [txs[i] EXCEPT !.place = "dropped"]
<1>1. /\ TradeTypes /\ txs[i] \in Transaction /\ txs[i].place = "pool" /\ WellBuilt(txs[i])
      /\ UNCHANGED <<account, index, branch, moves, cli, told>> /\ txs' = [txs EXCEPT ![i] = t]
  BY DEF TradeInv, TradeTypes, Drop, ledgerVars
<1>2. t \in Transaction /\ WellBuilt(t) /\ t.intent = txs[i].intent /\ t.place = "dropped"
  BY <1>1 DEF Transaction, Places, WellBuilt
<1> HIDE DEF t
<1>3. /\ txs' \in Seq(Transaction) /\ Len(txs') = Len(txs) /\ DOMAIN txs' = DOMAIN txs /\ txs'[i] = t
      /\ \A j \in DOMAIN txs : j # i => txs'[j] = txs[j]
  BY <1>1, <1>2, TxMoved
<1>4. Landed' = Landed
  BY <1>1, <1>2, <1>3 DEF Landed
<1>5. TradeTypes' /\ account' = Cardinality(Landed')
  BY <1>1, <1>3, <1>4 DEF TradeInv, TradeTypes
<1>6. \A j \in DOMAIN txs' : WellBuilt(txs'[j])
  BY <1>2, <1>3 DEF TradeInv
<1>7. MayTrade(txs[i])
  BY <1>1 DEF MayTrade
<1> QED
  BY <1>1, <1>2, <1>5, <1>6, <1>7, WorkKept DEF TradeInv, WellBuilt

LEMMA OthersKeep ==
  ASSUME TradeTxConstants, TradeInv, Others \/ UNCHANGED tradeVars
  PROVE  TradeInv'
<1>1. /\ UNCHANGED <<account, txs, cli, told>>
      /\ branch' \in Branches /\ index' \in 1..MaxIndex
  BY DEF Others, tradeVars, TradeInv, TradeTypes, TradeTxConstants
<1>2. TradeTypes'
  BY <1>1 DEF TradeInv, TradeTypes
<1>3. \A d \in Clients : cli'[d].pc # "idle" => Work(d)'
  BY <1>1 DEF TradeInv, Work
<1>4. /\ account' = Cardinality(Landed') /\ OneAlive' /\ ToldTruthfully'
      /\ \A i \in DOMAIN txs' : WellBuilt(txs[i])' /\ txs'[i].intent \in DOMAIN told'
      /\ \A d \in Clients : cli'[d].intent \in 0..Len(told') /\ cli'[d].tx \in 0..Len(txs')
  BY <1>1 DEF TradeInv, Landed, OneAlive, MayTrade, ToldTruthfully, TxOf, WellBuilt
<1> QED
  BY <1>2, <1>3, <1>4 DEF TradeInv

LEMMA TradeInvNext ==
  ASSUME TradeTxConstants, TradeInv, [TradeNext]_tradeVars
  PROVE  TradeInv'
<1>1. CASE Others \/ UNCHANGED tradeVars
  BY <1>1, OthersKeep
<1>2. CASE \E i \in DOMAIN txs : Apply(i) \/ Drop(i)
  BY <1>2, ApplyKeeps, DropKeeps
<1>3. ASSUME NEW c \in Clients,
             \/ \E r \in RequestsOf(c) : Click(c, r)
             \/ Built(c) \/ BuildFailed(c) \/ Sign(c) \/ SignRefused(c)
             \/ Send(c) \/ SendLater(c) \/ SendError(c)
             \/ PollFinal(c) \/ PollTimeout(c) \/ PollError(c)
      PROVE  TradeInv'
  BY <1>3, ClickKeeps, BuiltKeeps, SignKeeps, SendKeeps, EndingsKeep
<1> QED
  BY <1>1, <1>2, <1>3 DEF TradeNext

LEMMA TradeInvHonest ==
  ASSUME TradeInv
  PROVE  TradeHonest
<1>1. TradeTypes /\ Len(txs) \in Nat /\ DOMAIN txs = 1..Len(txs)
  BY LenProperties DEF TradeInv, TradeTypes
<1>2. account \in 0..Len(txs)
  <2>1. Landed \subseteq 1..Len(txs)
    BY <1>1 DEF Landed
  <2>2. IsFiniteSet(1..Len(txs)) /\ Cardinality(1..Len(txs)) = Len(txs)
    <3> DEFINE L == Len(txs)
    <3>1. L \in Nat
      BY <1>1
    <3> HIDE DEF L
    <3>2. IsFiniteSet(1..L) /\ Cardinality(1..L) = IF 1 > L THEN 0 ELSE L - 1 + 1
      BY <3>1, FS_Interval
    <3>3. Cardinality(1..L) = L
      BY <3>1, <3>2
    <3> QED
      BY <3>2, <3>3 DEF L
  <2>3. IsFiniteSet(Landed) /\ Cardinality(Landed) <= Len(txs)
    BY <2>1, <2>2, FS_Subset
  <2> QED
    BY <1>1, <2>3 DEF TradeInv, TradeTypes
<1>3. OneTradePerIntent
  <2> SUFFICES ASSUME NEW n \in DOMAIN told
               PROVE  Cardinality({i \in TxOf(n) : txs[i].result = "ok"}) <= 1
    BY DEF OneTradePerIntent
  <2> DEFINE S == {i \in TxOf(n) : txs[i].result = "ok"}
  <2>1. \A i, j \in S : i = j
    BY DEF TradeInv, OneAlive, MayTrade, TxOf
  <2>2. S = {} \/ \E i : S = {i}
    BY <2>1
  <2> HIDE DEF S
  <2>3. Cardinality(S) <= 1
    <3>1. CASE S = {}
      BY <3>1, FS_EmptySet
    <3>2. CASE \E i : S = {i}
      BY <3>2, FS_Singleton
    <3> QED
      BY <2>2, <3>1, <3>2
  <2> QED
    BY <2>3 DEF S
<1>4. TradeTypeOK
  BY <1>1, <1>2 DEF TradeTypeOK, TradeInv, TradeTypes, TradeClient
<1>5. CoveredNeverTraps /\ PaysInclusionOnce
  BY DEF TradeInv, WellBuilt, CoveredNeverTraps, PaysInclusionOnce
<1> QED
  BY <1>3, <1>4, <1>5 DEF TradeHonest, TradeInv

(* For every number of intents, transactions and moves of the others: a      *)
(* click trades once at most however often its client rebuilds, what the     *)
(* user is told of it is so, a trade that names its asset never traps for    *)
(* a missing key, and the base fee is offered once (runTradeTx and           *)
(* buildTransaction of the web app, executeTrade of the SDK).                *)
THEOREM TradeIsHonest == TradeSpec => []TradeHonest
<1>1. TradeInit => TradeInv
  BY TradeTxConstants, TradeInvInit
<1>2. TradeInv /\ [TradeNext]_tradeVars => TradeInv'
  BY TradeTxConstants, TradeInvNext
<1>3. TradeInv => TradeHonest
  BY TradeInvHonest
<1> QED
  BY <1>1, <1>2, <1>3, PTL DEF TradeSpec

----------------------------------------------------------------------------
(***************************************************************************)
(* The trade page.  Reads of the chain see what is over as over, one       *)
(* refresh at most is current, and an age bounds how long anything has     *)
(* been open unindexed wherever an empty answer may be believed.           *)
(***************************************************************************)
Statuses == {"none", "open", "closed", "liquidated", "over"}
RowSets == UNION {[S -> Statuses] : S \in SUBSET Rows}
FetchState ==
  [pc : {"idle", "hints", "ask", "scan", "trust", "list", "hydrate", "apply", "fail", "liqs"}, current : BOOLEAN,
   wallet : Traders \cup {Nobody}, ids : SUBSET Rows, rows : RowSets, hides : SUBSET Rows]
TrustState == [age : 0..TrustTtl, value : BOOLEAN, known : BOOLEAN]

PageShape ==
    /\ view \in {"positions", "orders"} /\ ours \in BOOLEAN /\ cursorAge \in 0..(MaxLag + 1)
    /\ chain \in [Rows -> [st : Statuses, age : Nat]]
    /\ trust \in TrustState /\ publicKey \in Traders \cup {Nobody}
    /\ fetch \in [Refreshes -> FetchState]
    /\ displayed \subseteq Rows /\ expectedClose \subseteq Rows /\ prev \in RowSets

OneCurrent == \A f, g \in Refreshes : fetch[f].current /\ fetch[g].current => f = g

\* What the page was told is over is over, and the refresh that is current has not read it as open
Ended(r) == chain[r].st \notin {"none", "open"}
OverStays ==
    /\ \A r \in seenOver : r \in Rows /\ Ended(r)
    /\ \A f \in Refreshes : fetch[f].current => \A r \in DOMAIN fetch[f].rows \cap seenOver : fetch[f].rows[r] # "open"

\* A cursor that moved lately, a verdict that still counts and an order refresh that trusted one each bound
\* how long anything has been open unindexed
NoOlder(n) == \A r \in Live : chain[r].age <= n
AgesKnown ==
    /\ ours /\ cursorAge <= MaxLag => NoOlder(cursorAge)
    /\ trust.known /\ trust.value /\ trust.age < TrustTtl => NoOlder(MaxLag + trust.age)
    /\ \A f \in Refreshes : fetch[f].pc = "list" => NoOlder(Tolerated)

ToastsOK == LiquidationToastRight /\ ToldOnce /\ \A k \in DOMAIN toasts : k \in inbox /\ k[1] \in Rows

TradePageInv == PageShape /\ OneCurrent /\ OverStays /\ NeverResurrected /\ AgesKnown /\ BelievedEmptyIsRecent /\ ToastsOK

\* The assumptions on the constants, one by one
LEMMA PageConsts == MaxLag \in Nat \ {0} /\ TrustTtl \in Nat \ {0} /\ OwnerOf \in [Rows -> Traders]
<1>1. \A x \in {TrustTtl, MaxLag} : x \in Nat \ {0}
  BY TradePageConstants
<1> QED
  BY <1>1, TradePageConstants

\* What is read of the chain is a set of rows with the status they have
LEMMA RowsRead ==
    ASSUME PageShape, NEW ids \in SUBSET Rows, NEW rows, rows = Read(ids) \/ rows \in Hydrated(ids)
    PROVE  rows \in RowSets /\ DOMAIN rows \subseteq ids /\ \A r \in DOMAIN rows : rows[r] = chain[r].st
<1>1. PICK got \in SUBSET ids : rows = [r \in got |-> chain[r].st]
  <2>1. CASE rows = Read(ids)
    BY <2>1 DEF Read
  <2>2. CASE rows \in Hydrated(ids)
    <3>1. PICK got \in SUBSET ids : rows = [x \in got |-> Read(ids)[x]]
      BY <2>2 DEF Hydrated, Restrict
    <3>2. \A x \in got : Read(ids)[x] = chain[x].st
      BY DEF Read
    <3>3. rows = [r \in got |-> chain[r].st]
      BY <3>1, <3>2
    <3> QED
      BY <3>3
  <2> QED
    BY <2>1, <2>2
<1>2. \A r \in got : chain[r].st \in Statuses
  BY DEF PageShape
<1>3. rows \in [got -> Statuses]
  BY <1>1, <1>2
<1>4. got \in SUBSET Rows
  OBVIOUS
<1>5. rows \in RowSets
  BY <1>3, <1>4 DEF RowSets
<1> QED
  BY <1>1, <1>5

\* The rows of a refresh are rows
LEMMA RowSetDomain ==
    ASSUME NEW rows \in RowSets
    PROVE  DOMAIN rows \subseteq Rows
BY DEF RowSets

\* Before the first refresh nothing is known
LEMMA UnknownRows == Unknown \in RowSets /\ DOMAIN Unknown = {}
<1>1. Unknown = [r \in {} |-> "open"] /\ {} \in SUBSET Rows
  BY DEF Unknown
<1>2. Unknown \in [{} -> Statuses]
  BY <1>1
<1>3. Unknown \in RowSets
  BY <1>1, <1>2 DEF RowSets
<1> QED
  BY <1>1, <1>3

\* A refresh that does not run has read and believed nothing
LEMMA NoFetchTyped ==
    NoFetch \in FetchState /\ NoFetch.pc = "idle" /\ NoFetch.current = FALSE /\ NoFetch.rows = Unknown /\ NoFetch.hides = {}
BY UnknownRows DEF NoFetch, FetchState

\* A verdict that counts: the gateway was healthy at most its age ago
LEMMA VerdictBounds ==
    ASSUME PageShape, AgesKnown, NEW reachable \in BOOLEAN
    PROVE  /\ Verdict(reachable) \in TrustState
           /\ Verdict(reachable).known /\ Verdict(reachable).value /\ Verdict(reachable).age < TrustTtl
                 => NoOlder(MaxLag + Verdict(reachable).age)
           /\ Verdict(reachable).value => NoOlder(Tolerated)
<1>1. MaxLag \in Nat /\ TrustTtl \in Nat /\ cursorAge \in Nat /\ \A r \in Live : chain[r].age \in Nat
  BY PageConsts DEF PageShape, Live
<1>2. CASE Fresh
  <2>1. Verdict(reachable) = trust /\ trust.known /\ trust.age < TrustTtl /\ trust.age \in Nat /\ trust \in TrustState
    BY <1>2 DEF Verdict, Fresh, PageShape, TrustState
  <2>2. trust.value => NoOlder(MaxLag + trust.age)
    BY <2>1 DEF AgesKnown
  <2>3. NoOlder(MaxLag + trust.age) => NoOlder(Tolerated)
    BY <1>1, <2>1 DEF NoOlder, Tolerated
  <2> QED
    BY <2>1, <2>2, <2>3
<1>3. CASE ~Fresh
  <2> DEFINE v == reachable /\ HealthSays
  <2>1. Verdict(reachable) = [age |-> 0, value |-> v, known |-> TRUE]
    BY <1>3 DEF Verdict
  <2>2. v \in BOOLEAN
    BY DEF HealthSays
  <2>3. v => NoOlder(cursorAge) /\ cursorAge <= MaxLag
    BY DEF AgesKnown, HealthSays
  <2> HIDE DEF v
  <2>4. Verdict(reachable) \in TrustState /\ Verdict(reachable).age = 0 /\ Verdict(reachable).value = v
    BY <1>1, <2>1, <2>2 DEF TrustState
  <2>5. v => NoOlder(MaxLag) /\ NoOlder(Tolerated)
    BY <1>1, <2>3 DEF NoOlder, Tolerated
  <2>6. MaxLag + 0 = MaxLag
    BY <1>1
  <2> QED
    BY <2>4, <2>5, <2>6
<1> QED
  BY <1>2, <1>3

\* What was announced of a row that is over stays true of it
LEMMA ToastsRest ==
    ASSUME ToastsOK, UNCHANGED <<view, inbox, toasts>>, \A r \in Rows : Ended(r) => chain'[r].st = chain[r].st
    PROVE  ToastsOK'
BY DEF ToastsOK, LiquidationToastRight, ToldOnce, Ended

\* One refresh moves on, with what the chain has and nothing believed that is old
LEMMA FetchMoves ==
    ASSUME TradePageInv, NEW f \in Refreshes, NEW g \in FetchState, fetch' = [fetch EXCEPT ![f] = g],
           UNCHANGED <<view, chainVars, publicKey, displayed, prev, expectedClose, seenOver>>, ToastsOK',
           g.current => fetch[f].current /\ \A r \in DOMAIN g.rows \cap seenOver : g.rows[r] # "open",
           g.pc = "list" => NoOlder(Tolerated), g.hides = {},
           trust' \in TrustState, trust'.known /\ trust'.value /\ trust'.age < TrustTtl => NoOlder(MaxLag + trust'.age)
    PROVE  TradePageInv'
<1>1. UNCHANGED <<view, chain, indexed, cursorAge, ours, publicKey, displayed, prev, expectedClose, seenOver>>
  BY DEF chainVars
<1>2. PageShape /\ fetch \in [Refreshes -> FetchState]
  BY DEF TradePageInv, PageShape
<1>3. \A h \in Refreshes : fetch'[h] = IF h = f THEN g ELSE fetch[h]
  BY <1>2
<1>4. PageShape'
  <2>1. fetch' \in [Refreshes -> FetchState]
    BY <1>2
  <2> QED
    BY <1>1, <1>2, <2>1 DEF PageShape
<1>5. OneCurrent'
  BY <1>3 DEF TradePageInv, OneCurrent
<1>6. OverStays'
  <2>1. \A h \in Refreshes : fetch'[h].current => \A r \in DOMAIN fetch'[h].rows \cap seenOver : fetch'[h].rows[r] # "open"
    BY <1>3 DEF TradePageInv, OverStays
  <2> QED
    BY <1>1, <2>1 DEF TradePageInv, OverStays, Ended
<1>7. AgesKnown'
  <2>1. \A n : NoOlder(n)' <=> NoOlder(n)
    BY <1>1 DEF NoOlder, Live
  <2>2. Tolerated' = Tolerated /\ NoOlder(Tolerated)' = NoOlder(Tolerated) /\ NoOlder(cursorAge)' = NoOlder(cursorAge)
        /\ NoOlder(MaxLag + trust.age)' = NoOlder(MaxLag + trust'.age)
    BY <1>1 DEF Tolerated, NoOlder, Live
  <2>3. \A h \in Refreshes : fetch'[h].pc = "list" => NoOlder(Tolerated)
    BY <1>3 DEF TradePageInv, AgesKnown
  <2> QED
    BY <1>1, <2>2, <2>3 DEF TradePageInv, AgesKnown
<1>8. BelievedEmptyIsRecent'
  BY <1>3 DEF TradePageInv, BelievedEmptyIsRecent
<1>9. NeverResurrected'
  BY <1>1 DEF TradePageInv, NeverResurrected
<1> QED
  BY <1>4, <1>5, <1>6, <1>7, <1>8, <1>9 DEF TradePageInv

\* A refresh that starts is the current one and has read nothing
LEMMA RefreshStarts ==
    ASSUME TradePageInv, NEW f \in Refreshes, FetchPositions(f) \/ FetchOrders(f), UNCHANGED view
    PROVE  TradePageInv'
<1>1. PICK pc \in {"hints", "ask"} : Start(f, pc)
  BY DEF FetchPositions, FetchOrders
<1>2. UNCHANGED <<view, chain, indexed, cursorAge, ours, trust, publicKey, displayed, prev, expectedClose, inbox, toasts, seenOver>>
  BY DEF FetchPositions, FetchOrders, chainVars, screenVars
<1>3. PageShape /\ fetch \in [Refreshes -> FetchState] /\ publicKey \in Traders \cup {Nobody}
  BY DEF TradePageInv, PageShape
<1> DEFINE new == [NoFetch EXCEPT !.pc = pc, !.current = TRUE, !.wallet = publicKey]
<1>4. new \in FetchState /\ new.pc = pc /\ new.current = TRUE /\ new.rows = Unknown /\ new.hides = {}
  BY <1>3, NoFetchTyped DEF FetchState
<1>5. fetch' = [h \in Refreshes |-> IF h = f THEN new ELSE [fetch[h] EXCEPT !.current = FALSE]]
  BY <1>1 DEF Start
<1> HIDE DEF new
<1>6. \A h \in Refreshes \ {f} : /\ fetch'[h] \in FetchState /\ fetch'[h].current = FALSE /\ fetch'[h].pc = fetch[h].pc
                                 /\ fetch'[h].hides = fetch[h].hides
  BY <1>3, <1>5 DEF FetchState
<1>7. fetch'[f] = new
  BY <1>5
<1>8. PageShape'
  <2>1. \A h \in Refreshes : fetch'[h] \in FetchState
    BY <1>4, <1>6, <1>7
  <2>2. fetch' \in [Refreshes -> FetchState]
    BY <1>5, <2>1
  <2> QED
    BY <1>2, <1>3, <2>2 DEF PageShape
<1>9. OneCurrent'
  BY <1>6 DEF OneCurrent
<1>10. OverStays'
  <2>1. DOMAIN fetch'[f].rows = {}
    BY <1>4, <1>7, UnknownRows
  <2>2. \A h \in Refreshes : fetch'[h].current => h = f
    BY <1>6
  <2>3. \A h \in Refreshes : fetch'[h].current => \A r \in DOMAIN fetch'[h].rows \cap seenOver : fetch'[h].rows[r] # "open"
    BY <2>1, <2>2
  <2> QED
    BY <1>2, <2>3 DEF TradePageInv, OverStays, Ended
<1>11. AgesKnown'
  <2>1. NoOlder(Tolerated)' = NoOlder(Tolerated) /\ NoOlder(cursorAge)' = NoOlder(cursorAge)
        /\ NoOlder(MaxLag + trust.age)' = NoOlder(MaxLag + trust.age)
    BY <1>2 DEF Tolerated, NoOlder, Live
  <2>2. \A h \in Refreshes : fetch'[h].pc = "list" => NoOlder(Tolerated)
    BY <1>4, <1>6, <1>7 DEF TradePageInv, AgesKnown
  <2> QED
    BY <1>2, <2>1, <2>2 DEF TradePageInv, AgesKnown
<1>12. BelievedEmptyIsRecent'
  BY <1>4, <1>6, <1>7 DEF TradePageInv, BelievedEmptyIsRecent
<1>13. NeverResurrected' /\ ToastsOK'
  BY <1>2, ToastsRest DEF TradePageInv, NeverResurrected
<1> QED
  BY <1>8, <1>9, <1>10, <1>11, <1>12, <1>13 DEF TradePageInv

\* A refresh that only changes its step, or is over
LEMMA RefreshSteps ==
    ASSUME TradePageInv, NEW f \in Refreshes, UNCHANGED <<view, chainVars, publicKey, displayed, prev, expectedClose, seenOver>>, ToastsOK',
           trust' \in TrustState, trust'.known /\ trust'.value /\ trust'.age < TrustTtl => NoOlder(MaxLag + trust'.age),
           Done(f) \/ \E pc \in {"scan", "trust", "list", "fail"} : To(f, pc) /\ (pc = "list" => NoOlder(Tolerated))
    PROVE  TradePageInv'
<1>1. fetch \in [Refreshes -> FetchState] /\ fetch[f].hides = {}
  BY DEF TradePageInv, PageShape, BelievedEmptyIsRecent
<1>2. CASE Done(f)
  BY <1>2, NoFetchTyped, FetchMoves DEF Done
<1>3. ASSUME NEW pc \in {"scan", "trust", "list", "fail"}, To(f, pc), pc = "list" => NoOlder(Tolerated) PROVE TradePageInv'
  <2> DEFINE g == [fetch[f] EXCEPT !.pc = pc]
  <2>1. fetch' = [fetch EXCEPT ![f] = g]
    BY <1>3 DEF To
  <2>2. g \in FetchState /\ g.pc = pc /\ g.current = fetch[f].current /\ g.rows = fetch[f].rows /\ g.hides = {}
    BY <1>1 DEF FetchState
  <2> HIDE DEF g
  <2>3. g.current => fetch[f].current /\ \A r \in DOMAIN g.rows \cap seenOver : g.rows[r] # "open"
    BY <2>2 DEF TradePageInv, OverStays
  <2> QED
    BY <1>3, <2>1, <2>2, <2>3, FetchMoves
<1> QED
  BY <1>2, <1>3

\* A refresh has read its rows from the chain
LEMMA RefreshGot ==
    ASSUME TradePageInv, NEW f \in Refreshes, UNCHANGED <<view, chainVars, trust, publicKey, displayed, prev, expectedClose, seenOver>>, ToastsOK',
           NEW ids \in SUBSET Rows, NEW rows, rows = Read(ids) \/ rows \in Hydrated(ids), Got(f, rows)
    PROVE  TradePageInv'
<1>1. fetch \in [Refreshes -> FetchState] /\ fetch[f].hides = {} /\ PageShape /\ trust \in TrustState
  BY DEF TradePageInv, PageShape, BelievedEmptyIsRecent
<1>2. rows \in RowSets /\ DOMAIN rows \subseteq ids /\ \A r \in DOMAIN rows : rows[r] = chain[r].st
  BY <1>1, RowsRead
<1> DEFINE g == [fetch[f] EXCEPT !.pc = "apply", !.rows = rows]
<1>3. fetch' = [fetch EXCEPT ![f] = g]
  BY <1>1 DEF Got
<1>4. g \in FetchState /\ g.pc = "apply" /\ g.current = fetch[f].current /\ g.rows = rows /\ g.hides = {}
  BY <1>1, <1>2 DEF FetchState
<1> HIDE DEF g
<1>5. \A r \in DOMAIN g.rows \cap seenOver : g.rows[r] # "open"
  BY <1>2, <1>4 DEF TradePageInv, OverStays, Ended
<1>6. trust'.known /\ trust'.value /\ trust'.age < TrustTtl => NoOlder(MaxLag + trust'.age)
  BY DEF TradePageInv, AgesKnown
<1> QED
  BY <1>1, <1>3, <1>4, <1>5, <1>6, FetchMoves

\* An empty answer is believed: nothing has been open unindexed for longer than the page tolerates
LEMMA RefreshBelieved ==
    ASSUME TradePageInv, NEW f \in Refreshes, UNCHANGED <<view, chainVars, publicKey, displayed, prev, expectedClose, seenOver>>, ToastsOK', Believed(f), NoOlder(Tolerated),
           trust' \in TrustState, trust'.known /\ trust'.value /\ trust'.age < TrustTtl => NoOlder(MaxLag + trust'.age)
    PROVE  TradePageInv'
<1>1. fetch \in [Refreshes -> FetchState] /\ PageShape
  BY DEF TradePageInv, PageShape
<1>2. OldHidden(f) = {}
  <2>1. \A r \in Live : chain[r].age \in Nat /\ chain[r].age <= Tolerated
    BY <1>1 DEF NoOlder, PageShape, Live
  <2>2. Tolerated \in Nat
    BY PageConsts DEF Tolerated
  <2> QED
    BY <2>1, <2>2 DEF OldHidden
<1> DEFINE g == [fetch[f] EXCEPT !.pc = "apply", !.hides = {}]
<1>3. fetch' = [fetch EXCEPT ![f] = g]
  BY <1>1, <1>2 DEF Believed
<1>4. g \in FetchState /\ g.pc = "apply" /\ g.current = fetch[f].current /\ g.rows = fetch[f].rows /\ g.hides = {}
  BY <1>1 DEF FetchState
<1> HIDE DEF g
<1>5. g.current => fetch[f].current /\ \A r \in DOMAIN g.rows \cap seenOver : g.rows[r] # "open"
  BY <1>4 DEF TradePageInv, OverStays
<1> QED
  BY <1>3, <1>4, <1>5, FetchMoves

\* What is announced is announced once
LEMMA ToastOnce ==
    ASSUME ToastsOK, NEW keys, Toast(keys)
    PROVE  ToldOnce' /\ (\A k \in DOMAIN toasts' : k \in inbox') /\ DOMAIN toasts' \subseteq DOMAIN toasts \cup keys
<1>1. /\ inbox' = inbox \cup keys /\ Push(keys) = keys \ inbox
      /\ toasts' = [k \in DOMAIN toasts \cup Push(keys) |->
                      (IF k \in DOMAIN toasts THEN toasts[k] ELSE 0) + (IF k \in Push(keys) THEN 1 ELSE 0)]
  BY DEF Toast, Push
<1>2. \A k \in DOMAIN toasts : toasts[k] = 1 /\ k \in inbox
  BY DEF ToastsOK, ToldOnce
<1>3. DOMAIN toasts' = DOMAIN toasts \cup (keys \ inbox)
  BY <1>1
<1>4. ASSUME NEW k \in DOMAIN toasts' PROVE toasts'[k] = 1
  <2>1. toasts'[k] = (IF k \in DOMAIN toasts THEN toasts[k] ELSE 0) + (IF k \in keys \ inbox THEN 1 ELSE 0)
    BY <1>1, <1>3
  <2>2. CASE k \in DOMAIN toasts
    BY <1>2, <2>1, <2>2
  <2>3. CASE k \notin DOMAIN toasts
    BY <1>3, <2>1, <2>3
  <2> QED
    BY <2>2, <2>3
<1> QED
  BY <1>1, <1>2, <1>3, <1>4 DEF ToldOnce

\* The reads of a refresh, of what the index lists, of the chain, and of the gateway's health
LEMMA RefreshReads ==
    ASSUME TradePageInv, NEW f \in Refreshes, UNCHANGED view,
           \/ ListOpenPositions(f) \/ TrustEmpty(f) \/ HydratePositions(f) \/ GetPositions(f)
           \/ AskTrust(f) \/ ListOrderHints(f) \/ GetOrders(f) \/ Discard(f) \/ FetchFailed(f)
    PROVE  TradePageInv'
<1>1. UNCHANGED <<view, chainVars, publicKey, displayed, prev, expectedClose, inbox, toasts, seenOver>>
  BY DEF ListOpenPositions, TrustEmpty, HydratePositions, GetPositions, AskTrust, ListOrderHints, GetOrders, Discard, FetchFailed,
         refreshVars, screenVars
<1>2. PageShape /\ AgesKnown /\ fetch \in [Refreshes -> FetchState] /\ trust \in TrustState /\ fetch[f].hides = {}
  BY DEF TradePageInv, PageShape, BelievedEmptyIsRecent
<1>3. ToastsOK'
  BY <1>1, ToastsRest DEF TradePageInv, chainVars
<1>4. trust' = trust => trust' \in TrustState /\ (trust'.known /\ trust'.value /\ trust'.age < TrustTtl => NoOlder(MaxLag + trust'.age))
  BY <1>2 DEF AgesKnown
<1>5. Live \subseteq Rows /\ \A w : Mine(w) \subseteq Rows
  BY DEF Live, Mine
<1>6. CASE ListOpenPositions(f)
  <2> DEFINE hints == {r \in Mine(fetch[f].wallet) : indexed[r] = "open"}
             g == [fetch[f] EXCEPT !.pc = "hydrate", !.ids = hints]
  <2>1. trust' = trust /\ (To(f, "scan") \/ To(f, "trust") \/ fetch' = [fetch EXCEPT ![f].pc = "hydrate", ![f].ids = hints])
    BY <1>6 DEF ListOpenPositions
  <2>2. CASE To(f, "scan") \/ To(f, "trust")
    BY <1>1, <1>3, <1>4, <2>1, <2>2, RefreshSteps
  <2>3. CASE fetch' = [fetch EXCEPT ![f].pc = "hydrate", ![f].ids = hints]
    <3>1. fetch' = [fetch EXCEPT ![f] = g]
      BY <1>2, <2>3
    <3>2. hints \in SUBSET Rows
      BY <1>5
    <3> HIDE DEF hints
    <3>3. g \in FetchState /\ g.pc = "hydrate" /\ g.current = fetch[f].current /\ g.rows = fetch[f].rows /\ g.hides = {}
      BY <1>2, <3>2 DEF FetchState
    <3> HIDE DEF g
    <3>4. g.current => fetch[f].current /\ \A r \in DOMAIN g.rows \cap seenOver : g.rows[r] # "open"
      BY <3>3 DEF TradePageInv, OverStays
    <3> QED
      BY <1>1, <1>3, <1>4, <2>1, <3>1, <3>3, <3>4, FetchMoves
  <2> QED
    BY <2>1, <2>2, <2>3
<1>7. CASE TrustEmpty(f)
  <2>1. PICK reachable \in BOOLEAN : trust' = Verdict(reachable) /\ IF trust'.value THEN Believed(f) ELSE To(f, "scan")
    BY <1>7 DEF TrustEmpty
  <2>2. /\ trust' \in TrustState /\ (trust'.known /\ trust'.value /\ trust'.age < TrustTtl => NoOlder(MaxLag + trust'.age))
        /\ trust'.value => NoOlder(Tolerated)
    BY <1>2, <2>1, VerdictBounds
  <2>3. CASE trust'.value
    BY <1>1, <1>3, <2>1, <2>2, <2>3, RefreshBelieved
  <2>4. CASE ~trust'.value
    BY <1>1, <1>3, <2>1, <2>2, <2>4, RefreshSteps
  <2> QED
    BY <2>3, <2>4
<1>8. CASE HydratePositions(f)
  <2>1. trust' = trust /\ \E rows \in Hydrated(fetch[f].ids \cap Live) : To(f, "scan") \/ Got(f, rows)
    BY <1>8 DEF HydratePositions
  <2>2. fetch[f].ids \cap Live \in SUBSET Rows
    BY <1>5
  <2> QED
    BY <1>1, <1>3, <1>4, <2>1, <2>2, RefreshSteps, RefreshGot
<1>9. CASE GetPositions(f)
  <2>1. trust' = trust /\ (To(f, "fail") \/ \E rows \in Hydrated(Mine(fetch[f].wallet) \cap Live) : Got(f, rows))
    BY <1>9 DEF GetPositions
  <2>2. Mine(fetch[f].wallet) \cap Live \in SUBSET Rows
    BY <1>5
  <2> QED
    BY <1>1, <1>3, <1>4, <2>1, <2>2, RefreshSteps, RefreshGot
<1>10. CASE AskTrust(f)
  <2>1. PICK reachable \in BOOLEAN : trust' = Verdict(reachable) /\ To(f, IF trust'.value THEN "list" ELSE "scan")
    BY <1>10 DEF AskTrust
  <2>2. /\ trust' \in TrustState /\ (trust'.known /\ trust'.value /\ trust'.age < TrustTtl => NoOlder(MaxLag + trust'.age))
        /\ trust'.value => NoOlder(Tolerated)
    BY <1>2, <2>1, VerdictBounds
  <2>3. CASE trust'.value
    BY <1>1, <1>3, <2>1, <2>2, <2>3, RefreshSteps
  <2>4. CASE ~trust'.value
    BY <1>1, <1>3, <2>1, <2>2, <2>4, RefreshSteps
  <2> QED
    BY <2>3, <2>4
<1>11. CASE ListOrderHints(f)
  <2> DEFINE hints == {r \in Mine(fetch[f].wallet) : indexed[r] # "none"}
  <2>1. /\ trust' = trust /\ fetch[f].pc = "list"
        /\ To(f, "scan") \/ Believed(f) \/ \E rows \in Hydrated(hints) : To(f, "scan") \/ Got(f, rows)
    BY <1>11 DEF ListOrderHints
  <2>2. NoOlder(Tolerated)
    BY <1>2, <2>1 DEF AgesKnown
  <2>3. hints \in SUBSET Rows
    BY <1>5
  <2> HIDE DEF hints
  <2>4. CASE To(f, "scan")
    BY <1>1, <1>3, <1>4, <2>1, <2>4, RefreshSteps
  <2>5. CASE Believed(f)
    BY <1>1, <1>3, <1>4, <2>1, <2>2, <2>5, RefreshBelieved
  <2>6. ASSUME NEW rows \in Hydrated(hints), Got(f, rows) PROVE TradePageInv'
    BY <1>1, <1>3, <2>1, <2>3, <2>6, RefreshGot
  <2> QED
    BY <2>1, <2>4, <2>5, <2>6
<1>12. CASE GetOrders(f)
  <2> DEFINE known == {r \in Mine(fetch[f].wallet) : chain[r].st # "none"}
             pending == Mine(fetch[f].wallet) \cap Live
  <2>1. trust' = trust /\ (To(f, "fail") \/ Got(f, Read(pending)) \/ \E rows \in Hydrated(known) : Got(f, rows))
    BY <1>12 DEF GetOrders
  <2>2. known \in SUBSET Rows /\ pending \in SUBSET Rows
    BY <1>5
  <2> HIDE DEF known, pending
  <2>3. CASE To(f, "fail")
    BY <1>1, <1>3, <1>4, <2>1, <2>3, RefreshSteps
  <2>4. CASE Got(f, Read(pending))
    BY <1>1, <1>3, <2>1, <2>2, <2>4, RefreshGot
  <2>5. ASSUME NEW rows \in Hydrated(known), Got(f, rows) PROVE TradePageInv'
    BY <1>1, <1>3, <2>1, <2>2, <2>5, RefreshGot
  <2> QED
    BY <2>1, <2>3, <2>4, <2>5
<1>13. CASE Discard(f) \/ FetchFailed(f)
  <2>1. trust' = trust /\ Done(f)
    BY <1>13 DEF Discard, FetchFailed
  <2> QED
    BY <1>1, <1>3, <1>4, <2>1, RefreshSteps
<1> QED
  BY <1>6, <1>7, <1>8, <1>9, <1>10, <1>11, <1>12, <1>13

\* The answer to a liquidation query is announced of rows that were liquidated
LEMMA LiquidationsTold ==
    ASSUME TradePageInv, NEW f \in Refreshes, UNCHANGED view, GetRecentLiquidations(f)
    PROVE  TradePageInv'
<1>1. /\ Done(f) /\ UNCHANGED <<view, chainVars, publicKey, trust, displayed, prev, expectedClose, seenOver>>
      /\ Toast({<<r, "liquidated">> : r \in Liquidations(f)}) \/ UNCHANGED <<inbox, toasts>>
  BY DEF GetRecentLiquidations, refreshVars
<1>2. fetch[f] \in FetchState /\ trust \in TrustState /\ AgesKnown /\ chain' = chain
  BY <1>1 DEF TradePageInv, PageShape, chainVars
<1>3. ToastsOK'
  <2>1. CASE UNCHANGED <<inbox, toasts>>
    BY <1>1, <1>2, <2>1, ToastsRest DEF TradePageInv
  <2>2. CASE Toast({<<r, "liquidated">> : r \in Liquidations(f)})
    <3> DEFINE keys == {<<r, "liquidated">> : r \in Liquidations(f)}
    <3>1. \A k \in keys : k[1] \in Rows /\ chain[k[1]].st = "liquidated"
      BY <1>2 DEF Liquidations, FetchState
    <3>2. ToldOnce' /\ (\A k \in DOMAIN toasts' : k \in inbox') /\ DOMAIN toasts' \subseteq DOMAIN toasts \cup keys
      BY <2>2, ToastOnce DEF TradePageInv
    <3> HIDE DEF keys
    <3> QED
      BY <1>1, <1>2, <3>1, <3>2 DEF TradePageInv, ToastsOK, LiquidationToastRight
  <2> QED
    BY <1>1, <2>1, <2>2
<1>4. trust' \in TrustState /\ (trust'.known /\ trust'.value /\ trust'.age < TrustTtl => NoOlder(MaxLag + trust'.age))
  BY <1>1, <1>2 DEF AgesKnown
<1> QED
  BY <1>1, <1>3, <1>4, RefreshSteps

\* The current refresh is applied: what it shows as open was not over when an earlier one was
LEMMA RefreshApplied ==
    ASSUME TradePageInv, NEW f \in Refreshes, NEW g \in FetchState, fetch[f].pc = "apply", ~IsStale(f), fetch' = [fetch EXCEPT ![f] = g],
           g.current = FALSE, g.pc # "list", g.hides = {}, UNCHANGED <<view, chainVars, trust, publicKey>>,
           displayed' = DOMAIN fetch[f].rows, prev' = fetch[f].rows, seenOver' = seenOver \cup NowOver(f), expectedClose' \subseteq Rows, ToastsOK'
    PROVE  TradePageInv'
<1>1. UNCHANGED <<view, chain, indexed, cursorAge, ours, trust, publicKey>> /\ fetch[f].current
  BY DEF chainVars, IsStale
<1>2. PageShape /\ fetch \in [Refreshes -> FetchState] /\ fetch[f].rows \in RowSets
  BY DEF TradePageInv, PageShape, FetchState
<1>3. \A h \in Refreshes : fetch'[h] = IF h = f THEN g ELSE fetch[h]
  BY <1>2
<1>4. \A h \in Refreshes : ~fetch'[h].current
  BY <1>1, <1>3 DEF TradePageInv, OneCurrent
<1>5. PageShape'
  <2>1. fetch' \in [Refreshes -> FetchState]
    BY <1>2
  <2>2. displayed' \subseteq Rows
    BY <1>2, RowSetDomain
  <2> QED
    BY <1>1, <1>2, <2>1, <2>2 DEF PageShape
<1>6. OneCurrent'
  BY <1>4 DEF OneCurrent
<1>7. OverStays'
  <2>1. \A r \in seenOver' : r \in Rows /\ Ended(r)
    BY DEF TradePageInv, OverStays, NowOver, Mine, Ended
  <2> QED
    BY <1>1, <1>4, <2>1 DEF OverStays, Ended
<1>8. NeverResurrected'
  <2>1. ASSUME NEW r \in seenOver', r \in DOMAIN fetch[f].rows PROVE fetch[f].rows[r] # "open"
    <3>1. CASE r \in seenOver
      BY <1>1, <2>1, <3>1 DEF TradePageInv, OverStays
    <3>2. CASE r \in NowOver(f)
      BY <2>1, <3>2 DEF NowOver
    <3> QED
      BY <3>1, <3>2
  <2> QED
    BY <2>1 DEF NeverResurrected
<1>9. AgesKnown'
  <2>1. NoOlder(Tolerated)' = NoOlder(Tolerated) /\ NoOlder(cursorAge)' = NoOlder(cursorAge)
        /\ NoOlder(MaxLag + trust.age)' = NoOlder(MaxLag + trust.age)
    BY <1>1 DEF Tolerated, NoOlder, Live
  <2>2. \A h \in Refreshes : fetch'[h].pc = "list" => NoOlder(Tolerated)
    BY <1>3 DEF TradePageInv, AgesKnown
  <2> QED
    BY <1>1, <2>1, <2>2 DEF TradePageInv, AgesKnown
<1>10. BelievedEmptyIsRecent'
  BY <1>3 DEF TradePageInv, BelievedEmptyIsRecent
<1> QED
  BY <1>5, <1>6, <1>7, <1>8, <1>9, <1>10 DEF TradePageInv

\* Positions: what vanished unexpectedly is asked about
LEMMA PositionsApplied ==
    ASSUME TradePageInv, NEW f \in Refreshes, UNCHANGED view, ApplyPositions(f)
    PROVE  TradePageInv'
<1> DEFINE rows == DOMAIN fetch[f].rows
           queries == [NoFetch EXCEPT !.pc = "liqs", !.wallet = fetch[f].wallet, !.ids = Vanished(rows)]
           g == IF Vanished(rows) = {} THEN NoFetch ELSE queries
<1>1. /\ fetch[f].pc = "apply" /\ ~IsStale(f) /\ fetch' = [fetch EXCEPT ![f] = g]
      /\ displayed' = rows /\ prev' = fetch[f].rows /\ seenOver' = seenOver \cup NowOver(f)
      /\ expectedClose' = expectedClose \cap rows /\ UNCHANGED <<chainVars, publicKey, trust, inbox, toasts>>
  BY DEF ApplyPositions, refreshVars
<1>2. fetch[f] \in FetchState /\ prev \in RowSets /\ expectedClose \subseteq Rows
  BY DEF TradePageInv, PageShape
<1>3. Vanished(rows) \in SUBSET Rows /\ fetch[f].wallet \in Traders \cup {Nobody}
  BY <1>2, RowSetDomain DEF Vanished, FetchState
<1>4. queries \in FetchState /\ queries.pc = "liqs" /\ queries.current = FALSE /\ queries.hides = {}
  BY <1>3, NoFetchTyped DEF FetchState
<1>5. g \in FetchState /\ g.pc # "list" /\ g.current = FALSE /\ g.hides = {}
  <2> HIDE DEF queries
  <2> QED
    BY <1>4, NoFetchTyped
<1>6. ToastsOK'
  BY <1>1, ToastsRest DEF TradePageInv, chainVars
<1>7. expectedClose' \subseteq Rows
  BY <1>1, <1>2
<1> HIDE DEF g
<1> QED
  BY <1>1, <1>5, <1>6, <1>7, RefreshApplied

\* Orders: what is pending no more is announced
LEMMA OrdersApplied ==
    ASSUME TradePageInv, NEW f \in Refreshes, UNCHANGED view, ApplyOrders(f)
    PROVE  TradePageInv'
<1> DEFINE rows == fetch[f].rows
           pending == {r \in DOMAIN prev : prev[r] = "open"}
           changed == {<<r, rows[r]>> : r \in {q \in pending \cap DOMAIN rows : rows[q] # "open"}}
           missing == pending \ DOMAIN rows
<1>1. /\ fetch[f].pc = "apply" /\ view = "orders" /\ ~IsStale(f) /\ fetch' = [fetch EXCEPT ![f] = NoFetch]
      /\ displayed' = DOMAIN rows /\ prev' = rows /\ seenOver' = seenOver \cup NowOver(f)
      /\ UNCHANGED <<chainVars, publicKey, trust, expectedClose>>
  BY DEF ApplyOrders, refreshVars, Done
<1>2. PICK first \in IF missing = {} THEN {{}} ELSE {{<<r, "gone">>} : r \in missing} : Toast(changed \cup first)
  BY DEF ApplyOrders
<1>3. prev \in RowSets /\ expectedClose \subseteq Rows
  BY DEF TradePageInv, PageShape
<1>4. \A k \in changed \cup first : k[1] \in Rows
  <2>1. pending \subseteq Rows
    BY <1>3, RowSetDomain
  <2>2. \A k \in changed : k[1] \in pending
    OBVIOUS
  <2>3. \A k \in first : k[1] \in missing
    BY <1>2
  <2> QED
    BY <2>1, <2>2, <2>3
<1> DEFINE keys == changed \cup first
<1>5. ToldOnce' /\ (\A k \in DOMAIN toasts' : k \in inbox') /\ DOMAIN toasts' \subseteq DOMAIN toasts \cup keys
  BY <1>2, ToastOnce DEF TradePageInv
<1> HIDE DEF keys
<1>6. ToastsOK'
  <2>1. \A k \in DOMAIN toasts' : k[1] \in Rows
    BY <1>4, <1>5 DEF TradePageInv, ToastsOK, keys
  <2>2. LiquidationToastRight'
    BY <1>1 DEF LiquidationToastRight
  <2> QED
    BY <1>5, <2>1, <2>2 DEF ToastsOK
<1> QED
  BY <1>1, <1>3, <1>6, NoFetchTyped, RefreshApplied

\* The world moves on under the refreshes: what is over stays over, and nothing gets older than the clocks say
LEMMA WorldMoves ==
    ASSUME TradePageInv, UNCHANGED <<view, ours, publicKey, fetch, displayed, prev, inbox, toasts, seenOver>>, expectedClose' \subseteq Rows,
           chain' \in [Rows -> [st : Statuses, age : Nat]], trust' \in TrustState, cursorAge' \in 0..(MaxLag + 1),
           \A r \in Rows : Ended(r) => chain'[r].st = chain[r].st, AgesKnown'
    PROVE  TradePageInv'
<1>1. PageShape'
  BY DEF TradePageInv, PageShape
<1>2. OneCurrent' /\ NeverResurrected' /\ BelievedEmptyIsRecent'
  BY DEF TradePageInv, OneCurrent, NeverResurrected, BelievedEmptyIsRecent
<1>3. OverStays'
  BY DEF TradePageInv, OverStays, Ended
<1>4. ToastsOK'
  BY ToastsRest DEF TradePageInv
<1> QED
  BY <1>1, <1>2, <1>3, <1>4 DEF TradePageInv

\* A row changes its status: it is as old as nothing
LEMMA RowChanges ==
    ASSUME TradePageInv, NEW r \in Rows, NEW st \in Statuses, chain' = [chain EXCEPT ![r] = [st |-> st, age |-> 0]], ~Ended(r),
           UNCHANGED <<view, ours, cursorAge, trust, publicKey, fetch, displayed, prev, inbox, toasts, seenOver>>, expectedClose' \subseteq Rows
    PROVE  TradePageInv'
<1>1. chain \in [Rows -> [st : Statuses, age : Nat]] /\ trust \in TrustState /\ cursorAge \in 0..(MaxLag + 1) /\ AgesKnown
  BY DEF TradePageInv, PageShape
<1>2. \A x \in Rows : chain'[x] = IF x = r THEN [st |-> st, age |-> 0] ELSE chain[x]
  BY <1>1
<1>3. chain' \in [Rows -> [st : Statuses, age : Nat]] /\ \A x \in Rows : Ended(x) => chain'[x].st = chain[x].st
  <2>1. [st |-> st, age |-> 0] \in [st : Statuses, age : Nat]
    OBVIOUS
  <2> QED
    BY <1>1, <1>2, <2>1
<1>4. AgesKnown'
  <2>1. ASSUME NEW n \in Nat, NoOlder(n) PROVE \A x \in Live' : chain'[x].age <= n
    BY <1>1, <1>2, <2>1 DEF NoOlder, Live
  <2>2. cursorAge \in Nat /\ MaxLag + trust.age \in Nat /\ Tolerated \in Nat
    BY <1>1, PageConsts DEF TrustState, Tolerated
  <2>3. /\ NoOlder(cursorAge) => NoOlder(cursorAge)'
        /\ NoOlder(MaxLag + trust.age) => NoOlder(MaxLag + trust.age)'
        /\ NoOlder(Tolerated) => NoOlder(Tolerated)'
    BY <2>1, <2>2 DEF NoOlder, Tolerated
  <2> QED
    BY <1>1, <2>3 DEF AgesKnown
<1> QED
  BY <1>1, <1>3, <1>4, WorldMoves

\* A row opens, ends, or is closed by its owner
LEMMA RowSteps ==
    ASSUME TradePageInv, NEW r \in Rows, UNCHANGED view, Open(r) \/ HandleClosePosition(r) \/ \E st \in Endings : Settle(r, st)
    PROVE  TradePageInv'
<1>1. expectedClose \subseteq Rows
  BY DEF TradePageInv, PageShape
<1>2. CASE Open(r)
  <2>1. "open" \in Statuses /\ ~Ended(r) /\ expectedClose' \subseteq Rows
    BY <1>1, <1>2 DEF Statuses, Ended, Open, screenVars
  <2> QED
    BY <1>2, <2>1, RowChanges DEF Open, screenVars
<1>3. CASE HandleClosePosition(r)
  <2>1. "closed" \in Statuses /\ ~Ended(r) /\ expectedClose' \subseteq Rows
    BY <1>1, <1>3 DEF Statuses, Ended, HandleClosePosition, Live
  <2> QED
    BY <1>3, <2>1, RowChanges DEF HandleClosePosition
<1>4. ASSUME NEW st \in Endings, Settle(r, st) PROVE TradePageInv'
  <2>1. st \in Statuses /\ ~Ended(r) /\ expectedClose' \subseteq Rows
    BY <1>1, <1>4 DEF Statuses, Ended, Settle, Live, screenVars, Endings
  <2> QED
    BY <1>4, <2>1, RowChanges DEF Settle, screenVars
<1> QED
  BY <1>2, <1>3, <1>4

\* The indexer catches up: nothing is unindexed
LEMMA IndexMoves ==
    ASSUME TradePageInv, UNCHANGED view, Index
    PROVE  TradePageInv'
<1>1. /\ cursorAge' = 0 /\ UNCHANGED <<ours, trust, publicKey, fetch, displayed, prev, expectedClose, inbox, toasts, seenOver>>
      /\ chain' = [r \in Rows |-> IF ours THEN [chain[r] EXCEPT !.age = 0] ELSE chain[r]]
  BY DEF Index, screenVars
<1>2. chain \in [Rows -> [st : Statuses, age : Nat]] /\ trust \in TrustState /\ AgesKnown /\ expectedClose \subseteq Rows /\ ours \in BOOLEAN
  BY DEF TradePageInv, PageShape
<1>3. \A r \in Rows : /\ chain'[r] \in [st : Statuses, age : Nat] /\ chain'[r].st = chain[r].st
                       /\ chain'[r].age = IF ours THEN 0 ELSE chain[r].age
  BY <1>1, <1>2
<1>4. chain' \in [Rows -> [st : Statuses, age : Nat]]
  BY <1>1, <1>3
<1>5. AgesKnown'
  <2>1. Live' = Live /\ Live \subseteq Rows
    BY <1>3 DEF Live
  <2>2. ASSUME NEW n \in Nat, ours \/ NoOlder(n) PROVE \A x \in Live' : chain'[x].age <= n
    BY <1>2, <1>3, <2>1, <2>2 DEF NoOlder
  <2>3. 0 \in Nat /\ MaxLag + trust.age \in Nat /\ Tolerated \in Nat
    BY <1>2, PageConsts DEF TrustState, Tolerated
  <2>4. /\ ours => NoOlder(cursorAge)'
        /\ NoOlder(MaxLag + trust.age) => NoOlder(MaxLag + trust.age)'
        /\ NoOlder(Tolerated) => NoOlder(Tolerated)'
    BY <1>1, <2>2, <2>3 DEF NoOlder, Tolerated
  <2> QED
    BY <1>1, <1>2, <2>4 DEF AgesKnown
<1>6. cursorAge' \in 0..(MaxLag + 1)
  BY <1>1, PageConsts
<1> QED
  BY <1>1, <1>2, <1>3, <1>4, <1>5, <1>6, WorldMoves

\* A tick: the clocks that bound an age advance with it, and no gateway answer is under way
LEMMA TickMoves ==
    ASSUME TradePageInv, UNCHANGED view, Tick
    PROVE  TradePageInv'
<1>1. /\ \A f \in Refreshes : fetch[f].pc \notin {"trust", "list"}
      /\ chain' = [r \in Rows |-> IF r \in Live /\ indexed[r] # "open" THEN [chain[r] EXCEPT !.age = Older(@, Tolerated + 1)] ELSE chain[r]]
      /\ cursorAge' = Older(cursorAge, MaxLag + 1) /\ trust' = [trust EXCEPT !.age = IF trust.known THEN Older(@, TrustTtl) ELSE @]
      /\ UNCHANGED <<ours, publicKey, fetch, displayed, prev, expectedClose, inbox, toasts, seenOver>>
  BY DEF Tick, screenVars
<1>2. chain \in [Rows -> [st : Statuses, age : Nat]] /\ trust \in TrustState /\ AgesKnown /\ expectedClose \subseteq Rows
      /\ cursorAge \in 0..(MaxLag + 1)
  BY DEF TradePageInv, PageShape
<1>3. MaxLag \in Nat /\ TrustTtl \in Nat /\ Tolerated \in Nat
  BY PageConsts DEF Tolerated
<1>4. ASSUME NEW n \in Nat, NEW b PROVE Older(n, b) \in {n, n + 1}
  BY DEF Older
<1>5. \A r \in Rows : /\ chain'[r] \in [st : Statuses, age : Nat] /\ chain'[r].st = chain[r].st
                       /\ chain'[r].age \in {chain[r].age, chain[r].age + 1}
  <2> SUFFICES ASSUME NEW r \in Rows
               PROVE  /\ chain'[r] \in [st : Statuses, age : Nat] /\ chain'[r].st = chain[r].st
                      /\ chain'[r].age \in {chain[r].age, chain[r].age + 1}
    OBVIOUS
  <2>1. chain[r].age \in Nat /\ chain[r] \in [st : Statuses, age : Nat]
    BY <1>2
  <2>2. chain'[r] = chain[r] \/ chain'[r] = [chain[r] EXCEPT !.age = Older(chain[r].age, Tolerated + 1)]
    BY <1>1
  <2>3. Older(chain[r].age, Tolerated + 1) \in {chain[r].age, chain[r].age + 1}
    BY <1>4, <2>1
  <2> QED
    BY <2>1, <2>2, <2>3
<1>6. chain' \in [Rows -> [st : Statuses, age : Nat]]
  BY <1>1, <1>5
<1>7. cursorAge' \in 0..(MaxLag + 1) /\ (cursorAge' <= MaxLag => cursorAge' = cursorAge + 1)
  BY <1>1, <1>2, <1>3 DEF Older
<1>8. /\ trust' \in TrustState /\ trust'.value = trust.value /\ trust'.known = trust.known
      /\ trust'.known /\ trust'.age < TrustTtl => trust'.age = trust.age + 1 /\ trust.age < TrustTtl
  <2> DEFINE n == IF trust.known THEN Older(trust.age, TrustTtl) ELSE trust.age
  <2>1. n \in 0..TrustTtl /\ (trust.known /\ n < TrustTtl => n = trust.age + 1 /\ trust.age < TrustTtl)
    BY <1>2, <1>3 DEF Older, TrustState
  <2>2. trust' = [trust EXCEPT !.age = n]
    BY <1>1
  <2> HIDE DEF n
  <2> QED
    BY <1>2, <2>1, <2>2 DEF TrustState
<1>9. AgesKnown'
  <2>1. Live' = Live /\ Live \subseteq Rows
    BY <1>5 DEF Live
  <2>2. ASSUME NEW n \in Nat, NoOlder(n) PROVE \A x \in Live' : chain'[x].age <= n + 1
    BY <1>2, <1>5, <2>1, <2>2 DEF NoOlder
  <2>3. ours /\ cursorAge' <= MaxLag => NoOlder(cursorAge)'
    <3> SUFFICES ASSUME ours, cursorAge' <= MaxLag PROVE NoOlder(cursorAge)'
      OBVIOUS
    <3>1. cursorAge \in Nat /\ cursorAge <= MaxLag /\ cursorAge' = cursorAge + 1
      BY <1>2, <1>3, <1>7
    <3> QED
      BY <1>2, <2>2, <3>1 DEF AgesKnown, NoOlder
  <2>4. trust'.known /\ trust'.value /\ trust'.age < TrustTtl => NoOlder(MaxLag + trust.age)'
    <3> SUFFICES ASSUME trust'.known, trust'.value, trust'.age < TrustTtl PROVE NoOlder(MaxLag + trust.age)'
      OBVIOUS
    <3>1. trust'.age = trust.age + 1 /\ NoOlder(MaxLag + trust.age)
      BY <1>2, <1>8 DEF AgesKnown
    <3>2. MaxLag + trust.age \in Nat /\ (MaxLag + trust.age) + 1 = MaxLag + trust'.age
      BY <1>2, <1>3, <3>1 DEF TrustState
    <3> QED
      BY <2>2, <3>1, <3>2 DEF NoOlder
  <2>5. \A f \in Refreshes : fetch'[f].pc # "list"
    BY <1>1
  <2> QED
    BY <1>1, <2>3, <2>4, <2>5 DEF AgesKnown
<1> QED
  BY <1>1, <1>2, <1>5, <1>6, <1>7, <1>8, <1>9, WorldMoves

\* A wallet connects or disconnects
LEMMA WalletMoves ==
    ASSUME TradePageInv, UNCHANGED view, Disconnect \/ \E w \in Traders : Connect(w)
    PROVE  TradePageInv'
<1>1. /\ UNCHANGED <<view, chain, indexed, cursorAge, ours, trust, fetch, inbox, toasts, seenOver>> /\ publicKey' \in Traders \cup {Nobody}
      /\ displayed' \in {{}, displayed} /\ expectedClose' \in {{}, expectedClose} /\ prev' \in {Unknown, prev}
      /\ displayed' = {} \/ (displayed' = displayed /\ prev' = prev)
  BY DEF Disconnect, Connect, chainVars, screenVars
<1>2. PageShape'
  BY <1>1, UnknownRows DEF TradePageInv, PageShape
<1>3. OneCurrent' /\ BelievedEmptyIsRecent' /\ OverStays'
  BY <1>1 DEF TradePageInv, OneCurrent, BelievedEmptyIsRecent, OverStays, Ended
<1>4. NeverResurrected'
  BY <1>1 DEF TradePageInv, NeverResurrected
<1>5. ToastsOK'
  BY <1>1, ToastsRest DEF TradePageInv
<1>6. AgesKnown'
  BY <1>1 DEF TradePageInv, AgesKnown, NoOlder, Live, Tolerated
<1> QED
  BY <1>2, <1>3, <1>4, <1>5, <1>6 DEF TradePageInv

\* At the start nothing is open, read or announced
LEMMA TradePageStarts == PageInit => TradePageInv
<1> SUFFICES ASSUME PageInit PROVE TradePageInv
  OBVIOUS
<1>1. /\ view \in PageScenes /\ ours \in BOOLEAN /\ cursorAge = 0 /\ trust = NoVerdict /\ publicKey = Nobody
      /\ chain = [r \in Rows |-> [st |-> "none", age |-> 0]] /\ fetch = [f \in Refreshes |-> NoFetch]
      /\ displayed = {} /\ prev = Unknown /\ expectedClose = {} /\ inbox = {} /\ toasts = [k \in {} |-> 0] /\ seenOver = {}
  BY DEF PageInit
<1>2. \A r \in Rows : chain[r].st = "none"
  BY <1>1
<1>3. \A f \in Refreshes : fetch[f] = NoFetch
  BY <1>1
<1>4. PageShape
  <2>1. view \in {"positions", "orders"}
    BY <1>1, TradePageConstants
  <2>2. cursorAge \in 0..(MaxLag + 1) /\ trust \in TrustState
    BY <1>1, PageConsts DEF NoVerdict, TrustState
  <2>3. chain \in [Rows -> [st : Statuses, age : Nat]]
    BY <1>1 DEF Statuses
  <2>4. fetch \in [Refreshes -> FetchState]
    BY <1>1, NoFetchTyped
  <2> QED
    BY <1>1, <2>1, <2>2, <2>3, <2>4, UnknownRows DEF PageShape
<1>5. OneCurrent /\ BelievedEmptyIsRecent
  BY <1>3, NoFetchTyped DEF OneCurrent, BelievedEmptyIsRecent
<1>6. OverStays /\ NeverResurrected
  BY <1>1 DEF OverStays, NeverResurrected
<1>7. AgesKnown
  <2>1. Live = {}
    BY <1>2 DEF Live
  <2> QED
    BY <2>1 DEF AgesKnown, NoOlder
<1>8. ToastsOK
  BY <1>1 DEF ToastsOK, LiquidationToastRight, ToldOnce
<1> QED
  BY <1>4, <1>5, <1>6, <1>7, <1>8 DEF TradePageInv

\* Every step keeps the invariant
LEMMA PageSteps == TradePageInv /\ [PageNext]_pageVars => TradePageInv'
<1> SUFFICES ASSUME TradePageInv, [PageNext]_pageVars PROVE TradePageInv'
  OBVIOUS
<1>1. CASE UNCHANGED pageVars
  <2>1. UNCHANGED <<view, chain, indexed, cursorAge, ours, trust, publicKey, fetch, displayed, prev, expectedClose, inbox, toasts, seenOver>>
    BY <1>1 DEF pageVars, chainVars, screenVars
  <2>2. PageShape' /\ OneCurrent' /\ BelievedEmptyIsRecent' /\ OverStays' /\ NeverResurrected'
    BY <2>1 DEF TradePageInv, PageShape, OneCurrent, BelievedEmptyIsRecent, OverStays, Ended, NeverResurrected
  <2>3. AgesKnown'
    BY <2>1 DEF TradePageInv, AgesKnown, NoOlder, Live, Tolerated
  <2>4. ToastsOK'
    BY <2>1, ToastsRest DEF TradePageInv
  <2> QED
    BY <2>2, <2>3, <2>4 DEF TradePageInv
<1>2. CASE PageNext
  <2>1. view' = view
    BY <1>2 DEF PageNext
  <2>2. ASSUME NEW f \in Refreshes,
               \/ FetchPositions(f) \/ ListOpenPositions(f) \/ TrustEmpty(f) \/ HydratePositions(f)
               \/ GetPositions(f) \/ ApplyPositions(f) \/ GetRecentLiquidations(f)
               \/ FetchOrders(f) \/ AskTrust(f) \/ ListOrderHints(f) \/ GetOrders(f) \/ ApplyOrders(f)
               \/ Discard(f) \/ FetchFailed(f)
        PROVE  TradePageInv'
    BY <2>1, <2>2, RefreshStarts, RefreshReads, PositionsApplied, OrdersApplied, LiquidationsTold
  <2>3. ASSUME NEW r \in Rows, Open(r) \/ HandleClosePosition(r) \/ \E st \in Endings : Settle(r, st) PROVE TradePageInv'
    BY <2>1, <2>3, RowSteps
  <2>4. CASE Index
    BY <2>1, <2>4, IndexMoves
  <2>5. CASE Tick
    BY <2>1, <2>5, TickMoves
  <2>6. CASE Disconnect \/ \E w \in Traders : Connect(w)
    BY <2>1, <2>6, WalletMoves
  <2> QED
    BY <1>2, <2>2, <2>3, <2>4, <2>5, <2>6 DEF PageNext
<1> QED
  BY <1>1, <1>2

\* For every set of wallets, rows and refreshes and however they overlap, fail and lag: what the page was told is
\* over does not come back as open, an empty list it believed hides nothing older than it tolerates, a liquidation
\* is announced of liquidated positions only, and nothing is announced twice (app/trade/page.tsx)
THEOREM PageIsHonest == PageSpec => []PageHonest
<1>1. PageInit => TradePageInv
  BY TradePageStarts
<1>2. TradePageInv /\ [PageNext]_pageVars => TradePageInv'
  BY PageSteps
<1>3. TradePageInv => PageHonest
  <2> SUFFICES ASSUME TradePageInv PROVE PageHonest
    OBVIOUS
  <2>1. PageTypeOK
    <3>1. trust.age <= TrustTtl /\ cursorAge <= MaxLag + 1
      BY PageConsts DEF TradePageInv, PageShape, TrustState
    <3> QED
      BY <3>1 DEF TradePageInv, PageShape, OneCurrent, PageTypeOK
  <2> QED
    BY <2>1 DEF TradePageInv, ToastsOK, PageHonest
<1> QED
  BY <1>1, <1>2, <1>3, PTL DEF PageSpec

----------------------------------------------------------------------------
(***************************************************************************)
(* Marks.  An answer of a poll is delivered under the badge only, and the  *)
(* first read of a run is remembered when it comes after a frame.          *)
(***************************************************************************)
FeedTypes ==
  /\ run \in Nat /\ silent \in Nat /\ round \in Nat \ {0}
  /\ stale \in BOOLEAN /\ badge \in BOOLEAN /\ seedLate \in BOOLEAN
  /\ lastFrame \subseteq Marks /\ DOMAIN marks = Marks /\ DOMAIN heard = Marks
  /\ \A a \in Marks : heard[a] \in Nat

\* An asset of the last frame was heard in this run
Heard == \A a \in lastFrame : heard[a] > 0

FeedInv == FeedTypes /\ Heard /\ LiveUnlessFlagged /\ BadgeTellsSilence

LEMMA FeedInvInit ==
  ASSUME PriceFeedConstants, FeedInit
  PROVE  FeedInv
<1>1. FeedTypes
  <2>1. run \in Nat /\ silent \in Nat /\ round \in Nat \ {0}
    BY DEF FeedInit
  <2>2. stale \in BOOLEAN /\ badge \in BOOLEAN /\ seedLate \in BOOLEAN
    BY Zenon DEF FeedInit
  <2>3. lastFrame \subseteq Marks /\ DOMAIN marks = Marks /\ DOMAIN heard = Marks
    BY DEF FeedInit
  <2>4. \A a \in Marks : heard[a] \in Nat
    BY DEF FeedInit
  <2> QED
    BY <2>1, <2>2, <2>3, <2>4 DEF FeedTypes
<1>2. Heard /\ LiveUnlessFlagged
  BY DEF FeedInit, Heard, LiveUnlessFlagged
<1>3. BadgeTellsSilence
  BY DEF FeedInit, BadgeTellsSilence
<1> QED
  BY <1>1, <1>2, <1>3 DEF FeedInv

LEMMA ResubscribeKeeps ==
  ASSUME PriceFeedConstants, FeedInv, Resubscribe
  PROVE  FeedInv'
<1>1. /\ run' = run + 1 /\ socket' = "open" /\ silent' = 0 /\ stale' = FALSE /\ polls' = 0 /\ badge' = FALSE
      /\ heard' = [a \in Marks |-> 0] /\ lastFrame' = {} /\ seedLate' = FALSE /\ marks' = marks /\ round' = round
  BY DEF Resubscribe
<1>2. FeedTypes'
  <2>1. run' \in Nat /\ silent' \in Nat /\ round' \in Nat \ {0}
    BY <1>1 DEF FeedInv, FeedTypes
  <2>2. stale' \in BOOLEAN /\ badge' \in BOOLEAN /\ seedLate' \in BOOLEAN
    BY <1>1, Zenon
  <2>3. lastFrame' \subseteq Marks /\ DOMAIN marks' = Marks /\ DOMAIN heard' = Marks
    BY <1>1 DEF FeedInv, FeedTypes
  <2>4. \A a \in Marks : heard'[a] \in Nat
    BY <1>1
  <2> QED
    BY <2>1, <2>2, <2>3, <2>4 DEF FeedTypes
<1>3. Heard' /\ LiveUnlessFlagged'
  BY <1>1 DEF Heard, LiveUnlessFlagged
<1>4. BadgeTellsSilence'
  BY <1>1 DEF BadgeTellsSilence
<1> QED
  BY <1>2, <1>3, <1>4 DEF FeedInv

\* Silence or a dead socket raises the badge with everything it stands for
LEMMA StaleKeeps ==
  ASSUME PriceFeedConstants, FeedInv, Watchdog \/ HardClose
  PROVE  FeedInv'
<1>1. /\ SetStale /\ UNCHANGED <<run, silent, marks, round, heard, lastFrame, seedLate>>
  BY DEF Watchdog, HardClose
<1>2. stale' = TRUE /\ badge' = TRUE
  BY <1>1 DEF SetStale, FeedInv, FeedTypes, BadgeTellsSilence
<1>3. FeedTypes'
  BY <1>1, <1>2 DEF FeedInv, FeedTypes
<1>4. Heard' /\ LiveUnlessFlagged'
  BY <1>1, <1>2 DEF FeedInv, Heard, LiveUnlessFlagged
<1>5. polls' = 1
  <2>1. CASE stale
    BY <2>1, <1>1 DEF SetStale, FeedInv, BadgeTellsSilence
  <2>2. CASE ~stale
    BY <2>2, <1>1 DEF SetStale, FeedInv, BadgeTellsSilence
  <2> QED
    BY <2>1, <2>2
<1>6. silent' >= StaleAfter \/ socket' = "closed"
  <2>1. CASE Watchdog
    BY <2>1 DEF Watchdog
  <2>2. CASE HardClose
    BY <2>2 DEF HardClose
  <2> QED
    BY <2>1, <2>2
<1>7. BadgeTellsSilence'
  BY <1>2, <1>5, <1>6 DEF BadgeTellsSilence
<1> QED
  BY <1>3, <1>4, <1>7 DEF FeedInv

\* A frame takes the badge down and puts its own prices under what it carries
LEMMA FrameKeeps ==
  ASSUME PriceFeedConstants, FeedInv, NEW carried \in SUBSET Marks, Frame(carried)
  PROVE  FeedInv'
<1>1. /\ socket' = "open" /\ silent' = 0 /\ SetFresh
      /\ marks' = [a \in Marks |-> IF a \in carried THEN [from |-> "live", round |-> round] ELSE marks[a]]
      /\ heard' = [a \in Marks |-> IF a \in carried THEN round ELSE heard[a]]
      /\ lastFrame' = carried /\ UNCHANGED <<run, round, seedLate>>
  BY DEF Frame
<1>2. stale' = FALSE /\ badge' = FALSE
  BY <1>1 DEF SetFresh, FeedInv, FeedTypes, BadgeTellsSilence
<1>3. FeedTypes'
  BY <1>1, <1>2 DEF FeedInv, FeedTypes
<1>4. Heard' /\ LiveUnlessFlagged'
  BY <1>1 DEF FeedInv, FeedTypes, Heard, LiveUnlessFlagged
<1>5. polls' = 0
  <2>1. CASE stale
    BY <2>1, <1>1 DEF SetFresh, FeedInv, BadgeTellsSilence
  <2>2. CASE ~stale
    BY <2>2, <1>1 DEF SetFresh, FeedInv, BadgeTellsSilence
  <2> QED
    BY <2>1, <2>2
<1>6. BadgeTellsSilence'
  BY <1>1, <1>2, <1>5 DEF BadgeTellsSilence
<1> QED
  BY <1>3, <1>4, <1>6 DEF FeedInv

\* An answer that is taken is under the badge or the first read of the run
LEMMA AnswerKeeps ==
  ASSUME PriceFeedConstants, FeedInv, NEW r \in reading, r.kind \in {"seed", "shim"}, AnswerFeed(r)
  PROVE  FeedInv'
<1>1. UNCHANGED <<run, socket, silent, stale, polls, badge, round, heard, lastFrame>>
  BY DEF AnswerFeed
<1>2. BadgeTellsSilence'
  BY <1>1 DEF FeedInv, BadgeTellsSilence
<1>3. Heard'
  BY <1>1 DEF FeedInv, Heard
<1>4. CASE UNCHANGED <<marks, seedLate>>
  <2>1. FeedTypes' /\ LiveUnlessFlagged'
    BY <1>1, <1>4 DEF FeedInv, FeedTypes, LiveUnlessFlagged
  <2> QED
    BY <1>2, <1>3, <2>1 DEF FeedInv
<1>5. ASSUME Delivers(r), NEW k \in 1..round,
             marks' = [a \in Marks |-> IF a \in r.assets THEN [from |-> r.kind, round |-> k] ELSE marks[a]],
             seedLate' = (seedLate \/ (r.kind = "seed" /\ \E a \in r.assets : heard[a] > 0))
      PROVE  FeedInv'
  <2>1. FeedTypes'
    BY <1>1, <1>5 DEF FeedInv, FeedTypes
  <2>2. CASE r.kind = "shim"
    <3>1. badge'
      BY <2>2, <1>1, <1>5 DEF Delivers, FeedInv, BadgeTellsSilence
    <3> QED
      BY <3>1, <2>1, <1>2, <1>3 DEF FeedInv, LiveUnlessFlagged
  <2>3. CASE r.kind = "seed"
    <3> SUFFICES ASSUME NEW a \in lastFrame, ~badge, ~seedLate'
                 PROVE  marks'[a] = [from |-> "live", round |-> heard[a]]
      BY <1>1, <1>2, <1>3, <2>1 DEF FeedInv, LiveUnlessFlagged
    <3>1. ~seedLate /\ a \notin r.assets
      BY <1>5, <2>3 DEF FeedInv, Heard
    <3>2. a \in Marks /\ marks'[a] = marks[a]
      BY <1>5, <3>1 DEF FeedInv, FeedTypes
    <3> QED
      BY <3>1, <3>2 DEF FeedInv, LiveUnlessFlagged
  <2> QED
    BY <2>2, <2>3
<1> QED
  BY <1>4, <1>5 DEF AnswerFeed

\* The kinds of a read
ReadKinds == \A r \in reading : r.kind \in {"seed", "shim"}

LEMMA KindsKept ==
  ASSUME ReadKinds, [FeedNext]_feedVars
  PROVE  ReadKinds'
<1>1. \A kind, n, assets : ReadOf(kind, n, assets).kind = kind
  BY DEF ReadOf
<1>2. ASSUME NEW x \in PollShim
      PROVE  x.kind = "shim"
  <2>1. PICK a \in Marks : x = ReadOf("shim", run, {a})
    BY Zenon DEF PollShim
  <2> QED
    BY <2>1, <1>1
<1> HIDE DEF PollShim
<1>3. CASE Resubscribe
  BY <1>3, <1>1 DEF Resubscribe, ReadKinds
<1>4. CASE Watchdog \/ HardClose
  BY <1>4, <1>2 DEF Watchdog, HardClose, SetStale, ReadKinds
<1>5. CASE PollTick
  BY <1>5, <1>2 DEF PollTick, ReadKinds
<1>6. CASE FeedTick
  BY <1>6 DEF FeedTick, ReadKinds
<1>7. ASSUME NEW carried \in SUBSET Marks, Frame(carried)
      PROVE  ReadKinds'
  BY <1>7 DEF Frame, SetFresh, ReadKinds
<1>8. ASSUME NEW r \in reading, AnswerFeed(r)
      PROVE  ReadKinds'
  BY <1>8 DEF AnswerFeed, ReadKinds
<1>9. CASE UNCHANGED feedVars
  BY <1>9 DEF feedVars, ReadKinds
<1> QED
  BY <1>3, <1>4, <1>5, <1>6, <1>7, <1>8, <1>9 DEF FeedNext

LEMMA FeedInvNext ==
  ASSUME PriceFeedConstants, FeedInv, ReadKinds, [FeedNext]_feedVars
  PROVE  FeedInv'
<1>1. CASE PollTick
  <2>1. UNCHANGED <<run, socket, silent, stale, polls, badge, marks, round, heard, lastFrame, seedLate>>
    BY <1>1 DEF PollTick
  <2> QED
    BY <2>1 DEF FeedInv, FeedTypes, Heard, LiveUnlessFlagged, BadgeTellsSilence
<1>2. CASE FeedTick
  <2>1. /\ round' = round + 1 /\ silent' = silent + 1
        /\ UNCHANGED <<run, socket, stale, polls, badge, reading, marks, heard, lastFrame, seedLate>>
    BY <1>2 DEF FeedTick
  <2>2. FeedTypes'
    BY <2>1 DEF FeedInv, FeedTypes
  <2>3. Heard' /\ LiveUnlessFlagged'
    BY <2>1 DEF FeedInv, Heard, LiveUnlessFlagged
  <2>4. silent >= StaleAfter => silent' >= StaleAfter
    BY <2>1 DEF FeedInv, FeedTypes, PriceFeedConstants
  <2>5. BadgeTellsSilence'
    BY <2>1, <2>4 DEF FeedInv, BadgeTellsSilence
  <2> QED
    BY <2>2, <2>3, <2>5 DEF FeedInv
<1>3. CASE UNCHANGED feedVars
  BY <1>3 DEF feedVars, FeedInv, FeedTypes, Heard, LiveUnlessFlagged, BadgeTellsSilence
<1>4. CASE Resubscribe
  BY <1>4, ResubscribeKeeps
<1>5. CASE Watchdog \/ HardClose
  BY <1>5, StaleKeeps
<1>6. ASSUME NEW carried \in SUBSET Marks, Frame(carried)
      PROVE  FeedInv'
  BY <1>6, FrameKeeps
<1>7. ASSUME NEW r \in reading, AnswerFeed(r)
      PROVE  FeedInv'
  BY <1>7, AnswerKeeps DEF ReadKinds
<1> QED
  BY <1>1, <1>2, <1>3, <1>4, <1>5, <1>6, <1>7 DEF FeedNext

(* For every set of assets, number of reads and silence: without the amber   *)
(* badge an asset of the last frame shows that frame's price, whatever       *)
(* on-chain reads are still under way, and the badge is shown for silence or *)
(* a dead socket only (subscribeLivePrices and the mark effect of the page). *)
THEOREM FeedIsHonest == FeedSpec => []FeedHonest
<1>1. FeedInit => FeedInv /\ ReadKinds
  <2> SUFFICES ASSUME FeedInit
               PROVE  FeedInv /\ ReadKinds
    OBVIOUS
  <2>1. FeedInv
    BY PriceFeedConstants, FeedInvInit
  <2>2. ReadKinds
    BY DEF FeedInit, ReadKinds
  <2> QED
    BY <2>1, <2>2
<1>2. FeedInv /\ ReadKinds /\ [FeedNext]_feedVars => FeedInv' /\ ReadKinds'
  BY PriceFeedConstants, FeedInvNext, KindsKept
<1>3. FeedInv => FeedHonest
  BY DEF FeedInv, FeedHonest
<1> QED
  BY <1>1, <1>2, <1>3, PTL DEF FeedSpec

(* The trades beside the other pages: the same holds in every behaviour of   *)
(* the browser.                                                              *)
LEMMA TradePart == MCSpec => TradeSpec
<1>1. MCInit => TradeInit
  BY DEF MCInit
<1>2. [MCNext]_<<tradingVars, ticketVars, moneyVars, accountVars, part>> => [TradeNext]_tradeVars
  BY DEF MCNext, tradingVars
<1> QED
  BY <1>1, <1>2, PTL DEF MCSpec, TradeSpec

-----------------------------------------------------------------------------
(* The wallet: store and kit agree unless calls overlapped.                 *)

StoreType == [connected : BOOLEAN, address : Keys \cup {NoKey}, walletId : Modules \cup {NoModule}, of : Keys \cup {NoKey}]
KitType == [module : Modules \cup {NoModule}, address : Keys \cup {NoKey}]
JobKinds == {"restore", "init", "connect", "balances", "disconnect", "sign"}
JobType == [kind : JobKinds, module : Modules \cup {NoModule}, key : Keys \cup {NoKey},
            step : {"read", "kit", "session", "address", "access", "prompt"}]

WalletTyped ==
    /\ wstore \in StoreType /\ kit \in KitType /\ slipped \in BOOLEAN
    /\ picked \in [Modules -> Keys] /\ wcPaths \subseteq Keys /\ jobs \subseteq JobType
    /\ wstore.connected => wstore.address \in Keys /\ wstore.walletId \in Modules
    /\ \A j \in jobs : j.kind = "connect" => j.module \in Modules

\* What a call under way may believe while nothing overlapped it
KitFits == kit = [module |-> wstore.walletId, address |-> wstore.address]
Fits(j) ==
    /\ j.kind = "restore" => wstore.connected /\ wstore.address = j.key /\ wstore.walletId = j.module
    /\ j.kind = "init" /\ j.step = "kit" => ~wstore.connected
    /\ j.kind = "init" /\ j.step = "session" => ~wstore.connected /\ kit.module = "wc"
    /\ j.kind = "init" /\ j.step = "read" => wstore.connected /\ wstore.address = j.key /\ KitFits
    /\ j.kind = "connect" => ~wstore.connected /\ kit.module = j.module
    /\ j.kind \in {"disconnect", "balances"} => wstore.connected

BalancesFit == wstore.of # NoKey => wstore.connected /\ wstore.of = wstore.address
Settled == (\A j \in jobs : j.kind \in {"balances", "sign"}) /\ wstore.connected => KitFits

Unslipped == ~slipped => BalancesFit /\ (\A j \in jobs : Fits(j)) /\ Settled

WInv == WalletTyped /\ SignedAsExpected /\ ReadyOrRestoring /\ Unslipped

\* The store's actions and what they return
LEMMA StoreActions ==
  ASSUME WalletTyped
  PROVE  /\ NoWallet \in StoreType /\ ~NoWallet.connected /\ NoWallet.of = NoKey
         /\ NoKit \in KitType
         /\ \A k \in Keys, m \in Modules :
               LET w == SetConnected(k, m) IN
               w \in StoreType /\ w.connected /\ w.address = k /\ w.walletId = m /\ w.of = wstore.of
         /\ \A j \in JobType, known \in BOOLEAN :
               LET w == Shows(j, known) IN
               /\ w \in StoreType /\ w.connected = wstore.connected /\ w.address = wstore.address
               /\ w.walletId = wstore.walletId /\ w.of \in {j.key, NoKey}
<1>1. wstore \in StoreType
  BY DEF WalletTyped
<1>2. /\ NoWallet \in StoreType /\ ~NoWallet.connected /\ NoWallet.of = NoKey /\ NoKit \in KitType
  BY DEF NoWallet, NoKit, StoreType, KitType, NoKey, NoModule
<1>3. ASSUME NEW k \in Keys, NEW m \in Modules
      PROVE  LET w == SetConnected(k, m) IN
             w \in StoreType /\ w.connected /\ w.address = k /\ w.walletId = m /\ w.of = wstore.of
  BY <1>1 DEF SetConnected, StoreType
<1>4. ASSUME NEW j \in JobType, NEW known \in BOOLEAN
      PROVE  LET w == Shows(j, known) IN
             /\ w \in StoreType /\ w.connected = wstore.connected /\ w.address = wstore.address
             /\ w.walletId = wstore.walletId /\ w.of \in {j.key, NoKey}
  <2> DEFINE v == IF known THEN j.key ELSE NoKey
             w == [wstore EXCEPT !.of = v]
  <2>1. v \in Keys \cup {NoKey} /\ v \in {j.key, NoKey}
    BY DEF JobType
  <2>2. Shows(j, known) = w
    BY DEF Shows
  <2> HIDE DEF v
  <2>3. /\ w \in StoreType /\ w.connected = wstore.connected /\ w.address = wstore.address
        /\ w.walletId = wstore.walletId /\ w.of = v
    BY <1>1, <2>1 DEF StoreType
  <2> QED
    BY <2>1, <2>2, <2>3
<1> QED
  BY <1>2, <1>3, <1>4

\* A call and its next step
LEMMA JobSteps ==
  ASSUME NEW j \in JobType, NEW s \in {"read", "kit", "session", "address", "access", "prompt"}
  PROVE  LET i == [j EXCEPT !.step = s] IN
         i \in JobType /\ i.kind = j.kind /\ i.module = j.module /\ i.key = j.key /\ i.step = s
  BY DEF JobType

LEMMA NewJob ==
  ASSUME NEW kind \in JobKinds, NEW m \in Modules \cup {NoModule}, NEW k \in Keys \cup {NoKey},
         NEW s \in {"read", "kit", "session", "address", "access", "prompt"}
  PROVE  LET i == Job(kind, m, k, s) IN
         i \in JobType /\ i.kind = kind /\ i.module = m /\ i.key = k /\ i.step = s
  BY DEF JobType, Job

\* A step that did not slip was alone
LEMMA Alone ==
  ASSUME NEW j \in jobs, Slip(j), ~slipped'
  PROVE  ~slipped /\ jobs = {j}
  BY DEF Slip

LEMMA WalletStarts == ASSUME WalletInit PROVE WInv
<1>1. NoWallet \in StoreType /\ ~NoWallet.connected /\ NoWallet.of = NoKey /\ NoKit \in KitType
  BY DEF NoWallet, NoKit, StoreType, KitType, NoKey, NoModule
<1>2. WalletTyped
  BY <1>1 DEF WalletInit, WalletTyped
<1>3. SignedAsExpected /\ ReadyOrRestoring /\ Unslipped
  BY <1>1 DEF WalletInit, SignedAsExpected, ReadyOrRestoring, Unslipped, BalancesFit, Settled
<1> QED
  BY <1>2, <1>3 DEF WInv

\* A load forgets every call
LEMMA LoadKeeps == ASSUME WInv, LoadPage PROVE WInv'
<1> DEFINE re == Restored
           w == [wstore EXCEPT !.connected = re, !.of = NoKey]
           i == IF re THEN Job("restore", wstore.walletId, wstore.address, "read")
                ELSE Job("init", wstore.walletId, wstore.address, "kit")
<1>1. wstore \in StoreType /\ UNCHANGED <<picked, wcPaths, signedAs>>
  BY DEF WInv, WalletTyped, LoadPage, Load
<1>2. wstore' = w /\ kit' = NoKit /\ ~slipped' /\ slipped' \in BOOLEAN /\ isReady' = re /\ jobs' = {i}
  BY DEF LoadPage, Load
<1>3. re \in BOOLEAN /\ (re => wstore.address \in Keys /\ wstore.walletId \in Modules)
  BY <1>1 DEF Restored, StoreType, Modules
<1>4. i \in JobType /\ i.key = wstore.address /\ i.module = wstore.walletId
      /\ (re => i.kind = "restore") /\ (~re => i.kind = "init" /\ i.step = "kit")
  <2>1. wstore.walletId \in Modules \cup {NoModule} /\ wstore.address \in Keys \cup {NoKey}
    BY <1>1 DEF StoreType
  <2>2. LET o == Job("restore", wstore.walletId, wstore.address, "read") IN
        o \in JobType /\ o.key = wstore.address /\ o.module = wstore.walletId /\ o.kind = "restore"
    BY <2>1, NewJob DEF JobKinds
  <2>3. LET o == Job("init", wstore.walletId, wstore.address, "kit") IN
        o \in JobType /\ o.key = wstore.address /\ o.module = wstore.walletId /\ o.kind = "init" /\ o.step = "kit"
    BY <2>1, NewJob DEF JobKinds
  <2> HIDE DEF re
  <2> QED
    BY <2>2, <2>3
<1> HIDE DEF re, i
<1>5. w \in StoreType /\ w.connected = re /\ w.of = NoKey /\ w.address = wstore.address /\ w.walletId = wstore.walletId
  BY <1>1, <1>3 DEF StoreType
<1> HIDE DEF w
<1>6. NoKit \in KitType
  BY DEF NoKit, KitType
<1>7. WalletTyped'
  BY <1>1, <1>2, <1>3, <1>4, <1>5, <1>6 DEF WInv, WalletTyped
<1>8. SignedAsExpected'
  BY <1>1 DEF WInv, SignedAsExpected
<1>9. ReadyOrRestoring'
  BY <1>2, <1>3, <1>4 DEF ReadyOrRestoring, Underway
<1>10. Unslipped'
  <2>1. CASE re
    BY <1>2, <1>4, <1>5, <2>1 DEF Unslipped, BalancesFit, Settled, Fits
  <2>2. CASE ~re
    BY <1>2, <1>4, <1>5, <2>2 DEF Unslipped, BalancesFit, Settled, Fits
  <2> QED
    BY <2>1, <2>2
<1> QED
  BY <1>7, <1>8, <1>9, <1>10 DEF WInv

\* The restored extension: balances, then the kit
LEMMA RestoreKeeps ==
  ASSUME WInv, NEW j \in jobs, RestoreReads(j) \/ RestoreSetsUp(j)
  PROVE  WInv'
<1>1. j \in JobType /\ j.kind = "restore" /\ wstore \in StoreType /\ WalletTyped
  BY DEF WInv, WalletTyped, RestoreReads, RestoreSetsUp
<1>2. ReadyOrRestoring' /\ SignedAsExpected'
  BY <1>1 DEF WInv, ReadyOrRestoring, Underway, SignedAsExpected, RestoreReads, RestoreSetsUp
<1>3. CASE RestoreReads(j)
  <2> DEFINE i == [j EXCEPT !.step = "kit"]
  <2>1. i \in JobType /\ i.kind = "restore" /\ i.module = j.module /\ i.key = j.key
    BY <1>1, JobSteps
  <2>2. PICK known \in BOOLEAN : wstore' = Shows(j, known)
    BY <1>3 DEF RestoreReads, BalanceReads
  <2>3. jobs' = (jobs \ {j}) \cup {i} /\ Slip(j) /\ UNCHANGED <<kit, picked, wcPaths>>
    BY <1>3 DEF RestoreReads
  <2> HIDE DEF i
  <2>4. /\ wstore' \in StoreType /\ wstore'.connected = wstore.connected /\ wstore'.address = wstore.address
        /\ wstore'.walletId = wstore.walletId /\ wstore'.of \in {j.key, NoKey}
    BY <1>1, <2>2, StoreActions
  <2>5. WalletTyped'
    BY <1>1, <2>1, <2>3, <2>4 DEF WalletTyped, Slip
  <2>6. Unslipped'
    <3> SUFFICES ASSUME ~slipped' PROVE Unslipped'
      BY DEF Unslipped
    <3>1. ~slipped /\ jobs = {j} /\ jobs' = {i}
      BY <2>3, Alone
    <3>2. wstore.connected /\ wstore.address = j.key /\ wstore.walletId = j.module
      BY <1>1, <3>1 DEF WInv, Unslipped, Fits
    <3> QED
      BY <2>1, <2>4, <3>1, <3>2 DEF Unslipped, BalancesFit, Settled, Fits
  <2> QED
    BY <1>2, <2>5, <2>6 DEF WInv
<1>4. CASE RestoreSetsUp(j)
  <2>1. jobs' = jobs \ {j} /\ UNCHANGED <<wstore, picked, wcPaths>>
    BY <1>4 DEF RestoreSetsUp
  <2>2. CASE kit' = SetupWalletModule(j.module, j.key) /\ Slip(j)
    <3>1. kit' = [module |-> j.module, address |-> j.key] /\ kit' \in KitType
      BY <1>1, <2>2 DEF SetupWalletModule, KitType, JobType
    <3>2. WalletTyped'
      BY <1>1, <2>1, <2>2, <3>1 DEF WalletTyped, Slip
    <3>3. Unslipped'
      <4> SUFFICES ASSUME ~slipped' PROVE Unslipped'
        BY DEF Unslipped
      <4>1. ~slipped /\ jobs = {j} /\ jobs' = {}
        BY <2>1, <2>2, Alone
      <4>2. wstore.address = j.key /\ wstore.walletId = j.module /\ BalancesFit
        BY <1>1, <4>1 DEF WInv, Unslipped, Fits
      <4> QED
        BY <2>1, <3>1, <4>1, <4>2 DEF Unslipped, BalancesFit, Settled, KitFits
    <3> QED
      BY <1>2, <3>2, <3>3 DEF WInv
  <2>3. CASE UNCHANGED kit /\ slipped' = TRUE
    BY <1>1, <1>2, <2>1, <2>3 DEF WInv, WalletTyped, Unslipped
  <2> QED
    BY <1>4, <2>2, <2>3 DEF RestoreSetsUp
<1> QED
  BY <1>3, <1>4

\* The kit is there: a WalletConnect session is looked for, or the app is ready
LEMMA InitKitKeeps ==
  ASSUME WInv, NEW j \in jobs, InitKit(j)
  PROVE  WInv'
<1>1. j \in JobType /\ j.kind = "init" /\ j.step = "kit" /\ wstore \in StoreType /\ kit \in KitType /\ WalletTyped
      /\ UNCHANGED <<picked, wcPaths, signedAs>>
  BY DEF WInv, WalletTyped, InitKit
<1>2. SignedAsExpected'
  BY <1>1 DEF WInv, SignedAsExpected
<1>3. CASE /\ j.key # NoKey /\ j.module = "wc" /\ jobs' = (jobs \ {j}) \cup {[j EXCEPT !.step = "session"]}
           /\ kit' = [kit EXCEPT !.module = "wc"] /\ UNCHANGED <<wstore, isReady>> /\ Slip(j)
  <2> DEFINE i == [j EXCEPT !.step = "session"]
  <2>1. i \in JobType /\ i.kind = "init" /\ i.step = "session"
    BY <1>1, JobSteps
  <2>2. jobs' = (jobs \ {j}) \cup {i}
    BY <1>3
  <2> HIDE DEF i
  <2>3. kit' \in KitType /\ kit'.module = "wc"
    BY <1>1, <1>3 DEF KitType, Modules
  <2>4. WalletTyped'
    BY <1>1, <1>3, <2>1, <2>2, <2>3 DEF WalletTyped, Slip
  <2>5. ReadyOrRestoring'
    BY <2>1, <2>2 DEF ReadyOrRestoring, Underway
  <2>6. Unslipped'
    <3> SUFFICES ASSUME ~slipped' PROVE Unslipped'
      BY DEF Unslipped
    <3>1. ~slipped /\ jobs = {j} /\ jobs' = {i}
      BY <1>3, <2>2, Alone
    <3>2. ~wstore.connected /\ BalancesFit
      BY <1>1, <3>1 DEF WInv, Unslipped, Fits
    <3> QED
      BY <1>3, <2>1, <2>3, <3>1, <3>2 DEF Unslipped, BalancesFit, Settled, Fits
  <2> QED
    BY <1>2, <2>4, <2>5, <2>6 DEF WInv
<1>4. CASE /\ j.module # "wc" /\ jobs' = jobs \ {j} /\ isReady' = TRUE /\ UNCHANGED kit
           /\ wstore' = (IF j.key # NoKey THEN SetDisconnected ELSE wstore) /\ Slip(j)
  <2>1. wstore' \in {NoWallet, wstore}
    BY <1>4 DEF SetDisconnected
  <2>2. WalletTyped'
    BY <1>1, <1>4, <2>1, StoreActions DEF WalletTyped, Slip
  <2>3. Unslipped'
    <3> SUFFICES ASSUME ~slipped' PROVE Unslipped'
      BY DEF Unslipped
    <3>1. ~slipped /\ jobs = {j} /\ jobs' = {}
      BY <1>4, Alone
    <3>2. ~wstore.connected /\ BalancesFit
      BY <1>1, <3>1 DEF WInv, Unslipped, Fits
    <3>3. ~wstore'.connected /\ BalancesFit'
      BY <1>1, <2>1, <3>2, StoreActions DEF BalancesFit
    <3> QED
      BY <3>1, <3>3 DEF Unslipped, Settled
  <2>4. ReadyOrRestoring'
    BY <1>4 DEF ReadyOrRestoring
  <2> QED
    BY <1>2, <2>2, <2>3, <2>4 DEF WInv
<1>5. CASE jobs' = jobs \ {j} /\ isReady' = TRUE /\ slipped' = TRUE /\ UNCHANGED <<wstore, kit>>
  BY <1>1, <1>2, <1>5 DEF WInv, WalletTyped, Unslipped, ReadyOrRestoring
<1> QED
  BY <1>3, <1>4, <1>5 DEF InitKit

\* The session of the stored account, and its balances
LEMMA SessionKeeps ==
  ASSUME WInv, NEW j \in jobs, RestoreSession(j) \/ RestoredReads(j)
  PROVE  WInv'
<1>1. j \in JobType /\ j.kind = "init" /\ wstore \in StoreType /\ kit \in KitType /\ WalletTyped
      /\ UNCHANGED <<picked, wcPaths, signedAs>> /\ Slip(j)
  BY DEF WInv, WalletTyped, RestoreSession, RestoredReads
<1>2. SignedAsExpected'
  BY <1>1 DEF WInv, SignedAsExpected
<1>3. ASSUME jobs' = jobs \ {j}, isReady' = TRUE, wstore' = NoWallet, UNCHANGED kit
      PROVE  WInv'
  <2>1. wstore' \in StoreType /\ ~wstore'.connected /\ wstore'.of = NoKey
    BY <1>1, <1>3, StoreActions
  <2>2. WalletTyped'
    BY <1>1, <1>3, <2>1 DEF WalletTyped, Slip
  <2>3. Unslipped'
    <3> SUFFICES ASSUME ~slipped' PROVE Unslipped'
      BY DEF Unslipped
    <3>1. jobs' = {}
      BY <1>1, <1>3, Alone
    <3> QED
      BY <2>1, <3>1 DEF Unslipped, BalancesFit, Settled
  <2>4. ReadyOrRestoring'
    BY <1>3 DEF ReadyOrRestoring
  <2> QED
    BY <1>2, <2>2, <2>3, <2>4 DEF WInv
<1>4. CASE RestoreSession(j)
  <2>1. CASE /\ j.key \in wcPaths /\ wstore' = SetConnected(j.key, "wc") /\ kit' = [kit EXCEPT !.address = j.key]
             /\ jobs' = (jobs \ {j}) \cup {[j EXCEPT !.step = "read"]} /\ UNCHANGED isReady
    <3> DEFINE i == [j EXCEPT !.step = "read"]
               key == j.key
    <3>1. i \in JobType /\ i.kind = "init" /\ i.step = "read" /\ i.key = key
      BY <1>1, JobSteps
    <3>2. key \in Keys /\ "wc" \in Modules
      BY <1>1, <2>1 DEF WalletTyped, Modules
    <3>3. wstore' \in StoreType /\ wstore'.connected /\ wstore'.address = key /\ wstore'.walletId = "wc" /\ wstore'.of = wstore.of
      BY <1>1, <2>1, <3>2, StoreActions
    <3>4. jobs' = (jobs \ {j}) \cup {i}
      BY <2>1
    <3> HIDE DEF i, key
    <3>5. kit' = [module |-> kit.module, address |-> key] /\ kit' \in KitType
      BY <1>1, <2>1, <3>2 DEF KitType, key
    <3>6. WalletTyped'
      BY <1>1, <3>1, <3>2, <3>3, <3>4, <3>5 DEF WalletTyped, Slip
    <3>7. ReadyOrRestoring'
      BY <3>1, <3>4 DEF ReadyOrRestoring, Underway
    <3>8. Unslipped'
      <4> SUFFICES ASSUME ~slipped' PROVE Unslipped'
        BY DEF Unslipped
      <4>1. ~slipped /\ jobs = {j} /\ jobs' = {i}
        BY <1>1, <3>4, Alone
      <4>2. kit.module = "wc" /\ wstore.of = NoKey
        BY <1>1, <1>4, <4>1 DEF WInv, Unslipped, Fits, BalancesFit, RestoreSession
      <4>3. KitFits'
        BY <3>3, <3>5, <4>2 DEF KitFits
      <4> QED
        BY <3>1, <3>3, <4>1, <4>2, <4>3 DEF Unslipped, BalancesFit, Settled, Fits
    <3> QED
      BY <1>2, <3>6, <3>7, <3>8 DEF WInv
  <2>2. CASE wstore' = SetDisconnected /\ isReady' = Ready /\ jobs' = jobs \ {j} /\ UNCHANGED kit
    BY <1>3, <2>2 DEF SetDisconnected, Ready
  <2> QED
    BY <1>4, <2>1, <2>2 DEF RestoreSession
<1>5. CASE RestoredReads(j)
  <2>1. jobs' = jobs \ {j} /\ isReady' = TRUE /\ UNCHANGED kit
    BY <1>5 DEF RestoredReads
  <2>2. CASE wstore' = SetDisconnected
    BY <1>3, <2>1, <2>2 DEF SetDisconnected
  <2>3. CASE \E known \in BOOLEAN : wstore' = Shows(j, known)
    <3>1. /\ wstore' \in StoreType /\ wstore'.connected = wstore.connected /\ wstore'.address = wstore.address
          /\ wstore'.walletId = wstore.walletId /\ wstore'.of \in {j.key, NoKey}
      BY <1>1, <2>3, StoreActions
    <3>2. WalletTyped'
      BY <1>1, <2>1, <3>1 DEF WalletTyped, Slip
    <3>3. Unslipped'
      <4> SUFFICES ASSUME ~slipped' PROVE Unslipped'
        BY DEF Unslipped
      <4>1. ~slipped /\ jobs = {j} /\ jobs' = {}
        BY <1>1, <2>1, Alone
      <4>2. wstore.connected /\ wstore.address = j.key /\ KitFits
        BY <1>1, <1>5, <4>1 DEF WInv, Unslipped, Fits, RestoredReads
      <4>3. KitFits'
        BY <2>1, <3>1, <4>2 DEF KitFits
      <4> QED
        BY <3>1, <4>1, <4>2, <4>3 DEF Unslipped, BalancesFit, Settled
    <3>4. ReadyOrRestoring'
      BY <2>1 DEF ReadyOrRestoring
    <3> QED
      BY <1>2, <3>2, <3>3, <3>4 DEF WInv
  <2> QED
    BY <1>5, <2>2, <2>3 DEF RestoredReads, BalanceReads
<1> QED
  BY <1>4, <1>5

\* Connecting: the module first, the account when the wallet names it
LEMMA ConnectKeeps ==
  ASSUME WInv, \/ \E m \in Modules : HandleSelect(m)
               \/ \E j \in jobs : OnConnected(j) \/ ConnectFails(j)
  PROVE  WInv'
<1>1. wstore \in StoreType /\ kit \in KitType /\ WalletTyped
  BY DEF WInv, WalletTyped
<1>2. UNCHANGED <<isReady, picked, signedAs>>
  BY DEF HandleSelect, OnConnected, ConnectFails
<1>3. SignedAsExpected'
  BY <1>2 DEF WInv, SignedAsExpected
<1>4. ASSUME NEW m \in Modules, HandleSelect(m) PROVE WInv'
  <2> DEFINE i == Job("connect", m, NoKey, "address")
  <2>1. i \in JobType /\ i.kind = "connect" /\ i.module = m
    BY NewJob DEF JobKinds
  <2>2. ~wstore.connected /\ UNCHANGED <<wstore, wcPaths>> /\ jobs' = jobs \cup {i} /\ slipped' = (slipped \/ jobs # {})
    BY <1>4 DEF HandleSelect
  <2> HIDE DEF i
  <2>3. kit' \in KitType /\ kit'.module = m
    BY <1>1, <1>4 DEF HandleSelect, KitType
  <2>4. WalletTyped'
    BY <1>1, <1>2, <2>1, <2>2, <2>3 DEF WalletTyped
  <2>5. ReadyOrRestoring'
    BY <1>2, <2>2 DEF WInv, ReadyOrRestoring, Underway
  <2>6. Unslipped'
    <3> SUFFICES ASSUME ~slipped' PROVE Unslipped'
      BY DEF Unslipped
    <3>1. ~slipped /\ jobs' = {i}
      BY <2>2
    <3> QED
      BY <2>1, <2>2, <2>3, <3>1 DEF WInv, Unslipped, BalancesFit, Settled, Fits
  <2> QED
    BY <1>3, <2>4, <2>5, <2>6 DEF WInv
<1>5. ASSUME NEW j \in jobs, OnConnected(j) PROVE WInv'
  <2> DEFINE k == picked[j.module]
             i == Job("balances", j.module, k, "read")
  <2>1. j \in JobType /\ j.kind = "connect" /\ j.module \in Modules /\ k \in Keys /\ Slip(j)
    BY <1>1, <1>5 DEF WalletTyped, OnConnected
  <2>2. i \in JobType /\ i.kind = "balances"
    BY <2>1, NewJob DEF JobKinds
  <2>3. /\ wstore' = SetConnected(k, j.module) /\ kit' = [kit EXCEPT !.address = k] /\ wcPaths' \subseteq wcPaths \cup {k}
        /\ jobs' = (jobs \ {j}) \cup {i}
    BY <1>5 DEF OnConnected
  <2> HIDE DEF k, i
  <2>4. wstore' \in StoreType /\ wstore'.connected /\ wstore'.address = k /\ wstore'.walletId = j.module /\ wstore'.of = wstore.of
    BY <1>1, <2>1, <2>3, StoreActions
  <2>5. kit' = [module |-> kit.module, address |-> k] /\ kit' \in KitType
    BY <1>1, <2>1, <2>3 DEF KitType
  <2>6. WalletTyped'
    BY <1>1, <1>2, <2>1, <2>2, <2>3, <2>4, <2>5 DEF WalletTyped, Slip
  <2>7. ReadyOrRestoring'
    BY <1>2, <2>1, <2>3 DEF WInv, ReadyOrRestoring, Underway
  <2>8. Unslipped'
    <3> SUFFICES ASSUME ~slipped' PROVE Unslipped'
      BY DEF Unslipped
    <3>1. ~slipped /\ jobs = {j} /\ jobs' = {i}
      BY <2>1, <2>3, Alone
    <3>2. kit.module = j.module /\ wstore.of = NoKey
      BY <2>1, <3>1 DEF WInv, Unslipped, Fits, BalancesFit
    <3>3. KitFits'
      BY <2>4, <2>5, <3>2 DEF KitFits
    <3> QED
      BY <2>2, <2>4, <3>1, <3>2, <3>3 DEF Unslipped, BalancesFit, Settled, Fits
  <2> QED
    BY <1>3, <2>6, <2>7, <2>8 DEF WInv
<1>6. ASSUME NEW j \in jobs, ConnectFails(j) PROVE WInv'
  <2>1. j.kind = "connect" /\ jobs' = jobs \ {j} /\ UNCHANGED <<wstore, kit, isReady, picked, wcPaths, slipped>>
    BY <1>6 DEF ConnectFails
  <2>2. WalletTyped'
    BY <1>1, <2>1 DEF WalletTyped
  <2>3. ReadyOrRestoring'
    BY <2>1 DEF WInv, ReadyOrRestoring, Underway
  <2>4. Unslipped'
    BY <2>1 DEF WInv, Unslipped, BalancesFit, Settled, Fits, KitFits
  <2> QED
    BY <1>3, <2>2, <2>3, <2>4 DEF WInv
<1> QED
  BY <1>4, <1>5, <1>6

\* Disconnecting, which other calls must not overlap
LEMMA DisconnectKeeps ==
  ASSUME WInv, DisconnectWallet \/ \E j \in jobs : Disconnected(j)
  PROVE  WInv'
<1>1. wstore \in StoreType /\ kit \in KitType /\ WalletTyped
  BY DEF WInv, WalletTyped
<1>2. UNCHANGED <<isReady, picked, signedAs>>
  BY DEF DisconnectWallet, Disconnected
<1>3. SignedAsExpected'
  BY <1>2 DEF WInv, SignedAsExpected
<1>4. CASE DisconnectWallet
  <2> DEFINE i == Job("disconnect", wstore.walletId, wstore.address, "kit")
  <2>1. i \in JobType /\ i.kind = "disconnect"
    <3>1. wstore.walletId \in Modules \cup {NoModule} /\ wstore.address \in Keys \cup {NoKey}
      BY <1>1 DEF StoreType
    <3> QED
      BY <3>1, NewJob DEF JobKinds
  <2>2. wstore.connected /\ UNCHANGED <<wstore, wcPaths>> /\ jobs' = jobs \cup {i} /\ slipped' = (slipped \/ jobs # {})
    BY <1>4 DEF DisconnectWallet
  <2> HIDE DEF i
  <2>3. kit' \in KitType
    BY <1>1, <1>4 DEF DisconnectWallet, KitType
  <2>4. WalletTyped'
    BY <1>1, <1>2, <2>1, <2>2, <2>3 DEF WalletTyped
  <2>5. ReadyOrRestoring'
    BY <1>2, <2>2 DEF WInv, ReadyOrRestoring, Underway
  <2>6. Unslipped'
    <3> SUFFICES ASSUME ~slipped' PROVE Unslipped'
      BY DEF Unslipped
    <3>1. ~slipped /\ jobs' = {i}
      BY <2>2
    <3> QED
      BY <2>1, <2>2, <3>1 DEF WInv, Unslipped, BalancesFit, Settled, Fits
  <2> QED
    BY <1>3, <2>4, <2>5, <2>6 DEF WInv
<1>5. ASSUME NEW j \in jobs, Disconnected(j) PROVE WInv'
  <2>1. /\ j.kind = "disconnect" /\ wstore' = NoWallet /\ jobs' = jobs \ {j} /\ Slip(j)
        /\ wcPaths' \subseteq wcPaths /\ UNCHANGED kit
    BY <1>5 DEF Disconnected, SetDisconnected
  <2>2. wstore' \in StoreType /\ ~wstore'.connected /\ wstore'.of = NoKey
    BY <1>1, <2>1, StoreActions
  <2>3. WalletTyped'
    BY <1>1, <1>2, <2>1, <2>2 DEF WalletTyped, Slip
  <2>4. ReadyOrRestoring'
    BY <1>2, <2>1 DEF WInv, ReadyOrRestoring, Underway
  <2>5. Unslipped'
    <3> SUFFICES ASSUME ~slipped' PROVE Unslipped'
      BY DEF Unslipped
    <3>1. jobs' = {}
      BY <2>1, Alone
    <3> QED
      BY <2>2, <3>1 DEF Unslipped, BalancesFit, Settled
  <2> QED
    BY <1>3, <2>3, <2>4, <2>5 DEF WInv
<1> QED
  BY <1>4, <1>5

\* Balances are read for one account and shown to whoever is connected
LEMMA BalancesKeep ==
  ASSUME WInv, RefreshBalances \/ \E j \in jobs : SetBalances(j)
  PROVE  WInv'
<1>1. wstore \in StoreType /\ kit \in KitType /\ WalletTyped
  BY DEF WInv, WalletTyped
<1>2. UNCHANGED <<kit, isReady, picked, wcPaths, signedAs>>
  BY DEF RefreshBalances, SetBalances
<1>3. SignedAsExpected'
  BY <1>2 DEF WInv, SignedAsExpected
<1>4. CASE RefreshBalances
  <2> DEFINE i == Job("balances", wstore.walletId, wstore.address, "read")
  <2>1. i \in JobType /\ i.kind = "balances"
    <3>1. wstore.walletId \in Modules \cup {NoModule} /\ wstore.address \in Keys \cup {NoKey}
      BY <1>1 DEF StoreType
    <3> QED
      BY <3>1, NewJob DEF JobKinds
  <2>2. wstore.connected /\ UNCHANGED <<wstore, slipped>> /\ jobs' = jobs \cup {i}
    BY <1>4 DEF RefreshBalances
  <2> HIDE DEF i
  <2>3. WalletTyped' /\ ReadyOrRestoring'
    BY <1>1, <1>2, <2>1, <2>2 DEF WInv, WalletTyped, ReadyOrRestoring, Underway
  <2>4. Unslipped'
    BY <1>2, <2>1, <2>2 DEF WInv, Unslipped, BalancesFit, Settled, Fits, KitFits
  <2> QED
    BY <1>3, <2>3, <2>4 DEF WInv
<1>5. ASSUME NEW j \in jobs, SetBalances(j) PROVE WInv'
  <2>1. j \in JobType /\ j.kind = "balances" /\ jobs' = jobs \ {j} /\ slipped' = (slipped \/ j.key # wstore.address)
    BY <1>1, <1>5 DEF WalletTyped, SetBalances
  <2>2. /\ wstore' \in StoreType /\ wstore'.connected = wstore.connected /\ wstore'.address = wstore.address
        /\ wstore'.walletId = wstore.walletId /\ wstore'.of \in {j.key, NoKey}
    BY <1>1, <1>5, <2>1, StoreActions DEF SetBalances, BalanceReads
  <2>3. WalletTyped' /\ ReadyOrRestoring'
    BY <1>1, <1>2, <2>1, <2>2 DEF WInv, WalletTyped, ReadyOrRestoring, Underway
  <2>4. Unslipped'
    <3> SUFFICES ASSUME ~slipped' PROVE Unslipped'
      BY DEF Unslipped
    <3>1. ~slipped /\ j.key = wstore.address
      BY <2>1
    <3>2. (\A i \in jobs : Fits(i)) /\ Settled
      BY <3>1 DEF WInv, Unslipped
    <3>3. wstore.connected
      BY <2>1, <3>2 DEF Fits
    <3>4. BalancesFit'
      BY <2>2, <3>1, <3>3 DEF BalancesFit
    <3>5. KitFits' <=> KitFits
      BY <1>2, <2>2 DEF KitFits
    <3>6. \A i \in jobs' : Fits(i)'
      BY <1>2, <2>1, <2>2, <3>2, <3>5 DEF Fits
    <3>7. Settled'
      BY <2>1, <2>2, <3>2, <3>5 DEF Settled
    <3> QED
      BY <3>4, <3>6, <3>7 DEF Unslipped
  <2> QED
    BY <1>3, <2>3, <2>4 DEF WInv
<1> QED
  BY <1>4, <1>5

\* Signing touches neither store nor kit; the signer is compared with the source
LEMMA SigningKeeps ==
  ASSUME WInv, \/ SignWith \/ \E m \in Modules, k \in Keys : PickAccount(m, k)
               \/ \E j \in jobs : RequestAccess(j) \/ SignTransaction(j)
  PROVE  WInv'
<1>1. wstore \in StoreType /\ kit \in KitType /\ WalletTyped
  BY DEF WInv, WalletTyped
<1>2. UNCHANGED <<wstore, kit, isReady, wcPaths, slipped>>
  BY DEF SignWith, PickAccount, RequestAccess, SignTransaction
<1>3. \A i \in jobs' : i \in jobs \/ (i \in JobType /\ i.kind = "sign")
  <2>1. CASE SignWith
    <3>1. kit.module \in Modules \cup {NoModule} /\ wstore.address \in Keys \cup {NoKey}
      BY <1>1 DEF StoreType, KitType
    <3> DEFINE i == Job("sign", kit.module, wstore.address, "access")
    <3>2. i \in JobType /\ i.kind = "sign" /\ jobs' = jobs \cup {i}
      BY <2>1, <3>1, NewJob DEF SignWith, JobKinds
    <3> QED
      BY <3>2
  <2>2. CASE \E m \in Modules, k \in Keys : PickAccount(m, k)
    BY <2>2 DEF PickAccount
  <2>3. ASSUME NEW j \in jobs, RequestAccess(j)
        PROVE  \A i \in jobs' : i \in jobs \/ (i \in JobType /\ i.kind = "sign")
    <3> DEFINE i == [j EXCEPT !.step = "prompt"]
    <3>1. j \in JobType /\ j.kind = "sign"
      BY <1>1, <2>3 DEF WalletTyped, RequestAccess
    <3>2. i \in JobType /\ i.kind = "sign"
      BY <3>1, JobSteps
    <3>3. jobs' \subseteq jobs \cup {i}
      BY <2>3 DEF RequestAccess
    <3> QED
      BY <3>2, <3>3
  <2>4. ASSUME NEW j \in jobs, SignTransaction(j)
        PROVE  \A i \in jobs' : i \in jobs \/ (i \in JobType /\ i.kind = "sign")
    BY <2>4 DEF SignTransaction
  <2> QED
    BY <2>1, <2>2, <2>3, <2>4
<1>4. \A i \in jobs : i.kind # "sign" => i \in jobs'
  BY DEF SignWith, PickAccount, RequestAccess, SignTransaction
<1>5. picked' \in [Modules -> Keys]
  BY <1>1 DEF WalletTyped, SignWith, PickAccount, RequestAccess, SignTransaction
<1>6. WalletTyped'
  BY <1>1, <1>2, <1>3, <1>5 DEF WalletTyped
<1>7. ReadyOrRestoring'
  BY <1>2, <1>4 DEF WInv, ReadyOrRestoring, Underway
<1>8. Unslipped'
  <2> SUFFICES ASSUME ~slipped' PROVE Unslipped'
    BY DEF Unslipped
  <2>1. BalancesFit /\ (\A j \in jobs : Fits(j)) /\ Settled
    BY <1>2 DEF WInv, Unslipped
  <2>2. BalancesFit' /\ (KitFits' <=> KitFits)
    BY <1>2, <2>1 DEF BalancesFit, KitFits
  <2>3. \A i \in jobs' : Fits(i)'
    BY <1>2, <1>3, <2>1, <2>2 DEF Fits
  <2>4. Settled'
    BY <1>2, <1>4, <2>1, <2>2 DEF Settled
  <2> QED
    BY <2>2, <2>3, <2>4 DEF Unslipped
<1>9. SignedAsExpected'
  <2>1. ASSUME NEW j \in jobs, SignTransaction(j) PROVE SignedAsExpected'
    BY <2>1 DEF WInv, SignedAsExpected, SignTransaction, SignerAccepted
  <2>2. CASE UNCHANGED signedAs
    BY <2>2 DEF WInv, SignedAsExpected
  <2> QED
    BY <2>1, <2>2 DEF SignWith, PickAccount, RequestAccess
<1> QED
  BY <1>6, <1>7, <1>8, <1>9 DEF WInv

LEMMA WInvIsEnough == ASSUME WInv PROVE WalletHonest
<1>1. WalletTypeOK
  BY DEF WInv, WalletTyped, WalletTypeOK, StoreType, KitType, JobType, JobKinds
<1>2. AgreeUnlessSlipped
  BY DEF WInv, Unslipped, BalancesFit, Settled, KitFits, AgreeUnlessSlipped
<1> QED
  BY <1>1, <1>2 DEF WInv, WalletHonest

\* The wallet that is shown is the wallet that signs, however loads, connects, disconnects, balance reads
\* and signatures overlap and whatever account the user picks meanwhile
THEOREM WalletIsHonest == WalletSpec => []WalletHonest
<1>1. WInv /\ [WalletNext]_walletVars => WInv'
  <2> SUFFICES ASSUME WInv, [WalletNext]_walletVars PROVE WInv'
    OBVIOUS
  <2>1. CASE UNCHANGED walletVars
    BY <2>1 DEF walletVars, WInv, WalletTyped, SignedAsExpected, ReadyOrRestoring, Underway, Unslipped, BalancesFit,
                Settled, Fits, KitFits
  <2>2. CASE WalletNext
    BY <2>2, LoadKeeps, RestoreKeeps, InitKitKeeps, SessionKeeps, ConnectKeeps, DisconnectKeeps, BalancesKeep, SigningKeeps
       DEF WalletNext
  <2> QED
    BY <2>1, <2>2
<1>2. WalletInit => WInv
  BY WalletStarts
<1>3. WInv => WalletHonest
  BY WInvIsEnough
<1> QED
  BY <1>1, <1>2, <1>3, PTL DEF WalletSpec

----------------------------------------------------------------------------
(***************************************************************************)
(* Referrals.  The registry's books balance step by step; the indexer shows *)
(* the money of the registry because both replay one ledger, which is the   *)
(* history the invariant speaks of; the page adds what it remembers.        *)
(***************************************************************************)

(* Changing one balance moves the sum of the balances by the difference. *)
LEMMA UnitsColumn ==
  ASSUME NEW x, NEW n \in Nat
  PROVE  IsFiniteSet({x} \X (1..n)) /\ Cardinality({x} \X (1..n)) = n
<1>1. IsFiniteSet(1..n) /\ Cardinality(1..n) = n
  BY FS_Interval
<1>2. IsFiniteSet({x}) /\ Cardinality({x}) = 1
  BY FS_Singleton
<1> QED
  BY <1>1, <1>2, FS_Product

LEMMA UnitsAre ==
  ASSUME NEW f \in [Users -> Nat], NEW u
  PROVE  u \in UnitsOf(f) <=> \E x \in Users : \E i \in 1..f[x] : u = <<x, i>>
  BY DEF UnitsOf

LEMMA UnitsAreFinite ==
  ASSUME NEW f \in [Users -> Nat]
  PROVE  IsFiniteSet(UnitsOf(f))
<1> DEFINE Col == [x \in Users |-> {x} \X (1..f[x])]
           Cols == {{x} \X (1..f[x]) : x \in Users}
<1>1. Col \in Surjection(Users, Cols)
  <2>1. Col \in [Users -> Cols]
    OBVIOUS
  <2>2. \A t \in Cols : \E s \in Users : Col[s] = t
    OBVIOUS
  <2> QED
    BY <2>1, <2>2 DEF Surjection
<1>2. IsFiniteSet(Cols)
  BY <1>1, ReferralConstants, FS_Surjection
<1>3. \A T \in Cols : IsFiniteSet(T)
  <2>1. \A x \in Users : f[x] \in Nat
    OBVIOUS
  <2>2. \A x \in Users : IsFiniteSet({x} \X (1..f[x]))
    BY <2>1, UnitsColumn
  <2> QED
    BY <2>2
<1>4. IsFiniteSet(UNION Cols)
  BY <1>2, <1>3, FS_UNION
<1>5. DOMAIN f = Users
  OBVIOUS
<1> QED
  BY <1>4, <1>5 DEF UnitsOf

LEMMA UnitsUpdated ==
  ASSUME NEW f \in [Users -> Nat], NEW x \in Users, NEW n \in Nat
  PROVE  Cardinality(UnitsOf([f EXCEPT ![x] = n])) = Cardinality(UnitsOf(f)) - f[x] + n
<1> DEFINE g == [f EXCEPT ![x] = n]
           Rest == {u \in UnitsOf(f) : u[1] # x}
           Old == {x} \X (1..f[x])
           New == {x} \X (1..n)
<1>0. g \in [Users -> Nat] /\ g[x] = n /\ \A y \in Users : y # x => g[y] = f[y]
  OBVIOUS
<1> HIDE DEF g
<1>1. UnitsOf(f) = Rest \cup Old
  <2>1. Old \subseteq UnitsOf(f)
    BY UnitsAre
  <2>2. \A u \in UnitsOf(f) : u[1] = x => u \in Old
    BY UnitsAre
  <2> QED
    BY <2>1, <2>2
<1>2. UnitsOf(g) = Rest \cup New
  <2>1. ASSUME NEW u \in UnitsOf(g)
        PROVE  u \in Rest \cup New
    <3>1. PICK y \in Users : \E i \in 1..g[y] : u = <<y, i>>
      BY <1>0, UnitsAre
    <3>2. CASE y = x
      BY <1>0, <3>1, <3>2
    <3>3. CASE y # x
      BY <1>0, <3>1, <3>3, UnitsAre
    <3> QED
      BY <3>2, <3>3
  <2>2. ASSUME NEW u \in Rest
        PROVE  u \in UnitsOf(g)
    <3>1. PICK y \in Users : \E i \in 1..f[y] : u = <<y, i>>
      BY UnitsAre
    <3>2. y # x
      BY <3>1
    <3> QED
      BY <1>0, <3>1, <3>2, UnitsAre
  <2>3. New \subseteq UnitsOf(g)
    BY <1>0, UnitsAre
  <2> QED
    BY <2>1, <2>2, <2>3
<1>3. IsFiniteSet(Rest)
  BY UnitsAreFinite, FS_Subset
<1>4. Rest \cap Old = {} /\ Rest \cap New = {}
  OBVIOUS
<1>5. IsFiniteSet(Old) /\ Cardinality(Old) = f[x] /\ f[x] \in Nat
  BY UnitsColumn
<1>6. IsFiniteSet(New) /\ Cardinality(New) = n
  BY UnitsColumn
<1>7. Cardinality({}) = 0
  BY FS_EmptySet
<1>11. Cardinality(Rest) \in Nat
  BY <1>3, FS_CardinalityType
<1> HIDE DEF Rest, Old, New
<1>8. Cardinality(Rest \cup Old) = Cardinality(Rest) + f[x] - 0
  BY <1>3, <1>4, <1>5, <1>7, FS_Union
<1>9. Cardinality(Rest \cup New) = Cardinality(Rest) + n - 0
  BY <1>3, <1>4, <1>6, <1>7, FS_Union
<1>10. Cardinality(UnitsOf(g)) = Cardinality(UnitsOf(f)) - f[x] + n
  BY <1>1, <1>2, <1>5, <1>8, <1>9, <1>11
<1> QED
  BY <1>10 DEF g

----------------------------------------------------------------------------
(***************************************************************************)
(* The registry.                                                           *)
(***************************************************************************)
InfoType == [count : Nat, volume : Nat, earned : Nat, claimable : Nat]
ReferralRowType == [code : Codes \cup {NoCode}, count : Nat, volume : Nat, earned : Nat, claimable : Nat]
EventType ==
    [topic : {"code_created"}, who : Users, code : Codes]
      \cup [topic : {"referrer_set"}, who : Users, referrer : Users]
      \cup [topic : {"trade_recorded"}, who : Users, referrer : Users, fee : Nat, payout : Nat, volume : Nat]
      \cup [topic : {"claimed"}, who : Users]

RegistryTyped ==
    /\ version \in {"v0", "v1"} /\ codeOwner \in [Codes -> Users \cup {NoUser}] /\ info \in [Users -> InfoType]
    /\ referrerOf \in [Users -> Users \cup {NoUser}] /\ claimedBy \in [Users -> Nat]
    /\ potFunds \in Int /\ short \in Int /\ trail \in Seq(EventType)

ProjectionTyped ==
    /\ projected \in Nat /\ projected <= Len(trail)
    /\ referrers \in [Users -> ReferralRowType] /\ bindings \in [Users -> Users \cup {NoUser}]

\* Only an owner of a code has ever been credited, and a referee's referrer owns one
OnlyOwnersEarn ==
    /\ \A u \in Users : ~HasCode(u) => info[u] = NoInfo /\ claimedBy[u] = 0
    /\ \A u \in Users : referrerOf[u] # NoUser => HasCode(referrerOf[u])

\* The money of a ledger, and what one event does to it
MoneyType == [coded : BOOLEAN, earned : Nat, claimable : Nat]
Registered == [u \in Users |-> [coded |-> HasCode(u), earned |-> info[u].earned, claimable |-> info[u].claimable]]
Indexed ==
    [u \in Users |-> [coded |-> referrers[u].code # NoCode, earned |-> referrers[u].earned, claimable |-> referrers[u].claimable]]

Credited(m, r, payout) == [m EXCEPT ![r] = [coded |-> m[r].coded, earned |-> m[r].earned + payout, claimable |-> m[r].claimable + payout]]
Coded(m, u) == [m EXCEPT ![u] = [coded |-> TRUE, earned |-> m[u].earned, claimable |-> m[u].claimable]]
PaidOut(m, u) == [m EXCEPT ![u] = [coded |-> m[u].coded, earned |-> m[u].earned, claimable |-> 0]]
Played(e, m) ==
    IF e.topic = "code_created" THEN Coded(m, e.who)
    ELSE IF e.topic = "trade_recorded" THEN Credited(m, e.referrer, e.payout)
    ELSE IF e.topic = "claimed" THEN PaidOut(m, e.who)
    ELSE m

\* Registry and indexer are two readings of the ledger, the second as far as it has got
Replayed(h) ==
    /\ \A i \in 1..Len(trail) : h[i] = Played(trail[i], h[i - 1])
    /\ h[Len(trail)] = Registered /\ (deadLetters = 0 => h[projected] = Indexed)
OneLedger == \E h \in [0..Len(trail) -> [Users -> MoneyType]] : Replayed(h)

RInv == RegistryTyped /\ ProjectionTyped /\ OnlyOwnersEarn /\ EarnedNeverBurned /\ BooksBalance /\ OneLedger

LEMMA SharesAreWhole ==
  ASSUME NEW fee \in Fees, NEW treasury \in BOOLEAN
  PROVE  Share(fee, ShareBps) \in Nat /\ Pot(fee, treasury) \in Int /\ fee \in Nat
<1>1. \A a, b \in Int : Share(a, b) \in Int
  BY ReferralConstants DEF Share
<1>2. \A a, b \in Nat : a * b \in Nat
  OBVIOUS
<1>3. \A a \in Nat : a \div RefBps \in Nat
  BY ReferralConstants
<1>4. fee \in Nat /\ ShareBps \in Nat /\ DiscountBps \in Nat /\ ProtocolBps \in Nat
  BY ReferralConstants
<1>5. Share(fee, ShareBps) \in Nat
  BY <1>2, <1>3, <1>4 DEF Share
<1>6. \A a, b \in Int : Min({a, b}) \in Int
  <2> SUFFICES ASSUME NEW a \in Int, NEW b \in Int PROVE Min({a, b}) \in Int
    OBVIOUS
  <2>1. \E x \in {a, b} : \A y \in {a, b} : x <= y
    OBVIOUS
  <2>2. Min({a, b}) \in {a, b}
    BY <2>1 DEF Min
  <2> QED
    BY <2>2
<1>7. Share(fee, DiscountBps) \in Int
  BY <1>1, <1>4
<1>8. Share(fee - Share(fee, DiscountBps), ProtocolBps) \in Int
  BY <1>1, <1>4, <1>7
<1> QED
  BY <1>4, <1>5, <1>6, <1>8 DEF Pot

LEMMA MoneyIsTyped ==
  ASSUME RegistryTyped, ProjectionTyped
  PROVE  Registered \in [Users -> MoneyType] /\ Indexed \in [Users -> MoneyType]
<1>1. \A u \in Users : info[u] \in InfoType /\ referrers[u] \in ReferralRowType /\ HasCode(u) \in BOOLEAN
  BY DEF RegistryTyped, ProjectionTyped, HasCode
<1> QED
  BY <1>1 DEF Registered, Indexed, MoneyType, InfoType, ReferralRowType

LEMMA PlayedIsTyped ==
  ASSUME NEW e \in EventType, NEW m \in [Users -> MoneyType]
  PROVE  Played(e, m) \in [Users -> MoneyType]
<1>1. \A u \in Users : m[u].coded \in BOOLEAN /\ m[u].earned \in Nat /\ m[u].claimable \in Nat
  BY DEF MoneyType
<1>2. \A b \in BOOLEAN, x, y \in Nat : [coded |-> b, earned |-> x, claimable |-> y] \in MoneyType
  BY DEF MoneyType
<1>3. CASE e \in [topic : {"code_created"}, who : Users, code : Codes]
  <2>1. e.topic = "code_created" /\ e.who \in Users
    BY <1>3
  <2> QED
    BY <1>1, <1>2, <2>1 DEF Played, Coded
<1>4. CASE e \in [topic : {"referrer_set"}, who : Users, referrer : Users]
  BY <1>4 DEF Played
<1>5. CASE e \in [topic : {"trade_recorded"}, who : Users, referrer : Users, fee : Nat, payout : Nat, volume : Nat]
  <2>1. e.topic = "trade_recorded" /\ e.referrer \in Users /\ e.payout \in Nat
    BY <1>5
  <2>2. m[e.referrer].earned + e.payout \in Nat /\ m[e.referrer].claimable + e.payout \in Nat
    BY <1>1, <2>1
  <2> QED
    BY <1>1, <1>2, <2>1, <2>2 DEF Played, Credited
<1>6. CASE e \in [topic : {"claimed"}, who : Users]
  <2>1. e.topic = "claimed" /\ e.who \in Users
    BY <1>6
  <2> QED
    BY <1>1, <1>2, <2>1 DEF Played, PaidOut
<1> QED
  BY <1>3, <1>4, <1>5, <1>6 DEF EventType

\* A step that records nothing leaves the money alone
LEMMA NothingRecorded ==
  ASSUME OneLedger, UNCHANGED <<trail, projectionVars>>, Registered' = Registered
  PROVE  OneLedger'
<1>1. Indexed' = Indexed
  BY DEF Indexed, projectionVars
<1> QED
  BY <1>1 DEF OneLedger, Replayed, projectionVars

\* A step that records an event does to the money what the event says
LEMMA EventRecorded ==
  ASSUME OneLedger, RegistryTyped, ProjectionTyped, NEW e \in EventType, trail' = Append(trail, e),
         UNCHANGED projectionVars, Registered' = Played(e, Registered)
  PROVE  OneLedger'
<1>0. Registered' \in [Users -> MoneyType]
  BY MoneyIsTyped, PlayedIsTyped
<1>1. PICK h \in [0..Len(trail) -> [Users -> MoneyType]] : Replayed(h)
  BY DEF OneLedger
<1> DEFINE n == Len(trail)
           g == [i \in 0..(n + 1) |-> IF i = n + 1 THEN Registered' ELSE h[i]]
<1>2. /\ n \in Nat /\ Len(trail') = n + 1 /\ trail'[n + 1] = e
      /\ \A i \in 1..n : trail'[i] = trail[i]
  BY DEF RegistryTyped
<1>3. /\ g \in [0..(n + 1) -> [Users -> MoneyType]] /\ g[n + 1] = Registered'
      /\ \A i \in 0..n : g[i] = h[i]
  BY <1>0, <1>1, <1>2
<1>4. projected \in 0..n
  BY <1>2 DEF ProjectionTyped
<1>5. Indexed' = Indexed /\ projected' = projected /\ deadLetters' = deadLetters
  BY DEF Indexed, projectionVars
<1> HIDE DEF g, n
<1>6. \A i \in 1..n : h[i] = Played(trail[i], h[i - 1])
  BY <1>1 DEF Replayed, n
<1>7. h[n] = Registered /\ (deadLetters = 0 => h[projected] = Indexed)
  BY <1>1 DEF Replayed, n
<1>8. \A i \in 1..(n + 1) : g[i] = Played(trail'[i], g[i - 1])
  <2> SUFFICES ASSUME NEW i \in 1..(n + 1) PROVE g[i] = Played(trail'[i], g[i - 1])
    OBVIOUS
  <2>1. CASE i = n + 1
    <3>1. g[i - 1] = Registered
      BY <1>2, <1>3, <1>7, <2>1
    <3> QED
      BY <1>2, <1>3, <2>1, <3>1
  <2>2. CASE i \in 1..n
    <3>1. i - 1 \in 0..n
      BY <1>2, <2>2
    <3> QED
      BY <1>2, <1>3, <1>6, <2>2, <3>1
  <2> QED
    BY <1>2, <2>1, <2>2
<1>9. deadLetters' = 0 => g[projected'] = Indexed'
  BY <1>3, <1>4, <1>5, <1>7
<1> QED
  BY <1>2, <1>3, <1>8, <1>9 DEF OneLedger, Replayed

LEMMA RegistryStarts == ASSUME ReferralInit PROVE RInv
<1>1. NoInfo \in InfoType /\ NoReferralRow \in ReferralRowType /\ NoInfo.earned = 0 /\ NoInfo.claimable = 0
      /\ NoReferralRow.code = NoCode /\ NoReferralRow.earned = 0 /\ NoReferralRow.claimable = 0
  BY DEF NoInfo, NoReferralRow, InfoType, ReferralRowType, NoCode
<1>2. /\ \A u \in Users : info[u] = NoInfo /\ claimedBy[u] = 0 /\ referrers[u] = NoReferralRow /\ referrerOf[u] = NoUser
      /\ info = [u \in Users |-> NoInfo] /\ referrers = [u \in Users |-> NoReferralRow] /\ claimedBy = [u \in Users |-> 0]
      /\ referrerOf = [u \in Users |-> NoUser] /\ bindings = [u \in Users |-> NoUser] /\ codeOwner = [c \in Codes |-> NoUser]
      /\ potFunds = 0 /\ short = 0 /\ trail = <<>> /\ projected = 0 /\ version = "v0"
  BY DEF ReferralInit
<1>3. Len(trail) = 0 /\ trail \in Seq(EventType)
  BY <1>2
<1>4. RegistryTyped /\ ProjectionTyped
  BY <1>1, <1>2, <1>3 DEF RegistryTyped, ProjectionTyped
<1>5. \A u \in Users : ~HasCode(u)
  BY <1>2, ReferralConstants DEF HasCode, NoUser
<1>6. OnlyOwnersEarn
  BY <1>2 DEF OnlyOwnersEarn
<1>7. EarnedNeverBurned
  BY <1>1, <1>2 DEF EarnedNeverBurned
<1>8. BooksBalance
  <2>1. Balances = [u \in Users |-> 0]
    BY <1>1, <1>2 DEF Balances
  <2>2. UnitsOf(Balances) = {}
    BY <2>1 DEF UnitsOf
  <2> QED
    BY <1>2, <2>2, FS_EmptySet DEF BooksBalance, Claimable
<1>9. OneLedger
  <2> DEFINE h == [i \in 0..0 |-> Registered]
  <2>1. Registered \in [Users -> MoneyType]
    BY <1>4, MoneyIsTyped
  <2>2. Indexed = Registered
    <3>1. \A u \in Users : HasCode(u) = FALSE
      BY <1>5 DEF HasCode
    <3>2. \A u \in Users : (referrers[u].code # NoCode) = FALSE
      BY <1>1, <1>2
    <3>3. \A u \in Users : info[u].earned = 0 /\ info[u].claimable = 0 /\ referrers[u].earned = 0 /\ referrers[u].claimable = 0
      BY <1>1, <1>2
    <3>4. Registered = [u \in Users |-> [coded |-> FALSE, earned |-> 0, claimable |-> 0]]
      BY <3>1, <3>3 DEF Registered
    <3>5. Indexed = [u \in Users |-> [coded |-> FALSE, earned |-> 0, claimable |-> 0]]
      BY <3>2, <3>3 DEF Indexed
    <3> QED
      BY <3>4, <3>5
  <2>3. h \in [0..0 -> [Users -> MoneyType]] /\ h[0] = Registered
    BY <2>1
  <2> HIDE DEF h
  <2> QED
    BY <1>2, <1>3, <2>2, <2>3 DEF OneLedger, Replayed
<1> QED
  BY <1>4, <1>6, <1>7, <1>8, <1>9 DEF RInv

\* The money moves only where codes, earnings or balances do
LEMMA SameMoney ==
  ASSUME RegistryTyped, codeOwner' = codeOwner, info' \in [Users -> InfoType],
         \A v \in Users : info'[v].earned = info[v].earned /\ info'[v].claimable = info[v].claimable
  PROVE  Registered' = Registered /\ Claimable' = Claimable
<1>1. Registered' = Registered
  <2>1. \A v \in Users : HasCode(v)' = HasCode(v)
    BY DEF HasCode
  <2> QED
    BY <2>1 DEF Registered
<1>2. Balances' = Balances
  BY DEF Balances
<1> QED
  BY <1>1, <1>2 DEF Claimable, UnitsOf

LEMMA AdministrationKeeps ==
  ASSUME RInv, UNCHANGED projectionVars,
         \/ \E c \in Codes : RevokeCode(c)
         \/ \E u \in Users : Unbind(u)
         \/ \E p \in BOOLEAN : SetRegistryPaused(p)
         \/ Upgrade
  PROVE  RInv'
<1>1. UNCHANGED <<codeOwner, info, potFunds, claimedBy, short, trail>> /\ version' \in {"v0", "v1"}
  BY DEF RInv, RegistryTyped, RevokeCode, Unbind, SetRegistryPaused, Upgrade
<1>2. /\ referrerOf' \in [Users -> Users \cup {NoUser}]
      /\ \A u \in Users : referrerOf'[u] \in {referrerOf[u], NoUser}
  BY DEF RInv, RegistryTyped, RevokeCode, Unbind, SetRegistryPaused, Upgrade
<1>3. RegistryTyped' /\ ProjectionTyped'
  BY <1>1, <1>2 DEF RInv, RegistryTyped, ProjectionTyped, projectionVars
<1>4. OnlyOwnersEarn'
  BY <1>1, <1>2 DEF RInv, OnlyOwnersEarn, HasCode
<1>5. EarnedNeverBurned'
  BY <1>1 DEF RInv, EarnedNeverBurned
<1>6. Registered' = Registered /\ Claimable' = Claimable
  BY <1>1, SameMoney DEF RInv, RegistryTyped
<1>7. BooksBalance'
  BY <1>1, <1>6 DEF RInv, BooksBalance
<1>8. OneLedger'
  BY <1>1, <1>6, NothingRecorded DEF RInv
<1> QED
  BY <1>3, <1>4, <1>5, <1>7, <1>8 DEF RInv

\* A new owner starts from the row that nobody has credited
LEMMA CreateCodeKeeps ==
  ASSUME RInv, UNCHANGED projectionVars, NEW u \in Users, NEW c \in Codes, CreateCode(u, c)
  PROVE  RInv'
<1> DEFINE e == [topic |-> "code_created", who |-> u, code |-> c]
<1>1. e \in EventType /\ e.topic = "code_created" /\ e.who = u
  BY DEF EventType
<1>2. trail' = Append(trail, e) /\ ~HasCode(u) /\ codeOwner[c] = NoUser /\ codeOwner' = [codeOwner EXCEPT ![c] = u]
      /\ UNCHANGED <<version, referrerOf, potFunds, claimedBy, short>>
  BY DEF CreateCode, Record
<1> HIDE DEF e
<1>3. info[u] = NoInfo /\ info \in [Users -> InfoType]
  BY <1>2 DEF RInv, OnlyOwnersEarn, RegistryTyped
<1>4. info' = info
  <2>1. info' = [info EXCEPT ![u] = info[u]]
    BY <1>3 DEF CreateCode
  <2> QED
    BY <1>3, <2>1
<1>5. codeOwner \in [Codes -> Users \cup {NoUser}] /\ codeOwner' \in [Codes -> Users \cup {NoUser}]
  BY <1>2 DEF RInv, RegistryTyped
<1>6. trail' \in Seq(EventType) /\ Len(trail') = Len(trail) + 1 /\ Len(trail) \in Nat
  BY <1>1, <1>2 DEF RInv, RegistryTyped
<1>7. RegistryTyped'
  BY <1>2, <1>4, <1>5, <1>6 DEF RInv, RegistryTyped
<1>8. ProjectionTyped'
  BY <1>6 DEF RInv, ProjectionTyped, projectionVars
<1>9. \A v \in Users : HasCode(v)' <=> HasCode(v) \/ v = u
  <2>1. \A v \in Users : v # NoUser
    BY ReferralConstants DEF NoUser
  <2> QED
    BY <1>2, <1>5, <2>1 DEF HasCode
<1>10. OnlyOwnersEarn'
  BY <1>2, <1>4, <1>9 DEF RInv, RegistryTyped, OnlyOwnersEarn
<1>11. EarnedNeverBurned'
  BY <1>2, <1>4 DEF RInv, EarnedNeverBurned
<1>12. BooksBalance'
  <2>1. Balances' = Balances
    BY <1>4 DEF Balances
  <2> QED
    BY <1>2, <2>1 DEF RInv, BooksBalance, Claimable, UnitsOf
<1>15. Registered' = Coded(Registered, u)
  <2>1. \A v \in Users : v # u => HasCode(v)' = HasCode(v)
    BY <1>9 DEF HasCode
  <2>2. HasCode(u)' = TRUE
    BY <1>9 DEF HasCode
  <2>3. Registered' = [v \in Users |-> [coded |-> IF v = u THEN TRUE ELSE HasCode(v),
                                      earned |-> info[v].earned, claimable |-> info[v].claimable]]
    BY <1>4, <2>1, <2>2 DEF Registered
  <2> QED
    BY <2>3 DEF Registered, Coded
<1>16. OneLedger'
  BY <1>1, <1>2, <1>15, EventRecorded DEF RInv, Played
<1> QED
  BY <1>7, <1>8, <1>10, <1>11, <1>12, <1>16 DEF RInv

\* A binding counts a referee and moves no money
LEMMA SetReferrerKeeps ==
  ASSUME RInv, UNCHANGED projectionVars, NEW u \in Users, NEW c \in Codes, SetReferrer(u, c)
  PROVE  RInv'
<1> DEFINE r == codeOwner[c]
           e == [topic |-> "referrer_set", who |-> u, referrer |-> r]
           row == [info[r] EXCEPT !.count = @ + 1]
<1>1. r \in Users /\ HasCode(r)
  BY DEF RInv, RegistryTyped, SetReferrer, HasCode
<1>2. e \in EventType /\ e.topic = "referrer_set" /\ trail' = Append(trail, e)
  BY <1>1 DEF EventType, SetReferrer, Record
<1>3. row \in InfoType /\ row.earned = info[r].earned /\ row.claimable = info[r].claimable
  <2>1. info[r] \in InfoType
    BY <1>1 DEF RInv, RegistryTyped
  <2> QED
    BY <2>1 DEF InfoType
<1>4. /\ info' = [info EXCEPT ![r] = row] /\ referrerOf' = [referrerOf EXCEPT ![u] = r]
      /\ UNCHANGED <<version, codeOwner, potFunds, claimedBy, short>>
  BY DEF SetReferrer
<1> HIDE DEF r, e, row
<1>5. info' \in [Users -> InfoType] /\ info'[r] = row /\ \A v \in Users : v # r => info'[v] = info[v]
  BY <1>1, <1>3, <1>4 DEF RInv, RegistryTyped
<1>6. trail' \in Seq(EventType) /\ Len(trail') = Len(trail) + 1 /\ Len(trail) \in Nat
  BY <1>2 DEF RInv, RegistryTyped
<1>7. RegistryTyped'
  BY <1>1, <1>4, <1>5, <1>6 DEF RInv, RegistryTyped
<1>8. ProjectionTyped'
  BY <1>6 DEF RInv, ProjectionTyped, projectionVars
<1>9. \A v \in Users : HasCode(v)' <=> HasCode(v)
  BY <1>4 DEF HasCode
<1>10. OnlyOwnersEarn'
  BY <1>1, <1>4, <1>5, <1>9 DEF RInv, RegistryTyped, OnlyOwnersEarn
<1>11. \A v \in Users : info'[v].earned = info[v].earned /\ info'[v].claimable = info[v].claimable
  BY <1>3, <1>5
<1>12. Registered' = Registered /\ Claimable' = Claimable
  BY <1>4, <1>5, <1>11, SameMoney DEF RInv
<1>13. EarnedNeverBurned' /\ BooksBalance'
  BY <1>4, <1>11, <1>12 DEF RInv, EarnedNeverBurned, BooksBalance
<1>14. OneLedger'
  BY <1>2, <1>12, EventRecorded DEF RInv, Played
<1> QED
  BY <1>7, <1>8, <1>10, <1>13, <1>14 DEF RInv

\* The balances as a function, and their sum
LEMMA BalancesMove ==
  ASSUME RegistryTyped, info' \in [Users -> InfoType], NEW x \in Users, NEW n \in Nat, info'[x].claimable = n,
         \A v \in Users : v # x => info'[v].claimable = info[v].claimable
  PROVE  Claimable' = Claimable - info[x].claimable + n /\ Claimable \in Nat /\ info[x].claimable \in Nat
<1>1. Balances \in [Users -> Nat] /\ Balances[x] = info[x].claimable
  BY DEF RegistryTyped, Balances, InfoType
<1>2. Balances' = [Balances EXCEPT ![x] = n]
  BY DEF Balances
<1>3. Cardinality(UnitsOf(Balances')) = Cardinality(UnitsOf(Balances)) - Balances[x] + n
  BY <1>1, <1>2, UnitsUpdated
<1>4. Claimable' = Cardinality(UnitsOf(Balances')) /\ Claimable \in Nat
  BY <1>1, UnitsAreFinite, FS_CardinalityType DEF Claimable, UnitsOf
<1> QED
  BY <1>1, <1>3, <1>4 DEF Claimable

\* A trade accrues the referrer's share; what the pot falls short of it is booked as short
LEMMA RecordTradeKeeps ==
  ASSUME RInv, UNCHANGED projectionVars, NEW u \in Users, NEW fee \in Fees, NEW treasury \in BOOLEAN,
         RecordTrade(u, fee, 2 * fee, treasury)
  PROVE  RInv'
<1> DEFINE r == referrerOf[u]
           pay == Share(fee, ShareBps)
           pot == Pot(fee, treasury)
           vol == 2 * fee
           e == [topic |-> "trade_recorded", who |-> u, referrer |-> r, fee |-> fee, payout |-> pay, volume |-> vol]
           i == info[r]
           row == [i EXCEPT !.volume = @ + vol, !.earned = @ + pay, !.claimable = @ + pay]
<1>1. r \in Users /\ HasCode(r)
  BY DEF RInv, RegistryTyped, OnlyOwnersEarn, RecordTrade, Accrues
<1>2. pay \in Nat /\ pot \in Int /\ vol \in Nat /\ fee \in Nat
  BY SharesAreWhole
<1>3. /\ potFunds' = potFunds + pot /\ short' = short + pay - pot /\ trail' = Append(trail, e)
      /\ UNCHANGED <<version, codeOwner, referrerOf, claimedBy>>
  BY DEF RecordTrade, Record
<1>4. info' = [info EXCEPT ![r] = row]
  BY DEF RecordTrade
<1> HIDE DEF r, pay, pot, vol
<1>5. e \in EventType /\ e.topic = "trade_recorded" /\ e.referrer = r /\ e.payout = pay
  BY <1>1, <1>2 DEF EventType
<1>6. row \in InfoType /\ row.earned = info[r].earned + pay /\ row.claimable = info[r].claimable + pay
  <2>1. i \in InfoType
    BY <1>1 DEF RInv, RegistryTyped
  <2> HIDE DEF i
  <2>2. i.volume + vol \in Nat /\ i.earned + pay \in Nat /\ i.claimable + pay \in Nat
    BY <1>2, <2>1 DEF InfoType
  <2> DEFINE vols == i.volume + vol
             earns == i.earned + pay
             owes == i.claimable + pay
  <2>5. row = [i EXCEPT !.volume = vols, !.earned = earns, !.claimable = owes]
    OBVIOUS
  <2>3. vols \in Nat /\ earns \in Nat /\ owes \in Nat
    BY <2>2
  <2> HIDE DEF vols, earns, owes
  <2>4. LET w == [i EXCEPT !.volume = vols, !.earned = earns, !.claimable = owes] IN
        w \in InfoType /\ w.earned = earns /\ w.claimable = owes
    BY <2>1, <2>3 DEF InfoType
  <2>6. row \in InfoType /\ row.earned = earns /\ row.claimable = owes
    BY <2>4, <2>5
  <2> QED
    BY <2>6 DEF i, earns, owes
<1> HIDE DEF e, row
<1>7. info' \in [Users -> InfoType] /\ info'[r] = row /\ \A v \in Users : v # r => info'[v] = info[v]
  BY <1>1, <1>4, <1>6 DEF RInv, RegistryTyped
<1>8. trail' \in Seq(EventType) /\ Len(trail') = Len(trail) + 1 /\ Len(trail) \in Nat
  BY <1>3, <1>5 DEF RInv, RegistryTyped
<1>9. potFunds' \in Int /\ short' \in Int
  BY <1>2, <1>3 DEF RInv, RegistryTyped
<1>10. RegistryTyped'
  BY <1>3, <1>7, <1>8, <1>9 DEF RInv, RegistryTyped
<1>11. ProjectionTyped'
  BY <1>8 DEF RInv, ProjectionTyped, projectionVars
<1>12. \A v \in Users : HasCode(v)' = HasCode(v)
  BY <1>3 DEF HasCode
<1>13. OnlyOwnersEarn'
  BY <1>1, <1>3, <1>7, <1>12 DEF RInv, RegistryTyped, OnlyOwnersEarn
<1>14. info[r].claimable \in Nat /\ info[r].earned \in Nat /\ claimedBy[r] \in Nat /\ info'[r].claimable \in Nat
  BY <1>1, <1>7 DEF RInv, RegistryTyped, InfoType
<1>15. EarnedNeverBurned'
  <2>1. info[r].earned + pay = (info[r].claimable + pay) + claimedBy[r]
    BY <1>1, <1>2, <1>14 DEF RInv, EarnedNeverBurned
  <2> QED
    BY <1>3, <1>6, <1>7, <2>1 DEF RInv, EarnedNeverBurned
<1>16. BooksBalance'
  <2>1. Claimable' = Claimable - info[r].claimable + info'[r].claimable /\ Claimable \in Nat
    BY <1>1, <1>7, <1>14, BalancesMove DEF RInv
  <2>2. info'[r].claimable = info[r].claimable + pay
    BY <1>6, <1>7
  <2>3. Claimable = potFunds + short /\ potFunds \in Int /\ short \in Int
    BY DEF RInv, BooksBalance, RegistryTyped
  <2> DEFINE after == Claimable'
             before == Claimable
             had == info[r].claimable
  <2>4. after = before - had + (had + pay) /\ before \in Nat /\ had \in Nat
    BY <1>14, <2>1, <2>2
  <2>5. before = potFunds + short /\ potFunds \in Int /\ short \in Int
    BY <2>3
  <2> HIDE DEF after, before, had
  <2>6. after = potFunds + short + pay
    BY <1>2, <2>4, <2>5
  <2>7. potFunds' + short' = potFunds + short + pay
    BY <1>2, <1>3, <2>5
  <2>8. Claimable' = potFunds' + short'
    BY <2>6, <2>7 DEF after
  <2> QED
    BY <2>8 DEF BooksBalance
<1>17. Registered' = Credited(Registered, r, pay)
  <2>1. \A v \in Users : Registered[v] = [coded |-> HasCode(v), earned |-> info[v].earned, claimable |-> info[v].claimable]
    BY DEF Registered
  <2> DEFINE R == Registered
             new == [coded |-> HasCode(r), earned |-> info[r].earned + pay, claimable |-> info[r].claimable + pay]
  <2>2. Registered' = [v \in Users |-> IF v = r THEN new ELSE R[v]]
    BY <1>6, <1>7, <1>12, <2>1 DEF Registered
  <2>4. DOMAIN R = Users /\ R[r].coded = HasCode(r) /\ R[r].earned = info[r].earned /\ R[r].claimable = info[r].claimable
    BY <1>1, <2>1 DEF Registered
  <2> HIDE DEF R
  <2>3. Credited(R, r, pay) = [R EXCEPT ![r] = new]
    BY <2>4 DEF Credited
  <2> HIDE DEF new
  <2> QED
    BY <2>2, <2>3, <2>4 DEF R
<1>18. OneLedger'
  <2>1. Played(e, Registered) = Credited(Registered, r, pay)
    BY <1>5 DEF Played
  <2> QED
    BY <1>3, <1>5, <1>17, <2>1, EventRecorded DEF RInv
<1> QED
  BY <1>10, <1>11, <1>13, <1>15, <1>16, <1>18 DEF RInv

\* A claim pays the whole balance out of the registry's own money
LEMMA ClaimKeeps ==
  ASSUME RInv, UNCHANGED projectionVars, NEW u \in Users, Claim(u)
  PROVE  RInv'
<1> DEFINE due == info[u].claimable
           e == [topic |-> "claimed", who |-> u]
           row == [info[u] EXCEPT !.claimable = 0]
<1>1. e \in EventType /\ e.topic = "claimed" /\ e.who = u
  BY DEF EventType
<1>2. info[u] \in InfoType /\ claimedBy[u] \in Nat /\ claimedBy \in [Users -> Nat]
  BY DEF RInv, RegistryTyped
<1>3. due \in Nat /\ info[u].earned \in Nat
  BY <1>2 DEF InfoType
<1>4. row \in InfoType /\ row.earned = info[u].earned /\ row.claimable = 0
  BY <1>2 DEF InfoType
<1>5. /\ HasCode(u) /\ potFunds' = potFunds - due /\ claimedBy' = [claimedBy EXCEPT ![u] = claimedBy[u] + due]
      /\ trail' = Append(trail, e) /\ UNCHANGED <<version, codeOwner, referrerOf, short>>
  BY DEF Claim, Record
<1>6. info' = [info EXCEPT ![u] = row]
  BY DEF Claim, Paying, SettledClaim
<1> HIDE DEF due, e, row
<1>7. info' \in [Users -> InfoType] /\ info'[u] = row /\ \A v \in Users : v # u => info'[v] = info[v]
  BY <1>4, <1>6 DEF RInv, RegistryTyped
<1>8. trail' \in Seq(EventType) /\ Len(trail') = Len(trail) + 1 /\ Len(trail) \in Nat
  BY <1>1, <1>5 DEF RInv, RegistryTyped
<1>9. claimedBy' \in [Users -> Nat] /\ claimedBy'[u] = claimedBy[u] + due /\ \A v \in Users : v # u => claimedBy'[v] = claimedBy[v]
  BY <1>2, <1>3, <1>5
<1>10. potFunds' \in Int
  BY <1>3, <1>5 DEF RInv, RegistryTyped
<1>11. RegistryTyped'
  BY <1>5, <1>7, <1>8, <1>9, <1>10 DEF RInv, RegistryTyped
<1>12. ProjectionTyped'
  BY <1>8 DEF RInv, ProjectionTyped, projectionVars
<1>13. \A v \in Users : HasCode(v)' = HasCode(v)
  BY <1>5 DEF HasCode
<1>14. OnlyOwnersEarn'
  BY <1>5, <1>7, <1>9, <1>13 DEF RInv, RegistryTyped, OnlyOwnersEarn
<1>15. EarnedNeverBurned'
  <2>1. info[u].earned = due + claimedBy[u]
    BY DEF RInv, EarnedNeverBurned, due
  <2>2. info'[u].earned = info'[u].claimable + claimedBy'[u]
    BY <1>2, <1>3, <1>4, <1>7, <1>9, <2>1
  <2> QED
    BY <1>7, <1>9, <2>2 DEF RInv, EarnedNeverBurned
<1>16. BooksBalance'
  <2>1. Claimable' = Claimable - due + 0 /\ Claimable \in Nat
    BY <1>4, <1>7, BalancesMove DEF RInv, due
  <2>2. Claimable = potFunds + short /\ potFunds \in Int /\ short \in Int
    BY DEF RInv, BooksBalance, RegistryTyped
  <2>3. Claimable' = potFunds' + short'
    BY <1>3, <1>5, <2>1, <2>2
  <2> QED
    BY <2>3 DEF BooksBalance
<1>17. Registered' = PaidOut(Registered, u)
  <2>1. \A v \in Users : Registered[v] = [coded |-> HasCode(v), earned |-> info[v].earned, claimable |-> info[v].claimable]
    BY DEF Registered
  <2> DEFINE R == Registered
             new == [coded |-> HasCode(u), earned |-> info[u].earned, claimable |-> 0]
  <2>2. Registered' = [v \in Users |-> IF v = u THEN new ELSE R[v]]
    BY <1>4, <1>7, <1>13, <2>1 DEF Registered
  <2>4. DOMAIN R = Users /\ R[u].coded = HasCode(u) /\ R[u].earned = info[u].earned
    BY <2>1 DEF Registered
  <2> HIDE DEF R
  <2>3. PaidOut(R, u) = [R EXCEPT ![u] = new]
    BY <2>4 DEF PaidOut
  <2> HIDE DEF new
  <2> QED
    BY <2>2, <2>3, <2>4 DEF R
<1>18. OneLedger'
  <2>1. Played(e, Registered) = PaidOut(Registered, u)
    BY <1>1 DEF Played
  <2> QED
    BY <1>1, <1>5, <1>17, <2>1, EventRecorded DEF RInv
<1> QED
  BY <1>11, <1>12, <1>14, <1>15, <1>16, <1>18 DEF RInv

\* One row changes: the indexed money follows
LEMMA RowChanged ==
  ASSUME ProjectionTyped, NEW x \in Users, NEW row \in ReferralRowType, referrers' = [referrers EXCEPT ![x] = row]
  PROVE  /\ referrers' \in [Users -> ReferralRowType]
         /\ Indexed' = [Indexed EXCEPT ![x] = [coded |-> row.code # NoCode, earned |-> row.earned, claimable |-> row.claimable]]
<1>1. /\ referrers' \in [Users -> ReferralRowType] /\ referrers'[x] = row
      /\ \A v \in Users : v # x => referrers'[v] = referrers[v]
  BY DEF ProjectionTyped
<1> DEFINE new == [coded |-> row.code # NoCode, earned |-> row.earned, claimable |-> row.claimable]
           J == Indexed
<1>2. \A v \in Users : J[v] = [coded |-> referrers[v].code # NoCode, earned |-> referrers[v].earned, claimable |-> referrers[v].claimable]
  BY DEF Indexed
<1>3. Indexed' = [v \in Users |-> IF v = x THEN new ELSE J[v]]
  BY <1>1, <1>2 DEF Indexed
<1>4. DOMAIN J = Users
  BY DEF Indexed
<1> HIDE DEF J, new
<1>5. Indexed' = [J EXCEPT ![x] = new]
  BY <1>3, <1>4
<1> QED
  BY <1>1, <1>5 DEF J, new

LEMMA EventIndexed ==
  ASSUME ProjectionTyped, NEW e \in EventType,
         \/ e.topic = "code_created" /\ ApplyCodeCreated(e)
         \/ e.topic = "referrer_set" /\ ApplyReferrerSet(e)
         \/ e.topic = "trade_recorded" /\ ApplyTradeRecorded(e)
         \/ e.topic = "claimed" /\ ApplyClaimed(e)
  PROVE  /\ referrers' \in [Users -> ReferralRowType] /\ bindings' \in [Users -> Users \cup {NoUser}]
         /\ Indexed' = Played(e, Indexed)
<1> DEFINE J == Indexed
<1>1. /\ DOMAIN J = Users
      /\ \A v \in Users : /\ J[v] = [coded |-> referrers[v].code # NoCode, earned |-> referrers[v].earned, claimable |-> referrers[v].claimable]
                          /\ J[v].coded = (referrers[v].code # NoCode) /\ J[v].earned = referrers[v].earned
                          /\ J[v].claimable = referrers[v].claimable
  BY DEF Indexed
<1>2. referrers \in [Users -> ReferralRowType] /\ bindings \in [Users -> Users \cup {NoUser}]
  BY DEF ProjectionTyped
<1>3. ASSUME e.topic = "code_created", ApplyCodeCreated(e)
      PROVE  referrers' \in [Users -> ReferralRowType] /\ bindings' = bindings /\ Indexed' = Played(e, J)
  <2> DEFINE x == e.who
             i == referrers[x]
             c == e.code
             row == [i EXCEPT !.code = c]
  <2>1. x \in Users /\ c \in Codes
    BY <1>3 DEF EventType
  <2>2. i \in ReferralRowType
    BY <1>2, <2>1
  <2>3. referrers' = [referrers EXCEPT ![x] = row] /\ bindings' = bindings
    BY <1>3 DEF ApplyCodeCreated
  <2>4. J[x].earned = i.earned /\ J[x].claimable = i.claimable
    BY <1>1, <2>1
  <2>5. Played(e, J) = [J EXCEPT ![x] = [coded |-> TRUE, earned |-> J[x].earned, claimable |-> J[x].claimable]]
    BY <1>3 DEF Played, Coded
  <2> HIDE DEF x, i, c, J
  <2>6. row \in ReferralRowType /\ row.code = c /\ row.earned = i.earned /\ row.claimable = i.claimable
    BY <2>1, <2>2 DEF ReferralRowType
  <2>7. (c # NoCode) = TRUE
    BY <2>1, ReferralConstants DEF NoCode
  <2> HIDE DEF row
  <2>9. Indexed' = [Indexed EXCEPT ![x] = [coded |-> row.code # NoCode, earned |-> row.earned, claimable |-> row.claimable]]
    BY <2>1, <2>3, <2>6, RowChanged
  <2>8. Indexed' = [Indexed EXCEPT ![x] = [coded |-> c # NoCode, earned |-> i.earned, claimable |-> i.claimable]]
    BY <2>6, <2>9
  <2> QED
    BY <2>1, <2>3, <2>4, <2>5, <2>6, <2>7, <2>8, RowChanged DEF J
<1>4. ASSUME e.topic = "referrer_set", ApplyReferrerSet(e)
      PROVE  /\ referrers' \in [Users -> ReferralRowType] /\ bindings' \in [Users -> Users \cup {NoUser}]
             /\ Indexed' = Played(e, J)
  <2>1. Played(e, J) = J
    BY <1>4 DEF Played
  <2>2. CASE UNCHANGED <<referrers, bindings>>
    BY <1>2, <2>1, <2>2 DEF Indexed
  <2>3. CASE bindings' = [bindings EXCEPT ![e.who] = e.referrer] /\ referrers' = [referrers EXCEPT ![e.referrer].count = @ + 1]
    <3> DEFINE x == e.referrer
               i == referrers[x]
               row == [i EXCEPT !.count = @ + 1]
    <3>1. x \in Users /\ e.who \in Users
      BY <1>4 DEF EventType
    <3>2. i \in ReferralRowType
      BY <1>2, <3>1
    <3>3. referrers' = [referrers EXCEPT ![x] = row] /\ bindings' \in [Users -> Users \cup {NoUser}]
      BY <1>2, <2>3, <3>1
    <3>4. J[x] = [coded |-> i.code # NoCode, earned |-> i.earned, claimable |-> i.claimable]
      BY <1>1, <3>1
    <3> HIDE DEF x, i, J
    <3>5. row \in ReferralRowType /\ row.code = i.code /\ row.earned = i.earned /\ row.claimable = i.claimable
      BY <3>2 DEF ReferralRowType
    <3> HIDE DEF row
    <3>8. /\ referrers' \in [Users -> ReferralRowType]
          /\ Indexed' = [Indexed EXCEPT ![x] = [coded |-> row.code # NoCode, earned |-> row.earned, claimable |-> row.claimable]]
      BY <3>1, <3>3, <3>5, RowChanged
    <3>6. Indexed' = [Indexed EXCEPT ![x] = [coded |-> i.code # NoCode, earned |-> i.earned, claimable |-> i.claimable]]
      BY <3>5, <3>8
    <3>9. J = [v \in Users |-> J[v]]
      BY DEF Indexed, J
    <3>7. [J EXCEPT ![x] = J[x]] = J
      BY <3>1, <3>9
    <3> QED
      BY <2>1, <3>3, <3>4, <3>6, <3>7, <3>8 DEF J
  <2> QED
    BY <1>4, <2>2, <2>3 DEF ApplyReferrerSet
<1>5. ASSUME e.topic = "trade_recorded", ApplyTradeRecorded(e)
      PROVE  referrers' \in [Users -> ReferralRowType] /\ bindings' = bindings /\ Indexed' = Played(e, J)
  <2> DEFINE x == e.referrer
             i == referrers[x]
             vols == i.volume + e.fee
             earns == i.earned + e.payout
             owes == i.claimable + e.payout
             row == [i EXCEPT !.volume = vols, !.earned = earns, !.claimable = owes]
  <2>1. x \in Users /\ e.fee \in Nat /\ e.payout \in Nat
    BY <1>5 DEF EventType
  <2>2. i \in ReferralRowType
    BY <1>2, <2>1
  <2>3. referrers' = [referrers EXCEPT ![x] = row] /\ bindings' = bindings
    BY <1>5 DEF ApplyTradeRecorded
  <2>4. J[x].coded = (i.code # NoCode) /\ J[x].earned = i.earned /\ J[x].claimable = i.claimable
    BY <1>1, <2>1
  <2>5. Played(e, J) = [J EXCEPT ![x] = [coded |-> J[x].coded, earned |-> J[x].earned + e.payout, claimable |-> J[x].claimable + e.payout]]
    BY <1>5 DEF Played, Credited
  <2> HIDE DEF x, i, J
  <2>6. vols \in Nat /\ earns \in Nat /\ owes \in Nat
    BY <2>1, <2>2 DEF ReferralRowType
  <2>7. Played(e, J) = [J EXCEPT ![x] = [coded |-> i.code # NoCode, earned |-> earns, claimable |-> owes]]
    BY <2>4, <2>5
  <2> HIDE DEF vols, earns, owes
  <2>8. row \in ReferralRowType /\ row.code = i.code /\ row.earned = earns /\ row.claimable = owes
    BY <2>2, <2>6 DEF ReferralRowType
  <2> HIDE DEF row
  <2>9. /\ referrers' \in [Users -> ReferralRowType]
        /\ Indexed' = [Indexed EXCEPT ![x] = [coded |-> i.code # NoCode, earned |-> earns, claimable |-> owes]]
    BY <2>1, <2>3, <2>8, RowChanged
  <2> QED
    BY <2>3, <2>7, <2>9 DEF J
<1>6. ASSUME e.topic = "claimed", ApplyClaimed(e)
      PROVE  referrers' \in [Users -> ReferralRowType] /\ bindings' = bindings /\ Indexed' = Played(e, J)
  <2> DEFINE x == e.who
             i == referrers[x]
             row == [i EXCEPT !.claimable = 0]
  <2>1. x \in Users
    BY <1>6 DEF EventType
  <2>2. i \in ReferralRowType
    BY <1>2, <2>1
  <2>3. referrers' = [referrers EXCEPT ![x] = row] /\ bindings' = bindings
    BY <1>6 DEF ApplyClaimed
  <2>4. J[x].coded = (i.code # NoCode) /\ J[x].earned = i.earned
    BY <1>1, <2>1
  <2>5. Played(e, J) = [J EXCEPT ![x] = [coded |-> J[x].coded, earned |-> J[x].earned, claimable |-> 0]]
    BY <1>6 DEF Played, PaidOut
  <2> HIDE DEF x, i, J
  <2>6. row \in ReferralRowType /\ row.code = i.code /\ row.earned = i.earned /\ row.claimable = 0
    BY <2>2 DEF ReferralRowType
  <2> HIDE DEF row
  <2>7. /\ referrers' \in [Users -> ReferralRowType]
        /\ Indexed' = [Indexed EXCEPT ![x] = [coded |-> i.code # NoCode, earned |-> i.earned, claimable |-> 0]]
    BY <2>1, <2>3, <2>6, RowChanged
  <2> QED
    BY <2>3, <2>4, <2>5, <2>7 DEF J
<1> QED
  BY <1>2, <1>3, <1>4, <1>5, <1>6

LEMMA IndexerKeeps ==
  ASSUME RInv, IndexEvent \/ DeadLetter
  PROVE  RInv'
<1>1. UNCHANGED registryVars /\ projected < Len(trail) /\ projected' = projected + 1
  BY DEF IndexEvent, DeadLetter
<1>2. UNCHANGED <<version, codeOwner, info, referrerOf, potFunds, claimedBy, short, trail>>
  BY <1>1 DEF registryVars
<1>3. RegistryTyped' /\ OnlyOwnersEarn' /\ EarnedNeverBurned'
  BY <1>2 DEF RInv, RegistryTyped, OnlyOwnersEarn, HasCode, EarnedNeverBurned
<1>4. Registered' = Registered /\ Claimable' = Claimable
  BY <1>2, SameMoney DEF RInv, RegistryTyped
<1>5. BooksBalance'
  BY <1>2, <1>4 DEF RInv, BooksBalance
<1> DEFINE n == Len(trail)
           e == trail[projected + 1]
<1>6. n \in Nat /\ projected \in Nat /\ projected + 1 \in 1..n /\ e \in EventType
  BY <1>1 DEF RInv, RegistryTyped, ProjectionTyped
<1>7. PICK h \in [0..n -> [Users -> MoneyType]] : Replayed(h)
  BY DEF RInv, OneLedger
<1>8. ProjectionTyped' /\ (deadLetters' = 0 => h[projected'] = Indexed')
  <2>1. CASE IndexEvent
    <3>1. deadLetters' = deadLetters
      BY <2>1 DEF IndexEvent
    <3>2. /\ referrers' \in [Users -> ReferralRowType] /\ bindings' \in [Users -> Users \cup {NoUser}]
          /\ Indexed' = Played(e, Indexed)
      <4>1. \/ e.topic = "code_created" /\ ApplyCodeCreated(e)
            \/ e.topic = "referrer_set" /\ ApplyReferrerSet(e)
            \/ e.topic = "trade_recorded" /\ ApplyTradeRecorded(e)
            \/ e.topic = "claimed" /\ ApplyClaimed(e)
        BY <2>1 DEF IndexEvent
      <4> HIDE DEF e
      <4> QED
        BY <1>6, <4>1, EventIndexed DEF RInv
    <3>3. h[projected + 1] = Played(e, h[projected])
      <4>1. h[projected + 1] = Played(trail[projected + 1], h[(projected + 1) - 1])
        BY <1>6, <1>7 DEF Replayed
      <4>2. (projected + 1) - 1 = projected
        BY <1>6
      <4> QED
        BY <4>1, <4>2
    <3>4. deadLetters = 0 => h[projected] = Indexed
      BY <1>7 DEF Replayed
    <3> QED
      BY <1>1, <1>2, <1>6, <3>1, <3>2, <3>3, <3>4 DEF ProjectionTyped
  <2>2. CASE DeadLetter
    BY <1>1, <1>2, <1>6, <2>2 DEF RInv, ProjectionTyped, DeadLetter
  <2> QED
    BY <2>1, <2>2
<1>9. OneLedger'
  BY <1>2, <1>4, <1>7, <1>8 DEF OneLedger, Replayed
<1> QED
  BY <1>3, <1>5, <1>8, <1>9 DEF RInv

----------------------------------------------------------------------------
(***************************************************************************)
(* The referral page.                                                      *)
(***************************************************************************)
SomeCode == Codes \cup {NoCode}
AnswerType == [state : {"asked", "none", "found", "error"}, self : RowType, bound : SomeCode]

RefPageTyped ==
    /\ refAccount \in Users \cup {NoUser} /\ signedIn \in BOOLEAN /\ (signedIn => refAccount # NoUser)
    /\ stored \in SomeCode /\ captured \in SomeCode /\ banner \in SomeCode /\ typed \in SomeCode
    /\ bound \in SomeCode /\ optBound \in SomeCode /\ self \in RowType /\ optSelf \in RowType
    /\ boundHere \in BOOLEAN /\ timers \subseteq {"park", "clear"} /\ memo \in {"none", "asking", "yes"}
    /\ calls \subseteq CallType /\ \A k \in calls : k.kind # "claim" => k.code \in Codes

\* One read at most, of the wallet that is connected
OwnReads == reads = {} \/ (refAccount \in Users /\ \E a \in AnswerType : reads = {[who |-> refAccount, answer |-> a]})

\* The gate opens for the funded registry only, so no claim of this page reaches the one that pays nothing
GateFunded == (enabled => version = "v1") /\ \A k \in calls : k.kind = "claim" => version = "v1"

\* The stored code is cleared by a bind that succeeded
ClearedByBind == InviteKept /\ ("clear" \in timers => boundHere)

\* A confirmed registration stands behind an optimistic row
ConfirmedShown == confirmed # NoUser => optSelf # NoSelf

PageInv == RefPageTyped /\ OwnReads /\ GateFunded /\ ClearedByBind /\ ConfirmedShown
RefInv == RInv /\ PageInv

LEMMA RowsAreTyped ==
         /\ NoSelf \in RowType /\ NoCode \in SomeCode
         /\ NotYet \in AnswerType /\ NotFound \in AnswerType /\ Failed \in AnswerType
         /\ NoUser \notin Users /\ NoCode \notin Codes
<1>1. NoSelf \in RowType
  BY DEF NoSelf, RowType
<1> QED
  BY <1>1, ReferralConstants DEF SomeCode, AnswerType, NotYet, NotFound, Failed, NoUser, NoCode

LEMMA AnswersAreTyped ==
  ASSUME ProjectionTyped, NEW u \in Users
  PROVE  RefAnswer(u) \in AnswerType
<1>1. referrers[u] \in ReferralRowType /\ bindings[u] \in Users \cup {NoUser}
  BY DEF ProjectionTyped
<1>2. GetReferrerByAddress(u) \in RowType
  <2> DEFINE i == referrers[u]
  <2>1. i.code \in Codes \cup {NoCode} /\ i.claimable \in Nat
    BY <1>1 DEF ReferralRowType
  <2> HIDE DEF i
  <2>2. [who |-> u, code |-> i.code, claimable |-> i.claimable] \in RowType
    BY <2>1 DEF RowType
  <2> QED
    BY <2>2, RowsAreTyped DEF GetReferrerByAddress, i
<1>3. GetBindingForReferee(u) \in SomeCode
  <2>1. CASE bindings[u] = NoUser
    BY <2>1, RowsAreTyped DEF GetBindingForReferee
  <2>2. CASE bindings[u] \in Users
    <3>1. referrers[bindings[u]] \in ReferralRowType
      BY <2>2 DEF ProjectionTyped
    <3>2. referrers[bindings[u]].code \in SomeCode
      BY <3>1 DEF ReferralRowType, SomeCode
    <3> QED
      BY <2>2, <3>2, RowsAreTyped DEF GetBindingForReferee
  <2> QED
    BY <1>1, <2>1, <2>2
<1>4. Found(u) \in AnswerType
  BY <1>2, <1>3 DEF Found, AnswerType
<1> QED
  BY <1>4, RowsAreTyped DEF RefAnswer, GetMe, GetInfo

LEMMA FreshReads ==
  ASSUME NEW u \in Users \cup {NoUser}
  PROVE  NewRead(u) = {} \/ (u \in Users /\ \E a \in AnswerType : NewRead(u) = {[who |-> u, answer |-> a]})
BY RowsAreTyped DEF NewRead

LEMMA RegistryRests ==
  ASSUME RInv, UNCHANGED referralVars
  PROVE  RInv' /\ version' = version
<1>1. UNCHANGED <<version, codeOwner, info, referrerOf, potFunds, claimedBy, short, trail, projectionVars>>
  BY DEF referralVars, registryVars
<1>2. RegistryTyped' /\ ProjectionTyped' /\ OnlyOwnersEarn' /\ EarnedNeverBurned'
  BY <1>1 DEF RInv, RegistryTyped, ProjectionTyped, projectionVars, OnlyOwnersEarn, HasCode, EarnedNeverBurned
<1>3. Registered' = Registered /\ Claimable' = Claimable
  BY <1>1, SameMoney DEF RInv, RegistryTyped
<1>4. BooksBalance' /\ OneLedger'
  BY <1>1, <1>3, NothingRecorded DEF RInv, BooksBalance
<1> QED
  BY <1>1, <1>2, <1>4 DEF RInv

LEMMA PageStarts == ASSUME ReferralPageInit PROVE RefInv
<1>1. RInv
  BY RegistryStarts DEF ReferralPageInit
<1>2. PageInv
  BY RowsAreTyped DEF ReferralPageInit, PageInv, RefPageTyped, OwnReads, GateFunded, ClearedByBind, InviteKept, ConfirmedShown
<1> QED
  BY <1>1, <1>2 DEF RefInv

\* Another wallet, another session: the rows of the old one are gone
LEMMA SwitchKeeps ==
  ASSUME RefInv, SignInOut \/ \E u \in Users \cup {NoUser} : SwitchAccount(u)
  PROVE  RefInv'
<1>1. RInv' /\ version' = version
  BY RegistryRests DEF RefInv, SignInOut, SwitchAccount
<1>2. refAccount' \in Users \cup {NoUser} /\ reads' = NewRead(refAccount')
  BY DEF RefInv, PageInv, RefPageTyped, SignInOut, SwitchAccount, sessionVars
<1>3. OwnReads'
  BY <1>2, FreshReads DEF OwnReads
<1>4. /\ optSelf' = NoSelf /\ optBound' = NoCode /\ confirmed' = NoUser /\ self' \in {self, NoSelf} /\ bound' \in {bound, NoCode}
      /\ calls' \subseteq calls /\ UNCHANGED <<inviteVars, memo>> /\ (enabled' => enabled)
      /\ signedIn' \in BOOLEAN /\ (signedIn' => refAccount' # NoUser)
  <2>1. CASE SignInOut
    <3>1. calls' \subseteq calls
      BY <2>1 DEF SignInOut
    <3> QED
      BY <2>1, <3>1 DEF RefInv, PageInv, RefPageTyped, SignInOut
  <2>2. ASSUME NEW u \in Users \cup {NoUser}, SwitchAccount(u)
        PROVE  /\ optSelf' = NoSelf /\ optBound' = NoCode /\ confirmed' = NoUser /\ self' \in {self, NoSelf} /\ bound' \in {bound, NoCode}
               /\ calls' \subseteq calls /\ UNCHANGED <<inviteVars, memo>> /\ (enabled' => enabled)
               /\ signedIn' \in BOOLEAN /\ (signedIn' => refAccount' # NoUser)
    <3>1. calls' \subseteq calls
      BY <2>2 DEF SwitchAccount
    <3> QED
      BY <2>2, <3>1 DEF SwitchAccount, gateVars
  <2> QED
    BY <2>1, <2>2
<1>5. RefPageTyped'
  BY <1>2, <1>4, RowsAreTyped DEF RefInv, PageInv, RefPageTyped, inviteVars
<1>6. GateFunded' /\ ClearedByBind' /\ ConfirmedShown'
  BY <1>1, <1>4 DEF RefInv, PageInv, GateFunded, ClearedByBind, InviteKept, ConfirmedShown, inviteVars
<1> QED
  BY <1>1, <1>3, <1>5, <1>6 DEF RefInv, PageInv

\* A read answers for the wallet it was made for, and only its rows are taken over
LEMMA ReadsKeep ==
  ASSUME RefInv, Refresh \/ \E r \in reads : Serve(r) \/ Arrive(r)
  PROVE  RefInv'
<1>1. RInv' /\ version' = version
  BY RegistryRests DEF RefInv, Refresh, Serve, Arrive
<1>2. /\ UNCHANGED <<sessionVars, inviteVars, gateVars, calls, optSelf, optBound, confirmed>>
  BY DEF Refresh, Serve, Arrive
<1>3. /\ UNCHANGED <<refAccount, signedIn, stored, captured, boundHere, banner, timers, typed, memo, enabled>>
  BY <1>2 DEF sessionVars, inviteVars, gateVars
<1>4. OwnReads' /\ self' \in RowType /\ bound' \in SomeCode
  <2>1. CASE Refresh
    <3>1. reads' = NewRead(refAccount) /\ refAccount \in Users \cup {NoUser} /\ UNCHANGED <<self, bound>>
      BY <2>1 DEF RefInv, PageInv, RefPageTyped, Refresh
    <3> QED
      BY <1>3, <3>1, FreshReads DEF RefInv, PageInv, RefPageTyped, OwnReads
  <2>2. ASSUME NEW r \in reads, Serve(r) PROVE OwnReads' /\ self' \in RowType /\ bound' \in SomeCode
    <3>1. PICK a \in AnswerType : reads = {[who |-> refAccount, answer |-> a]} /\ refAccount \in Users
      BY <2>2 DEF RefInv, PageInv, OwnReads
    <3>2. r.who = refAccount /\ reads = {r} /\ r = [who |-> refAccount, answer |-> a]
      BY <3>1
    <3>3. PICK b \in {RefAnswer(r.who), Failed} : reads' = (reads \ {r}) \cup {[r EXCEPT !.answer = b]}
      BY <2>2 DEF Serve
    <3>4. b \in AnswerType
      BY <3>1, <3>2, <3>3, AnswersAreTyped, RowsAreTyped DEF RefInv, RInv
    <3>5. [r EXCEPT !.answer = b] = [who |-> refAccount, answer |-> b]
      BY <3>2
    <3>6. reads' = {[who |-> refAccount, answer |-> b]}
      BY <3>2, <3>3, <3>5
    <3> QED
      BY <1>3, <2>2, <3>1, <3>4, <3>6 DEF RefInv, PageInv, RefPageTyped, OwnReads, Serve
  <2>3. ASSUME NEW r \in reads, Arrive(r) PROVE OwnReads' /\ self' \in RowType /\ bound' \in SomeCode
    <3>1. PICK a \in AnswerType : reads = {[who |-> refAccount, answer |-> a]}
      BY <2>3 DEF RefInv, PageInv, OwnReads
    <3>2. r.answer = a /\ reads' = {}
      BY <2>3, <3>1 DEF Arrive
    <3>3. a.self \in RowType /\ a.bound \in SomeCode
      BY <3>1 DEF AnswerType
    <3> QED
      BY <2>3, <3>2, <3>3 DEF RefInv, PageInv, RefPageTyped, OwnReads, Arrive
  <2> QED
    BY <2>1, <2>2, <2>3
<1>5. RefPageTyped'
  BY <1>2, <1>3, <1>4 DEF RefInv, PageInv, RefPageTyped
<1>6. GateFunded' /\ ClearedByBind' /\ ConfirmedShown'
  BY <1>1, <1>2, <1>3 DEF RefInv, PageInv, GateFunded, ClearedByBind, InviteKept, ConfirmedShown
<1> QED
  BY <1>1, <1>4, <1>5, <1>6 DEF RefInv, PageInv

\* An invite goes when a bind succeeded, never by a dismissal or a load
LEMMA InviteKeeps ==
  ASSUME RefInv, \/ \E c \in Codes \cup {NoCode} : RefLoad(c)
                 \/ RefDismiss
                 \/ \E t \in timers : Fire(t)
                 \/ \E c \in Codes : TypeCode(c)
  PROVE  RefInv'
<1>1. RInv' /\ version' = version
  BY RegistryRests DEF RefInv, RefLoad, RefDismiss, Fire, TypeCode
<1>2. refAccount' = refAccount /\ signedIn' = signedIn
  BY DEF RefLoad, RefDismiss, Fire, TypeCode, sessionVars
<1>3. RefPageTyped /\ OwnReads /\ GateFunded /\ ClearedByBind /\ ConfirmedShown
  BY DEF RefInv, PageInv
<1>4. ASSUME NEW c \in Codes \cup {NoCode}, RefLoad(c) PROVE PageInv'
  <2>1. /\ CaptureReferralFromLocation(c) /\ banner' \in {NoCode, stored'} /\ typed' = stored'
        /\ timers' = {} /\ calls' = {} /\ memo' = "none" /\ enabled' = FALSE
        /\ self' = NoSelf /\ bound' = NoCode /\ optSelf' = NoSelf /\ optBound' = NoCode /\ confirmed' = NoUser
        /\ reads' = NewRead(refAccount)
    BY <1>4 DEF RefLoad
  <2>2. stored' \in SomeCode /\ captured' \in SomeCode /\ boundHere' \in BOOLEAN
    BY <1>3, <1>4, <2>1 DEF CaptureReferralFromLocation, RefPageTyped, SomeCode
  <2>3. RefPageTyped'
    BY <1>2, <1>3, <2>1, <2>2, RowsAreTyped DEF RefPageTyped
  <2>4. OwnReads'
    BY <1>2, <1>3, <2>1, FreshReads DEF OwnReads, RefPageTyped
  <2>5. ClearedByBind'
    BY <1>3, <2>1 DEF ClearedByBind, InviteKept, CaptureReferralFromLocation
  <2> QED
    BY <2>1, <2>3, <2>4, <2>5 DEF PageInv, GateFunded, ConfirmedShown
<1>5. ASSUME \/ RefDismiss
             \/ \E t \in timers : Fire(t)
             \/ \E c \in Codes : TypeCode(c)
      PROVE  PageInv'
  <2>1. UNCHANGED <<captured, boundHere, self, bound, optSelf, optBound, reads, confirmed, memo, enabled, calls>>
    BY <1>5 DEF RefDismiss, Fire, TypeCode, rowVars, gateVars
  <2>2. /\ banner' \in {banner, NoCode} /\ typed' \in SomeCode /\ timers' \subseteq {"park", "clear"}
        /\ ("clear" \in timers' => "clear" \in timers)
        /\ \/ stored' = stored
           \/ stored' = NoCode /\ "clear" \in timers
    <3>1. CASE RefDismiss
      BY <1>3, <3>1 DEF RefDismiss, RefPageTyped
    <3>2. ASSUME NEW t \in timers, Fire(t)
          PROVE  /\ banner' = NoCode /\ typed' = typed /\ timers' \subseteq timers
                 /\ (stored' = stored \/ (stored' = NoCode /\ "clear" \in timers))
      <4>1. t \in {"park", "clear"}
        BY <1>3 DEF RefPageTyped
      <4> QED
        BY <3>2, <4>1 DEF Fire, ParkPendingReferral, ClearPendingReferral
    <3>3. CASE \E c \in Codes : TypeCode(c)
      BY <1>3, <3>3 DEF TypeCode, RefPageTyped, SomeCode
    <3> QED
      BY <1>3, <1>5, <3>1, <3>2, <3>3 DEF RefPageTyped
  <2>3. RefPageTyped'
    BY <1>2, <1>3, <2>1, <2>2, RowsAreTyped DEF RefPageTyped
  <2>4. ClearedByBind'
    BY <1>3, <2>1, <2>2 DEF ClearedByBind, InviteKept
  <2> QED
    BY <1>1, <1>2, <1>3, <2>1, <2>3, <2>4 DEF PageInv, OwnReads, GateFunded, ConfirmedShown
<1> QED
  BY <1>1, <1>4, <1>5 DEF RefInv

\* A claim is asked for only through an open gate
LEMMA AsksKeep ==
  ASSUME RefInv, BannerBind \/ BoxSubmit \/ ClaimClick \/ \E c \in Codes : RegisterSubmit(c)
  PROVE  RefInv'
<1>1. RefPageTyped /\ OwnReads /\ GateFunded /\ ClearedByBind /\ ConfirmedShown
  BY DEF RefInv, PageInv
<1>2. PICK kind \in {"banner", "box", "create", "claim"}, c \in SomeCode, step \in {"look", "sent"} :
        /\ RefAsk(kind, c, step)
        /\ (kind # "claim" => c \in Codes) /\ (kind = "claim" => enabled)
  <2>1. CASE BannerBind
    BY <1>1, <2>1 DEF BannerBind, RefPageTyped, SomeCode
  <2>2. CASE BoxSubmit
    BY <1>1, <2>2 DEF BoxSubmit, RefPageTyped, SomeCode
  <2>3. CASE ClaimClick
    BY <2>3 DEF ClaimClick, ClaimsOpen, SomeCode
  <2>4. CASE \E c \in Codes : RegisterSubmit(c)
    BY <2>4 DEF RegisterSubmit, SomeCode
  <2> QED
    BY <2>1, <2>2, <2>3, <2>4
<1> DEFINE k == [kind |-> kind, who |-> refAccount, code |-> c, step |-> step]
<1>3. /\ UNCHANGED <<referralVars, sessionVars, inviteVars, rowVars, gateVars>>
      /\ refAccount \in Users /\ calls' = calls \cup {k}
  BY <1>1, <1>2 DEF RefAsk, RefPageTyped
<1>4. k \in CallType /\ (k.kind # "claim" => k.code \in Codes) /\ (k.kind = "claim" => enabled)
  BY <1>2, <1>3 DEF CallType, SomeCode
<1>5. RInv' /\ version' = version
  BY <1>3, RegistryRests DEF RefInv
<1>6. /\ UNCHANGED <<refAccount, signedIn, stored, captured, boundHere, banner, timers, typed, self, bound, optSelf, optBound>>
      /\ UNCHANGED <<reads, confirmed, memo, enabled>>
  BY <1>3 DEF sessionVars, inviteVars, rowVars, gateVars
<1> HIDE DEF k
<1>7. RefPageTyped' /\ OwnReads' /\ GateFunded' /\ ClearedByBind' /\ ConfirmedShown'
  BY <1>1, <1>3, <1>4, <1>5, <1>6
     DEF RefPageTyped, OwnReads, GateFunded, ClearedByBind, InviteKept, ConfirmedShown
<1> QED
  BY <1>5, <1>7 DEF RefInv, PageInv

\* The gate asks the registry, and believes it when it says that it is funded
LEMMA GateKeeps ==
  ASSUME RefInv, ReferralClaimsEnabled \/ RefProbeAnswers
  PROVE  RefInv'
<1>1. RefPageTyped /\ OwnReads /\ GateFunded /\ ClearedByBind /\ ConfirmedShown
  BY DEF RefInv, PageInv
<1>2. /\ UNCHANGED <<referralVars, sessionVars, inviteVars, rowVars, calls>> /\ memo' \in {"none", "asking", "yes"}
      /\ (enabled' => enabled \/ version = "v1")
  <2>1. CASE ReferralClaimsEnabled
    BY <2>1 DEF ReferralClaimsEnabled
  <2>2. CASE RefProbeAnswers
    <3>1. PICK readable \in BOOLEAN : enabled' = (enabled \/ (readable /\ version = "v1"))
      BY <2>2 DEF RefProbeAnswers
    <3>2. memo' \in {"none", "asking", "yes"}
      BY <2>2 DEF RefProbeAnswers
    <3>3. enabled' => enabled \/ version = "v1"
      BY <3>1
    <3> QED
      BY <2>2, <3>2, <3>3 DEF RefProbeAnswers
  <2> QED
    BY <2>1, <2>2
<1>3. RInv' /\ version' = version
  BY <1>2, RegistryRests DEF RefInv
<1>4. /\ UNCHANGED <<refAccount, signedIn, stored, captured, boundHere, banner, timers, typed, self, bound, optSelf, optBound>>
      /\ UNCHANGED <<reads, confirmed>>
  BY <1>2 DEF sessionVars, inviteVars, rowVars
<1>5. RefPageTyped' /\ OwnReads' /\ GateFunded' /\ ClearedByBind' /\ ConfirmedShown'
  BY <1>1, <1>2, <1>3, <1>4
     DEF RefPageTyped, OwnReads, GateFunded, ClearedByBind, InviteKept, ConfirmedShown
<1> QED
  BY <1>3, <1>5 DEF RefInv, PageInv

\* What the callbacks of an answered call leave behind
LEMMA CallsKeep ==
  ASSUME RefInv, \E k \in calls : LookupCode(k) \/ RefFail(k) \/ RefDone(k)
  PROVE  RefInv'
<1>1. RefPageTyped /\ OwnReads /\ GateFunded /\ ClearedByBind /\ ConfirmedShown
  BY DEF RefInv, PageInv
<1>2. RInv' /\ version' = version
  BY RegistryRests DEF RefInv, LookupCode, RefFail, RefDone
<1>3. UNCHANGED <<refAccount, signedIn, memo, enabled>>
  BY DEF LookupCode, RefFail, RefDone, sessionVars, gateVars
<1>4. \A i \in calls' : \E k \in calls : i.kind = k.kind /\ i.code = k.code /\ i \in CallType
  <2>1. ASSUME NEW k \in calls, LookupCode(k)
        PROVE  \A i \in calls' : \E j \in calls : i.kind = j.kind /\ i.code = j.code /\ i \in CallType
    <3> DEFINE n == [k EXCEPT !.step = "sent"]
    <3>1. k \in CallType
      BY <1>1 DEF RefPageTyped
    <3>2. n \in CallType /\ n.kind = k.kind /\ n.code = k.code
      BY <3>1 DEF CallType
    <3>3. calls' \subseteq calls \cup {n}
      BY <2>1 DEF LookupCode, Move
    <3> QED
      BY <1>1, <3>2, <3>3 DEF RefPageTyped
  <2>2. ASSUME NEW k \in calls, RefFail(k) \/ RefDone(k) PROVE calls' \subseteq calls
    BY <2>2 DEF RefFail, RefDone
  <2> QED
    BY <1>1, <2>1, <2>2 DEF RefPageTyped
<1>5. ASSUME NEW k \in calls, LookupCode(k) \/ RefFail(k) PROVE PageInv'
  <2>1. UNCHANGED <<inviteVars, rowVars>>
    BY <1>5 DEF LookupCode, RefFail
  <2>2. UNCHANGED <<stored, captured, boundHere, banner, timers, typed, self, bound, optSelf, optBound, reads, confirmed>>
    BY <2>1 DEF inviteVars, rowVars
  <2> QED
    BY <1>1, <1>2, <1>3, <1>4, <2>2
       DEF PageInv, RefPageTyped, OwnReads, GateFunded, ClearedByBind, InviteKept, ConfirmedShown
<1>6. ASSUME NEW k \in calls, RefDone(k) PROVE PageInv'
  <2>1. k \in CallType /\ (k.kind # "claim" => k.code \in Codes)
    BY <1>1 DEF RefPageTyped
  <2>2. CASE /\ k.kind = "banner" /\ timers' = timers \cup {"clear"} /\ boundHere' = TRUE
             /\ UNCHANGED <<stored, parked, captured, banner, typed, rowVars>>
    <3>1. UNCHANGED <<self, bound, optSelf, optBound, reads, confirmed>>
      BY <2>2 DEF rowVars
    <3> QED
      BY <1>1, <1>2, <1>3, <1>4, <2>2, <3>1
         DEF PageInv, RefPageTyped, OwnReads, GateFunded, ClearedByBind, InviteKept, ConfirmedShown
  <2>3. CASE /\ k.kind = "box" /\ ClearPendingReferral /\ typed' = NoCode /\ optBound' = k.code /\ boundHere' = TRUE
             /\ UNCHANGED <<captured, banner, timers, self, bound, optSelf, reads, confirmed>>
    <3>1. k.code \in SomeCode
      BY <2>1, <2>3 DEF SomeCode
    <3>2. RefPageTyped'
      BY <1>1, <1>3, <1>4, <2>3, <3>1, RowsAreTyped DEF RefPageTyped, ClearPendingReferral
    <3> QED
      BY <1>1, <1>2, <1>3, <1>4, <2>3, <3>2
         DEF PageInv, OwnReads, GateFunded, ClearedByBind, InviteKept, ConfirmedShown
  <2>4. CASE /\ k.kind = "create" /\ optSelf' = OnCreated(k)
             /\ confirmed' = (IF k.who = refAccount THEN refAccount ELSE confirmed)
             /\ UNCHANGED <<inviteVars, self, bound, optBound, reads>>
    <3>1. OnCreated(k) \in RowType /\ OnCreated(k) # NoSelf
      <4>1. k.who \in Users /\ k.code \in Codes /\ k.who # NoUser
        BY <2>1, <2>4, RowsAreTyped DEF CallType
      <4>2. OnCreated(k) = [who |-> k.who, code |-> k.code, claimable |-> 0]
        BY DEF OnCreated, MakeOptimisticReferrerRow
      <4>3. NoSelf.who = NoUser /\ OnCreated(k).who = k.who
        BY <4>2 DEF NoSelf
      <4>4. OnCreated(k) \in RowType
        BY <4>1, <4>2 DEF RowType
      <4> QED
        BY <4>1, <4>3, <4>4
    <3>2. UNCHANGED <<stored, captured, boundHere, banner, timers, typed>>
      BY <2>4 DEF inviteVars
    <3>3. RefPageTyped'
      BY <1>1, <1>3, <1>4, <2>4, <3>1, <3>2 DEF RefPageTyped
    <3>4. ConfirmedShown'
      BY <2>4, <3>1 DEF ConfirmedShown
    <3> QED
      BY <1>1, <1>2, <1>3, <1>4, <2>4, <3>2, <3>3, <3>4
         DEF PageInv, OwnReads, GateFunded, ClearedByBind, InviteKept
  <2>5. CASE /\ k.kind = "claim" /\ reads' = NewRead(refAccount)
             /\ UNCHANGED <<inviteVars, self, bound, optSelf, optBound, confirmed>>
    <3>1. UNCHANGED <<stored, captured, boundHere, banner, timers, typed>>
      BY <2>5 DEF inviteVars
    <3>2. OwnReads'
      BY <1>1, <1>3, <2>5, FreshReads DEF OwnReads, RefPageTyped
    <3> QED
      BY <1>1, <1>2, <1>3, <1>4, <2>5, <3>1, <3>2
         DEF PageInv, RefPageTyped, GateFunded, ClearedByBind, InviteKept, ConfirmedShown
  <2> QED
    BY <1>6, <2>2, <2>3, <2>4, <2>5 DEF RefDone
<1> QED
  BY <1>2, <1>5, <1>6 DEF RefInv

\* The registry's calls, by whoever makes them
LEMMA RegistryKeeps ==
  ASSUME RInv, UNCHANGED projectionVars,
         \/ RegistryStep
         \/ \E u \in Users, c \in Codes : SetReferrer(u, c) \/ CreateCode(u, c)
         \/ \E u \in Users : Claim(u)
  PROVE  RInv' /\ version' \in {version, "v1"}
<1>1. RInv'
  BY RecordTradeKeeps, SetReferrerKeeps, CreateCodeKeeps, ClaimKeeps, AdministrationKeeps DEF RegistryStep
<1>2. version' \in {version, "v1"}
  BY DEF RegistryStep, RecordTrade, SetReferrer, CreateCode, Claim, RevokeCode, Unbind, SetRegistryPaused, Upgrade
<1> QED
  BY <1>1, <1>2

\* The page stands by while registry and indexer move
LEMMA PageRests ==
  ASSUME PageInv, UNCHANGED refPageVars, version' \in {version, "v1"}
  PROVE  PageInv'
<1>1. UNCHANGED <<sessionVars, inviteVars, rowVars, gateVars, calls>>
  BY DEF refPageVars
<1>2. /\ UNCHANGED <<refAccount, signedIn, stored, captured, boundHere, banner, timers, typed, self, bound, optSelf, optBound>>
      /\ UNCHANGED <<reads, confirmed, memo, enabled, calls>>
  BY <1>1 DEF sessionVars, inviteVars, rowVars, gateVars
<1> QED
  BY <1>2 DEF PageInv, RefPageTyped, OwnReads, GateFunded, ClearedByBind, InviteKept, ConfirmedShown

\* A call of the page lands
LEMMA LandingKeeps ==
  ASSUME RefInv, NEW k \in calls, RefLand(k)
  PROVE  RefInv'
<1>1. RefPageTyped /\ OwnReads /\ GateFunded /\ ClearedByBind /\ ConfirmedShown /\ RInv
  BY DEF RefInv, PageInv
<1>2. /\ k \in CallType /\ (k.kind # "claim" => k.code \in Codes) /\ (k.kind = "claim" => version = "v1")
  BY <1>1 DEF RefPageTyped, GateFunded
<1>3. OnChain(k) /\ UNCHANGED <<projectionVars, sessionVars, inviteVars, rowVars, gateVars>>
      /\ calls' = (calls \ {k}) \cup {[k EXCEPT !.step = "landed"]}
  BY DEF RefLand, Move
<1>4. k.who \in Users /\ k.kind \in {"banner", "box", "create", "claim"}
  BY <1>2 DEF CallType
<1>5. \/ \E u \in Users, c \in Codes : SetReferrer(u, c) \/ CreateCode(u, c)
      \/ \E u \in Users : Claim(u)
  <2>1. CASE k.kind \in {"banner", "box"}
    BY <1>2, <1>3, <1>4, <2>1 DEF OnChain
  <2>2. CASE k.kind = "create"
    BY <1>2, <1>3, <1>4, <2>2 DEF OnChain
  <2>3. CASE k.kind = "claim"
    <3>1. Claim(k.who) \/ ClaimV0(k.who)
      BY <1>3, <2>3 DEF OnChain
    <3>2. ~ClaimV0(k.who)
      BY <1>2, <2>3 DEF ClaimV0
    <3> QED
      BY <1>4, <3>1, <3>2
  <2> QED
    BY <1>4, <2>1, <2>2, <2>3
<1>6. RInv' /\ version' \in {version, "v1"}
  BY <1>1, <1>3, <1>5, RegistryKeeps
<1>7. /\ UNCHANGED <<refAccount, signedIn, stored, captured, boundHere, banner, timers, typed, self, bound, optSelf, optBound>>
      /\ UNCHANGED <<reads, confirmed, memo, enabled>>
  BY <1>3 DEF sessionVars, inviteVars, rowVars, gateVars
<1> DEFINE n == [k EXCEPT !.step = "landed"]
<1>8. n \in CallType /\ n.kind = k.kind /\ n.code = k.code
  BY <1>2 DEF CallType
<1>9. calls' \subseteq calls \cup {n}
  BY <1>3
<1> HIDE DEF n
<1>10. PageInv'
  BY <1>1, <1>2, <1>6, <1>7, <1>8, <1>9
     DEF PageInv, RefPageTyped, OwnReads, GateFunded, ClearedByBind, InviteKept, ConfirmedShown
<1> QED
  BY <1>6, <1>10 DEF RefInv

LEMMA RefInvIsEnough == ASSUME RefInv PROVE ReferralSound
<1>1. RInv /\ RefPageTyped /\ OwnReads /\ ClearedByBind /\ ConfirmedShown
  BY DEF RefInv, PageInv
<1>2. Cardinality(reads) <= 1 /\ \A r \in reads : r.who = refAccount
  <2>1. CASE reads = {}
    BY <2>1, FS_EmptySet
  <2>2. ASSUME NEW a \in AnswerType, reads = {[who |-> refAccount, answer |-> a]}
        PROVE  Cardinality(reads) <= 1 /\ \A r \in reads : r.who = refAccount
    <3>1. Cardinality({[who |-> refAccount, answer |-> a]}) = 1
      BY FS_Singleton
    <3> QED
      BY <2>2, <3>1
  <2> QED
    BY <1>1, <2>1, <2>2 DEF OwnReads
<1>3. ReferralTypeOK
  BY <1>1, <1>2 DEF ReferralTypeOK, RefPageTyped, SomeCode
<1>4. MoneyProjected
  <2> SUFFICES ASSUME projected = Len(trail), deadLetters = 0, NEW u \in Users
               PROVE  /\ referrers[u].claimable = info[u].claimable /\ referrers[u].earned = info[u].earned
                      /\ HasCode(u) <=> referrers[u].code # NoCode
    BY DEF MoneyProjected, NoCode
  <2>1. Registered = Indexed
    BY <1>1 DEF RInv, OneLedger, Replayed
  <2>2. Registered[u].coded = HasCode(u) /\ Registered[u].earned = info[u].earned /\ Registered[u].claimable = info[u].claimable
    BY DEF Registered
  <2>3. /\ Indexed[u].coded = (referrers[u].code # NoCode) /\ Indexed[u].earned = referrers[u].earned
        /\ Indexed[u].claimable = referrers[u].claimable
    BY DEF Indexed
  <2>4. HasCode(u) = (referrers[u].code # NoCode)
    BY <2>1, <2>2, <2>3
  <2>5. HasCode(u) <=> referrers[u].code # NoCode
    BY <2>4 DEF HasCode
  <2> QED
    BY <2>1, <2>2, <2>3, <2>5
<1>5. RegisteredStays
  BY <1>1 DEF RegisteredStays, ConfirmedShown, ShownSelf, Shown
<1> QED
  BY <1>1, <1>3, <1>4, <1>5 DEF RInv, ClearedByBind, ReferralSound

\* The registry's money is booked, projected and claimed to the unit through pauses, revocations, the upgrade,
\* lagging indexers and lost answers, and the page loses neither an invite nor a registration
THEOREM ReferralIsSound == ReferralPageSpec => []ReferralSound
<1>1. RefInv /\ [ReferralPageNext]_referralPageVars => RefInv'
  <2> SUFFICES ASSUME RefInv, [ReferralPageNext]_referralPageVars PROVE RefInv'
    OBVIOUS
  <2>1. CASE UNCHANGED referralPageVars
    BY <2>1, RegistryRests, PageRests DEF RefInv, referralPageVars
  <2>2. CASE PageStep
    BY <2>2, SwitchKeeps, ReadsKeep, CallsKeep, LandingKeeps DEF PageStep
  <2>3. CASE UNCHANGED refPageVars /\ UNCHANGED projectionVars
             /\ (RegistryStep \/ \E u \in Users, c \in Codes : SetReferrer(u, c) \/ CreateCode(u, c))
    BY <2>3, RegistryKeeps, PageRests DEF RefInv
  <2>4. CASE InviteStep
    BY <2>3, <2>4, InviteKeeps, AsksKeep DEF InviteStep
  <2>5. CASE CreateStep
    BY <2>3, <2>5, AsksKeep DEF CreateStep
  <2>6. CASE ClaimsStep
    BY <2>3, <2>6, AsksKeep, GateKeeps DEF ClaimsStep
  <2>7. CASE (IndexEvent \/ DeadLetter) /\ UNCHANGED refPageVars
    <3>1. version' = version
      BY <2>7 DEF IndexEvent, DeadLetter, registryVars
    <3> QED
      BY <2>7, <3>1, IndexerKeeps, PageRests DEF RefInv
  <2> QED
    BY <2>1, <2>2, <2>4, <2>5, <2>6, <2>7 DEF ReferralPageNext
<1>2. ReferralPageInit => RefInv
  BY PageStarts
<1>3. RefInv => ReferralSound
  BY RefInvIsEnough
<1> QED
  BY <1>1, <1>2, <1>3, PTL DEF ReferralPageSpec

----------------------------------------------------------------------------
(***************************************************************************)
(* Liquidity.  Until something crossed, one read at most is in flight, it  *)
(* is the connected wallet's, and what it found is what the ledger has or  *)
(* a transaction landed whose answer starts another read.                  *)
(***************************************************************************)
ReadState == [pc : {"idle", "ask", "answer"}, of : Wallets \cup {"none"}, shares : Int]
FlowState == [pc : {"idle", "approve", "quote", "submit", "landed"}, of : Wallets \cup {"none"}, quote : Int]

LpShape ==
    /\ lscene \in {"pool", "follower"} /\ price \in Prices /\ wallet \in Wallets \cup {"none"} /\ open \in BOOLEAN /\ crossed \in BOOLEAN
    /\ read \in [Reads -> ReadState] /\ flow \in [Ops -> FlowState]
    /\ balance \in [of : Wallets \cup {"none"}, shares : Int]
    /\ shares \in [Wallets -> Nat] /\ allowance \in [Wallets -> 0..WithdrawShares]
    /\ \A o \in Ops : flow[o].pc # "idle" => flow[o].of \in Wallets
    /\ \A t \in late : t.op \in Ops /\ t.of \in Wallets

OneRead == \A r, x \in InFlight : r = x
OneFlow == \A o, p \in Ops : flow[o].pc # "idle" /\ flow[p].pc # "idle" => o = p

\* The dialog reads and shows nothing while it is closed or nobody is connected
DialogOK ==
    lscene = "follower" =>
      /\ OneRead /\ OneFlow /\ \A r \in InFlight : read[r].of \in Wallets
      /\ ~open \/ wallet = "none" => balance = Blank /\ InFlight = {}

\* A transaction of the connected wallet has landed and its answer is not in yet
Unseen == \E o \in Ops : flow[o].pc = "landed" /\ flow[o].of = wallet
LedgerHas(of, n) == of = wallet /\ n = shares[wallet]

\* Until something crossed: the read in flight is the connected wallet's and has read what the ledger has, or a
\* transaction landed meanwhile whose answer starts another; so is the balance, which the dialog shows during a read too
ShownOK ==
    ~crossed =>
      /\ OneRead
      /\ \A r \in InFlight : read[r].of = wallet
      /\ wallet # "none" /\ ~Unseen =>
           /\ \A r \in Reads : read[r].pc = "answer" /\ read[r].shares # NotRead => read[r].shares = shares[wallet]
           /\ balance.shares # NotRead /\ (InFlight = {} \/ lscene = "follower") => LedgerHas(balance.of, balance.shares)

LpInv == LpShape /\ DialogOK /\ ShownOK /\ FillWithinTolerance

\* The assumptions on the constants, one by one
LEMMA LpConsts ==
    /\ Prices \subseteq Nat \ {0} /\ DepositUsdc \in Nat \ {0} /\ WithdrawShares \in Nat \ {0} /\ "none" \notin Wallets
    /\ LpScenes \subseteq {"pool", "follower"}
<1>1. \A x \in {DepositUsdc, WithdrawShares, BpsUnit, MaxFills} : x \in Nat \ {0}
  BY LpConstants
<1> QED
  BY <1>1, LpConstants

\* A quote is an amount
LEMMA LpQuoted ==
    ASSUME price \in Prices, NEW o \in Ops
    PROVE  Quoted(o) \in Nat
<1>1. price \in Nat \ {0} /\ DepositUsdc \in Nat /\ WithdrawShares \in Nat
  BY LpConsts
<1>2. DepositUsdc \div price \in Nat
  BY <1>1
<1>3. WithdrawShares * price \in Nat
  BY <1>1
<1> QED
  BY <1>2, <1>3 DEF Quoted

\* A read that starts is the only one the dialog has, and the only one at all unless it crosses another
LEMMA LpStartRead ==
    ASSUME LpShape, NEW w \in Wallets \cup {"none"}, NEW kept, StartRead(w, kept)
    PROVE  /\ read' \in [Reads -> ReadState] /\ crossed' \in BOOLEAN
           /\ \A x \in Reads : read'[x].pc # "answer" \/ x \in kept
           /\ kept = {} => OneRead' /\ \A x \in InFlight' : read'[x].of = w
           /\ InFlight' # {}
           /\ ~crossed' => ~crossed /\ kept = {} /\ (w = wallet \/ ~WasBusy)
<1>1. PICK r \in Reads : /\ read[r].pc = "idle"
                         /\ read' = [x \in Reads |-> IF x = r THEN [NoRead EXCEPT !.pc = "ask", !.of = w]
                                                     ELSE IF x \in kept THEN read[x] ELSE NoRead]
                         /\ crossed' = (crossed \/ kept # {} \/ (w # wallet /\ WasBusy))
  BY DEF StartRead
<1> DEFINE asked == [NoRead EXCEPT !.pc = "ask", !.of = w]
<1>2. asked \in ReadState /\ asked.pc = "ask" /\ asked.of = w /\ NoRead \in ReadState /\ NoRead.pc = "idle"
  <2>1. NoRead \in ReadState /\ NoRead.pc = "idle"
    BY DEF NoRead, NotRead, ReadState
  <2>2. asked \in ReadState /\ asked.pc = "ask" /\ asked.of = w
    BY <2>1 DEF ReadState
  <2> QED
    BY <2>1, <2>2
<1>3. \A x \in Reads : read'[x] = IF x = r THEN asked ELSE IF x \in kept THEN read[x] ELSE NoRead
  BY <1>1
<1> HIDE DEF asked
<1>4. read' \in [Reads -> ReadState]
  <2>1. \A x \in Reads : read'[x] \in ReadState
    BY <1>2, <1>3 DEF LpShape
  <2>2. read' = [x \in Reads |-> read'[x]]
    BY <1>1
  <2> QED
    BY <2>1, <2>2
<1>5. r \in InFlight' /\ (kept = {} => InFlight' = {r})
  BY <1>2, <1>3 DEF InFlight
<1>6. \A x \in Reads : read'[x].pc # "answer" \/ x \in kept
  BY <1>2, <1>3
<1>7. crossed' \in BOOLEAN /\ (~crossed' => ~crossed /\ kept = {} /\ (w = wallet \/ ~WasBusy))
  BY <1>1, Zenon
<1>8. read'[r].of = w
  BY <1>2, <1>3
<1> QED
  BY <1>4, <1>5, <1>6, <1>7, <1>8 DEF OneRead

\* What the dialog has and what the page shows depends on these alone
LEMMA LpDialogRests ==
    ASSUME DialogOK, UNCHANGED <<lscene, wallet, open, balance, read>>, OneFlow => OneFlow'
    PROVE  DialogOK'
<1>1. InFlight' = InFlight
  BY DEF InFlight
<1>2. OneRead' = OneRead /\ Blank' = Blank
  BY <1>1 DEF OneRead, Blank, NotRead
<1> QED
  BY <1>1, <1>2 DEF DialogOK

LEMMA LpShownRests ==
    ASSUME ShownOK, UNCHANGED <<lscene, wallet, balance, read, shares, crossed>>,
           \A o \in Ops : flow[o].pc = "landed" /\ flow[o].of = wallet => flow'[o].pc = "landed" /\ flow'[o].of = wallet
    PROVE  ShownOK'
<1>1. InFlight' = InFlight
  BY DEF InFlight
<1>2. OneRead' = OneRead /\ (~Unseen' => ~Unseen)
  BY <1>1 DEF OneRead, Unseen
<1> QED
  BY <1>1, <1>2 DEF ShownOK, LedgerHas, NotRead

\* A step of an operation that nobody else sees: the quote, the approval, a failure
LEMMA LpFlowMoves ==
    ASSUME LpInv, NEW o \in Ops, NEW g \in FlowState, flow' = [flow EXCEPT ![o] = g],
           flow[o].pc \in {"approve", "quote", "submit"}, g.pc \in {"idle", "quote", "submit"}, g.pc # "idle" => g.of = flow[o].of,
           UNCHANGED <<lscene, price, shares, wallet, open, balance, isLoading, read, fills, crossed>>,
           allowance' \in [Wallets -> 0..WithdrawShares], \A t \in late' : t.op \in Ops /\ t.of \in Wallets
    PROVE  LpInv'
<1>1. flow \in [Ops -> FlowState] /\ \A p \in Ops : flow[p].pc # "idle" => flow[p].of \in Wallets
  BY DEF LpInv, LpShape
<1>2. \A p \in Ops : flow'[p] = IF p = o THEN g ELSE flow[p]
  BY <1>1
<1>3. LpShape'
  <2>1. flow' \in [Ops -> FlowState]
    BY <1>1
  <2>2. \A p \in Ops : flow'[p].pc # "idle" => flow'[p].of \in Wallets
    BY <1>1, <1>2
  <2> QED
    BY <2>1, <2>2 DEF LpInv, LpShape
<1>4. OneFlow => OneFlow'
  BY <1>2 DEF OneFlow
<1>5. DialogOK'
  BY <1>4, LpDialogRests DEF LpInv
<1>6. ShownOK'
  BY <1>2, LpShownRests DEF LpInv
<1>7. FillWithinTolerance'
  BY DEF LpInv, FillWithinTolerance, MinOut
<1> QED
  BY <1>3, <1>5, <1>6, <1>7 DEF LpInv

\* The first signature, the quote, and the two ways an operation ends without an answer
LEMMA LpOperation ==
    ASSUME LpInv, ApproveNoeForWithdraw \/ \E o \in Ops : Quote(o) \/ FlowFails(o) \/ GivesUp(o)
    PROVE  LpInv'
<1>1. /\ flow \in [Ops -> FlowState] /\ \A p \in Ops : flow[p].pc # "idle" => flow[p].of \in Wallets
      /\ allowance \in [Wallets -> 0..WithdrawShares] /\ \A t \in late : t.op \in Ops /\ t.of \in Wallets
      /\ price \in Prices
  BY DEF LpInv, LpShape
<1>2. CASE ApproveNoeForWithdraw
  <2> DEFINE g == [flow["withdraw"] EXCEPT !.pc = "quote"]
  <2>1. "withdraw" \in Ops /\ flow["withdraw"].pc = "approve" /\ flow' = [flow EXCEPT !["withdraw"].pc = "quote"] /\ late' = late
        /\ allowance' = [allowance EXCEPT ![flow["withdraw"].of] = WithdrawShares]
        /\ UNCHANGED <<lscene, price, shares, wallet, open, balance, isLoading, read, fills, crossed>>
    BY <1>2 DEF ApproveNoeForWithdraw, Ops
  <2>2. flow' = [flow EXCEPT !["withdraw"] = g]
    BY <2>1
  <2>3. g \in FlowState /\ g.pc = "quote" /\ g.of = flow["withdraw"].of
    BY <1>1, <2>1 DEF FlowState
  <2>4. allowance' \in [Wallets -> 0..WithdrawShares]
    <3>1. WithdrawShares \in 0..WithdrawShares
      BY LpConsts
    <3> QED
      BY <1>1, <2>1, <3>1
  <2> HIDE DEF g
  <2> QED
    BY <1>1, <2>1, <2>2, <2>3, <2>4, LpFlowMoves
<1>3. ASSUME NEW o \in Ops, Quote(o) PROVE LpInv'
  <2> DEFINE g == [flow[o] EXCEPT !.pc = "submit", !.quote = Quoted(o)]
  <2>1. flow[o].pc = "quote" /\ flow' = [flow EXCEPT ![o].pc = "submit", ![o].quote = Quoted(o)]
        /\ UNCHANGED <<lscene, price, shares, allowance, wallet, open, balance, isLoading, read, late, fills, crossed>>
    BY <1>3 DEF Quote
  <2>2. Quoted(o) \in Int
    BY <1>1, LpQuoted
  <2>3. flow' = [flow EXCEPT ![o] = g]
    BY <1>1, <2>1
  <2>4. g \in FlowState /\ g.pc = "submit" /\ g.of = flow[o].of
    BY <1>1, <2>1, <2>2 DEF FlowState
  <2> HIDE DEF g
  <2> QED
    BY <1>1, <2>1, <2>3, <2>4, LpFlowMoves
<1>4. ASSUME NEW o \in Ops, FlowFails(o) \/ GivesUp(o) PROVE LpInv'
  <2>1. flow[o].pc \in {"approve", "quote", "submit"} /\ flow' = [flow EXCEPT ![o] = NoFlow] /\ allowance' = allowance
        /\ late' \subseteq late \cup {[op |-> o, of |-> flow[o].of, quote |-> flow[o].quote]}
        /\ UNCHANGED <<lscene, price, shares, wallet, open, balance, isLoading, read, fills, crossed>>
    BY <1>4 DEF FlowFails, GivesUp
  <2>2. NoFlow \in FlowState /\ NoFlow.pc = "idle"
    BY DEF NoFlow, FlowState, NotRead
  <2>3. \A t \in late' : t.op \in Ops /\ t.of \in Wallets
    BY <1>1, <2>1
  <2> QED
    BY <1>1, <2>1, <2>2, <2>3, LpFlowMoves
<1> QED
  BY <1>2, <1>3, <1>4

\* The button starts an operation of the connected wallet; the dialog only when it has none
LEMMA LpClick ==
    ASSUME LpInv, NEW o \in Ops, HandleClick(o)
    PROVE  LpInv'
<1> DEFINE g == [NoFlow EXCEPT !.of = wallet, !.pc = IF lscene = "pool" /\ o = "withdraw" THEN "approve" ELSE "quote"]
<1>1. /\ flow \in [Ops -> FlowState] /\ \A p \in Ops : flow[p].pc # "idle" => flow[p].of \in Wallets
      /\ wallet \in Wallets \cup {"none"}
  BY DEF LpInv, LpShape
<1>2. /\ wallet # "none" /\ ~InProgress(o) /\ flow' = [flow EXCEPT ![o] = g]
      /\ UNCHANGED <<lscene, price, shares, allowance, wallet, open, balance, isLoading, read, late, fills, crossed>>
  BY DEF HandleClick
<1>3. g \in FlowState /\ g.of = wallet /\ g.pc \in {"approve", "quote"}
  <2> DEFINE first == IF lscene = "pool" /\ o = "withdraw" THEN "approve" ELSE "quote"
  <2>1. NoFlow \in FlowState
    BY DEF NoFlow, FlowState, NotRead
  <2>2. first \in {"approve", "quote"}
    OBVIOUS
  <2>3. g = [NoFlow EXCEPT !.of = wallet, !.pc = first]
    OBVIOUS
  <2> HIDE DEF g, first
  <2> QED
    BY <1>1, <2>1, <2>2, <2>3 DEF FlowState
<1> HIDE DEF g
<1>4. \A p \in Ops : flow'[p] = IF p = o THEN g ELSE flow[p]
  BY <1>1, <1>2
<1>5. LpShape'
  <2>1. flow' \in [Ops -> FlowState]
    BY <1>1, <1>2, <1>3
  <2>2. \A p \in Ops : flow'[p].pc # "idle" => flow'[p].of \in Wallets
    BY <1>1, <1>2, <1>3, <1>4
  <2> QED
    BY <1>2, <2>1, <2>2 DEF LpInv, LpShape
<1>6. flow[o].pc = "idle"
  BY <1>2 DEF InProgress
<1>7. DialogOK'
  <2>1. lscene = "follower" => OneFlow'
    BY <1>2, <1>4 DEF InProgress, OneFlow
  <2>2. InFlight' = InFlight
    BY <1>2 DEF InFlight
  <2>3. OneRead' = OneRead /\ Blank' = Blank
    BY <2>2 DEF OneRead, Blank, NotRead
  <2> QED
    BY <1>2, <2>1, <2>2, <2>3 DEF LpInv, DialogOK
<1>8. ShownOK'
  BY <1>2, <1>4, <1>6, LpShownRests DEF LpInv
<1>9. FillWithinTolerance'
  BY <1>2 DEF LpInv, FillWithinTolerance, MinOut
<1> QED
  BY <1>5, <1>7, <1>8, <1>9 DEF LpInv

\* A fill moves one wallet's shares and its allowance, and pays at least what the call asks
LEMMA LpFill ==
    ASSUME LpInv, NEW o \in Ops, NEW w \in Wallets, NEW quote, Fills(o, w, quote), Fill(o, w, quote)
    PROVE  /\ shares' \in [Wallets -> Nat] /\ allowance' \in [Wallets -> 0..WithdrawShares]
           /\ \A x \in Wallets : x # w => shares'[x] = shares[x]
           /\ FillWithinTolerance'
<1>1. /\ shares \in [Wallets -> Nat] /\ allowance \in [Wallets -> 0..WithdrawShares] /\ price \in Prices
      /\ WithdrawShares \in Nat
  BY LpConsts DEF LpInv, LpShape
<1>2. Quoted(o) \in Nat
  BY <1>1, LpQuoted
<1>3. /\ shares' = [shares EXCEPT ![w] = IF o = "deposit" THEN @ + Quoted(o) ELSE @ - WithdrawShares]
      /\ allowance' = IF o = "withdraw" /\ lscene = "pool" THEN [allowance EXCEPT ![w] = @ - WithdrawShares] ELSE allowance
      /\ fills' = fills \cup {[n |-> Cardinality(fills), op |-> o, quoted |-> quote, got |-> Quoted(o)]}
      /\ Covered(o, w) /\ Quoted(o) >= MinOut(quote)
  BY DEF Fill, Fills, Bound
<1>4. shares' \in [Wallets -> Nat] /\ \A x \in Wallets : x # w => shares'[x] = shares[x]
  <2>1. CASE o = "deposit"
    BY <1>1, <1>2, <1>3, <2>1
  <2>2. CASE o # "deposit"
    <3>1. shares[w] >= WithdrawShares
      BY <1>3, <2>2 DEF Covered
    <3>2. shares[w] - WithdrawShares \in Nat
      BY <1>1, <3>1
    <3> QED
      BY <1>1, <1>3, <2>2, <3>2
  <2> QED
    BY <2>1, <2>2
<1>5. allowance' \in [Wallets -> 0..WithdrawShares]
  <2>1. CASE o = "withdraw" /\ lscene = "pool"
    <3>1. allowance[w] >= WithdrawShares
      BY <1>3, <2>1 DEF Covered
    <3>2. allowance[w] - WithdrawShares \in 0..WithdrawShares
      BY <1>1, <3>1
    <3> QED
      BY <1>1, <1>3, <2>1, <3>2
  <2>2. CASE ~(o = "withdraw" /\ lscene = "pool")
    BY <1>1, <1>3, <2>2
  <2> QED
    BY <2>1, <2>2
<1>6. FillWithinTolerance'
  <2> DEFINE new == [n |-> Cardinality(fills), op |-> o, quoted |-> quote, got |-> Quoted(o)]
  <2>1. new.got = Quoted(o) /\ new.quoted = quote
    OBVIOUS
  <2> HIDE DEF new
  <2>2. \A f \in fills : f.got >= MinOut(f.quoted)
    BY DEF LpInv, FillWithinTolerance
  <2>3. fills' = fills \cup {new}
    BY <1>3 DEF new
  <2>4. \A f \in fills' : f.got >= MinOut(f.quoted)
    BY <1>3, <2>1, <2>2, <2>3
  <2> QED
    BY <2>4 DEF FillWithinTolerance, MinOut
<1> QED
  BY <1>4, <1>5, <1>6

\* What a step that starts a read has to keep
LEMMA LpAsked ==
    ASSUME LpInv, NEW w \in Wallets \cup {"none"}, NEW kept, StartRead(w, kept), lscene' = lscene, OneFlow => OneFlow',
           kept = {} \/ (lscene = "pool" /\ kept = InFlight), ~crossed' => w = wallet',
           lscene = "follower" => kept = {} /\ w # "none" /\ open' /\ wallet' = w /\ (~crossed' => balance' = Blank)
    PROVE  DialogOK' /\ ShownOK' /\ read' \in [Reads -> ReadState] /\ crossed' \in BOOLEAN
<1>1. LpShape /\ DialogOK /\ ShownOK
  BY DEF LpInv
<1>2. /\ read' \in [Reads -> ReadState] /\ crossed' \in BOOLEAN
      /\ \A x \in Reads : read'[x].pc # "answer" \/ x \in kept
      /\ kept = {} => OneRead' /\ \A x \in InFlight' : read'[x].of = w
      /\ InFlight' # {}
      /\ ~crossed' => ~crossed /\ kept = {} /\ (w = wallet \/ ~WasBusy)
  BY <1>1, LpStartRead
<1>3. DialogOK'
  <2>1. ASSUME lscene = "follower" PROVE OneRead' /\ OneFlow' /\ \A r \in InFlight' : read'[r].of \in Wallets
    BY <1>1, <1>2, <2>1 DEF DialogOK
  <2> QED
    BY <2>1 DEF DialogOK
<1>4. ShownOK'
  <2> SUFFICES ASSUME ~crossed' PROVE ShownOK'
    BY DEF ShownOK
  <2>1. kept = {} /\ OneRead' /\ (\A x \in InFlight' : read'[x].of = wallet') /\ (\A x \in Reads : read'[x].pc # "answer")
    BY <1>2
  <2>2. lscene' = "follower" => balance'.shares = NotRead'
    BY DEF Blank, NotRead
  <2> QED
    BY <1>2, <2>1, <2>2 DEF ShownOK
<1> QED
  BY <1>2, <1>3, <1>4

\* What a step that forgets the reads and the balance has to keep
LEMMA LpForgotten ==
    ASSUME LpInv, read' = [r \in Reads |-> NoRead], balance' = Blank, lscene' = lscene, OneFlow => OneFlow'
    PROVE  DialogOK' /\ ShownOK' /\ read' \in [Reads -> ReadState] /\ balance' \in [of : Wallets \cup {"none"}, shares : Int]
<1>1. NoRead \in ReadState /\ NoRead.pc = "idle"
  BY DEF NoRead, NotRead, ReadState
<1>2. read' \in [Reads -> ReadState] /\ \A r \in Reads : read'[r].pc = "idle"
  BY <1>1
<1>3. InFlight' = {} /\ OneRead'
  BY <1>2 DEF InFlight, OneRead
<1>4. Blank \in [of : Wallets \cup {"none"}, shares : Int] /\ Blank.shares = NotRead /\ Blank' = Blank /\ NotRead' = NotRead
  BY DEF Blank, NotRead
<1>5. DialogOK'
  <2>1. lscene = "follower" => OneFlow
    BY DEF LpInv, DialogOK
  <2> QED
    BY <1>3, <1>4, <2>1 DEF DialogOK
<1>6. ShownOK'
  BY <1>2, <1>3, <1>4 DEF ShownOK
<1> QED
  BY <1>2, <1>4, <1>5, <1>6

\* Another wallet, the dialog opened or closed
LEMMA LpSession ==
    ASSUME LpInv, (\E w \in Wallets \cup {"none"} : SwitchWallet(w)) \/ OpenModal \/ CloseModal
    PROVE  LpInv'
<1>1. LpShape /\ DialogOK /\ ShownOK
  BY DEF LpInv
<1>2. UNCHANGED <<lscene, price, shares, allowance, flow, late, fills>>
  BY DEF SwitchWallet, OpenModal, CloseModal
<1>3. (OneFlow => OneFlow') /\ FillWithinTolerance'
  BY <1>2 DEF LpInv, OneFlow, FillWithinTolerance, MinOut
<1>4. ASSUME NEW w \in Wallets \cup {"none"}, SwitchWallet(w)
      PROVE  /\ DialogOK' /\ ShownOK' /\ read' \in [Reads -> ReadState] /\ crossed' \in BOOLEAN
             /\ balance' \in [of : Wallets \cup {"none"}, shares : Int] /\ wallet' \in Wallets \cup {"none"} /\ open' \in BOOLEAN
  <2>1. w # wallet /\ wallet' = w /\ open' = open
    BY <1>4 DEF SwitchWallet
  <2>2. CASE lscene = "pool"
    <3>1. StartRead(w, InFlight) /\ balance' = balance
      BY <1>4, <2>2 DEF SwitchWallet, StillReading
    <3>2. DialogOK' /\ ShownOK' /\ read' \in [Reads -> ReadState] /\ crossed' \in BOOLEAN
      BY <1>2, <1>3, <2>1, <2>2, <3>1, LpAsked
    <3> QED
      BY <1>1, <2>1, <3>1, <3>2 DEF LpShape
  <2>3. CASE lscene # "pool" /\ open /\ w # "none"
    <3>1. StartRead(w, {}) /\ balance' = balance /\ lscene = "follower"
      BY <1>1, <1>4, <2>3 DEF SwitchWallet, LpShape
    <3>2. ~crossed' => balance = Blank
      BY <1>1, <2>1, <3>1, LpStartRead DEF WasBusy
    <3>3. DialogOK' /\ ShownOK' /\ read' \in [Reads -> ReadState] /\ crossed' \in BOOLEAN
      BY <1>2, <1>3, <2>1, <2>3, <3>1, <3>2, LpAsked
    <3> QED
      BY <1>1, <2>1, <3>1, <3>3 DEF LpShape
  <2>4. CASE lscene # "pool" /\ ~(open /\ w # "none")
    <3>1. read' = [r \in Reads |-> NoRead] /\ crossed' = crossed /\ balance' = (IF w = "none" THEN Blank ELSE balance) /\ lscene = "follower"
      BY <1>1, <1>4, <2>4 DEF SwitchWallet, LpShape
    <3>2. balance' = Blank
      BY <1>1, <2>4, <3>1 DEF DialogOK
    <3>3. DialogOK' /\ ShownOK' /\ read' \in [Reads -> ReadState] /\ balance' \in [of : Wallets \cup {"none"}, shares : Int]
      BY <1>2, <1>3, <3>1, <3>2, LpForgotten
    <3> QED
      BY <1>1, <2>1, <3>1, <3>3 DEF LpShape
  <2> QED
    BY <2>2, <2>3, <2>4
<1>5. ASSUME OpenModal
      PROVE  /\ DialogOK' /\ ShownOK' /\ read' \in [Reads -> ReadState] /\ crossed' \in BOOLEAN
             /\ balance' \in [of : Wallets \cup {"none"}, shares : Int] /\ wallet' \in Wallets \cup {"none"} /\ open' \in BOOLEAN
  <2>1. lscene = "follower" /\ ~open /\ open' = TRUE /\ wallet' = wallet /\ balance' = balance
    BY <1>5 DEF OpenModal
  <2>2. balance = Blank /\ InFlight = {}
    BY <1>1, <2>1 DEF DialogOK
  <2>3. CASE wallet = "none"
    <3>1. read' = read /\ crossed' = crossed
      BY <1>5, <2>3 DEF OpenModal
    <3>2. DialogOK'
      BY <1>1, <1>2, <1>3, <2>1, <2>2, <3>1 DEF DialogOK, OneRead, InFlight, Blank, NotRead
    <3>3. ShownOK'
      BY <1>1, <1>2, <2>1, <2>3, <3>1 DEF ShownOK, OneRead, InFlight
    <3> QED
      BY <1>1, <2>1, <3>1, <3>2, <3>3 DEF LpShape
  <2>4. CASE wallet # "none"
    <3>1. StartRead(wallet, {}) /\ wallet \in Wallets \cup {"none"}
      BY <1>1, <1>5, <2>4 DEF OpenModal, LpShape
    <3>2. DialogOK' /\ ShownOK' /\ read' \in [Reads -> ReadState] /\ crossed' \in BOOLEAN
      BY <1>2, <1>3, <2>1, <2>2, <2>4, <3>1, LpAsked
    <3> QED
      BY <1>1, <2>1, <3>2 DEF LpShape
  <2> QED
    BY <2>3, <2>4
<1>6. ASSUME CloseModal
      PROVE  /\ DialogOK' /\ ShownOK' /\ read' \in [Reads -> ReadState] /\ crossed' \in BOOLEAN
             /\ balance' \in [of : Wallets \cup {"none"}, shares : Int] /\ wallet' \in Wallets \cup {"none"} /\ open' \in BOOLEAN
  <2>1. open' = FALSE /\ wallet' = wallet /\ balance' = Blank /\ crossed' = crossed /\ read' = [r \in Reads |-> NoRead]
    BY <1>6 DEF CloseModal, Closed
  <2>2. DialogOK' /\ ShownOK' /\ read' \in [Reads -> ReadState] /\ balance' \in [of : Wallets \cup {"none"}, shares : Int]
    BY <1>2, <1>3, <2>1, LpForgotten
  <2> QED
    BY <1>1, <2>1, <2>2 DEF LpShape
<1> QED
  BY <1>1, <1>2, <1>3, <1>4, <1>5, <1>6 DEF LpInv, LpShape

\* The answer of a transaction: the page reads again for the wallet that signed, the dialog closes
LEMMA LpSucceed ==
    ASSUME LpInv, NEW o \in Ops, Succeed(o)
    PROVE  LpInv'
<1>1. LpShape /\ DialogOK /\ ShownOK
  BY DEF LpInv
<1>2. /\ flow[o].pc = "landed" /\ flow' = [flow EXCEPT ![o] = NoFlow] /\ AfterSuccess(flow[o].of)
      /\ UNCHANGED <<lscene, price, shares, allowance, wallet, isLoading, late, fills, switches>>
  BY DEF Succeed
<1>3. flow \in [Ops -> FlowState] /\ flow[o].of \in Wallets /\ \A p \in Ops : flow[p].pc # "idle" => flow[p].of \in Wallets
  BY <1>1, <1>2 DEF LpShape
<1>4. NoFlow \in FlowState /\ NoFlow.pc = "idle"
  BY DEF NoFlow, FlowState, NotRead
<1>5. \A p \in Ops : flow'[p] = IF p = o THEN NoFlow ELSE flow[p]
  BY <1>2, <1>3
<1>6. flow' \in [Ops -> FlowState] /\ \A p \in Ops : flow'[p].pc # "idle" => flow'[p].of \in Wallets
  <2>1. flow' \in [Ops -> FlowState]
    BY <1>2, <1>3, <1>4
  <2>2. \A p \in Ops : flow'[p].pc # "idle" => flow'[p].of \in Wallets
    BY <1>3, <1>4, <1>5
  <2> QED
    BY <2>1, <2>2
<1>7. (OneFlow => OneFlow') /\ FillWithinTolerance'
  <2>1. OneFlow => OneFlow'
    BY <1>4, <1>5 DEF OneFlow
  <2>2. FillWithinTolerance'
    BY <1>2 DEF LpInv, FillWithinTolerance, MinOut
  <2> QED
    BY <2>1, <2>2
<1>8. /\ DialogOK' /\ ShownOK' /\ read' \in [Reads -> ReadState] /\ crossed' \in BOOLEAN /\ open' \in BOOLEAN
      /\ balance' \in [of : Wallets \cup {"none"}, shares : Int]
  <2>1. CASE lscene = "follower"
    <3>1. open' = FALSE /\ balance' = Blank /\ read' = [r \in Reads |-> NoRead] /\ crossed' = crossed
      BY <1>2, <2>1 DEF AfterSuccess, Closed
    <3>2. DialogOK' /\ ShownOK' /\ read' \in [Reads -> ReadState] /\ balance' \in [of : Wallets \cup {"none"}, shares : Int]
      BY <1>2, <1>7, <3>1, LpForgotten
    <3> QED
      BY <1>1, <3>1, <3>2 DEF LpShape
  <2>2. CASE lscene # "follower"
    <3>1. lscene = "pool" /\ StartRead(flow[o].of, InFlight) /\ open' = open /\ balance' = balance
      BY <1>1, <1>2, <2>2 DEF AfterSuccess, StillReading, LpShape
    <3>2. WasBusy
      BY <1>2 DEF WasBusy
    <3>3. ~crossed' => flow[o].of = wallet'
      BY <1>1, <1>2, <1>3, <3>1, <3>2, LpStartRead
    <3>4. DialogOK' /\ ShownOK' /\ read' \in [Reads -> ReadState] /\ crossed' \in BOOLEAN
      BY <1>2, <1>3, <1>7, <3>1, <3>3, LpAsked
    <3> QED
      BY <1>1, <3>1, <3>4 DEF LpShape
  <2> QED
    BY <2>1, <2>2
<1>9. LpShape'
  BY <1>1, <1>2, <1>6, <1>8 DEF LpShape
<1> QED
  BY <1>7, <1>8, <1>9 DEF LpInv

\* A transaction lands, in time or late, and the price moves
LEMMA LpLedger ==
    ASSUME LpInv, (\E o \in Ops : Land(o)) \/ (\E t \in late : LateLand(t)) \/ (\E p \in Prices : MovePrice(p))
    PROVE  LpInv'
<1>1. LpShape /\ DialogOK /\ ShownOK
  BY DEF LpInv
<1>2. ASSUME NEW o \in Ops, Land(o) PROVE LpInv'
  <2> DEFINE g == [flow[o] EXCEPT !.pc = "landed"]
  <2>1. /\ flow[o].pc = "submit" /\ Fills(o, flow[o].of, flow[o].quote) /\ Fill(o, flow[o].of, flow[o].quote)
        /\ flow' = [flow EXCEPT ![o] = g]
        /\ UNCHANGED <<lscene, price, wallet, open, balance, isLoading, read, late, crossed, switches>>
    BY <1>2 DEF Land
  <2>2. flow \in [Ops -> FlowState] /\ flow[o].of \in Wallets /\ \A p \in Ops : flow[p].pc # "idle" => flow[p].of \in Wallets
    BY <1>1, <2>1 DEF LpShape
  <2>3. g \in FlowState /\ g.pc = "landed" /\ g.of = flow[o].of
    BY <2>2 DEF FlowState
  <2> HIDE DEF g
  <2>4. \A p \in Ops : flow'[p] = IF p = o THEN g ELSE flow[p]
    BY <2>1, <2>2
  <2>5. /\ shares' \in [Wallets -> Nat] /\ allowance' \in [Wallets -> 0..WithdrawShares]
        /\ \A x \in Wallets : x # flow[o].of => shares'[x] = shares[x]
        /\ FillWithinTolerance'
    BY <2>1, <2>2, LpFill
  <2>6. LpShape'
    <3>1. flow' \in [Ops -> FlowState]
      BY <2>1, <2>2, <2>3
    <3>2. \A p \in Ops : flow'[p].pc # "idle" => flow'[p].of \in Wallets
      BY <2>2, <2>3, <2>4
    <3> QED
      BY <1>1, <2>1, <2>5, <3>1, <3>2 DEF LpShape
  <2>7. OneFlow => OneFlow'
    BY <2>1, <2>4 DEF OneFlow
  <2>8. DialogOK'
    BY <1>1, <2>1, <2>7, LpDialogRests
  <2>9. ShownOK'
    <3> SUFFICES ASSUME ~crossed PROVE ShownOK'
      BY <2>1 DEF ShownOK
    <3>1. InFlight' = InFlight /\ (OneRead' <=> OneRead) /\ NotRead' = NotRead
      BY <2>1 DEF InFlight, OneRead, NotRead
    <3>2. ASSUME wallet # "none", ~Unseen' PROVE ~Unseen /\ shares'[wallet] = shares[wallet]
      <4>1. flow[o].of # wallet
        BY <2>1, <2>3, <2>4, <3>2 DEF Unseen
      <4>2. ~Unseen
        BY <2>1, <2>4, <3>2 DEF Unseen
      <4> QED
        BY <1>1, <2>5, <3>2, <4>1, <4>2 DEF LpShape
    <3> QED
      BY <1>1, <2>1, <3>1, <3>2 DEF ShownOK, LedgerHas
  <2> QED
    BY <2>5, <2>6, <2>8, <2>9 DEF LpInv
<1>3. ASSUME NEW t \in late, LateLand(t) PROVE LpInv'
  <2>1. /\ late' = late \ {t} /\ crossed' = TRUE
        /\ IF Fills(t.op, t.of, t.quote) THEN Fill(t.op, t.of, t.quote) ELSE UNCHANGED <<shares, allowance, fills>>
        /\ UNCHANGED <<lscene, price, wallet, open, balance, isLoading, read, flow, switches>>
    BY <1>3 DEF LateLand
  <2>2. t.op \in Ops /\ t.of \in Wallets
    BY <1>1 DEF LpShape
  <2>3. shares' \in [Wallets -> Nat] /\ allowance' \in [Wallets -> 0..WithdrawShares] /\ FillWithinTolerance'
    <3>1. CASE Fills(t.op, t.of, t.quote)
      BY <2>1, <2>2, <3>1, LpFill
    <3>2. CASE ~Fills(t.op, t.of, t.quote)
      BY <1>1, <2>1, <3>2 DEF LpInv, LpShape, FillWithinTolerance, MinOut
    <3> QED
      BY <3>1, <3>2
  <2>4. LpShape'
    BY <1>1, <2>1, <2>3 DEF LpShape
  <2>5. OneFlow => OneFlow'
    BY <2>1 DEF OneFlow
  <2>6. DialogOK'
    BY <1>1, <2>1, <2>5, LpDialogRests
  <2>7. ShownOK'
    BY <2>1 DEF ShownOK
  <2> QED
    BY <2>3, <2>4, <2>6, <2>7 DEF LpInv
<1>4. ASSUME NEW p \in Prices, MovePrice(p) PROVE LpInv'
  <2>1. /\ price' = p
        /\ UNCHANGED <<lscene, shares, allowance, wallet, open, balance, isLoading, read, flow, late, fills, crossed, switches>>
    BY <1>4 DEF MovePrice
  <2>2. LpShape'
    BY <1>1, <2>1 DEF LpShape
  <2>3. OneFlow => OneFlow'
    BY <2>1 DEF OneFlow
  <2>4. DialogOK' /\ ShownOK'
    BY <1>1, <2>1, <2>3, LpDialogRests, LpShownRests
  <2>5. FillWithinTolerance'
    BY <2>1 DEF LpInv, FillWithinTolerance, MinOut
  <2> QED
    BY <2>2, <2>4, <2>5 DEF LpInv
<1> QED
  BY <1>2, <1>3, <1>4

\* A read asks the ledger, and its answer goes on display
LEMMA LpRead ==
    ASSUME LpInv, NEW r \in Reads, AnswerRead(r) \/ \E ok \in BOOLEAN : AskLedger(r, ok)
    PROVE  LpInv'
<1>1. LpShape /\ DialogOK /\ ShownOK
  BY DEF LpInv
<1>2. UNCHANGED <<lscene, price, shares, allowance, wallet, open, flow, late, fills, crossed, switches>>
  BY DEF AnswerRead, AskLedger
<1>3. FillWithinTolerance' /\ OneFlow' = OneFlow /\ Unseen' = Unseen /\ NotRead' = NotRead /\ Blank' = Blank
  <2>1. FillWithinTolerance'
    BY <1>2 DEF LpInv, FillWithinTolerance, MinOut
  <2>2. OneFlow' = OneFlow /\ Unseen' = Unseen
    BY <1>2 DEF OneFlow, Unseen
  <2> QED
    BY <2>1, <2>2 DEF NotRead, Blank
<1>4. read \in [Reads -> ReadState] /\ shares \in [Wallets -> Nat] /\ lscene \in {"pool", "follower"} /\ wallet \in Wallets \cup {"none"}
      /\ balance \in [of : Wallets \cup {"none"}, shares : Int]
  BY <1>1 DEF LpShape
<1>5. ASSUME NEW ok \in BOOLEAN, AskLedger(r, ok) PROVE LpInv'
  <2> DEFINE n == IF lscene = "pool" THEN GetNoeBalance(read[r].of, ok) ELSE GetUserVaultShares(read[r].of, ok)
             a == [read[r] EXCEPT !.pc = "answer", !.shares = n]
  <2>1. read[r].pc = "ask" /\ balance' = balance /\ read' = [read EXCEPT ![r] = a]
    BY <1>4, <1>5 DEF AskLedger
  <2>2. r \in InFlight /\ (lscene = "follower" => read[r].of \in Wallets)
    BY <1>1, <2>1 DEF InFlight, DialogOK
  <2>3. n \in Int /\ (read[r].of # "none" /\ n # NotRead => n = shares[read[r].of])
    <3>1. read[r].of \in Wallets \cup {"none"}
      BY <1>4 DEF ReadState
    <3> QED
      BY <1>4, <2>2, <3>1 DEF GetNoeBalance, GetUserVaultShares, NotRead
  <2> HIDE DEF n
  <2>4. a \in ReadState /\ a.pc = "answer" /\ a.of = read[r].of /\ a.shares = n
    BY <1>4, <2>3 DEF ReadState
  <2> HIDE DEF a
  <2>5. \A x \in Reads : read'[x] = IF x = r THEN a ELSE read[x]
    BY <1>4, <2>1
  <2>6. read' \in [Reads -> ReadState] /\ InFlight' = InFlight /\ \A x \in Reads : read'[x].of = read[x].of
    <3>1. read' \in [Reads -> ReadState]
      BY <1>4, <2>1, <2>4
    <3>2. InFlight' = InFlight
      BY <2>1, <2>4, <2>5 DEF InFlight
    <3> QED
      BY <2>4, <2>5, <3>1, <3>2
  <2>7. OneRead' = OneRead /\ \A x \in InFlight : x \in Reads
    BY <2>6 DEF OneRead, InFlight
  <2>8. DialogOK'
    BY <1>1, <1>2, <1>3, <2>1, <2>6, <2>7 DEF DialogOK
  <2>9. ShownOK'
    <3> SUFFICES ASSUME ~crossed PROVE ShownOK'
      BY <1>2 DEF ShownOK
    <3>1. OneRead' /\ \A x \in InFlight' : read'[x].of = wallet'
      BY <1>1, <1>2, <2>6, <2>7 DEF ShownOK
    <3>2. ASSUME wallet # "none", ~Unseen, NEW x \in Reads, read'[x].pc = "answer", read'[x].shares # NotRead
          PROVE  read'[x].shares = shares[wallet]
      <4>1. CASE x = r
        <5>1. read[r].of = wallet
          BY <1>1, <2>2 DEF ShownOK
        <5> QED
          BY <2>3, <2>4, <2>5, <3>2, <4>1, <5>1
      <4>2. CASE x # r
        BY <1>1, <2>5, <3>2, <4>2 DEF ShownOK
      <4> QED
        BY <4>1, <4>2
    <3>3. ASSUME wallet # "none", ~Unseen, balance.shares # NotRead, InFlight = {} \/ lscene = "follower"
          PROVE  LedgerHas(balance.of, balance.shares)
      BY <1>1, <3>3 DEF ShownOK
    <3> QED
      BY <1>2, <1>3, <2>1, <2>6, <3>1, <3>2, <3>3 DEF ShownOK, LedgerHas
  <2>10. LpShape'
    BY <1>1, <1>2, <2>1, <2>6 DEF LpShape
  <2> QED
    BY <1>3, <2>8, <2>9, <2>10 DEF LpInv
<1>6. ASSUME AnswerRead(r) PROVE LpInv'
  <2>1. read[r].pc = "answer" /\ balance' = Display(read[r]) /\ read' = [read EXCEPT ![r] = NoRead]
    BY <1>6 DEF AnswerRead
  <2>2. NoRead \in ReadState /\ NoRead.pc = "idle"
    BY DEF NoRead, NotRead, ReadState
  <2>3. \A x \in Reads : read'[x] = IF x = r THEN NoRead ELSE read[x]
    BY <1>4, <2>1
  <2>4. read' \in [Reads -> ReadState] /\ InFlight' = InFlight \ {r} /\ r \in InFlight
    <3>1. read' \in [Reads -> ReadState]
      BY <1>4, <2>1, <2>2
    <3>2. InFlight' = InFlight \ {r}
      BY <2>2, <2>3 DEF InFlight
    <3> QED
      BY <2>1, <3>1, <3>2 DEF InFlight
  <2>5. OneRead => OneRead' /\ InFlight' = {}
    BY <2>4 DEF OneRead
  <2>6. balance' \in [of : Wallets \cup {"none"}, shares : Int]
    <3>1. read[r] \in ReadState
      BY <1>4
    <3>2. [of |-> read[r].of, shares |-> read[r].shares] \in [of : Wallets \cup {"none"}, shares : Int]
      BY <3>1 DEF ReadState
    <3> QED
      BY <1>4, <2>1, <3>2 DEF Display
  <2>7. DialogOK'
    <3>1. ASSUME lscene = "follower" PROVE OneRead' /\ OneFlow' /\ InFlight' = {} /\ open /\ wallet # "none"
      BY <1>1, <1>3, <2>4, <2>5, <3>1 DEF DialogOK
    <3> QED
      BY <1>2, <3>1 DEF DialogOK
  <2>8. ShownOK'
    <3> SUFFICES ASSUME ~crossed PROVE ShownOK'
      BY <1>2 DEF ShownOK
    <3>1. OneRead' /\ InFlight' = {}
      BY <1>1, <2>5 DEF ShownOK
    <3>2. \A x \in Reads : read'[x].pc = "idle"
      BY <3>1 DEF InFlight
    <3>3. read[r].of = wallet
      BY <1>1, <2>4 DEF ShownOK
    <3>4. ASSUME wallet # "none", ~Unseen, balance'.shares # NotRead PROVE balance'.of = wallet /\ balance'.shares = shares[wallet]
      <4>1. CASE lscene = "follower" /\ read[r].shares = NotRead
        <5>1. balance' = balance
          BY <2>1, <4>1 DEF Display
        <5> QED
          BY <1>1, <3>4, <4>1, <5>1 DEF ShownOK, LedgerHas
      <4>2. CASE ~(lscene = "follower" /\ read[r].shares = NotRead)
        <5>1. balance'.of = read[r].of /\ balance'.shares = read[r].shares
          BY <2>1, <4>2 DEF Display
        <5> QED
          BY <1>1, <2>1, <3>3, <3>4, <5>1 DEF ShownOK
      <4> QED
        BY <4>1, <4>2
    <3> QED
      BY <1>2, <1>3, <3>1, <3>2, <3>4 DEF ShownOK, LedgerHas
  <2>9. LpShape'
    BY <1>1, <1>2, <2>4, <2>6 DEF LpShape
  <2> QED
    BY <1>3, <2>7, <2>8, <2>9 DEF LpInv
<1> QED
  BY <1>5, <1>6

\* Nothing has landed or crossed at the start, where the page has one read in flight
LEMMA LpStarts == LpInit => LpInv
<1> SUFFICES ASSUME LpInit PROVE LpInv
  OBVIOUS
<1>1. /\ lscene \in LpScenes /\ price \in Prices /\ wallet = "none" /\ open = (lscene = "pool") /\ balance = Blank
      /\ shares = [w \in Wallets |-> WithdrawShares] /\ allowance = [w \in Wallets |-> 0]
      /\ flow = [o \in Ops |-> NoFlow] /\ late = {} /\ fills = {} /\ crossed = FALSE
  BY DEF LpInit
<1>2. PICK r \in Reads : read = [x \in Reads |-> IF lscene = "pool" /\ x = r THEN [NoRead EXCEPT !.pc = "ask"] ELSE NoRead]
  BY DEF LpInit
<1> DEFINE asked == [NoRead EXCEPT !.pc = "ask"]
<1>3. NoRead \in ReadState /\ NoRead.pc = "idle" /\ asked \in ReadState /\ asked.pc = "ask" /\ asked.of = "none"
  <2>1. NoRead \in ReadState /\ NoRead.pc = "idle" /\ NoRead.of = "none"
    BY DEF NoRead, NotRead, ReadState
  <2> QED
    BY <2>1 DEF ReadState
<1>4. \A x \in Reads : read[x] = IF lscene = "pool" /\ x = r THEN asked ELSE NoRead
  BY <1>2
<1> HIDE DEF asked
<1>5. /\ read \in [Reads -> ReadState] /\ OneRead /\ (\A x \in InFlight : read[x].of = wallet)
      /\ (lscene = "follower" => InFlight = {}) /\ \A x \in Reads : read[x].pc # "answer"
  <2>1. \A x \in Reads : read[x] \in ReadState
    BY <1>3, <1>4
  <2>2. read \in [Reads -> ReadState]
    BY <1>2, <2>1
  <2>3. InFlight \subseteq {r} /\ (lscene = "follower" => InFlight = {})
    BY <1>3, <1>4 DEF InFlight
  <2>4. \A x \in InFlight : read[x].of = wallet
    BY <1>1, <1>3, <1>4, <2>3 DEF InFlight
  <2>5. \A x \in Reads : read[x].pc # "answer"
    BY <1>3, <1>4
  <2> QED
    BY <2>2, <2>3, <2>4, <2>5 DEF OneRead
<1>6. NoFlow \in FlowState /\ NoFlow.pc = "idle"
  BY DEF NoFlow, FlowState, NotRead
<1>7. \A o \in Ops : flow[o].pc = "idle"
  BY <1>1, <1>6
<1>8. LpShape
  <2>1. WithdrawShares \in Nat /\ lscene \in {"pool", "follower"}
    BY <1>1, LpConsts
  <2>2. balance \in [of : Wallets \cup {"none"}, shares : Int]
    BY <1>1 DEF Blank, NotRead
  <2>3. flow \in [Ops -> FlowState]
    BY <1>1, <1>6
  <2>4. shares \in [Wallets -> Nat] /\ allowance \in [Wallets -> 0..WithdrawShares]
    BY <1>1, <2>1
  <2> QED
    BY <1>1, <1>5, <1>7, <2>1, <2>2, <2>3, <2>4 DEF LpShape
<1>9. DialogOK
  BY <1>1, <1>5, <1>7 DEF DialogOK, OneFlow
<1>10. ShownOK
  BY <1>1, <1>5 DEF ShownOK
<1>11. FillWithinTolerance
  BY <1>1 DEF FillWithinTolerance
<1> QED
  BY <1>8, <1>9, <1>10, <1>11 DEF LpInv

\* Every step keeps the invariant
LEMMA LpStep == LpInv /\ [LpNext]_lpVars => LpInv'
<1> SUFFICES ASSUME LpInv, [LpNext]_lpVars PROVE LpInv'
  OBVIOUS
<1>1. CASE \E r \in Reads : AnswerRead(r) \/ \E ok \in BOOLEAN : AskLedger(r, ok)
  BY <1>1, LpRead
<1>2. CASE (\E w \in Wallets \cup {"none"} : SwitchWallet(w)) \/ OpenModal \/ CloseModal
  BY <1>2, LpSession
<1>3. CASE ApproveNoeForWithdraw \/ \E o \in Ops : Quote(o) \/ FlowFails(o) \/ GivesUp(o)
  BY <1>3, LpOperation
<1>4. CASE \E o \in Ops : HandleClick(o)
  BY <1>4, LpClick
<1>5. CASE \E o \in Ops : Succeed(o)
  BY <1>5, LpSucceed
<1>6. CASE (\E o \in Ops : Land(o)) \/ (\E t \in late : LateLand(t)) \/ (\E p \in Prices : MovePrice(p))
  BY <1>6, LpLedger
<1>7. CASE UNCHANGED lpVars
  <2>1. UNCHANGED <<lscene, price, shares, allowance, wallet, open, balance, isLoading, read, flow, late, fills, crossed, switches>>
    BY <1>7 DEF lpVars
  <2>2. OneFlow' = OneFlow
    BY <2>1 DEF OneFlow
  <2>3. DialogOK' /\ ShownOK'
    BY <2>1, <2>2, LpDialogRests, LpShownRests DEF LpInv
  <2>4. FillWithinTolerance'
    BY <2>1 DEF LpInv, FillWithinTolerance, MinOut
  <2>5. LpShape'
    BY <2>1 DEF LpInv, LpShape
  <2> QED
    BY <2>3, <2>4, <2>5 DEF LpInv
<1> QED
  BY <1>1, <1>2, <1>3, <1>4, <1>5, <1>6, <1>7 DEF LpNext

\* At most one is at most one of them
LEMMA LpAtMostOne ==
    ASSUME NEW S, \A x, y \in S : x = y
    PROVE  Cardinality(S) <= 1
<1>1. CASE S = {}
  BY <1>1, FS_EmptySet
<1>2. ASSUME NEW x \in S PROVE Cardinality(S) = 1
  <2>1. S = {x}
    BY <1>2
  <2> QED
    BY <2>1, FS_Singleton
<1> QED
  BY <1>1, <1>2

\* With nothing in flight and nothing under way, what is shown is what the ledger has
LEMMA LpSafe == LpInv => LpHonest
<1> SUFFICES ASSUME LpInv PROVE LpHonest
  OBVIOUS
<1>1. LpShape /\ DialogOK /\ ShownOK /\ FillWithinTolerance
  BY DEF LpInv
<1>2. LpTypeOK
  <2>1. \A w \in Wallets : shares[w] >= 0 /\ allowance[w] \in 0..WithdrawShares
    BY <1>1 DEF LpShape
  <2>2. ASSUME lscene = "follower" PROVE Cardinality(InFlight) <= 1 /\ Cardinality({o \in Ops : flow[o].pc # "idle"}) <= 1
    <3>1. Cardinality(InFlight) <= 1
      BY <1>1, <2>2, LpAtMostOne DEF DialogOK, OneRead
    <3>2. \A x, y \in {o \in Ops : flow[o].pc # "idle"} : x = y
      BY <1>1, <2>2 DEF DialogOK, OneFlow
    <3> QED
      BY <3>1, <3>2, LpAtMostOne
  <2> QED
    BY <2>1, <2>2 DEF LpTypeOK
<1>3. SettledShown
  <2> SUFFICES ASSUME ~crossed, InFlight = {}, wallet # "none", \A o \in Ops : flow[o].pc = "idle", balance.shares # NotRead
               PROVE  balance = [of |-> wallet, shares |-> shares[wallet]]
    BY DEF SettledShown
  <2>1. balance.of = wallet /\ balance.shares = shares[wallet]
    BY <1>1 DEF ShownOK, LedgerHas, Unseen
  <2>2. balance = [of |-> balance.of, shares |-> balance.shares]
    BY <1>1 DEF LpShape
  <2> QED
    BY <2>1, <2>2
<1> QED
  BY <1>1, <1>2, <1>3 DEF LpHonest

\* For every price path and any number of fills, reads and switches: a deposit or a withdrawal fills within its
\* tolerance, and unless reads or answers crossed, the settled page shows the connected wallet's balance
\* (vault/page.tsx and DepositWithdrawModal.tsx)
THEOREM LpIsHonest == LpSpec => []LpHonest
<1>1. LpInit => LpInv
  BY LpStarts
<1>2. LpInv /\ [LpNext]_lpVars => LpInv'
  BY LpStep
<1>3. LpInv => LpHonest
  BY LpSafe
<1> QED
  BY <1>1, <1>2, <1>3, PTL DEF LpSpec

----------------------------------------------------------------------------
(***************************************************************************)
(* The faucet.  Until a check raced a payment, one request at most is past *)
(* its check and the limit leaves room for it; the lock on the trustline   *)
(* holds what the page was told until Horizon lists it.                    *)
(***************************************************************************)
ClaimState == [pc : {"idle", "check", "load", "submit"}, amount : Nat, seq : Nat, attempt : 0..1]
Payment == [amount : ClaimAmounts, day : 1..MaxDays, by : Claims]

ClaimShape ==
    /\ payments \in Seq(Payment) /\ visible \in 0..Len(payments) /\ issuer = Len(payments) /\ today \in 1..MaxDays /\ raced \in BOOLEAN
    /\ claim \in [Claims -> ClaimState]
    /\ \A c \in Claims : claim[c].pc # "idle" => claim[c].amount \in ClaimAmounts

\* While no check missed a payment: one request at most is past its check, the limit leaves room for it,
\* and no day is over the limit
PastCheck(c) == claim[c].pc \in {"load", "submit"}
Allowed ==
    ~raced =>
      /\ \A c, d \in Claims : PastCheck(c) /\ PastCheck(d) => c = d
      /\ \A c \in Claims : PastCheck(c) => Paid(Len(payments), today) + claim[c].amount <= DailyLimit
      /\ \A d \in 1..MaxDays : Paid(Len(payments), d) <= DailyLimit

\* The lock holds what the page was told until Horizon lists the trustline, and an addition begins only when it may be missing
LockHolds ==
    /\ action \in {"none", "fund", "trust"}
    /\ faucetData = "yes" => lineSeen
    /\ trustlineLocked \in BOOLEAN /\ (trustlineLocked => trustlineStatus \in {"adding", "active"})
    /\ added => trustlineLocked \/ lineSeen
    /\ action = "trust" => (trustlineLocked /\ ~added) \/ lineSeen

FaucetInv == ClaimShape /\ Allowed /\ LockHolds

\* The assumptions on the constants, one by one
LEMMA FaucetConsts ==
    DailyLimit \in Nat \ {0} /\ MaxDays \in Nat \ {0} /\ ClaimAmounts \subseteq 1..DailyLimit
<1>1. \A x \in {DailyLimit, MaxPayments, MaxDays} : x \in Nat \ {0}
  BY FaucetConstants
<1> QED
  BY <1>1, FaucetConstants

\* The coins of a day can be counted
LEMMA CoinsFinite ==
    ASSUME NEW n \in Nat, NEW day
    PROVE  IsFiniteSet(Coins(n, day)) /\ Paid(n, day) \in Nat
<1>1. IsFiniteSet((1..n) \X (1..DailyLimit))
  <2>1. 1 \in Int /\ n \in Int /\ DailyLimit \in Int
    BY FaucetConsts
  <2>2. IsFiniteSet(1..n) /\ IsFiniteSet(1..DailyLimit)
    BY <2>1, FS_Interval
  <2> QED
    BY <2>2, FS_Product
<1>2. Coins(n, day) \subseteq (1..n) \X (1..DailyLimit)
  BY DEF Coins
<1> QED
  BY <1>1, <1>2, FS_Subset, FS_CardinalityType DEF Paid

\* No payment, no coin
LEMMA PaidNothing == ASSUME NEW day PROVE Paid(0, day) = 0
<1>1. 1..0 = {}
  OBVIOUS
<1>2. Coins(0, day) = {}
  BY <1>1 DEF Coins
<1> QED
  BY <1>2, FS_EmptySet DEF Paid

\* A payment adds its amount to its day and nothing to another
LEMMA PaidGrows ==
    ASSUME payments \in Seq(Payment), NEW p \in Payment, payments' = Append(payments, p), NEW day
    PROVE  Paid(Len(payments), day)' = Paid(Len(payments), day) + (IF p.day = day THEN p.amount ELSE 0)
<1> DEFINE n == Len(payments)
           old == Coins(n, day)
           new == {n + 1} \X (1..p.amount)
           all == {t \in (1..(n + 1)) \X (1..DailyLimit) : payments'[t[1]].day = day /\ t[2] <= payments'[t[1]].amount}
<1>1. n \in Nat /\ p.amount \in 1..DailyLimit /\ DailyLimit \in Nat
  <2>1. n \in Nat
    BY LenProperties
  <2>2. p.amount \in ClaimAmounts
    BY DEF Payment
  <2> QED
    BY <2>1, <2>2, FaucetConsts
<1>2. Len(payments') = n + 1 /\ payments'[n + 1] = p /\ \A i \in 1..n : payments'[i] = payments[i]
  BY AppendProperties
<1>3. Paid(Len(payments), day)' = Cardinality(all) /\ Paid(n, day) = Cardinality(old)
  BY <1>2 DEF Paid, Coins
<1>4. old = {t \in (1..n) \X (1..DailyLimit) : payments'[t[1]].day = day /\ t[2] <= payments'[t[1]].amount}
  BY <1>2 DEF Coins
<1>5. IsFiniteSet(old) /\ Cardinality(old) \in Nat
  BY <1>1, CoinsFinite, FS_CardinalityType
<1> HIDE DEF n
<1>6. CASE p.day = day
  <2>1. all = old \cup new
    <3>1. 1..(n + 1) = (1..n) \cup {n + 1}
      BY <1>1
    <3>2. ASSUME NEW t \in all PROVE t \in old \cup new
      <4>1. t \in (1..(n + 1)) \X (1..DailyLimit) /\ payments'[t[1]].day = day /\ t[2] <= payments'[t[1]].amount
        OBVIOUS
      <4>2. CASE t[1] = n + 1
        <5>1. t[2] \in 1..p.amount /\ t = <<t[1], t[2]>>
          BY <1>1, <1>2, <4>1, <4>2
        <5> QED
          BY <4>2, <5>1
      <4>3. CASE t[1] # n + 1
        BY <1>1, <1>4, <3>1, <4>1, <4>3
      <4> QED
        BY <4>2, <4>3
    <3>3. ASSUME NEW t \in old PROVE t \in all
      BY <1>1, <1>4, <3>1
    <3>4. ASSUME NEW t \in new PROVE t \in all
      <4>1. t[1] = n + 1 /\ t[2] \in 1..p.amount /\ t = <<t[1], t[2]>>
        OBVIOUS
      <4>2. t[1] \in 1..(n + 1) /\ t[2] \in 1..DailyLimit
        BY <1>1, <4>1
      <4> QED
        BY <1>1, <1>2, <1>6, <4>1, <4>2
    <3> QED
      BY <3>2, <3>3, <3>4
  <2>2. old \cap new = {}
    BY <1>1, <1>4
  <2>3. IsFiniteSet(new) /\ Cardinality(new) = p.amount
    <3>1. IsFiniteSet({n + 1}) /\ Cardinality({n + 1}) = 1
      BY FS_Singleton
    <3>2. IsFiniteSet(1..p.amount) /\ Cardinality(1..p.amount) = p.amount
      <4>1. 1 \in Int /\ p.amount \in Int /\ ~(1 > p.amount) /\ p.amount - 1 + 1 = p.amount
        BY <1>1
      <4>2. IsFiniteSet(1..p.amount) /\ Cardinality(1..p.amount) = IF 1 > p.amount THEN 0 ELSE p.amount - 1 + 1
        BY <4>1, FS_Interval
      <4> QED
        BY <4>1, <4>2
    <3>3. IsFiniteSet(new) /\ Cardinality(new) = Cardinality({n + 1}) * Cardinality(1..p.amount)
      BY <3>1, <3>2, FS_Product
    <3>4. 1 * p.amount = p.amount
      BY <1>1
    <3> QED
      BY <3>1, <3>2, <3>3, <3>4
  <2>4. Cardinality(all) = Cardinality(old) + p.amount
    <3>1. Cardinality(old \cup new) = Cardinality(old) + Cardinality(new) - Cardinality(old \cap new)
      BY <1>5, <2>3, FS_Union
    <3>2. Cardinality({}) = 0
      BY FS_EmptySet
    <3> HIDE DEF old, new, all
    <3>3. p.amount \in Nat
      BY <1>1
    <3>4. Cardinality(old \cup new) = Cardinality(old) + p.amount - 0
      BY <2>2, <2>3, <3>1, <3>2
    <3> QED
      BY <1>5, <2>1, <3>3, <3>4
  <2> HIDE DEF old, new, all
  <2> QED
    BY <1>3, <1>6, <2>4 DEF n
<1>7. CASE p.day # day
  <2>1. all = old
    BY <1>1, <1>2, <1>4, <1>7
  <2> HIDE DEF old, new, all
  <2> QED
    BY <1>3, <1>5, <1>7, <2>1 DEF n
<1> QED
  BY <1>6, <1>7

\* The claims' side depends on these alone
LEMMA ClaimsRest ==
    ASSUME FaucetInv, UNCHANGED claimVars
    PROVE  ClaimShape' /\ Allowed'
<1>1. UNCHANGED <<payments, visible, issuer, today, claim, raced>>
  BY DEF claimVars
<1>2. \A n, d : Paid(n, d)' = Paid(n, d)
  BY <1>1 DEF Paid, Coins
<1>3. Len(payments') = Len(payments) /\ Paid(Len(payments), today)' = Paid(Len(payments), today)
      /\ \A d : Paid(Len(payments), d)' = Paid(Len(payments), d)
  BY <1>1 DEF Paid, Coins
<1> QED
  BY <1>1, <1>3 DEF FaucetInv, ClaimShape, Allowed, PastCheck

\* A request that moves on without passing its check, or passes it seeing every payment, alone
LEMMA ClaimMoves ==
    ASSUME ClaimShape, Allowed, NEW c \in Claims, NEW g \in ClaimState, claim' = [claim EXCEPT ![c] = g],
           UNCHANGED <<payments, visible, issuer, today>>, raced' \in BOOLEAN, ~raced' => ~raced,
           g.pc # "idle" => g.amount \in ClaimAmounts,
           ~raced' /\ g.pc \in {"load", "submit"} =>
              \/ PastCheck(c) /\ g.amount = claim[c].amount
              \/ (\A d \in Claims \ {c} : ~PastCheck(d)) /\ Paid(Len(payments), today) + g.amount <= DailyLimit
    PROVE  ClaimShape' /\ Allowed'
<1>1. \A d \in Claims : claim'[d] = IF d = c THEN g ELSE claim[d]
  BY DEF ClaimShape
<1>2. ClaimShape'
  <2>1. claim' \in [Claims -> ClaimState]
    BY DEF ClaimShape
  <2>2. \A d \in Claims : claim'[d].pc # "idle" => claim'[d].amount \in ClaimAmounts
    BY <1>1 DEF ClaimShape
  <2> QED
    BY <2>1, <2>2 DEF ClaimShape
<1>3. Paid(Len(payments), today)' = Paid(Len(payments), today) /\ \A d : Paid(Len(payments), d)' = Paid(Len(payments), d)
  BY DEF Paid, Coins
<1>4. \A d \in Claims : PastCheck(d)' <=> (IF d = c THEN g.pc \in {"load", "submit"} ELSE PastCheck(d))
  BY <1>1 DEF PastCheck
<1>5. Allowed'
  <2> SUFFICES ASSUME ~raced' PROVE Allowed'
    BY DEF Allowed
  <2>1. /\ \A d, e \in Claims : PastCheck(d) /\ PastCheck(e) => d = e
        /\ \A d \in Claims : PastCheck(d) => Paid(Len(payments), today) + claim[d].amount <= DailyLimit
        /\ \A d \in 1..MaxDays : Paid(Len(payments), d) <= DailyLimit
    BY DEF Allowed
  <2>2. \A d, e \in Claims : PastCheck(d)' /\ PastCheck(e)' => d = e
    BY <1>4, <2>1
  <2>3. \A d \in Claims : PastCheck(d)' => Paid(Len(payments), today) + claim'[d].amount <= DailyLimit
    BY <1>1, <1>4, <2>1
  <2> QED
    BY <1>3, <2>1, <2>2, <2>3 DEF Allowed
<1> QED
  BY <1>2, <1>5

\* A request comes in, takes a sequence number, takes a fresh one, or ends
LEMMA ClaimAsks ==
    ASSUME ClaimShape, Allowed, NEW c \in Claims,
           (\E a \in ClaimAmounts : ClaimUsdc(c, a)) \/ LoadIssuer(c) \/ BadSequence(c) \/ ClaimFails(c)
    PROVE  ClaimShape' /\ Allowed'
<1>1. NoClaim \in ClaimState /\ NoClaim.pc = "idle"
  BY DEF NoClaim, ClaimState
<1>2. claim \in [Claims -> ClaimState] /\ claim[c] \in ClaimState /\ issuer \in Nat /\ raced \in BOOLEAN
      /\ (claim[c].pc # "idle" => claim[c].amount \in ClaimAmounts)
  BY LenProperties DEF ClaimShape
<1>3. UNCHANGED <<payments, visible, issuer, today, raced>>
  BY DEF ClaimUsdc, LoadIssuer, BadSequence, ClaimFails
<1>4. ASSUME NEW a \in ClaimAmounts, ClaimUsdc(c, a) PROVE ClaimShape' /\ Allowed'
  <2> DEFINE g == [NoClaim EXCEPT !.pc = "check", !.amount = a]
  <2>1. claim' = [claim EXCEPT ![c] = g]
    BY <1>4 DEF ClaimUsdc
  <2>2. g \in ClaimState /\ g.pc = "check" /\ g.amount = a
    <3>1. a \in Nat
      BY FaucetConsts
    <3> QED
      BY <1>1, <3>1 DEF ClaimState
  <2> HIDE DEF g
  <2> QED
    BY <1>2, <1>3, <2>1, <2>2, ClaimMoves
<1>5. CASE LoadIssuer(c)
  <2> DEFINE g == [claim[c] EXCEPT !.pc = "submit", !.seq = issuer + 1]
  <2>1. claim[c].pc = "load" /\ claim' = [claim EXCEPT ![c] = g]
    BY <1>2, <1>5 DEF LoadIssuer
  <2>2. g \in ClaimState /\ g.pc = "submit" /\ g.amount = claim[c].amount
    <3>1. issuer + 1 \in Nat
      BY <1>2
    <3> QED
      BY <1>2, <3>1 DEF ClaimState
  <2> HIDE DEF g
  <2>3. PastCheck(c)
    BY <2>1 DEF PastCheck
  <2> QED
    BY <1>2, <1>3, <2>1, <2>2, <2>3, ClaimMoves
<1>6. CASE BadSequence(c) /\ MayRetry(c)
  <2> DEFINE g == [claim[c] EXCEPT !.pc = "load", !.attempt = claim[c].attempt + 1]
  <2>1. claim[c].pc = "submit" /\ claim[c].attempt = 0 /\ claim' = [claim EXCEPT ![c].pc = "load", ![c].attempt = @ + 1]
    BY <1>6 DEF BadSequence, MayRetry
  <2>2. claim' = [claim EXCEPT ![c] = g]
    BY <1>2, <2>1
  <2>3. g \in ClaimState /\ g.pc = "load" /\ g.amount = claim[c].amount
    <3>1. claim[c].attempt + 1 \in 0..1
      BY <2>1
    <3> QED
      BY <1>2, <3>1 DEF ClaimState
  <2> HIDE DEF g
  <2>4. PastCheck(c)
    BY <2>1 DEF PastCheck
  <2> QED
    BY <1>2, <1>3, <2>1, <2>2, <2>3, <2>4, ClaimMoves
<1>7. CASE ClaimFails(c) \/ (BadSequence(c) /\ ~MayRetry(c))
  <2>1. claim' = [claim EXCEPT ![c] = NoClaim]
    BY <1>7 DEF ClaimFails, BadSequence, Answered
  <2> QED
    BY <1>1, <1>2, <1>3, <2>1, ClaimMoves
<1> QED
  BY <1>4, <1>5, <1>6, <1>7

\* The check lets a request past only within the day's limit as it is listed; unless it raced, that is as it is
LEMMA ClaimChecked ==
    ASSUME ClaimShape, Allowed, NEW c \in Claims, NEW n \in {0, visible}, CheckLimit(c, n)
    PROVE  ClaimShape' /\ Allowed'
<1>1. NoClaim \in ClaimState /\ NoClaim.pc = "idle"
  BY DEF NoClaim, ClaimState
<1>2. claim \in [Claims -> ClaimState] /\ claim[c] \in ClaimState /\ raced \in BOOLEAN
      /\ (claim[c].pc # "idle" => claim[c].amount \in ClaimAmounts)
  BY DEF ClaimShape
<1>3. /\ claim[c].pc = "check"
      /\ raced' = (raced \/ n # Len(payments) \/ \E d \in ClaimUnderway \ {c} : claim[d].pc # "check")
      /\ UNCHANGED <<payments, visible, issuer, today>>
  BY DEF CheckLimit
<1>4. raced' \in BOOLEAN /\ (~raced' => ~raced /\ n = Len(payments) /\ \A d \in Claims \ {c} : ~PastCheck(d))
  <2>1. \A d \in Claims \ {c} : PastCheck(d) => d \in ClaimUnderway \ {c} /\ claim[d].pc # "check"
    BY DEF PastCheck, ClaimUnderway
  <2>2. raced' \in BOOLEAN
    BY <1>3
  <2> QED
    BY <1>3, <2>1, <2>2
<1>5. CASE claim[c].amount > GetRemainingAllowance(n)
  <2>1. claim' = [claim EXCEPT ![c] = NoClaim]
    BY <1>5 DEF CheckLimit, Answered
  <2> QED
    BY <1>1, <1>2, <1>3, <1>4, <2>1, ClaimMoves
<1>6. CASE ~(claim[c].amount > GetRemainingAllowance(n))
  <2> DEFINE g == [claim[c] EXCEPT !.pc = "load"]
  <2>1. claim' = [claim EXCEPT ![c] = g]
    BY <1>2, <1>6 DEF CheckLimit
  <2>2. g \in ClaimState /\ g.pc = "load" /\ g.amount = claim[c].amount
    BY <1>2 DEF ClaimState
  <2> HIDE DEF g
  <2>3. ~raced' => Paid(Len(payments), today) + claim[c].amount <= DailyLimit
    <3> SUFFICES ASSUME ~raced' PROVE Paid(Len(payments), today) + claim[c].amount <= DailyLimit
      OBVIOUS
    <3>1. n = Len(payments) /\ n \in Nat
      BY <1>4, LenProperties DEF ClaimShape
    <3>2. Paid(n, today) \in Nat /\ DailyLimit \in Nat /\ claim[c].amount \in 1..DailyLimit
      BY <1>2, <1>3, <3>1, CoinsFinite, FaucetConsts
    <3>3. GetRemainingAllowance(n) = IF Paid(n, today) >= DailyLimit THEN 0 ELSE DailyLimit - Paid(n, today)
      BY DEF GetRemainingAllowance, GetTodaysClaims
    <3> QED
      BY <1>6, <3>1, <3>2, <3>3
  <2> QED
    BY <1>2, <1>3, <1>4, <2>1, <2>2, <2>3, ClaimMoves
<1> QED
  BY <1>5, <1>6

\* A payment is the one the limit left room for
LEMMA ClaimPaid ==
    ASSUME ClaimShape, Allowed, NEW c \in Claims, SubmitPayment(c)
    PROVE  ClaimShape' /\ Allowed'
<1> DEFINE p == [amount |-> claim[c].amount, day |-> today, by |-> c]
<1>1. NoClaim \in ClaimState /\ NoClaim.pc = "idle"
  BY DEF NoClaim, ClaimState
<1>2. /\ claim \in [Claims -> ClaimState] /\ raced \in BOOLEAN /\ payments \in Seq(Payment) /\ today \in 1..MaxDays
      /\ visible \in 0..Len(payments) /\ issuer = Len(payments)
      /\ \A d \in Claims : claim[d].pc # "idle" => claim[d].amount \in ClaimAmounts
  BY DEF ClaimShape
<1>3. /\ claim[c].pc = "submit" /\ claim' = [claim EXCEPT ![c] = NoClaim]
      /\ payments' = Append(payments, p) /\ issuer' = issuer + 1 /\ UNCHANGED <<visible, today, raced>>
  BY DEF SubmitPayment, Pay, Answered
<1>4. p \in Payment /\ p.day = today /\ p.amount = claim[c].amount
  BY <1>2, <1>3 DEF Payment
<1> HIDE DEF p
<1>5. \A d \in Claims : claim'[d] = IF d = c THEN NoClaim ELSE claim[d]
  BY <1>2, <1>3
<1>6. ClaimShape'
  <2>1. claim' \in [Claims -> ClaimState] /\ \A d \in Claims : claim'[d].pc # "idle" => claim'[d].amount \in ClaimAmounts
    <3>1. claim' \in [Claims -> ClaimState]
      BY <1>1, <1>2, <1>3
    <3> QED
      BY <1>1, <1>2, <1>5, <3>1
  <2>2. payments' \in Seq(Payment) /\ Len(payments') = Len(payments) + 1
    BY <1>2, <1>3, <1>4, AppendProperties
  <2>3. visible' \in 0..Len(payments') /\ issuer' = Len(payments')
    <3>1. Len(payments) \in Nat
      BY <1>2, LenProperties
    <3> QED
      BY <1>2, <1>3, <2>2, <3>1
  <2> QED
    BY <1>2, <1>3, <2>1, <2>2, <2>3 DEF ClaimShape
<1>7. Allowed'
  <2> SUFFICES ASSUME ~raced PROVE Allowed'
    BY <1>3 DEF Allowed
  <2>1. PastCheck(c)
    BY <1>3 DEF PastCheck
  <2>2. \A d \in Claims : ~PastCheck(d)'
    BY <1>1, <1>5, <2>1 DEF Allowed, PastCheck
  <2>3. ASSUME NEW d \in 1..MaxDays PROVE Paid(Len(payments), d)' <= DailyLimit
    <3>1. Paid(Len(payments), d)' = Paid(Len(payments), d) + (IF p.day = d THEN p.amount ELSE 0)
      BY <1>2, <1>3, <1>4, PaidGrows
    <3>2. Len(payments) \in Nat /\ Paid(Len(payments), d) \in Nat /\ Paid(Len(payments), d) <= DailyLimit
      BY <1>2, LenProperties, CoinsFinite DEF Allowed
    <3>3. Paid(Len(payments), today) + p.amount <= DailyLimit
      BY <1>4, <2>1 DEF Allowed
    <3>4. CASE d = today
      BY <1>4, <3>1, <3>3, <3>4
    <3>5. CASE d # today
      BY <1>4, <3>1, <3>2, <3>5
    <3> QED
      BY <3>4, <3>5
  <2> QED
    BY <2>2, <2>3 DEF Allowed
<1> QED
  BY <1>6, <1>7

\* What is listed and what day it is
LEMMA ClaimTimes ==
    ASSUME ClaimShape, Allowed, Ingest \/ Midnight
    PROVE  ClaimShape' /\ Allowed'
<1>1. UNCHANGED <<payments, issuer, claim, raced>>
  BY DEF Ingest, Midnight
<1>2. payments \in Seq(Payment) /\ visible \in 0..Len(payments) /\ today \in 1..MaxDays /\ Len(payments) \in Nat /\ MaxDays \in Nat
  BY LenProperties, FaucetConsts DEF ClaimShape
<1>3. visible' \in 0..Len(payments') /\ today' \in 1..MaxDays
  BY <1>1, <1>2 DEF Ingest, Midnight
<1>4. \A d : Paid(Len(payments), d)' = Paid(Len(payments), d)
  BY <1>1 DEF Paid, Coins
<1>5. Allowed'
  <2>1. CASE today' = today
    <3>1. Paid(Len(payments), today)' = Paid(Len(payments), today)
      BY <1>1, <2>1 DEF Paid, Coins
    <3> QED
      BY <1>1, <1>4, <3>1 DEF Allowed, PastCheck
  <2>2. CASE \A c \in Claims : ~PastCheck(c)
    BY <1>1, <1>4, <2>2 DEF Allowed, PastCheck
  <2>3. Midnight => \A c \in Claims : ~PastCheck(c)
    BY DEF Midnight, PastCheck, ClaimUnderway
  <2>4. Ingest => today' = today
    BY DEF Ingest
  <2> QED
    BY <2>1, <2>2, <2>3, <2>4
<1>6. ClaimShape'
  BY <1>1, <1>3 DEF ClaimShape
<1> QED
  BY <1>5, <1>6

\* The lock is released only by the history or a failure
LEMMA EffectKeeps ==
    ASSUME LockHolds, NEW acct, NEW data, TrustlineEffect(acct, data), data = "yes" => lineSeen
    PROVE  /\ trustlineLocked' \in BOOLEAN /\ (trustlineLocked' => trustlineStatus' \in {"adding", "active"})
           /\ added => trustlineLocked' \/ lineSeen
           /\ action = "trust" => (trustlineLocked' /\ ~added) \/ lineSeen
<1>1. trustlineLocked' = (trustlineLocked /\ data # "yes") /\ (trustlineLocked' => trustlineStatus' = trustlineStatus)
  BY DEF TrustlineEffect, StillLocked
<1> QED
  BY <1>1 DEF LockHolds

\* Every answer, funding and addition keeps the lock honest
LEMMA BoardingKeeps ==
    ASSUME LockHolds,
           \/ \E a \in {"yes", "no", "err"} : CheckAccount(a)
           \/ \E d \in {"yes", "no", "err"} : RefetchHistory(d)
           \/ FundAccount \/ \E ok \in BOOLEAN : Funded(ok)
           \/ AddTrustline \/ TrustlineAdded \/ TrustlineFails \/ IngestLine
    PROVE  LockHolds'
<1>1. ASSUME NEW a \in {"yes", "no", "err"}, CheckAccount(a) PROVE LockHolds'
  <2>1. TrustlineEffect(accountStatus', faucetData) /\ UNCHANGED <<onLedger, line, lineSeen, faucetData, action, added>>
    BY <1>1 DEF CheckAccount
  <2>2. faucetData = "yes" => lineSeen
    BY DEF LockHolds
  <2> QED
    BY <2>1, <2>2, EffectKeeps DEF LockHolds
<1>2. ASSUME NEW d \in {"yes", "no", "err"}, RefetchHistory(d) PROVE LockHolds'
  <2>1. TrustlineEffect(accountStatus, d) /\ faucetData' = d /\ d \in HistoryAnswers
        /\ UNCHANGED <<onLedger, line, lineSeen, accountExists, accountStatus, action, added>>
    BY <1>2 DEF RefetchHistory
  <2>2. d = "yes" => lineSeen
    BY <2>1 DEF HistoryAnswers, HasTrustline
  <2> QED
    BY <2>1, <2>2, EffectKeeps DEF LockHolds
<1>3. CASE FundAccount
  <2>1. TrustlineEffect("funding", faucetData) /\ action' = "fund" /\ UNCHANGED <<lineSeen, faucetData, added>>
    BY <1>3 DEF FundAccount
  <2>2. faucetData = "yes" => lineSeen
    BY DEF LockHolds
  <2> QED
    BY <2>1, <2>2, EffectKeeps DEF LockHolds
<1>4. ASSUME NEW ok \in BOOLEAN, Funded(ok) PROVE LockHolds'
  <2>1. TrustlineEffect(accountStatus', faucetData) /\ action' = "none" /\ UNCHANGED <<line, lineSeen, accountExists, faucetData, added>>
    BY <1>4 DEF Funded
  <2>2. faucetData = "yes" => lineSeen
    BY DEF LockHolds
  <2> QED
    BY <2>1, <2>2, EffectKeeps DEF LockHolds
<1>5. CASE AddTrustline
  BY <1>5 DEF AddTrustline, LockHolds
<1>6. CASE TrustlineAdded
  BY <1>6 DEF TrustlineAdded, SubmitTrustline, LockHolds
<1>7. CASE TrustlineFails
  BY <1>7 DEF TrustlineFails, LockHolds
<1>8. CASE IngestLine
  BY <1>8 DEF IngestLine, LockHolds
<1> QED
  BY <1>1, <1>2, <1>3, <1>4, <1>5, <1>6, <1>7, <1>8

\* The lock depends on the onboarding alone
LEMMA LockRests ==
    ASSUME LockHolds, UNCHANGED boardingVars
    PROVE  LockHolds'
BY DEF LockHolds, boardingVars

\* Nothing is paid or added at the start
LEMMA FaucetStarts == FaucetInit => FaucetInv
<1> SUFFICES ASSUME FaucetInit PROVE FaucetInv
  OBVIOUS
<1>1. /\ payments = <<>> /\ visible = 0 /\ issuer = 0 /\ today = 1 /\ claim = [c \in Claims |-> NoClaim] /\ raced = FALSE
      /\ lineSeen = FALSE /\ faucetData = "none" /\ trustlineLocked = FALSE /\ action = "none" /\ added = FALSE
  BY DEF FaucetInit
<1>2. NoClaim \in ClaimState /\ NoClaim.pc = "idle" /\ MaxDays \in Nat \ {0} /\ DailyLimit \in Nat
  BY FaucetConsts DEF NoClaim, ClaimState
<1>3. \A c \in Claims : claim[c] = NoClaim
  BY <1>1
<1>4. payments \in Seq(Payment) /\ Len(payments) = 0
  BY <1>1
<1>5. claim \in [Claims -> ClaimState]
  BY <1>1, <1>2
<1>6. ClaimShape
  <2>1. visible \in 0..Len(payments) /\ issuer = Len(payments) /\ today \in 1..MaxDays
    BY <1>1, <1>2, <1>4
  <2> QED
    BY <1>1, <1>2, <1>3, <1>4, <1>5, <2>1 DEF ClaimShape
<1>7. Allowed
  <2>1. \A d : Paid(Len(payments), d) = 0
    BY <1>4, PaidNothing
  <2> QED
    BY <1>2, <1>3, <2>1 DEF Allowed, PastCheck
<1>8. LockHolds
  BY <1>1 DEF LockHolds
<1> QED
  BY <1>6, <1>7, <1>8 DEF FaucetInv

\* For every number of overlapping requests, payments and days: no day is over the limit unless a check raced a
\* payment, the retry of a collided sequence number pays nothing twice, and an added trustline is not asked for
\* again while Horizon lags (the claim route and useFaucet.ts)
THEOREM FaucetIsSafe == FaucetSpec => []FaucetSafe
<1>1. FaucetInit => FaucetInv
  BY FaucetStarts
<1>2. FaucetInv /\ [FaucetNext]_faucetVars => FaucetInv'
  <2> SUFFICES ASSUME FaucetInv, [FaucetNext]_faucetVars PROVE FaucetInv'
    OBVIOUS
  <2> USE DEF FaucetInv
  <2>1. CASE UNCHANGED faucetVars
    BY <2>1, ClaimsRest, LockRests DEF faucetVars
  <2>2. CASE UNCHANGED boardingVars /\
               \/ \E c \in Claims : \/ \E a \in ClaimAmounts : ClaimUsdc(c, a)
                                    \/ \E n \in {0, visible} : CheckLimit(c, n)
                                    \/ LoadIssuer(c) \/ SubmitPayment(c) \/ BadSequence(c) \/ ClaimFails(c)
               \/ Ingest \/ Midnight
    <3>1. ClaimShape' /\ Allowed'
      BY <2>2, ClaimAsks, ClaimChecked, ClaimPaid, ClaimTimes
    <3> QED
      BY <2>2, <3>1, LockRests
  <2>3. CASE UNCHANGED claimVars /\
               \/ \E a \in {"yes", "no", "err"} : CheckAccount(a)
               \/ \E d \in {"yes", "no", "err"} : RefetchHistory(d)
               \/ FundAccount \/ \E ok \in BOOLEAN : Funded(ok)
               \/ AddTrustline \/ TrustlineAdded \/ TrustlineFails \/ IngestLine
    BY <2>3, ClaimsRest, BoardingKeeps
  <2> QED
    BY <2>1, <2>2, <2>3 DEF FaucetNext
<1>3. FaucetInv => FaucetSafe
  <2> SUFFICES ASSUME FaucetInv PROVE FaucetSafe
    OBVIOUS
  <2>1. \A c \in Claims : claim[c].attempt \in 0..1
    BY DEF FaucetInv, ClaimShape, ClaimState
  <2>2. FaucetTypeOK
    BY <2>1 DEF FaucetInv, ClaimShape, LockHolds, FaucetTypeOK
  <2>3. WithinLimitUnlessRaced
    BY DEF FaucetInv, Allowed, WithinLimitUnlessRaced
  <2>4. NotAskedAgain
    BY DEF FaucetInv, LockHolds, NotAskedAgain
  <2> QED
    BY <2>2, <2>3, <2>4 DEF FaucetSafe
<1> QED
  BY <1>1, <1>2, <1>3, PTL DEF FaucetSpec

\* In every behaviour of the browser: the pages that move a user's money keep to what they quoted, limited and
\* showed (LP pages, faucet)
THEOREM MoneyPagesAreSafe == MCSpec => []MoneyPages
<1>1. MCInit => LpInit /\ FaucetInit
  BY DEF MCInit
<1>2. [MCNext]_<<tradingVars, ticketVars, moneyVars, accountVars, part>> => [LpNext]_lpVars
  BY DEF MCNext, moneyVars
<1>3. [MCNext]_<<tradingVars, ticketVars, moneyVars, accountVars, part>> => [FaucetNext]_faucetVars
  BY DEF MCNext, moneyVars
<1>4. MCSpec => LpSpec /\ FaucetSpec
  BY <1>1, <1>2, <1>3, PTL DEF MCSpec, LpSpec, FaucetSpec
<1>5. LpHonest /\ FaucetSafe => MoneyPages
  BY DEF MoneyPages
<1> QED
  BY <1>4, <1>5, LpIsHonest, FaucetIsSafe, PTL
=============================================================================
