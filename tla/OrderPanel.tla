----------------------------- MODULE OrderPanel -----------------------------
(***************************************************************************)
(* The order panel of the trade page (web/components/trading/OrderPanel.tsx)*)
(* between edits and signatures.  A submit works on what was rendered when  *)
(* it was clicked, while the user edits on, the asset changes, probes and   *)
(* tickers answer late, leader mode comes and goes, and the cross-margin    *)
(* pool is funded next to it.                                               *)
(***************************************************************************)
EXTENDS Naturals, Sequences, FiniteSets

CONSTANTS PanelScenes,   \* what the user works on: "stops", "leader", "ladder", "pool"
          MaxOrders,     \* submits in a behaviour
          MaxAsks,       \* probes and ticker reads in flight
          MaxFlows       \* deposits, withdrawals and balance reads in flight when another is begun

ASSUME OrderPanelConstants ==
    PanelScenes \subseteq {"stops", "leader", "ladder", "pool"} /\ {MaxOrders, MaxAsks, MaxFlows} \subseteq Nat \ {0}

\* Prices, with stops on either side; leverage caps of the risk ladder; MAX_LEVERAGE
Assets == {"btc", "alt"}
PriceOf == [btc |-> 4, alt |-> 2]
CapOf == [btc |-> 2, alt |-> 1]
TopLeverage == 2
Stops == {0, 1, 5}
Held == {"iso", "cross"}     \* positions of the trader, by their margin mode

VARIABLES scene, asset,
          form,       \* what the user entered
          leader,     \* trading for a vault
          batch1,     \* the deployed market has the Batch-1 entry points
          features,   \* the panel knows it has
          cap,        \* leverage cap shown, and the asset whose probe answered last
          fallback,   \* ticker price shown while no mark is streamed, and its asset
          marked,     \* assets with a streamed mark
          asks,       \* probes and ticker reads in flight
          job,        \* the submit in progress, with what was rendered when it was clicked
          sent,       \* what was given to the wallet to sign
          pool, usdc, shown,   \* cross-margin balance and wallet on the chain; the pool on screen (or Unknown)
          flows,               \* deposit, withdrawal and re-reads in flight
          disturbed            \* history: re-reads overlapped, or a transaction landed after the panel gave it up

adviceVars == <<cap, fallback, marked, asks>>
poolVars == <<pool, usdc, shown, flows, disturbed>>
panelVars == <<scene, asset, form, leader, batch1, features, adviceVars, job, sent, poolVars>>

UnknownPool == 99
NoJob == [pc |-> "idle"]
EmptyForm == [type |-> "Market", mode |-> "Isolated", dir |-> "Long", amt |-> 1, lev |-> 1, sl |-> 0, tp |-> 0, trail |-> "none"]

Edits(field) ==
    field \in CASE scene = "stops"  -> {"stops", "mode", "dir", "submit"}
                [] scene = "leader" -> {"type", "mode", "leader", "submit"}
                [] scene = "ladder" -> {"asset", "lev"}
                [] scene = "pool"   -> {"amt", "pool", "submit"}

PanelInit ==
    /\ scene \in PanelScenes /\ asset = "btc" /\ leader = FALSE /\ features = FALSE
    /\ batch1 \in IF scene \in {"stops", "leader"} THEN BOOLEAN ELSE {TRUE}
    /\ form = [EmptyForm EXCEPT !.mode = IF scene = "pool" THEN "Cross" ELSE @]
    /\ cap = [at |-> TopLeverage, of |-> "none"] /\ fallback = [at |-> 0, of |-> "none"]
    /\ marked = IF scene = "ladder" THEN {} ELSE Assets
    /\ asks = IF scene # "ladder" THEN {}
              ELSE {[what |-> what, of |-> "btc", lev |-> 1, live |-> TRUE] : what \in {"cap", "ticker"}}
    /\ job = NoJob /\ sent = <<>>
    /\ pool = 1 /\ usdc = 2 /\ shown = UnknownPool /\ disturbed = FALSE
    /\ flows = IF scene = "pool" THEN {[who |-> "load", pc |-> "read", val |-> 0]} ELSE {}

----------------------------------------------------------------------------
(***************************************************************************)
(* The form.                                                               *)
(***************************************************************************)
Put(f) == form' = f /\ UNCHANGED <<scene, asset, leader, batch1, features, adviceVars, job, sent, poolVars>>

AssetPrice == IF asset \in marked THEN PriceOf[asset] ELSE fallback.at

CanAttachTpSl == form.type = "Market" /\ ~leader /\ (features \/ form.mode = "Isolated")

\* Pre-Batch-1 markets settle a trigger on a cross position through the isolated path
TrailingEligible(p) == features \/ p # "cross"

SetOrderType(t) == Edits("type") /\ (leader => t = "Market") /\ Put([form EXCEPT !.type = t])
SetTrailing(p) ==
    /\ Edits("type") /\ form.type = "TrailingStop" /\ TrailingEligible(p)
    /\ Put([form EXCEPT !.trail = p])
SetMarginMode(m) == Edits("mode") /\ ~leader /\ Put([form EXCEPT !.mode = m])
SetDirection(d) == Edits("dir") /\ form.type # "TrailingStop" /\ Put([form EXCEPT !.dir = d])
SetCollateral(a) == Edits("amt") /\ form.type # "TrailingStop" /\ Put([form EXCEPT !.amt = a])
SetLeverage(l) == Edits("lev") /\ form.type # "TrailingStop" /\ l <= cap.at /\ Put([form EXCEPT !.lev = l])
SetStops(sl, tp) == Edits("stops") /\ CanAttachTpSl /\ Put([form EXCEPT !.sl = sl, !.tp = tp])

\* LeaderModeSelector, the preselected vault, the poll that finds the vault gone
SetLeader(on) ==
    /\ Edits("leader") /\ leader' = on
    /\ UNCHANGED <<scene, asset, form, batch1, features, adviceVars, job, sent, poolVars>>

\* The effect that snaps leader mode back to what the vault factory proxies
SnapBack ==
    /\ leader /\ (form.mode # "Isolated" \/ form.type # "Market")
    /\ Put([form EXCEPT !.mode = "Isolated", !.type = "Market"])

----------------------------------------------------------------------------
(***************************************************************************)
(* Advice: caps, prices, capabilities.  Switching the asset cancels what is *)
(* in flight for the one before.                                            *)
(***************************************************************************)
Probe ==
    /\ batch1 /\ ~features /\ features' = TRUE
    /\ UNCHANGED <<scene, asset, form, leader, batch1, adviceVars, job, sent, poolVars>>

Cancelled(ask) == [ask EXCEPT !.live = FALSE]

Ask(what) == [what |-> what, of |-> asset', lev |-> form.lev, live |-> TRUE]

SelectAsset(a) ==
    /\ Edits("asset") /\ a # asset /\ asset' = a
    /\ asks' = {Cancelled(ask) : ask \in asks} \cup {Ask("cap")} \cup (IF a \in marked THEN {} ELSE {Ask("ticker")})
    /\ Cardinality(asks') <= MaxAsks
    /\ UNCHANGED <<scene, form, leader, batch1, features, cap, fallback, marked, job, sent, poolVars>>

\* getAssetMaxLeverage: a failed read falls back to the global cap; the clamp compares the leverage
\* of the render that asked
AnswerCap(ask, found) ==
    LET at == IF found THEN CapOf[ask.of] ELSE TopLeverage IN
    /\ ask \in asks /\ ask.what = "cap" /\ asks' = asks \ {ask}
    /\ IF ask.live THEN /\ cap' = [at |-> at, of |-> ask.of]
                        /\ form' = IF ask.lev > at THEN [form EXCEPT !.lev = at] ELSE form
       ELSE UNCHANGED <<cap, form>>
    /\ UNCHANGED <<scene, asset, leader, batch1, features, fallback, marked, job, sent, poolVars>>

\* fetchTicker: polled every five seconds, and once more at an asset switch
AnswerTicker(ask, ok) ==
    /\ ask \in asks /\ ask.what = "ticker"
    /\ asks' = (asks \ {ask}) \cup (IF ask.live /\ ~ok THEN {ask} ELSE {})
    /\ fallback' = IF ask.live /\ ok THEN [at |-> PriceOf[ask.of], of |-> ask.of] ELSE fallback
    /\ UNCHANGED <<scene, asset, form, leader, batch1, features, cap, marked, job, sent, poolVars>>

\* The first streamed frame of an asset ends the ticker of the current one
StreamMark(a) ==
    /\ a \notin marked /\ marked' = marked \cup {a}
    /\ asks' = IF a = asset THEN {IF ask.what = "ticker" THEN Cancelled(ask) ELSE ask : ask \in asks} ELSE asks
    /\ UNCHANGED <<scene, asset, form, leader, batch1, features, cap, fallback, job, sent, poolVars>>

----------------------------------------------------------------------------
(***************************************************************************)
(* Submitting.                                                             *)
(***************************************************************************)
\* What an order can spend: the vault has plenty
SpendableBalance == CASE leader -> 2 [] ~leader /\ form.mode = "Cross" -> (IF shown = UnknownPool THEN UnknownPool ELSE shown + usdc) [] OTHER -> usdc

RightSide(dir, sl, tp, price) ==
    /\ tp > 0 => IF dir = "Long" THEN tp > price ELSE tp < price
    /\ sl > 0 => IF dir = "Long" THEN sl < price ELSE sl > price

LeaderFits == leader => form.mode = "Isolated" /\ form.type = "Market"
StopsFit == CanAttachTpSl /\ AssetPrice > 0 => RightSide(form.dir, form.sl, form.tp, AssetPrice)

NoErrors ==
    IF form.type = "TrailingStop" THEN form.trail # "none" /\ TrailingEligible(form.trail)
    ELSE form.amt <= SpendableBalance /\ LeaderFits /\ StopsFit

\* What the submit goes on with is what was rendered at the click
Rendered ==
    [pc |-> "sign", form |-> form, asset |-> asset, leader |-> leader, attach |-> CanAttachTpSl, price |-> AssetPrice, n |-> Len(sent) + 1]

Order(j, op) == [op |-> op, n |-> j.n, form |-> j.form, asset |-> j.asset, leader |-> j.leader, price |-> j.price, on |-> j.form.mode,
                attach |-> j.attach, done |-> FALSE]

PlacesTrailing(j) == j.form.type = "TrailingStop"
PlacesStopLimit(j) == j.form.type = "StopLimit"
PlacesLimit(j) == j.form.type = "Limit"
LeaderOpens(j) == j.form.type = "Market" /\ j.leader
OpensCross(j) == j.form.type = "Market" /\ ~j.leader /\ j.form.mode = "Cross"
OpensIsolated(j) == j.form.type = "Market" /\ ~j.leader /\ j.form.mode = "Isolated"

Operation(j) ==
    CASE PlacesTrailing(j) -> "trail" [] PlacesStopLimit(j) -> "stop_limit" [] PlacesLimit(j) -> "limit"
      [] LeaderOpens(j) -> "leader_open" [] OpensCross(j) -> "open_cross" [] OpensIsolated(j) -> "open"

HandleSubmit ==
    /\ Edits("submit") /\ job = NoJob /\ Len(sent) < MaxOrders /\ NoErrors
    /\ form.type # "TrailingStop" => form.amt > 0
    /\ job' = Rendered
    /\ sent' = Append(sent, [Order(Rendered, Operation(Rendered)) EXCEPT
                                !.on = IF form.type = "TrailingStop" THEN form.trail ELSE form.mode])
    /\ UNCHANGED <<scene, asset, form, leader, batch1, features, adviceVars, poolVars>>

\* The order is refused or cannot be signed
SubmitFails ==
    /\ job.pc = "sign" /\ job' = NoJob
    /\ UNCHANGED <<scene, asset, form, leader, batch1, features, adviceVars, sent, poolVars>>

\* An isolated market order goes on to its stops; the collateral entered is cleared
Attaches(j) == OpensIsolated(j) /\ j.attach

\* The contract takes what the pool has and the rest from the wallet
FromPool(n) == IF n < pool THEN n ELSE pool
ReRead(who) == {[who |-> who, pc |-> "read", val |-> 0]}

SubmitSucceeds ==
    /\ job.pc = "sign"
    /\ job' = IF Attaches(job) THEN [job EXCEPT !.pc = "sl"] ELSE NoJob
    /\ sent' = [sent EXCEPT ![job.n].done = TRUE]
    /\ form' = IF PlacesTrailing(job) THEN form ELSE [form EXCEPT !.amt = 0]
    /\ IF OpensCross(job)
       THEN /\ pool' = pool - FromPool(job.form.amt) /\ usdc' = usdc - (job.form.amt - FromPool(job.form.amt))
            /\ flows' = flows \cup ReRead("open")
       ELSE UNCHANGED <<pool, usdc, flows>>
    /\ usdc' >= 0
    /\ UNCHANGED <<scene, asset, leader, batch1, features, adviceVars, shown, disturbed>>

\* attachTpSlAfterOpen: one more signature for each stop; a refused one is only reported
NowEntered(j) == form
Entered(j) == j.form

Attach(which, pc, next) ==
    /\ job.pc = pc
    /\ sent' = IF Entered(job)[which] > 0
               THEN Append(sent, [Order(job, which) EXCEPT !.form = Entered(job)]) ELSE sent
    /\ job' = IF next = "idle" THEN NoJob ELSE [job EXCEPT !.pc = next]
    /\ form' = IF next = "idle" THEN [form EXCEPT !.sl = 0, !.tp = 0] ELSE form
    /\ UNCHANGED <<scene, asset, leader, batch1, features, adviceVars, poolVars>>

AttachStopLoss == Attach("sl", "sl", "tp")
AttachTakeProfit == Attach("tp", "tp", "idle")

----------------------------------------------------------------------------
(***************************************************************************)
(* The cross-margin pool: a deposit and a withdrawal may run side by side,  *)
(* each followed by a re-read.                                              *)
(***************************************************************************)
Busy(who) == \E f \in flows : f.who = who

HandleCross(who) ==
    /\ Edits("pool") /\ ~leader /\ form.mode = "Cross" /\ ~Busy(who) /\ Cardinality(flows) < MaxFlows
    /\ who = "withdraw" => shown = UnknownPool \/ 1 <= shown
    /\ who = "deposit" => 1 <= usdc
    /\ flows' = flows \cup {[who |-> who, pc |-> "sign", val |-> 0]}
    /\ UNCHANGED <<scene, asset, form, leader, batch1, features, adviceVars, job, sent, pool, usdc, shown, disturbed>>

Moved(who) ==
    IF who = "deposit" THEN usdc >= 1 /\ usdc' = usdc - 1 /\ pool' = pool + 1
    ELSE pool >= 1 /\ pool' = pool - 1 /\ usdc' = usdc + 1

ThenReRead(f) == (flows \ {f}) \cup ReRead(f.who)

CrossLands(f) ==
    /\ f \in flows /\ f.pc = "sign" /\ Moved(f.who) /\ flows' = ThenReRead(f)
    /\ UNCHANGED <<scene, asset, form, leader, batch1, features, adviceVars, job, sent, shown, disturbed>>

\* Refused, or given up while it is pending and landing later
CrossFails(f) ==
    /\ f \in flows /\ f.pc = "sign" /\ flows' = flows \ {f}
    /\ \/ UNCHANGED <<pool, usdc, disturbed>>
       \/ Moved(f.who) /\ disturbed' = TRUE
    /\ UNCHANGED <<scene, asset, form, leader, batch1, features, adviceVars, job, sent, shown>>

ReadPool(f) ==
    /\ f \in flows /\ f.pc = "read"
    /\ flows' = (flows \ {f}) \cup {[f EXCEPT !.pc = "apply", !.val = pool]}
    /\ UNCHANGED <<scene, asset, form, leader, batch1, features, adviceVars, job, sent, pool, usdc, shown, disturbed>>

\* A read that fails leaves the balance on screen; an older one may answer last
ApplyPool(f) ==
    /\ f \in flows /\ f.pc = "apply" /\ flows' = flows \ {f}
    /\ \/ shown' = f.val /\ disturbed' = (disturbed \/ f.val # pool)
       \/ UNCHANGED shown /\ disturbed' = TRUE
    /\ UNCHANGED <<scene, asset, form, leader, batch1, features, adviceVars, job, sent, pool, usdc>>

PanelNext ==
    \/ \E t \in {"Market", "Limit", "StopLimit", "TrailingStop"} : SetOrderType(t)
    \/ \E p \in Held : SetTrailing(p)
    \/ \E m \in {"Isolated", "Cross"} : SetMarginMode(m)
    \/ \E d \in {"Long", "Short"} : SetDirection(d)
    \/ \E a \in 1..2 : SetCollateral(a)
    \/ \E l \in 1..TopLeverage : SetLeverage(l)
    \/ \E sl, tp \in Stops : SetStops(sl, tp)
    \/ \E on \in BOOLEAN : SetLeader(on)
    \/ SnapBack \/ Probe
    \/ \E a \in Assets : SelectAsset(a) \/ StreamMark(a)
    \/ \E ask \in asks, ok \in BOOLEAN : AnswerCap(ask, ok) \/ AnswerTicker(ask, ok)
    \/ HandleSubmit \/ SubmitFails \/ SubmitSucceeds \/ AttachStopLoss \/ AttachTakeProfit
    \/ \E who \in {"deposit", "withdraw"} : HandleCross(who)
    \/ \E f \in flows : CrossLands(f) \/ CrossFails(f) \/ ReadPool(f) \/ ApplyPool(f)

PanelSpec == PanelInit /\ [][PanelNext]_panelVars

----------------------------------------------------------------------------
PanelTypeOK ==
    /\ cap.at \in 1..TopLeverage /\ {pool, usdc} \subseteq 0..3
    /\ job.pc \in {"sl", "tp"} => job.attach
    /\ Len(sent) <= 3 * MaxOrders

Sent == {sent[i] : i \in DOMAIN sent}

\* In leader mode an order that commits collateral commits the vault's, by an isolated market order: the
\* render between the switch and the effect that snaps the form back signs no other
LeaderPlain == \A o \in Sent : o.leader /\ o.op # "trail" => o.op = "leader_open" /\ o.form.mode = "Isolated"

\* On a market before Batch-1 no trigger order reaches a cross position (it would be settled outside
\* the pool), however the type, the mode and the position were picked
NoPoolEscape ==
    \A o \in Sent : o.op \in {"sl", "tp", "trail"} /\ ~batch1 => o.on \notin {"cross", "Cross"}

\* The stops signed after an open are the ones the panel validated for it at the click, on the right side of
\* the price it showed, although the form is edited while the open is being signed
StopsOfTheirOpen ==
    \A o \in Sent : o.op \in {"sl", "tp"} =>
        /\ \E m \in Sent : m.op = "open" /\ m.n = o.n /\ m.form = o.form /\ m.done
        /\ o.price > 0 => RightSide(o.form.dir, o.form.sl, o.form.tp, o.price)

\* Answers arrive late and out of order, yet once the probe and the ticker of the selected asset have
\* answered, the cap and the price on screen stay those of that asset
AdviceOfAsset ==
    scene = "ladder" =>
    LET answered(what) == ~ \E ask \in asks : ask.what = what /\ ask.of = asset /\ ask.live IN
    /\ answered("cap") => cap.of = asset
    /\ asset \notin marked /\ answered("ticker") => fallback.of = asset

\* A panel at rest shows the pool of the chain, unless a read failed, answers overlapped, or a
\* transaction landed after the panel had given it up
PoolShown == flows = {} /\ job = NoJob /\ ~disturbed /\ scene = "pool" => shown = pool

\* What the panel has signed and what it shows fit what the user was shown at the click (OrderPanel.tsx)
TicketSafe == PanelTypeOK /\ LeaderPlain /\ NoPoolEscape /\ StopsOfTheirOpen /\ AdviceOfAsset /\ PoolShown
=============================================================================
