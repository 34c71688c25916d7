----------------------------- MODULE TradePage ------------------------------
(***************************************************************************)
(* The trade page (web/app/trade/page.tsx) and what it shows of an account: *)
(* positions and orders are listed by the gateway's index, read back from   *)
(* the chain row by row (web/lib/stellar/market.ts), and compared with what *)
(* was shown before, to announce fills and liquidations.  Refreshes overlap,*)
(* reads fail, the index lags and the wallet changes meanwhile.             *)
(***************************************************************************)
EXTENDS Naturals, FiniteSets, Sequences, Functions

CONSTANTS Traders,           \* wallets
          Rows,              \* position or order ids
          OwnerOf,           \* wallet of each
          Refreshes,         \* refreshes that may overlap
          TrustTtl, MaxLag,  \* TRUST_TTL_MS, MAX_INDEXER_LAG_SECONDS, in ticks
          PageScenes         \* "positions", "orders"

ASSUME TradePageConstants ==
    /\ OwnerOf \in [Rows -> Traders] /\ PageScenes \subseteq {"positions", "orders"}
    /\ {TrustTtl, MaxLag} \subseteq Nat \ {0}

VARIABLES view,        \* positions or orders
          chain,       \* status of every row on the chain; ticks it has been open unindexed, as far as they matter
          indexed,     \* status of every row as the indexer has it
          cursorAge,   \* ticks since the indexer's cursor advanced, as far as it matters
          ours,        \* the gateway indexes the market this build trades on
          trust,       \* cached verdict of gatewayServesThisMarket
          publicKey,   \* connected wallet, or Nobody
          fetch,       \* refreshes in flight; the last one started is current (positionsFetchSeq, ordersFetchSeq)
          displayed,       \* rows on screen
          prev,            \* rows of the last applied refresh (Unknown before the first)
          expectedClose,   \* rows the user closed himself
          inbox, toasts,   \* notification keys; toasts shown, by key
          seenOver         \* history: rows that were over when a refresh was applied

chainVars == <<chain, indexed, cursorAge, ours>>
screenVars == <<displayed, prev, expectedClose, inbox, toasts, seenOver>>
pageVars == <<view, chainVars, trust, publicKey, fetch, screenVars>>

Nobody == "nobody"
Unknown == [r \in {} |-> "open"]
Live == {r \in Rows : chain[r].st = "open"}
Mine(w) == {r \in Rows : OwnerOf[r] = w}

NoVerdict == [age |-> 0, value |-> FALSE, known |-> FALSE]
NoFetch == [pc |-> "idle", current |-> FALSE, wallet |-> Nobody, ids |-> {}, rows |-> Unknown, hides |-> {}]

PageInit ==
    /\ view \in PageScenes /\ ours \in BOOLEAN
    /\ chain = [r \in Rows |-> [st |-> "none", age |-> 0]] /\ indexed = [r \in Rows |-> "none"] /\ cursorAge = 0
    /\ trust = NoVerdict /\ publicKey = Nobody /\ fetch = [f \in Refreshes |-> NoFetch]
    /\ displayed = {} /\ prev = Unknown /\ expectedClose = {}
    /\ inbox = {} /\ toasts = [k \in {} |-> 0] /\ seenOver = {}

----------------------------------------------------------------------------
(***************************************************************************)
(* The world.                                                              *)
(***************************************************************************)
Open(r) ==
    /\ chain[r].st = "none" /\ chain' = [chain EXCEPT ![r] = [st |-> "open", age |-> 0]]
    /\ UNCHANGED <<indexed, cursorAge, ours, trust, publicKey, fetch, screenVars>>

\* A position ends closed, in another tab too, or liquidated; an order filled or cancelled
Endings == IF view = "positions" THEN {"closed", "liquidated"} ELSE {"over"}
Settle(r, st) ==
    /\ r \in Live /\ chain' = [chain EXCEPT ![r] = [st |-> st, age |-> 0]]
    /\ UNCHANGED <<indexed, cursorAge, ours, trust, publicKey, fetch, screenVars>>

\* A gateway of another market indexes none of these rows
Index ==
    /\ indexed' = [r \in Rows |-> IF ours THEN chain[r].st ELSE "none"] /\ cursorAge' = 0
    /\ <<indexed', cursorAge'>> # <<indexed, cursorAge>>
    /\ chain' = [r \in Rows |-> IF ours THEN [chain[r] EXCEPT !.age = 0] ELSE chain[r]]
    /\ UNCHANGED <<ours, trust, publicKey, fetch, screenVars>>

\* A tick is about a minute: the calls of one gateway answer fit into one
Tolerated == MaxLag + TrustTtl
Older(age, bound) == IF age < bound THEN age + 1 ELSE age
Tick ==
    /\ \A f \in Refreshes : fetch[f].pc \notin {"trust", "list"}
    /\ chain' = [r \in Rows |-> IF r \in Live /\ indexed[r] # "open" THEN [chain[r] EXCEPT !.age = Older(@, Tolerated + 1)] ELSE chain[r]]
    /\ cursorAge' = Older(cursorAge, MaxLag + 1) /\ trust' = [trust EXCEPT !.age = IF trust.known THEN Older(@, TrustTtl) ELSE @]
    /\ UNCHANGED <<indexed, ours, publicKey, fetch, screenVars>>

Connect(w) ==
    /\ publicKey # w /\ publicKey' = w
    /\ UNCHANGED <<chainVars, trust, fetch, screenVars>>

\* The screen is cleared; a refresh in flight is not recalled, and orders seen before stay known
Disconnect ==
    /\ publicKey # Nobody /\ publicKey' = Nobody
    /\ displayed' = {} /\ expectedClose' = {}
    /\ prev' = IF view = "positions" THEN Unknown ELSE prev
    /\ UNCHANGED <<chainVars, trust, fetch, inbox, toasts, seenOver>>

----------------------------------------------------------------------------
(***************************************************************************)
(* A refresh.                                                              *)
(***************************************************************************)
refreshVars == <<chainVars, publicKey>>

Start(f, pc) ==
    fetch' = [g \in Refreshes |-> IF g = f THEN [NoFetch EXCEPT !.pc = pc, !.current = TRUE, !.wallet = publicKey]
                                  ELSE [fetch[g] EXCEPT !.current = FALSE]]

FetchPositions(f) ==
    /\ view = "positions" /\ publicKey # Nobody /\ fetch[f].pc = "idle" /\ Start(f, "hints")
    /\ UNCHANGED <<chainVars, trust, publicKey, screenVars>>

FetchOrders(f) ==
    /\ view = "orders" /\ publicKey # Nobody /\ fetch[f].pc = "idle" /\ Start(f, "ask")
    /\ UNCHANGED <<chainVars, trust, publicKey, screenVars>>

\* History: what a believed empty list hides although it is old and not indexed
OldHidden(f) == {r \in Live \cap Mine(fetch[f].wallet) : chain[r].age > Tolerated}
To(f, pc) == fetch' = [fetch EXCEPT ![f].pc = pc]
Got(f, rows) == fetch' = [fetch EXCEPT ![f].pc = "apply", ![f].rows = rows]
Believed(f) == fetch' = [fetch EXCEPT ![f].pc = "apply", ![f].hides = OldHidden(f)]

\* gatewayServesThisMarket: a verdict is kept for TrustTtl; health says which market and how old
Fresh == trust.known /\ trust.age < TrustTtl
HealthSays == ours /\ cursorAge <= MaxLag
Verdict(reachable) == IF Fresh THEN trust ELSE [age |-> 0, value |-> reachable /\ HealthSays, known |-> TRUE]

\* listOpenPositions: rows the index holds open; an empty answer needs a trusted gateway
ListOpenPositions(f) ==
    LET hints == {r \in Mine(fetch[f].wallet) : indexed[r] = "open"} IN
    /\ fetch[f].pc = "hints"
    /\ \/ To(f, "scan")
       \/ hints = {} /\ To(f, "trust")
       \/ hints # {} /\ fetch' = [fetch EXCEPT ![f].pc = "hydrate", ![f].ids = hints]
    /\ UNCHANGED <<refreshVars, trust, screenVars>>

TrustEmpty(f) ==
    /\ fetch[f].pc = "trust"
    /\ \E reachable \in BOOLEAN :
         /\ trust' = Verdict(reachable)
         /\ IF trust'.value THEN Believed(f) ELSE To(f, "scan")
    /\ UNCHANGED <<refreshVars, screenVars>>

\* getPositionsByIds, getOrdersByIds: a read that fails drops its row
Read(ids) == [r \in ids |-> chain[r].st]
Hydrated(ids) == {Restrict(Read(ids), got) : got \in SUBSET ids}

HydratePositions(f) ==
    /\ fetch[f].pc = "hydrate"
    /\ \E rows \in Hydrated(fetch[f].ids \cap Live) :
         IF rows = Unknown THEN To(f, "scan") ELSE Got(f, rows)
    /\ UNCHANGED <<refreshVars, trust, screenVars>>

\* getPositions: the ids of the wallet, then each of them
GetPositions(f) ==
    /\ fetch[f].pc = "scan" /\ view = "positions"
    /\ \/ \E rows \in Hydrated(Mine(fetch[f].wallet) \cap Live) :
            Got(f, rows)
       \/ To(f, "fail")
    /\ UNCHANGED <<refreshVars, trust, screenVars>>

\* The orders refresh asks for the verdict first, and takes hints of every status
AskTrust(f) ==
    /\ fetch[f].pc = "ask"
    /\ \E reachable \in BOOLEAN : trust' = Verdict(reachable) /\ To(f, IF trust'.value THEN "list" ELSE "scan")
    /\ UNCHANGED <<refreshVars, screenVars>>

ListOrderHints(f) ==
    LET hints == {r \in Mine(fetch[f].wallet) : indexed[r] # "none"} IN
    /\ fetch[f].pc = "list"
    /\ \/ To(f, "scan")
       \/ hints = {} /\ Believed(f)
       \/ /\ hints # {}
          /\ \E rows \in Hydrated(hints) :
               IF rows = Unknown /\ \E r \in hints : indexed[r] = "open" THEN To(f, "scan") ELSE Got(f, rows)
    /\ UNCHANGED <<refreshVars, trust, screenVars>>

\* getOrders: the id view and a read per id, or the ledger walk, which keeps the pending ones
GetOrders(f) ==
    /\ fetch[f].pc = "scan" /\ view = "orders"
    /\ \/ \E rows \in Hydrated({r \in Mine(fetch[f].wallet) : chain[r].st # "none"}) : Got(f, rows)
       \/ Got(f, Read(Mine(fetch[f].wallet) \cap Live))
       \/ To(f, "fail")
    /\ UNCHANGED <<refreshVars, trust, screenVars>>

----------------------------------------------------------------------------
(***************************************************************************)
(* Applying it.                                                            *)
(***************************************************************************)
NeverStale(f) == FALSE
IsStale(f) == ~fetch[f].current

Done(f) == fetch' = [fetch EXCEPT ![f] = NoFetch]

Discard(f) ==
    /\ fetch[f].pc \in {"apply", "fail"} /\ IsStale(f) /\ Done(f)
    /\ UNCHANGED <<refreshVars, trust, screenVars>>

\* The screen stays as it is, under a strip that says so (positionsFetchFailed, ordersFetchFailed)
FetchFailed(f) ==
    /\ fetch[f].pc = "fail" /\ ~IsStale(f) /\ Done(f)
    /\ UNCHANGED <<refreshVars, trust, screenVars>>

\* detectLiquidatedVanish: what was there and is not, except what the user closed himself
Vanished(rows) == DOMAIN prev \ (rows \cup expectedClose)

\* What the page has been told is over
NowOver(f) == {r \in Mine(fetch[f].wallet) : chain[r].st \notin {"none", "open"} /\ r \notin {q \in DOMAIN fetch[f].rows : fetch[f].rows[q] = "open"}}

ApplyPositions(f) ==
    LET rows == DOMAIN fetch[f].rows IN
    /\ fetch[f].pc = "apply" /\ view = "positions" /\ ~IsStale(f)
    /\ displayed' = rows /\ prev' = fetch[f].rows /\ seenOver' = seenOver \cup NowOver(f)
    /\ expectedClose' = expectedClose \cap rows
    /\ fetch' = [fetch EXCEPT ![f] = IF Vanished(rows) = {} THEN NoFetch
                                     ELSE [NoFetch EXCEPT !.pc = "liqs", !.wallet = fetch[f].wallet, !.ids = Vanished(rows)]]
    /\ UNCHANGED <<refreshVars, trust, inbox, toasts>>

\* applyNotification: a key is announced once
Push(keys) == keys \ inbox
Toast(keys) ==
    /\ inbox' = inbox \cup keys
    /\ toasts' = [k \in DOMAIN toasts \cup Push(keys) |->
                    (IF k \in DOMAIN toasts THEN toasts[k] ELSE 0) + (IF k \in Push(keys) THEN 1 ELSE 0)]

\* getRecentLiquidations of the wallet, or no answer
Liquidations(f) == {r \in fetch[f].ids : chain[r].st = "liquidated" /\ OwnerOf[r] = fetch[f].wallet}

GetRecentLiquidations(f) ==
    /\ fetch[f].pc = "liqs" /\ Done(f)
    /\ \/ Toast({<<r, "liquidated">> : r \in Liquidations(f)})
       \/ UNCHANGED <<inbox, toasts>>
    /\ UNCHANGED <<refreshVars, trust, displayed, prev, expectedClose, seenOver>>

\* Orders: a pending one that is not any more, and the first that disappeared
ApplyOrders(f) ==
    LET rows == fetch[f].rows
        pending == {r \in DOMAIN prev : prev[r] = "open"}
        changed == {<<r, rows[r]>> : r \in {q \in pending \cap DOMAIN rows : rows[q] # "open"}}
        missing == pending \ DOMAIN rows
    IN
    /\ fetch[f].pc = "apply" /\ view = "orders" /\ ~IsStale(f) /\ Done(f)
    /\ displayed' = DOMAIN rows /\ prev' = rows
    /\ seenOver' = seenOver \cup NowOver(f)
    /\ \E first \in IF missing = {} THEN {{}} ELSE {{<<r, "gone">>} : r \in missing} : Toast(changed \cup first)
    /\ UNCHANGED <<refreshVars, trust, expectedClose>>

\* handleClosePosition: the close of a shown row lands and is remembered
HandleClosePosition(r) ==
    /\ view = "positions" /\ r \in displayed \cap Live /\ OwnerOf[r] = publicKey
    /\ chain' = [chain EXCEPT ![r] = [st |-> "closed", age |-> 0]] /\ expectedClose' = expectedClose \cup {r}
    /\ UNCHANGED <<indexed, cursorAge, ours, trust, publicKey, fetch, displayed, prev, inbox, toasts, seenOver>>

PageNext ==
    /\ view' = view
    /\ \/ \E f \in Refreshes : \/ FetchPositions(f) \/ ListOpenPositions(f) \/ TrustEmpty(f) \/ HydratePositions(f)
                               \/ GetPositions(f) \/ ApplyPositions(f) \/ GetRecentLiquidations(f)
                               \/ FetchOrders(f) \/ AskTrust(f) \/ ListOrderHints(f) \/ GetOrders(f) \/ ApplyOrders(f)
                               \/ Discard(f) \/ FetchFailed(f)
       \/ \E r \in Rows : \/ Open(r) \/ HandleClosePosition(r)
                          \/ \E st \in Endings : Settle(r, st)
       \/ Index \/ Tick \/ Disconnect
       \/ \E w \in Traders : Connect(w)

PageSpec == PageInit /\ [][PageNext]_pageVars

----------------------------------------------------------------------------
PageTypeOK ==
    /\ publicKey \in Traders \cup {Nobody} /\ displayed \subseteq Rows /\ expectedClose \subseteq Rows
    /\ \A f, g \in Refreshes : fetch[f].current /\ fetch[g].current => f = g
    /\ trust.age <= TrustTtl /\ cursorAge <= MaxLag + 1

\* Refreshes overlap and finish in any order, yet what the page was once told is over does not come
\* back as open
NeverResurrected == \A r \in seenOver \cap displayed : prev[r] # "open"

\* An empty list that only the gateway vouched for hides nothing old: whatever is open was opened
\* within the lag and the life of the verdict the page tolerates, or was indexed between the two calls
BelievedEmptyIsRecent == \A f \in Refreshes : fetch[f].hides = {}

\* A liquidation is announced only of a position that was liquidated, never of one the trader or an
\* order closed
LiquidationToastRight ==
    \A k \in DOMAIN toasts : k[2] = "liquidated" /\ view = "positions" => chain[k[1]].st = "liquidated"

\* Rows that flicker with failing reads are announced once
ToldOnce == \A k \in DOMAIN toasts : toasts[k] = 1

\* What the page shows and announces of an account is right whatever order its refreshes finish in
\* (fetchPositions, fetchOrders and the notifications of app/trade/page.tsx)
PageHonest == PageTypeOK /\ NeverResurrected /\ BelievedEmptyIsRecent /\ LiquidationToastRight /\ ToldOnce
=============================================================================
