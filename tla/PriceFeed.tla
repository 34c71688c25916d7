------------------------------ MODULE PriceFeed -----------------------------
(***************************************************************************)
(* The marks of the trade page (web/app/trade/page.tsx, the effect over     *)
(* subscribeLivePrices of web/lib/stellar/noeracle.ts): one on-chain read   *)
(* to start with, then the price stream, and while the stream is silent an  *)
(* on-chain read every few seconds.  The effect runs again when the wallet  *)
(* or the assets of the positions change; answers of reads may overlap and  *)
(* arrive at any time after.                                                *)
(***************************************************************************)
EXTENDS Naturals, FiniteSets

CONSTANTS Marks,          \* assets of the positions on the page
          StaleAfter,     \* STALE_AFTER_MS, in ticks
          MaxFeedRuns, MaxFeedReads, MaxRounds

ASSUME PriceFeedConstants == {StaleAfter, MaxFeedRuns, MaxFeedReads, MaxRounds} \subseteq Nat \ {0}

VARIABLES run,        \* the run of the effect; reads of earlier ones are cancelled or closed
          socket,     \* the EventSource: "open", or "closed" for good
          silent,     \* ticks since lastFrameAt
          stale,      \* what the subscription believes
          polls,     \* shim poll intervals that are set
          badge,      \* pricesStale of the page
          reading,    \* on-chain reads in flight: [kind, run, assets, n]
          marks,      \* currentPrices: where each price is from and its round
          round,      \* the signed round of now
          heard,      \* history: per asset the round of the frame that last carried it in this run
          lastFrame,  \* history: assets the last frame carried
          seedLate    \* history: the first read answered after a frame

feedVars == <<run, socket, silent, stale, polls, badge, reading, marks, round, heard, lastFrame, seedLate>>

NoMark == [from |-> "none", round |-> 0]

ReadOf(kind, r, assets) ==
    [kind |-> kind, run |-> r, assets |-> assets, n |-> Cardinality({x \in reading : x.assets = assets /\ x.kind = kind})]

FeedInit ==
    /\ run = 1 /\ socket = "open" /\ silent = 0 /\ stale = FALSE /\ polls = 0 /\ badge = FALSE
    /\ reading = {[kind |-> "seed", run |-> 1, assets |-> Marks, n |-> 0]}
    /\ marks = [a \in Marks |-> NoMark] /\ round = 1
    /\ heard = [a \in Marks |-> 0] /\ lastFrame = {} /\ seedLate = FALSE

\* The effect is cleaned up and runs again: the badge goes, prices stay until they are overwritten
Resubscribe ==
    /\ run < MaxFeedRuns /\ Cardinality(reading) < MaxFeedReads
    /\ run' = run + 1 /\ socket' = "open" /\ silent' = 0 /\ stale' = FALSE /\ polls' = 0 /\ badge' = FALSE
    /\ reading' = reading \cup {ReadOf("seed", run + 1, Marks)}
    /\ heard' = [a \in Marks |-> 0] /\ lastFrame' = {} /\ seedLate' = FALSE
    /\ UNCHANGED <<marks, round>>

\* pollShim: a read for each asset
PollShim == {ReadOf("shim", run, {a}) : a \in Marks}

\* setStale(true): the badge, a read at once and an interval
SetStale ==
    IF stale THEN UNCHANGED <<stale, badge, polls, reading>>
    ELSE stale' = TRUE /\ badge' = TRUE /\ polls' = polls + 1 /\ reading' = reading \cup PollShim

\* setStale(false)
SetFresh ==
    IF stale THEN stale' = FALSE /\ badge' = FALSE /\ polls' = polls - 1 /\ UNCHANGED reading
    ELSE UNCHANGED <<stale, badge, polls, reading>>

\* A frame: whatever assets it carries the feed lives
Frame(carried) ==
    /\ socket = "open" /\ silent' = 0 /\ SetFresh
    /\ marks' = [a \in Marks |-> IF a \in carried THEN [from |-> "live", round |-> round] ELSE marks[a]]
    /\ heard' = [a \in Marks |-> IF a \in carried THEN round ELSE heard[a]]
    /\ lastFrame' = carried
    /\ UNCHANGED <<run, socket, round, seedLate>>

Watchdog ==
    /\ silent >= StaleAfter /\ Cardinality(reading) < MaxFeedReads /\ SetStale
    /\ UNCHANGED <<run, socket, silent, marks, round, heard, lastFrame, seedLate>>

\* onerror of a socket that does not reconnect
HardClose ==
    /\ socket = "open" /\ Cardinality(reading) < MaxFeedReads /\ socket' = "closed" /\ SetStale
    /\ UNCHANGED <<run, silent, marks, round, heard, lastFrame, seedLate>>

\* An interval fires
PollTick ==
    /\ polls > 0 /\ Cardinality(reading) < MaxFeedReads /\ reading' = reading \cup PollShim
    /\ UNCHANGED <<run, socket, silent, stale, polls, badge, marks, round, heard, lastFrame, seedLate>>

\* The first read is dropped by a cleanup only; a poll's answer also when the feed is back
DeliverEvenIfFresh(r) == r.run = run
Delivers(r) == r.run = run /\ (r.kind = "shim" => stale)

\* An answer: the oracle contract holds some round up to now, or the read failed
AnswerFeed(r) ==
    /\ reading' = reading \ {r}
    /\ \/ /\ Delivers(r)
          /\ \E k \in 1..round : marks' = [a \in Marks |-> IF a \in r.assets THEN [from |-> r.kind, round |-> k] ELSE marks[a]]
          /\ seedLate' = (seedLate \/ (r.kind = "seed" /\ \E a \in r.assets : heard[a] > 0))
       \/ UNCHANGED <<marks, seedLate>>
    /\ UNCHANGED <<run, socket, silent, stale, polls, badge, round, heard, lastFrame>>

\* Time passes and a round is signed, with or without a frame
FeedTick ==
    /\ round < MaxRounds /\ round' = round + 1 /\ silent' = silent + 1
    /\ UNCHANGED <<run, socket, stale, polls, badge, reading, marks, heard, lastFrame, seedLate>>

FeedNext ==
    \/ Resubscribe \/ Watchdog \/ HardClose \/ PollTick \/ FeedTick
    \/ \E carried \in SUBSET Marks : Frame(carried)
    \/ \E r \in reading : AnswerFeed(r)

FeedSpec == FeedInit /\ [][FeedNext]_feedVars

----------------------------------------------------------------------------
\* Without the badge, an asset of the last frame shows that frame's price: no on-chain answer of this run or of
\* an earlier one has put an older price over it, unless the first read of the run answered after a frame
LiveUnlessFlagged ==
    \A a \in lastFrame : ~badge /\ ~seedLate => marks[a] = [from |-> "live", round |-> heard[a]]

\* The badge is what the subscription believes, is shown for silence or a dead socket only, and one interval polls
\* exactly while it is shown
BadgeTellsSilence ==
    /\ (badge <=> stale) /\ polls = IF stale THEN 1 ELSE 0
    /\ stale => silent >= StaleAfter \/ socket = "closed"
    /\ socket = "closed" => stale

\* A mark without the amber badge is the stream's own (subscribeLivePrices and the mark effect of the trade page)
FeedHonest == LiveUnlessFlagged /\ BadgeTellsSilence
=============================================================================
