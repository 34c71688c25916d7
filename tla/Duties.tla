------------------------------- MODULE Duties -------------------------------
(***************************************************************************)
(* The keeper's periodic duties (scripts/keeper/src/index.ts, alerts.ts,   *)
(* storkFast.ts): the hourly funding call, the custody check and its page, *)
(* and the Stork feed with its relay.  Each duty runs once a tick on its   *)
(* own timers; the duties share nothing but the clock and the alert        *)
(* window, so a behaviour follows one of them.                             *)
(***************************************************************************)
EXTENDS Integers, FiniteSets

CONSTANTS ContractInterval,  \* funding interval the market enforces
          FundingInterval,   \* FUNDING_INTERVAL_MS
          NotDueRetry, FailedRetry,
          CustodyStreak,     \* CUSTODY_ALERT_STREAK
          AlertWindow,       \* ALERT_DEDUPE_WINDOW_MS
          DarkAfter,         \* STORK_FEED_DARK_MS
          DarkThrottle,      \* STORK_FEED_ALERT_THROTTLE_MS
          FrameMaxAge,       \* a frame older than this is not relayed
          BackoffMax,        \* RECONNECT_MAX_MS
          RelayPages,        \* the failure streaks that page
          MaxTime, MaxDutyFaults

ASSUME DutiesConstants ==
    /\ {ContractInterval, FundingInterval, NotDueRetry, FailedRetry, CustodyStreak, AlertWindow, BackoffMax}
          \subseteq Nat \ {0}
    /\ {DarkAfter, DarkThrottle, FrameMaxAge, MaxTime, MaxDutyFaults} \subseteq Nat
    /\ RelayPages \subseteq Nat \ {0}
    /\ CustodyStreak <= AlertWindow + 1   \* two minutes against ten

VARIABLES duty, time, ran,        \* the duty followed; ticks; it ran this tick
          sentAt, delivered,      \* lastSentAt of the duty's alert (-1: never), last delivery
          lastFunding, frozen, thawed,   \* market: last funding time, full freeze, last thaw
          nextFunding, fundStreak, submitted,   \* nextFundingAttemptAt, streak, persisted submit
          short, shortSince,      \* market: custody deficit, and since when (-1: none)
          custodyStreak,          \* custodyDeficitStreak
          ws, backoff, frameAt,   \* socket state, reconnectDelay, lastFrameAt
          relayedAt, relayStreak, \* router price time, storkRelayFailStreak
          darkAlertAt,            \* storkFeedAlertAt
          dutyFaults

alerting == <<sentAt, delivered>>
funding == <<lastFunding, frozen, thawed, nextFunding, fundStreak, submitted>>
custody == <<short, shortSince, custodyStreak>>
stork == <<ws, backoff, frameAt, relayedAt, relayStreak, darkAlertAt>>
dutyVars == <<duty, time, ran, alerting, funding, custody, stork, dutyFaults>>

Never == -1
Long == MaxTime + 1           \* "a long time ago" for alert times

DutiesInit ==
    /\ duty \in {"funding", "custody", "stork"} /\ time = 0 /\ ran = FALSE
    /\ sentAt = Never /\ delivered = Never
    /\ lastFunding = 0 /\ frozen = FALSE /\ thawed = 0 /\ nextFunding = 0 /\ fundStreak = 0 /\ submitted = Never
    /\ short = FALSE /\ shortSince = Never /\ custodyStreak = 0
    /\ ws = "connecting" /\ backoff = 1 /\ frameAt = Never /\ relayedAt = 0 /\ relayStreak = 0
    /\ darkAlertAt = -Long /\ dutyFaults = 0

DutyFault == dutyFaults < MaxDutyFaults /\ dutyFaults' = dutyFaults + 1

DutyTick ==
    /\ ran /\ time < MaxTime /\ time' = time + 1 /\ ran' = FALSE
    /\ UNCHANGED <<duty, alerting, funding, custody, stork, dutyFaults>>

\* sendAlert: at most one per window and title; the time is taken before the delivery, which may fail
SendAlert(failing) ==
    IF sentAt # Never /\ time - sentAt < AlertWindow THEN UNCHANGED alerting
    ELSE sentAt' = time /\ delivered' = IF failing THEN delivered ELSE time

----------------------------------------------------------------------------
(***************************************************************************)
(* Funding.                                                                *)
(***************************************************************************)
FundingDue == time - lastFunding >= ContractInterval

\* Another keeper applies funding; the admin freezes or thaws the market (external)
OthersFund ==
    /\ duty = "funding" /\ FundingDue /\ ~frozen /\ lastFunding' = time
    /\ UNCHANGED <<duty, time, ran, alerting, frozen, thawed, nextFunding, fundStreak, submitted, custody, stork, dutyFaults>>
FreezeOrThaw ==
    /\ duty = "funding" /\ DutyFault /\ frozen' = ~frozen
    /\ thawed' = IF frozen THEN time ELSE thawed
    /\ UNCHANGED <<duty, time, ran, alerting, lastFunding, nextFunding, fundStreak, submitted, custody, stork>>

NotDue == nextFunding' = time + NotDueRetry /\ fundStreak' = 0
FailedWaitsFull == nextFunding' = time + FundingInterval /\ fundStreak' = fundStreak + 1
Failed == nextFunding' = time + FailedRetry /\ fundStreak' = fundStreak + 1

\* maybeApplyFunding: applied, not due (#55 or frozen), or failed, maybe landed all the same
MaybeApplyFunding ==
    /\ duty = "funding" /\ ~ran /\ ran' = TRUE
    /\ \/ /\ time < nextFunding /\ UNCHANGED <<lastFunding, nextFunding, fundStreak, submitted, dutyFaults>>
       \/ /\ time >= nextFunding /\ FundingDue /\ ~frozen
          /\ lastFunding' = time /\ submitted' = time /\ fundStreak' = 0
          /\ nextFunding' = time + FundingInterval /\ UNCHANGED dutyFaults
       \/ /\ time >= nextFunding /\ (~FundingDue \/ frozen)
          /\ NotDue /\ UNCHANGED <<lastFunding, submitted, dutyFaults>>
       \/ /\ time >= nextFunding /\ DutyFault
          /\ \/ UNCHANGED lastFunding
             \/ FundingDue /\ ~frozen /\ lastFunding' = time
          /\ Failed /\ UNCHANGED submitted
    /\ UNCHANGED <<duty, time, alerting, frozen, thawed, custody, stork>>

\* start(): the schedule comes from the persisted submit time, or is due at once
RestartFunding ==
    /\ duty = "funding" /\ DutyFault
    /\ nextFunding' = (IF submitted # Never THEN submitted + FundingInterval ELSE time) /\ fundStreak' = 0
    /\ UNCHANGED <<duty, time, ran, alerting, lastFunding, frozen, thawed, submitted, custody, stork>>

----------------------------------------------------------------------------
(***************************************************************************)
(* Custody.                                                                *)
(***************************************************************************)
DeficitAppears ==
    /\ duty = "custody" /\ DutyFault
    /\ short' = ~short /\ shortSince' = IF short THEN Never ELSE time
    /\ UNCHANGED <<duty, time, ran, alerting, custodyStreak, funding, stork>>

Pages == custodyStreak + 1 >= CustodyStreak

\* checkCustody: the sum over the snapshot against the balance read after it, so a trade between
\* the two can fake a deficit once; an unreadable cross pool or balance ends the check
CheckCustody ==
    /\ duty = "custody" /\ ~ran /\ ran' = TRUE
    /\ \/ /\ short /\ custodyStreak' = custodyStreak + 1
          /\ \/ UNCHANGED dutyFaults /\ IF Pages THEN SendAlert(FALSE) ELSE UNCHANGED alerting
             \/ DutyFault /\ IF Pages THEN SendAlert(TRUE) ELSE UNCHANGED alerting
       \/ /\ ~short /\ DutyFault /\ custodyStreak' = custodyStreak + 1
          /\ IF Pages THEN SendAlert(FALSE) ELSE UNCHANGED alerting
       \/ ~short /\ custodyStreak' = 0 /\ UNCHANGED <<alerting, dutyFaults>>
       \/ DutyFault /\ UNCHANGED <<custodyStreak, alerting>>
    /\ UNCHANGED <<duty, time, short, shortSince, funding, stork>>

RestartCustody ==
    /\ duty = "custody" /\ DutyFault
    /\ custodyStreak' = 0 /\ sentAt' = Never
    /\ UNCHANGED <<duty, time, ran, delivered, short, shortSince, funding, stork>>

----------------------------------------------------------------------------
(***************************************************************************)
(* The Stork feed and its relay.                                           *)
(***************************************************************************)
NextBackoff == IF 2 * backoff < BackoffMax THEN 2 * backoff ELSE BackoffMax

\* open: subscribes and resets the delay; close: one reconnect after the delay, which doubles
SocketOpens ==
    /\ duty = "stork" /\ ws = "connecting" /\ ws' = "open" /\ backoff' = 1
    /\ UNCHANGED <<duty, time, ran, alerting, funding, custody, frameAt, relayedAt, relayStreak, darkAlertAt, dutyFaults>>
SocketCloses ==
    /\ duty = "stork" /\ ws \in {"open", "connecting", "silent"} /\ DutyFault
    /\ ws' = "waiting" /\ backoff' = NextBackoff
    /\ UNCHANGED <<duty, time, ran, alerting, funding, custody, frameAt, relayedAt, relayStreak, darkAlertAt>>
SocketReconnects ==
    /\ duty = "stork" /\ ws = "waiting" /\ ws' = "connecting"
    /\ UNCHANGED <<duty, time, ran, alerting, funding, custody, backoff, frameAt, relayedAt, relayStreak, darkAlertAt, dutyFaults>>
\* The peer goes quiet without closing: nothing on this side notices
SocketGoesSilent ==
    /\ duty = "stork" /\ ws = "open" /\ DutyFault /\ ws' = "silent"
    /\ UNCHANGED <<duty, time, ran, alerting, funding, custody, backoff, frameAt, relayedAt, relayStreak, darkAlertAt>>
FrameArrives ==
    /\ duty = "stork" /\ ws = "open" /\ frameAt # time /\ frameAt' = time
    /\ UNCHANGED <<duty, time, ran, alerting, funding, custody, ws, backoff, relayedAt, relayStreak, darkAlertAt, dutyFaults>>

FrameAge == time - frameAt + IF frameAt = Never THEN Long ELSE 0

DarkDue == time - darkAlertAt > DarkThrottle

\* storkRelayTick: a dark feed is reported and nothing relayed; a frame too old is not paid for;
\* a failure counts up and pages at the escalating streaks, an outcome in doubt does not count
StorkRelayTick ==
    /\ duty = "stork" /\ ~ran /\ ran' = TRUE
    /\ \/ /\ FrameAge > DarkAfter
          /\ IF DarkDue THEN darkAlertAt' = time /\ SendAlert(FALSE) ELSE UNCHANGED <<darkAlertAt, alerting>>
          /\ UNCHANGED <<relayedAt, relayStreak, dutyFaults>>
       \/ /\ FrameAge <= DarkAfter /\ FrameAge > FrameMaxAge
          /\ UNCHANGED <<alerting, relayedAt, relayStreak, darkAlertAt, dutyFaults>>
       \/ /\ FrameAge <= DarkAfter /\ FrameAge <= FrameMaxAge
          /\ relayedAt' = frameAt /\ relayStreak' = 0
          /\ UNCHANGED <<alerting, darkAlertAt, dutyFaults>>
       \/ /\ FrameAge <= DarkAfter /\ FrameAge <= FrameMaxAge /\ DutyFault
          /\ \/ relayStreak' = relayStreak + 1 /\ IF relayStreak + 1 \in RelayPages THEN SendAlert(FALSE)
                                                 ELSE UNCHANGED alerting
             \/ UNCHANGED <<relayStreak, alerting>>
          /\ UNCHANGED <<relayedAt, darkAlertAt>>
    /\ UNCHANGED <<duty, time, funding, custody, ws, backoff, frameAt>>

DutiesNext == \/ DutyTick \/ OthersFund \/ FreezeOrThaw \/ MaybeApplyFunding \/ RestartFunding
              \/ DeficitAppears \/ CheckCustody \/ RestartCustody
              \/ SocketOpens \/ SocketCloses \/ SocketReconnects \/ SocketGoesSilent \/ FrameArrives
              \/ StorkRelayTick

----------------------------------------------------------------------------
DutiesTypeOK ==
    /\ time \in 0..MaxTime /\ lastFunding \in 0..time /\ sentAt \in Never..time /\ delivered \in Never..time
    /\ ws \in {"connecting", "open", "silent", "waiting"} /\ backoff \in 1..BackoffMax
    /\ custodyStreak \in 0..(time + 1) /\ relayStreak \in 0..(time + 1)

\* The keeper's own interval, or the market's and one not-due retry when another keeper came first
FundingPeriod ==
    IF FundingInterval > ContractInterval + NotDueRetry THEN FundingInterval
    ELSE ContractInterval + NotDueRetry

\* K-7: the funding of an unfrozen market is never later than one period plus one retry per
\* failure, although the keeper cannot read the last funding time, other keepers shift it and
\* the process restarts from the time it last submitted.  A freeze stops the clock.
FundingKeepsUp ==
    duty = "funding" /\ ran /\ ~frozen =>
        \E since \in {lastFunding, thawed} :
            time - since < FundingPeriod + FailedRetry * dutyFaults

\* A custody deficit that lasts is paged: no later than the streak it takes, plus one alert window
\* for every page that could not be delivered or check that failed
DeficitPaged ==
    duty = "custody" /\ ran /\ short =>
        \/ delivered >= shortSince - AlertWindow /\ delivered # Never
        \/ time - shortSince < CustodyStreak + AlertWindow * dutyFaults

\* A feed that has been dark for longer than the throttle has been reported in between
DarkFeedReported ==
    duty = "stork" /\ ran /\ FrameAge > DarkAfter => time - darkAlertAt <= DarkThrottle

\* The timed duties meet their deadlines although calls fail, the market freezes and the process
\* restarts (index.ts, alerts.ts, storkFast.ts)
DutiesKept == DutiesTypeOK /\ FundingKeepsUp /\ DeficitPaged /\ DarkFeedReported
=============================================================================
