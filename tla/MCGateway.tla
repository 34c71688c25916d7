----------------------------- MODULE MCGateway -----------------------------
(***************************************************************************)
(* The parts of the API gateway, and the SDK's stream client that talks to *)
(* it, on small instances.  A behaviour is of one part: the parts share    *)
(* the database, of which each models the rows it reads and writes.        *)
(***************************************************************************)
EXTENDS Access, RateLimit, LiveSockets, LiveTail, WsClient, Stats, Capacity, DbPool, TLC

CONSTANT Parts
VARIABLE part

OneAddress == [s \in Sockets |-> "ip"]
PoolInUse == [aum |-> 8, reservedPayout |-> 2, usdcBalance |-> 8, shortfallReserve |-> 1, exposure |-> [long |-> 2, short |-> 0]]
Caps(reserve, asset, abs, skew, largest) ==
    [reserveCapBps |-> reserve, assetCapBps |-> asset, capAbs |-> abs, skewCapBps |-> skew, maxPositionSize |-> largest]
FirstCaps == Caps(4, 3, 0, 2, 0)
OtherCaps == {Caps(3, 2, 3, 0, 2)}
GatewaySymmetry == Permutations(Browsers)

deskVars == <<accessVars, rateVars>>
streamVars == <<socketVars, tailVars, clientVars>>
readVars == <<statsVars, boardVars, capacityVars>>

\* A part that does not run stands in one of its initial states
MCInit ==
    /\ part \in Parts
    /\ AccessInit /\ RateInit /\ SocketsInit /\ TailInit /\ ClientInit /\ StatsInit /\ BoardInit /\ CapacityInit /\ DbInit
    /\ part # "access" => scene = "site"
    /\ \A a \in AdminWallets : grants[a] = "none"       \* an administrator passes the gate without one
    /\ part # "store" => dbScene = "pool"

MCNext ==
    \/ part = "access" /\ AccessNext /\ UNCHANGED <<rateVars, streamVars, readVars, dbVars, part>>
    \/ part = "rate" /\ RateNext /\ UNCHANGED <<accessVars, streamVars, readVars, dbVars, part>>
    \/ part = "sockets" /\ SocketsNext /\ UNCHANGED <<deskVars, tailVars, clientVars, readVars, dbVars, part>>
    \/ part = "tail" /\ TailNext /\ UNCHANGED <<deskVars, socketVars, clientVars, readVars, dbVars, part>>
    \/ part = "client" /\ ClientNext /\ UNCHANGED <<deskVars, socketVars, tailVars, readVars, dbVars, part>>
    \/ part = "stats" /\ StatsNext /\ UNCHANGED <<deskVars, streamVars, boardVars, capacityVars, dbVars, part>>
    \/ part = "board" /\ BoardNext /\ UNCHANGED <<deskVars, streamVars, statsVars, capacityVars, dbVars, part>>
    \/ part = "capacity" /\ CapacityNext /\ UNCHANGED <<deskVars, streamVars, statsVars, boardVars, dbVars, part>>
    \/ part = "store" /\ DbNext /\ UNCHANGED <<deskVars, streamVars, readVars, part>>

MCSafe == MCInit /\ [][MCNext]_<<deskVars, streamVars, readVars, dbVars, part>>
MCSpec == MCSafe /\ SocketsFair /\ ClientFair

----------------------------------------------------------------------------
\* Nobody gets in, stays in or is served beyond what the desk granted (services of the keys, the
\* grants and the limits)
AdmissionSafe == (part = "access" => AccessSafe) /\ (part = "rate" => RateSafe)

\* What the gateway publishes is what the chain and the log say (stats.ts, capacity.ts)
ReadsHonest ==
    (part = "stats" => StatsHonest) /\ (part = "board" => BoardHonest) /\ (part = "capacity" => CapacityHonest)

\* The live stream counts, authorises and forwards rightly (wsManager.ts, ws.ts, liveTailer.ts), and
\* the client's own flags fit together (packages/sdk/src/ws.ts)
StreamSafe == SocketsSafe /\ TailSafe /\ ClientTypeOK

\* A vanished peer frees its place, connect() is answered, and a client that stays ends up with every
\* channel it asked for (heartbeat of wsManager.ts; reconnect of sdk ws.ts)
StreamsLive == DeadPeerFreed /\ ConnectSettles /\ Resubscribed
=============================================================================
