---------------------------- MODULE LiveSockets -----------------------------
(***************************************************************************)
(* The gateway's WebSocket endpoint: the connection registry with its caps  *)
(* (api/src/services/wsManager.ts) and the message handler                  *)
(* (api/src/plugins/ws.ts).  A socket may be dropped by its peer, by the    *)
(* heartbeat, by the message budget or as a slow reader, and its close      *)
(* event comes later; a login waits for the database meanwhile.             *)
(***************************************************************************)
EXTENDS Naturals, FiniteSets

CONSTANTS Sockets, SocketIps, IpOf,    \* sockets that may be opened, and where from
          Accounts,              \* owners of API keys
          MaxConnections, MaxPerIp, MsgRate, MaxFailedLogins,
          MaxWaiting             \* bound on the logins of a socket that wait for the database

NoUser == "anonymous"    \* userAddress is null

ASSUME LiveSocketsConstants ==
    /\ IpOf \in [Sockets -> SocketIps] /\ NoUser \notin Accounts
    /\ {MaxConnections, MaxPerIp, MsgRate, MaxFailedLogins, MaxWaiting} \subseteq Nat \ {0}

VARIABLES wire,          \* state of the socket itself
          connections,   \* what the registry holds of a registered socket
          perIp,
          failedLogins,  \* the counter map; a socket outside its domain counts zero
          logins         \* login messages waiting for the database, by outcome

socketVars == <<wire, connections, perIp, failedLogins, logins>>

Channels == {"events"} \cup Accounts    \* account.events.<owner> is named by its owner
Registered == DOMAIN connections

\* proved is history: the owners whose key the socket has shown
WsConnection == [tokens |-> MsgRate, isAlive |-> TRUE, subscriptions |-> {}, user |-> NoUser, proved |-> {}]

SocketsInit ==
    /\ wire = [s \in Sockets |-> "new"] /\ connections = [s \in {} |-> WsConnection] /\ perIp = [i \in SocketIps |-> 0]
    /\ failedLogins = [s \in {} |-> 0] /\ logins = [s \in Sockets |-> [good |-> {}, bad |-> 0]]

\* register: refused at the global or the per-address cap, and closed by the handler
Register(s) ==
    /\ wire[s] = "new"
    /\ IF Cardinality(Registered) >= MaxConnections \/ perIp[IpOf[s]] >= MaxPerIp
         THEN wire' = [wire EXCEPT ![s] = "closing"] /\ UNCHANGED <<connections, perIp>>
         ELSE /\ wire' = [wire EXCEPT ![s] = "open"] /\ perIp' = [perIp EXCEPT ![IpOf[s]] = @ + 1]
              /\ connections' = [t \in Registered \cup {s} |-> IF t = s THEN WsConnection ELSE connections[t]]
    /\ UNCHANGED <<failedLogins, logins>>

\* unregister: a second one, from the close event of an evicted socket, changes nothing
Left(i, gone) == perIp[i] - Cardinality({s \in gone \cap Registered : IpOf[s] = i})
LeftTwice(i, gone) == LET n == Cardinality({s \in gone : IpOf[s] = i}) IN IF perIp[i] <= n THEN 0 ELSE perIp[i] - n
IpCount(i, gone) == Left(i, gone)
Unregister(gone) ==
    /\ connections' = [s \in Registered \ gone |-> connections[s]]
    /\ perIp' = [i \in SocketIps |-> IpCount(i, gone)]

Closing(gone) == wire' = [s \in Sockets |-> IF s \in gone THEN "closing" ELSE wire[s]]

\* allowMessage: an empty bucket drops the connection
Spent(s) == [connections[s] EXCEPT !.tokens = @ - 1]
Message(s, handle) ==
    /\ wire[s] = "open" /\ s \in Registered
    /\ IF connections[s].tokens < 1 THEN Unregister({s}) /\ Closing({s}) /\ UNCHANGED <<failedLogins, logins>>
       ELSE perIp' = perIp /\ handle

Refill(s) ==
    /\ s \in Registered /\ connections[s].tokens < MsgRate /\ connections' = [connections EXCEPT ![s].tokens = MsgRate]
    /\ UNCHANGED <<wire, perIp, failedLogins, logins>>

\* canSubscribe: an account channel only by its logged-in owner
CanSubscribe(s, ch) == ch = "events" \/ connections[s].user = ch

Subscribe(s, ch) ==
    Message(s, /\ connections' = [connections EXCEPT ![s] =
                    [Spent(s) EXCEPT !.subscriptions = IF CanSubscribe(s, ch) THEN @ \cup {ch} ELSE @]]
               /\ UNCHANGED <<wire, failedLogins, logins>>)

Unsubscribe(s, ch) ==
    Message(s, /\ connections' = [connections EXCEPT ![s] = [Spent(s) EXCEPT !.subscriptions = @ \ {ch}]]
               /\ UNCHANGED <<wire, failedLogins, logins>>)

Ping(s) == Message(s, connections' = [connections EXCEPT ![s] = Spent(s)] /\ UNCHANGED <<wire, failedLogins, logins>>)

----------------------------------------------------------------------------
(***************************************************************************)
(* Login: counted in memory when it fails, decided by a database lookup.    *)
(***************************************************************************)
Failures(s) == IF s \in DOMAIN failedLogins THEN failedLogins[s] ELSE 0
Count(s) == failedLogins' = [t \in DOMAIN failedLogins \cup {s} |-> IF t = s THEN Failures(s) + 1 ELSE failedLogins[t]]
Uncount(s) == failedLogins' = [t \in DOMAIN failedLogins \ {s} |-> failedLogins[t]]

TooMany(s) == Failures(s) >= MaxFailedLogins

\* loginWithBearer is called and its answer waited for
Waiting(s, cred) ==
    IF cred = "wrong" THEN [logins[s] EXCEPT !.bad = @ + 1] ELSE [logins[s] EXCEPT !.good = @ \cup {cred}]

Login(s, cred) ==
    /\ Cardinality(logins[s].good) + logins[s].bad < MaxWaiting
    /\ Message(s, /\ connections' = [connections EXCEPT ![s] = Spent(s)]
                  /\ IF TooMany(s) THEN Closing({s}) /\ UNCHANGED <<failedLogins, logins>>
                     ELSE /\ wire' = wire
                          /\ IF cred = "missing" THEN Count(s) /\ UNCHANGED logins
                             ELSE /\ UNCHANGED failedLogins
                                  /\ logins' = [logins EXCEPT ![s] = Waiting(s, cred)])

\* loginWithBearer answers, on a connection that may be gone by then
LoginWithBearer(s, o) ==
    /\ o \in logins[s].good /\ logins' = [logins EXCEPT ![s].good = @ \ {o}] /\ Uncount(s)
    /\ connections' = IF s \in Registered
                        THEN [connections EXCEPT ![s].user = o, ![s].proved = @ \cup {o}] ELSE connections
    /\ UNCHANGED <<wire, perIp>>

LoginRefused(s) ==
    /\ logins[s].bad > 0 /\ logins' = [logins EXCEPT ![s].bad = @ - 1] /\ Count(s)
    /\ UNCHANGED <<wire, connections, perIp>>

----------------------------------------------------------------------------
(***************************************************************************)
(* The heartbeat, the fan-out and the end of a socket.                      *)
(***************************************************************************)
Pong(s) ==
    /\ wire[s] = "open" /\ s \in Registered /\ ~connections[s].isAlive /\ connections' = [connections EXCEPT ![s].isAlive = TRUE]
    /\ UNCHANGED <<wire, perIp, failedLogins, logins>>

\* A peer that vanishes without closing: no pong, no close event of its own
PeerDies(s) ==
    /\ wire[s] = "open" /\ wire' = [wire EXCEPT ![s] = "dead"]
    /\ UNCHANGED <<connections, perIp, failedLogins, logins>>

Pinged(s) == [connections[s] EXCEPT !.isAlive = FALSE]
PingSweep ==
    LET gone == {s \in Registered : ~connections[s].isAlive} IN
    /\ Registered # {} /\ Closing(gone)
    /\ perIp' = [i \in SocketIps |-> IpCount(i, gone)]
    /\ connections' = [s \in Registered \ gone |-> Pinged(s)]
    /\ UNCHANGED <<failedLogins, logins>>

\* broadcast: subscribers whose buffer is over the limit are dropped after the fan-out
Broadcast(ch, slow) ==
    /\ slow \subseteq {s \in Registered : ch \in connections[s].subscriptions} /\ slow # {}
    /\ Unregister(slow) /\ Closing(slow)
    /\ UNCHANGED <<failedLogins, logins>>

PeerCloses(s) ==
    /\ wire[s] = "open" /\ wire' = [wire EXCEPT ![s] = "closing"]
    /\ UNCHANGED <<connections, perIp, failedLogins, logins>>

OnClose(s) ==
    /\ wire[s] = "closing" /\ wire' = [wire EXCEPT ![s] = "closed"]
    /\ Unregister({s}) /\ Uncount(s) /\ UNCHANGED logins

SocketStep(s) ==
    \/ Register(s) \/ Ping(s) \/ Refill(s) \/ Pong(s) \/ PeerDies(s) \/ PeerCloses(s) \/ OnClose(s) \/ LoginRefused(s)
    \/ \E ch \in Channels : Subscribe(s, ch) \/ Unsubscribe(s, ch)
    \/ \E cred \in Accounts \cup {"missing", "wrong"} : Login(s, cred)
    \/ \E o \in Accounts : LoginWithBearer(s, o)

SocketsNext ==
    \/ \E s \in Sockets : SocketStep(s)
    \/ PingSweep
    \/ \E ch \in Channels, slow \in SUBSET Sockets : Broadcast(ch, slow)

SocketsFair == WF_socketVars(PingSweep) /\ \A s \in Sockets : WF_socketVars(OnClose(s))
SocketsSpec == SocketsInit /\ [][SocketsNext]_socketVars /\ SocketsFair

----------------------------------------------------------------------------
SocketsTypeOK ==
    /\ Registered \subseteq Sockets /\ Cardinality(Registered) <= MaxConnections
    /\ \A s \in Registered :
         /\ wire[s] \in {"open", "dead", "closing"}
         /\ connections[s].tokens \in 0..MsgRate /\ connections[s].subscriptions \subseteq Channels
         /\ connections[s].user \in Accounts \cup {NoUser}

\* The count per address is the number of registered sockets of the address however often and in
\* whatever order eviction, heartbeat and close events report the same end
PerIpExact == \A i \in SocketIps : perIp[i] = Cardinality({s \in Registered : IpOf[s] = i})

\* A socket listens to an account only after it showed a key of that account
AccountPrivacy == \A s \in Registered : connections[s].subscriptions \ {"events"} \subseteq connections[s].proved

\* Logins overlap, so the cap on failures can be overrun, but only by what was waiting when it was reached
FailureCap == \A s \in DOMAIN failedLogins : failedLogins[s] + logins[s].bad < MaxFailedLogins + MaxWaiting

\* A peer that disappeared frees its place in the caps in the end
DeadPeerFreed == \A s \in Sockets : wire[s] = "dead" ~> s \notin Registered

\* The registry of live connections keeps its counts and its secrets whatever order a socket's
\* logins, messages and ends are reported in (plugins/ws.ts, wsManager.ts)
SocketsSafe == SocketsTypeOK /\ PerIpExact /\ AccountPrivacy /\ FailureCap
=============================================================================
