------------------------------ MODULE WsClient ------------------------------
(***************************************************************************)
(* The TypeScript SDK's WebSocket client (sdk-ts/src/sub/ws.ts) on a        *)
(* network that drops connections, against a gateway that answers a login   *)
(* after a database lookup and meanwhile handles later messages.            *)
(***************************************************************************)
EXTENDS Naturals, Sequences, FiniteSets

CONSTANTS Feeds, Private,       \* channels, and those that need a login
          WsSockets,            \* sockets that may be open at a time
          MaxBackoff,           \* steps of the exponential backoff
          AppWaits,             \* the application connects again only when old sockets are gone
          MaxDrops, MaxCalls    \* connections lost, calls of the application

ASSUME WsClientConstants ==
    /\ Private \subseteq Feeds /\ AppWaits \in BOOLEAN
    /\ {MaxBackoff, MaxDrops, MaxCalls} \subseteq Nat \ {0}

VARIABLES sock,       \* the sockets: state, queues both ways, what the server holds
          socket,     \* the client's current one, or NoSocket
          subs,       \* channels with a handler
          credentials,  \* the application has given a key
          closed, attempts, readyPending,    \* readyPending: readyReject is set, a connect() waits
          timed,      \* connectTimer is set
          connecting, \* connectingPromise is set
          retry,      \* the retry timers set: "attempt" or "cycle"
          outcomes,   \* how the last connect() ended
          drops, calls

clientVars == <<sock, socket, subs, credentials, closed, attempts, readyPending, timed, connecting, retry, outcomes, drops, calls>>

NoSocket == "none"
NoSock == [st |-> "free", up |-> <<>>, down |-> <<>>, user |-> FALSE, lookup |-> FALSE, at |-> {}, established |-> FALSE]
Busy == {s \in WsSockets : sock[s].st # "free"}
IsOpen == socket # NoSocket /\ sock[socket].st = "open"

ClientInit ==
    /\ sock = [s \in WsSockets |-> NoSock] /\ socket = NoSocket /\ subs = {} /\ credentials = FALSE /\ closed = FALSE /\ attempts = 0
    /\ readyPending = FALSE /\ timed = FALSE /\ connecting = FALSE /\ retry = {} /\ outcomes = "none" /\ drops = 0 /\ calls = 0

Call == calls < MaxCalls /\ calls' = calls + 1

\* attempt: a new socket becomes the current one
Attempt(s) == sock[s].st = "free" /\ sock' = [sock EXCEPT ![s] = [NoSock EXCEPT !.st = "opening"]] /\ socket' = s

StartCycle(s, withTimeout) ==
    /\ closed' = FALSE /\ connecting' = TRUE /\ readyPending' = TRUE /\ timed' = withTimeout /\ Attempt(s)

Connect ==
    /\ Call /\ ~connecting /\ (AppWaits => Busy = {}) /\ \E s \in WsSockets : StartCycle(s, TRUE)
    /\ outcomes' = "waiting" /\ UNCHANGED <<subs, credentials, attempts, retry, drops>>

\* settleConnect
Answer(how) == IF readyPending THEN how ELSE outcomes
Told(how) == Answer(how)
Settle(how) ==
    /\ timed' = FALSE /\ readyPending' = FALSE /\ outcomes' = Told(how)
    /\ connecting' = IF how = "ok" THEN connecting ELSE FALSE

Hang(s) == [sock EXCEPT ![s].st = IF @ = "free" THEN "free" ELSE "closing"]

ConnectTimeout ==
    /\ timed /\ retry' = {} /\ Settle("timeout")
    /\ sock' = IF socket = NoSocket THEN sock ELSE Hang(socket)
    /\ UNCHANGED <<socket, subs, credentials, closed, attempts, drops, calls>>

Close ==
    /\ Call /\ ~closed /\ closed' = TRUE /\ retry' = {} /\ Settle("closed")
    /\ sock' = IF socket = NoSocket THEN sock ELSE Hang(socket)
    /\ socket' = NoSocket /\ UNCHANGED <<subs, credentials, attempts, drops>>

LoginMsg == <<"login", {}>>
Sub(chs) == <<"subscribe", chs>>
Unsub(ch) == <<"unsubscribe", {ch}>>
Say(s, msgs) == sock' = [sock EXCEPT ![s].up = @ \o msgs]

SubscribeTo(ch) ==
    /\ Call /\ ch \notin subs /\ subs' = subs \cup {ch}
    /\ IF IsOpen THEN Say(socket, <<Sub({ch})>>) ELSE UNCHANGED sock
    /\ UNCHANGED <<socket, credentials, closed, attempts, readyPending, timed, connecting, retry, outcomes, drops>>

UnsubscribeFrom(ch) ==
    /\ Call /\ ch \in subs /\ subs' = subs \ {ch}
    /\ IF IsOpen THEN Say(socket, <<Unsub(ch)>>) ELSE UNCHANGED sock
    /\ UNCHANGED <<socket, credentials, closed, attempts, readyPending, timed, connecting, retry, outcomes, drops>>

SetCredentials ==
    /\ Call /\ ~credentials /\ credentials' = TRUE
    /\ IF IsOpen THEN Say(socket, <<LoginMsg>>) ELSE UNCHANGED sock
    /\ UNCHANGED <<socket, subs, closed, attempts, readyPending, timed, connecting, retry, outcomes, drops>>

----------------------------------------------------------------------------
(***************************************************************************)
(* Socket events.                                                          *)
(***************************************************************************)
\* A socket that is not the current one any more sends nothing
Greeting == (IF credentials THEN <<LoginMsg>> ELSE <<>>) \o (IF subs = {} THEN <<>> ELSE <<Sub(subs)>>)
OnOpen(s) ==
    /\ sock[s].st = "opening"
    /\ sock' = [sock EXCEPT ![s].st = "open", ![s].down = <<"hello">>,
                            ![s].up = IF socket = s THEN Greeting ELSE <<>>]
    /\ attempts' = 0
    /\ UNCHANGED <<socket, subs, credentials, closed, readyPending, timed, connecting, retry, outcomes, drops, calls>>

\* The handler of the login ack sends the private channels again
NoResend(s) == <<>>
PrivateAgain(s) == IF subs \cap Private = {} THEN <<>> ELSE <<Sub(subs \cap Private)>>
Resend(s) == PrivateAgain(s)

OnMessage(s) ==
    LET m == Head(sock[s].down) rest == Tail(sock[s].down) IN
    /\ sock[s].st = "open" /\ sock[s].down # <<>>
    /\ IF m = "hello"
         THEN /\ sock' = [sock EXCEPT ![s].down = rest, ![s].established = TRUE]
              /\ Settle("ok")
         ELSE /\ sock' = [sock EXCEPT ![s].down = rest, ![s].up = IF m = "loggedIn" /\ socket = s THEN @ \o Resend(s) ELSE @]
              /\ UNCHANGED <<timed, readyPending, outcomes, connecting>>
    /\ UNCHANGED <<socket, subs, credentials, closed, attempts, retry, drops, calls>>

\* nextBackoff
Later == attempts' = IF attempts < MaxBackoff THEN attempts + 1 ELSE attempts

OnSocketClose(s) ==
    /\ sock[s].st = "closing" /\ sock' = [sock EXCEPT ![s] = NoSock]
    /\ socket' = IF socket = s THEN NoSocket ELSE socket
    /\ \/ closed /\ Settle("closed") /\ UNCHANGED <<attempts, retry>>
       \/ /\ ~closed /\ readyPending /\ Later /\ retry' = retry \cup {"attempt"}
          /\ UNCHANGED <<readyPending, timed, connecting, outcomes>>
       \/ /\ ~closed /\ ~readyPending /\ ~sock[s].established
          /\ UNCHANGED <<attempts, readyPending, timed, connecting, retry, outcomes>>
       \/ /\ ~closed /\ ~readyPending /\ sock[s].established
          /\ connecting' = FALSE /\ Later /\ retry' = retry \cup {"cycle"}
          /\ UNCHANGED <<readyPending, timed, outcomes>>
    /\ UNCHANGED <<subs, credentials, closed, drops, calls>>

RetryAttempt ==
    /\ "attempt" \in retry /\ retry' = retry \ {"attempt"}
    /\ IF ~closed /\ readyPending THEN \E s \in WsSockets : Attempt(s) ELSE UNCHANGED <<sock, socket>>
    /\ UNCHANGED <<subs, credentials, closed, attempts, readyPending, timed, connecting, outcomes, drops, calls>>

RetryCycle ==
    /\ "cycle" \in retry /\ retry' = retry \ {"cycle"}
    /\ IF ~closed /\ ~connecting THEN \E s \in WsSockets : StartCycle(s, FALSE)
       ELSE UNCHANGED <<sock, socket, closed, readyPending, timed, connecting>>
    /\ UNCHANGED <<subs, credentials, attempts, outcomes, drops, calls>>

----------------------------------------------------------------------------
(***************************************************************************)
(* The gateway and the network.                                            *)
(***************************************************************************)
netVars == <<socket, subs, credentials, closed, attempts, readyPending, timed, connecting, retry, outcomes, calls>>

\* A login starts a lookup; a subscription is decided at once
Serve(s) ==
    LET op == Head(sock[s].up)[1]
        chs == Head(sock[s].up)[2]
    IN
    /\ sock[s].st = "open" /\ sock[s].up # <<>>
    /\ sock' = [sock EXCEPT ![s].up = Tail(@), ![s].lookup = @ \/ op = "login",
                            ![s].at = IF op = "subscribe" THEN @ \cup {ch \in chs : ch \in Private => sock[s].user} ELSE @ \ chs]
    /\ UNCHANGED <<netVars, drops>>

Lookup(s) ==
    /\ sock[s].st = "open" /\ sock[s].lookup
    /\ sock' = [sock EXCEPT ![s].lookup = FALSE, ![s].user = TRUE, ![s].down = Append(@, "loggedIn")]
    /\ UNCHANGED <<netVars, drops>>

Drop(s) ==
    /\ sock[s].st \in {"opening", "open"} /\ drops < MaxDrops /\ drops' = drops + 1 /\ sock' = Hang(s)
    /\ UNCHANGED netVars

SockStep(s) == OnOpen(s) \/ OnMessage(s) \/ OnSocketClose(s) \/ Serve(s) \/ Lookup(s)
ClientStep == ConnectTimeout \/ RetryAttempt \/ RetryCycle

ClientNext ==
    \/ Connect \/ Close \/ SetCredentials \/ \E ch \in Feeds : SubscribeTo(ch) \/ UnsubscribeFrom(ch)
    \/ ConnectTimeout \/ RetryAttempt \/ RetryCycle
    \/ \E s \in WsSockets : SockStep(s) \/ Drop(s)

ClientFair ==
    /\ WF_clientVars(RetryAttempt) /\ WF_clientVars(RetryCycle) /\ WF_clientVars(ConnectTimeout)
    /\ \A s \in WsSockets : WF_clientVars(OnOpen(s)) /\ WF_clientVars(OnMessage(s)) /\ WF_clientVars(OnSocketClose(s))
                            /\ WF_clientVars(Serve(s)) /\ WF_clientVars(Lookup(s))
ClientSpec == ClientInit /\ [][ClientNext]_clientVars /\ ClientFair

----------------------------------------------------------------------------
ClientTypeOK ==
    /\ socket \in WsSockets \cup {NoSocket} /\ subs \subseteq Feeds /\ attempts \in 0..MaxBackoff
    /\ timed => readyPending
    /\ readyPending => connecting

\* connect() never hangs: whatever the network does it is answered
ConnectSettles == outcomes = "waiting" ~> outcomes # "waiting"

\* Subscribe once and forget: a client that was connected and is not closed ends up with all its
\* channels at the gateway, the private ones too
Wanted(ch) == ch \in subs /\ (ch \in Private => credentials) /\ outcomes = "ok" /\ ~closed
Resubscribed ==
    \A ch \in Feeds : Wanted(ch) ~> ~Wanted(ch) \/ \E s \in WsSockets : sock[s].st = "open" /\ ch \in sock[s].at
=============================================================================
