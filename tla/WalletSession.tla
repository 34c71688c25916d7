---------------------------- MODULE WalletSession ----------------------------
(***************************************************************************)
(* The wallet of the web app: the persisted store                           *)
(* (web/lib/store/walletStore.ts), the provider that restores it after a     *)
(* load, the connect, disconnect and balance calls of useWallet, and the     *)
(* wallet kit singleton with the wallet modules behind it, in which the      *)
(* user may pick another account at any time.  Store and kit are updated by   *)
(* asynchronous calls that overlap freely; signing is what checks that they  *)
(* still agree.                                                             *)
(***************************************************************************)
EXTENDS Naturals, FiniteSets

CONSTANTS Keys,             \* Stellar accounts
          Extensions,       \* wallet modules of the extension kind
          Reporting,        \* modules that name the signer in what they return
          MaxActs

ASSUME WalletConstants == Reporting \subseteq Extensions \cup {"wc"} /\ MaxActs \in Nat

Modules == Extensions \cup {"wc"}         \* WALLETCONNECT_ID
NoKey == "none"
NoModule == "none"

VARIABLES wstore,        \* useWalletStore: connected, address, walletId; of: whose balances it holds
          kit,           \* activeModule, activeAddress
          isReady,       \* the provider's
          picked,        \* the account each wallet module has selected
          wcPaths,       \* accounts with a WalletConnect session
          jobs,          \* calls under way: [kind, module, key, step]
          signedAs,      \* history: transactions handed back signed: [module, expected, signer]
          slipped,       \* history: the wallet changed under a call, or a call to the kit failed, since the load
          acts

walletVars == <<wstore, kit, isReady, picked, wcPaths, jobs, signedAs, slipped, acts>>

NoWallet == [connected |-> FALSE, address |-> NoKey, walletId |-> NoModule, of |-> NoKey]
NoKit == [module |-> NoModule, address |-> NoKey]

WalletInit ==
    /\ wstore = NoWallet /\ kit = NoKit /\ isReady = TRUE /\ picked \in [Modules -> Keys] /\ wcPaths = {}
    /\ jobs = {} /\ signedAs = {} /\ slipped = FALSE /\ acts = 0

Act == acts < MaxActs /\ acts' = acts + 1
Job(kind, m, k, step) == [kind |-> kind, module |-> m, key |-> k, step |-> step]
Underway(kind) == \E j \in jobs : j.kind = kind

\* The store's actions
SetConnected(k, m) == [wstore EXCEPT !.connected = TRUE, !.address = k, !.walletId = m]
SetDisconnected == NoWallet

\* A step of job j changes the store or the kit while other calls are under way
Slip(j) == slipped' = (slipped \/ jobs \ {j} # {})

----------------------------------------------------------------------------
(***************************************************************************)
(* A load: address and wallet id are what persists.                        *)
(***************************************************************************)
Restored == wstore.address # NoKey /\ wstore.walletId \in Extensions

\* Extensions are connected at once, balances and kit follow in the background; WalletConnect waits for the kit
Load(reconnect) ==
    /\ Act /\ kit' = NoKit /\ slipped' = FALSE
    /\ wstore' = [wstore EXCEPT !.connected = reconnect, !.of = NoKey]
    /\ isReady' = reconnect
    /\ jobs' = {IF reconnect THEN Job("restore", wstore.walletId, wstore.address, "read")
                ELSE Job("init", wstore.walletId, wstore.address, "kit")}
    /\ UNCHANGED <<picked, wcPaths, signedAs>>

LoadPage == Load(Restored)

\* A balance, or unknown: never a made-up zero
BalanceReads == BOOLEAN
Shows(j, known) == [wstore EXCEPT !.of = IF known THEN j.key ELSE NoKey]

\* Balances of the restored wallet, unknown when the read failed; then the kit
RestoreReads(j) ==
    /\ j.kind = "restore" /\ j.step = "read"
    /\ \E known \in BalanceReads : wstore' = Shows(j, known)
    /\ jobs' = (jobs \ {j}) \cup {[j EXCEPT !.step = "kit"]} /\ Slip(j)
    /\ UNCHANGED <<kit, isReady, picked, wcPaths, signedAs, acts>>

SetupWalletModule(m, k) == [module |-> m, address |-> k]

RestoreSetsUp(j) ==
    /\ j.kind = "restore" /\ j.step = "kit" /\ jobs' = jobs \ {j}
    /\ \/ kit' = SetupWalletModule(j.module, j.key) /\ Slip(j)
       \/ UNCHANGED kit /\ slipped' = TRUE               \* swallowed
    /\ UNCHANGED <<wstore, isReady, picked, wcPaths, signedAs, acts>>

\* The kit is there, or is not
InitKit(j) ==
    /\ j.kind = "init" /\ j.step = "kit"
    /\ \/ /\ j.key # NoKey /\ j.module = "wc" /\ jobs' = (jobs \ {j}) \cup {[j EXCEPT !.step = "session"]}
          /\ kit' = [kit EXCEPT !.module = "wc"] /\ UNCHANGED <<wstore, isReady>> /\ Slip(j)
       \/ /\ j.module # "wc" /\ jobs' = jobs \ {j} /\ isReady' = TRUE /\ UNCHANGED kit
          /\ wstore' = (IF j.key # NoKey THEN SetDisconnected ELSE wstore) /\ Slip(j)
       \/ /\ jobs' = jobs \ {j} /\ isReady' = TRUE /\ slipped' = TRUE /\ UNCHANGED <<wstore, kit>>
    /\ UNCHANGED <<picked, wcPaths, signedAs, acts>>

Ready == TRUE

\* The session of the stored account is found and its client comes up in time, or the wallet is disconnected
RestoreSession(j) ==
    /\ j.kind = "init" /\ j.step = "session"
    /\ \/ /\ j.key \in wcPaths /\ wstore' = SetConnected(j.key, "wc") /\ kit' = [kit EXCEPT !.address = j.key]
          /\ jobs' = (jobs \ {j}) \cup {[j EXCEPT !.step = "read"]} /\ UNCHANGED isReady
       \/ wstore' = SetDisconnected /\ isReady' = Ready /\ jobs' = jobs \ {j} /\ UNCHANGED kit
    /\ Slip(j)
    /\ UNCHANGED <<picked, wcPaths, signedAs, acts>>

\* Its balances, or the reader could not be loaded: disconnected again
RestoredReads(j) ==
    /\ j.kind = "init" /\ j.step = "read" /\ jobs' = jobs \ {j} /\ isReady' = TRUE
    /\ wstore' \in {SetDisconnected} \cup {Shows(j, known) : known \in BalanceReads} /\ Slip(j)
    /\ UNCHANGED <<kit, picked, wcPaths, signedAs, acts>>

----------------------------------------------------------------------------
(***************************************************************************)
(* Connecting, refreshing and disconnecting.                               *)
(***************************************************************************)
\* The module is selected before the wallet answers
HandleSelect(m) ==
    /\ Act /\ ~wstore.connected /\ ~Underway("connect") /\ kit' = [kit EXCEPT !.module = m]
    /\ jobs' = jobs \cup {Job("connect", m, NoKey, "address")} /\ slipped' = (slipped \/ jobs # {})
    /\ UNCHANGED <<wstore, isReady, picked, wcPaths, signedAs>>

\* The wallet names its account: kit and store take it, the balances are asked for
OnConnected(j) ==
    LET k == picked[j.module] IN
    /\ j.kind = "connect" /\ wstore' = SetConnected(k, j.module) /\ kit' = [kit EXCEPT !.address = k]
    /\ wcPaths' = IF j.module = "wc" THEN wcPaths \cup {k} ELSE wcPaths
    /\ jobs' = (jobs \ {j}) \cup {Job("balances", j.module, k, "read")} /\ Slip(j)
    /\ UNCHANGED <<isReady, picked, signedAs, acts>>

\* Declined in the wallet: the module stays selected
ConnectFails(j) ==
    /\ j.kind = "connect" /\ jobs' = jobs \ {j}
    /\ UNCHANGED <<wstore, kit, isReady, picked, wcPaths, signedAs, slipped, acts>>

RefreshBalances ==
    /\ Act /\ wstore.connected /\ ~Underway("balances")
    /\ jobs' = jobs \cup {Job("balances", wstore.walletId, wstore.address, "read")}
    /\ UNCHANGED <<wstore, kit, isReady, picked, wcPaths, signedAs, slipped>>

\* Whoever is connected by now
SetBalances(j) ==
    /\ j.kind = "balances" /\ jobs' = jobs \ {j}
    /\ \E known \in BalanceReads : wstore' = Shows(j, known)
    /\ slipped' = (slipped \/ j.key # wstore.address)
    /\ UNCHANGED <<kit, isReady, picked, wcPaths, signedAs, acts>>

DisconnectWallet ==
    /\ Act /\ wstore.connected /\ ~Underway("disconnect")
    /\ jobs' = jobs \cup {Job("disconnect", wstore.walletId, wstore.address, "kit")} /\ kit' = [kit EXCEPT !.address = NoKey]
    /\ UNCHANGED <<wstore, isReady, picked, wcPaths, signedAs>> /\ slipped' = (slipped \/ jobs # {})

\* The kit has let go, or cannot: the store is cleared either way
Disconnected(j) ==
    /\ j.kind = "disconnect" /\ wstore' = SetDisconnected /\ jobs' = jobs \ {j} /\ Slip(j)
    /\ wcPaths' = wcPaths \ {j.key}
    /\ UNCHANGED <<kit, isReady, picked, signedAs, acts>>

----------------------------------------------------------------------------
(***************************************************************************)
(* Signing, and the user at the wallet.                                    *)
(***************************************************************************)
PickAccount(m, k) ==
    /\ Act /\ picked[m] # k /\ picked' = [picked EXCEPT ![m] = k]
    /\ UNCHANGED <<wstore, kit, isReady, wcPaths, jobs, signedAs, slipped>>

SignWith ==
    /\ Act /\ wstore.connected /\ ~Underway("sign")
    /\ jobs' = jobs \cup {Job("sign", kit.module, wstore.address, "access")}
    /\ UNCHANGED <<wstore, kit, isReady, picked, wcPaths, signedAs, slipped>>

\* requestAccess names the account, or is refused and signing goes on
RequestAccess(j) ==
    /\ j.kind = "sign" /\ j.step = "access" /\ j.module \in Modules
    /\ \/ picked[j.module] = j.key /\ jobs' = (jobs \ {j}) \cup {[j EXCEPT !.step = "prompt"]}
       \/ picked[j.module] # j.key /\ jobs' = jobs \ {j}
       \/ jobs' = (jobs \ {j}) \cup {[j EXCEPT !.step = "prompt"]}
    /\ UNCHANGED <<wstore, kit, isReady, picked, wcPaths, signedAs, slipped, acts>>

AnySigner(j, k) == TRUE
SignerAccepted(j, k) == j.module \in Reporting => k = j.key

\* Approved by the account selected then, or dropped: declined, timed out, another signer than the source
SignTransaction(j) ==
    /\ j.kind = "sign" /\ (j.step = "prompt" \/ j.module = NoModule)
    /\ jobs' = jobs \ {j}
    /\ \/ UNCHANGED signedAs
       \/ /\ j.module \in Modules /\ SignerAccepted(j, picked[j.module])
          /\ signedAs' = signedAs \cup {[module |-> j.module, expected |-> j.key, signer |-> picked[j.module]]}
    /\ UNCHANGED <<wstore, kit, isReady, picked, wcPaths, slipped, acts>>

----------------------------------------------------------------------------
WalletNext ==
    \/ LoadPage \/ RefreshBalances \/ DisconnectWallet \/ SignWith
    \/ \E m \in Modules : HandleSelect(m) \/ \E k \in Keys : PickAccount(m, k)
    \/ \E j \in jobs : \/ RestoreReads(j) \/ RestoreSetsUp(j) \/ InitKit(j) \/ RestoreSession(j) \/ RestoredReads(j) \/ OnConnected(j)
                       \/ ConnectFails(j) \/ SetBalances(j) \/ Disconnected(j) \/ RequestAccess(j) \/ SignTransaction(j)

WalletSpec == WalletInit /\ [][WalletNext]_walletVars

----------------------------------------------------------------------------
\* The shape of the state; a wallet that is connected has an account and a module
WalletTypeOK ==
    /\ wstore \in [connected : BOOLEAN, address : Keys \cup {NoKey}, walletId : Modules \cup {NoModule}, of : Keys \cup {NoKey}]
    /\ kit \in [module : Modules \cup {NoModule}, address : Keys \cup {NoKey}]
    /\ wstore.connected => wstore.address \in Keys /\ wstore.walletId \in Modules
    /\ \A j \in jobs : j.kind \in {"restore", "init", "connect", "balances", "disconnect", "sign"}

\* A transaction handed back as signed carries the signature of the account it was built for, even when the
\* user picked another account after the app checked; modules that do not name the signer are excepted
SignedAsExpected == \A s \in signedAs : s.module \in Reporting => s.signer = s.expected

\* The app never waits for a wallet that nobody is restoring any more
ReadyOrRestoring == isReady \/ Underway("init")

\* The balances shown are the connected wallet's and the kit signs with the store's module, unless the wallet
\* changed while a call was under way or the kit could not be loaded
AgreeUnlessSlipped ==
    ~slipped /\ jobs = {} =>
        /\ wstore.of # NoKey => wstore.of = wstore.address
        /\ wstore.connected => kit = [module |-> wstore.walletId, address |-> wstore.address]

\* The wallet that is shown is the wallet that signs (the wallet store, kit and provider)
WalletHonest == WalletTypeOK /\ SignedAsExpected /\ ReadyOrRestoring /\ AgreeUnlessSlipped
=============================================================================
