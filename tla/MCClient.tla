----------------------------- MODULE MCClient ------------------------------
(***************************************************************************)
(* The pages of the web app, and the SDK's write path, on small instances. *)
(* A behaviour is of one part: pages share the ledger and the wallet, of   *)
(* which each models what it reads and writes.                             *)
(***************************************************************************)
EXTENDS TradeTx, TradePage, OrderPanel, PositionModal, Faucet, LpPage, WalletSession, ReferralPage, PriceFeed, TLC

CONSTANT ClientParts
VARIABLE part

AllOfOne == [r \in Rows |-> "a"]
CrossIsX == [p \in Pos |-> IF p = "x" THEN "Cross" ELSE "Isolated"]
ClientSymmetry == Permutations(Refreshes)

tradingVars == <<tradeVars, pageVars, feedVars>>
ticketVars == <<panelVars, modalVars>>
moneyVars == <<faucetVars, lpVars>>
accountVars == <<walletVars, referralPageVars>>

\* A part that does not run stands in one of its initial states
MCInit ==
    /\ part \in ClientParts
    /\ TradeInit /\ PageInit /\ PanelInit /\ ModalInit /\ FaucetInit /\ LpInit /\ WalletInit /\ ReferralPageInit /\ FeedInit
    /\ part # "page" => view = CHOOSE v \in PageScenes : TRUE
    /\ part # "page" => ours
    /\ part # "panel" => scene = "ladder"
    /\ part # "modal" => deployed
    /\ part # "faucet" => fscene = "claims"
    /\ part # "lp" => lscene = "follower" /\ price = CHOOSE p \in Prices : TRUE
    /\ part # "wallet" => \A m, n \in Modules : picked[m] = picked[n] /\ picked[m] = CHOOSE k \in Keys : TRUE
    /\ part # "referral" => refScene = CHOOSE s \in RefScenes : TRUE

MCNext ==
    \/ part = "trade" /\ TradeNext /\ UNCHANGED <<pageVars, feedVars, ticketVars, moneyVars, accountVars, part>>
    \/ part = "page" /\ PageNext /\ UNCHANGED <<tradeVars, feedVars, ticketVars, moneyVars, accountVars, part>>
    \/ part = "feed" /\ FeedNext /\ UNCHANGED <<tradeVars, pageVars, ticketVars, moneyVars, accountVars, part>>
    \/ part = "panel" /\ PanelNext /\ UNCHANGED <<tradingVars, modalVars, moneyVars, accountVars, part>>
    \/ part = "modal" /\ ModalNext /\ UNCHANGED <<tradingVars, panelVars, moneyVars, accountVars, part>>
    \/ part = "faucet" /\ FaucetNext /\ UNCHANGED <<tradingVars, ticketVars, lpVars, accountVars, part>>
    \/ part = "lp" /\ LpNext /\ UNCHANGED <<tradingVars, ticketVars, faucetVars, accountVars, part>>
    \/ part = "wallet" /\ WalletNext /\ UNCHANGED <<tradingVars, ticketVars, moneyVars, referralPageVars, part>>
    \/ part = "referral" /\ ReferralPageNext /\ UNCHANGED <<tradingVars, ticketVars, moneyVars, walletVars, part>>

MCSpec == MCInit /\ [][MCNext]_<<tradingVars, ticketVars, moneyVars, accountVars, part>>

----------------------------------------------------------------------------
\* The order ticket and the position dialogs send what was shown and checked, and a mark without the amber badge
\* is the stream's own (OrderPanel.tsx, PositionsList.tsx, noeracle.ts)
PanelSafe == (part = "panel" => TicketSafe) /\ (part = "modal" => ModalSafe) /\ (part = "feed" => FeedHonest)

\* The pages that move a user's money keep to what they quoted, limited and showed (LP pages, faucet)
MoneyPages == (part = "lp" => LpHonest) /\ (part = "faucet" => FaucetSafe)
=============================================================================
