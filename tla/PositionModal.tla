--------------------------- MODULE PositionModal ----------------------------
(***************************************************************************)
(* The dialogs of the positions table (web/components/trading/              *)
(* PositionsList.tsx) and the handlers of the trade page they call          *)
(* (web/app/trade/page.tsx).  A dialog keeps the row as it was when it was  *)
(* opened; the table is refreshed under it, reads drop rows, and the        *)
(* position is reduced or liquidated on the chain meanwhile.                *)
(***************************************************************************)
EXTENDS Naturals, Sequences, FiniteSets, Functions

CONSTANTS Pos, ModeOf,        \* positions and their margin mode
          MinCollateral, MaxLeverage,
          MaxSigned, MaxShocks \* bounds: operations signed, changes by others

ASSUME PositionModalConstants ==
    /\ ModeOf \in [Pos -> {"Isolated", "Cross"}]
    /\ {MinCollateral, MaxLeverage, MaxSigned, MaxShocks} \subseteq Nat \ {0}

VARIABLES held,      \* positions on the chain: size and collateral, size 0 when gone
          listed,    \* rows of the table
          batch1Known, deployed,   \* the probe's answer; the deployed market is a Batch-1 market
          dialog,    \* dialog on screen: kind, position and the row it was opened on
          busy,      \* operation in flight of each kind: isClosing, isEditingMargin, isSettingSLTP
          signed,    \* operations given to the wallet
          shocks

modalVars == <<held, listed, batch1Known, deployed, dialog, busy, signed, shocks>>

Whole == [size |-> 8, coll |-> 4]
Gone == [size |-> 0, coll |-> 0]
NoDialog == [kind |-> "none"]
Kinds == {"close", "margin", "protect"}
NotBusy == [kind |-> "none"]

Alive == {p \in Pos : held[p].size > 0}

ModalInit ==
    /\ held = [p \in Pos |-> Whole] /\ listed = held
    /\ deployed \in BOOLEAN /\ batch1Known = FALSE
    /\ dialog = NoDialog /\ busy = [k \in Kinds |-> NotBusy] /\ signed = <<>> /\ shocks = 0

----------------------------------------------------------------------------
(***************************************************************************)
(* Around the dialog.                                                      *)
(***************************************************************************)
\* A refresh reads every row; one that cannot be read is missing
RefreshRows(got) ==
    /\ got \subseteq Alive /\ listed' = Restrict(held, got) /\ listed' # listed
    /\ dialog' = IF got = {} THEN NoDialog ELSE dialog
    /\ UNCHANGED <<held, batch1Known, deployed, busy, signed, shocks>>

ProbeAnswers ==
    /\ deployed /\ ~batch1Known /\ batch1Known' = TRUE
    /\ UNCHANGED <<held, listed, deployed, dialog, busy, signed, shocks>>

Half(h) == [size |-> h.size \div 2, coll |-> (h.coll + 1) \div 2]

\* Partial liquidation or deleveraging, or liquidation
Shock(p, h) ==
    /\ shocks < MaxShocks /\ shocks' = shocks + 1 /\ p \in Alive
    /\ h \in {Half(held[p]), Gone}
    /\ held' = [held EXCEPT ![p] = h]
    /\ UNCHANGED <<listed, batch1Known, deployed, dialog, busy, signed>>

----------------------------------------------------------------------------
(***************************************************************************)
(* The dialog.                                                             *)
(***************************************************************************)
\* The rows of cross positions offer no trigger orders before Batch-1, and no margin edit
CrossOrdersEnabled(p) == batch1Known \/ ModeOf[p] # "Cross"
OpenDialog(kind, p) ==
    /\ dialog = NoDialog /\ p \in DOMAIN listed
    /\ kind = "protect" => CrossOrdersEnabled(p)
    /\ kind = "margin" => batch1Known /\ ModeOf[p] # "Cross"
    /\ dialog' = [kind |-> kind, pos |-> p, row |-> listed[p]]
    /\ UNCHANGED <<held, listed, batch1Known, deployed, busy, signed, shocks>>

\* The backdrop closes the dialog, a signature in flight or not
Dismiss ==
    /\ dialog # NoDialog /\ dialog' = NoDialog
    /\ UNCHANGED <<held, listed, batch1Known, deployed, busy, signed, shocks>>

\* A half that would leave less than the minimum closes everything
PartialWouldSnap(row) == row.coll < 2 * MinCollateral
PartialCloseAvailable == batch1Known /\ ModeOf[dialog.pos] # "Cross"

Free(kind) == busy[kind] = NotBusy

SignAndSend(kind, op) ==
    /\ dialog.kind = kind /\ Free(kind) /\ Len(signed) < MaxSigned
    /\ signed' = Append(signed, op)
    /\ busy' = [busy EXCEPT ![kind] = [kind |-> kind, n |-> Len(signed) + 1]]
    /\ UNCHANGED <<held, listed, batch1Known, deployed, dialog, shocks>>

Op(what, amount) == [what |-> what, pos |-> dialog.pos, row |-> dialog.row, amount |-> amount, state |-> "signed"]

\* handleClosePosition: the margin mode is that of the row still listed
CloseRoute(p) == IF p \in DOMAIN listed /\ ModeOf[p] = "Cross" THEN "close_cross" ELSE "close"

HandleClose(half) ==
    LET full == ~half \/ ~PartialCloseAvailable \/ PartialWouldSnap(dialog.row) IN
    /\ dialog # NoDialog
    /\ SignAndSend("close", IF full THEN Op(CloseRoute(dialog.pos), dialog.row.size) ELSE Op("close_partial", dialog.row.size \div 2))

\* The dialog does not offer to remove more than the initial margin leaves
Removable(row, amount) == amount < row.coll /\ MaxLeverage * (row.coll - amount) >= row.size

HandleEditMargin(adds, amount) ==
    /\ dialog # NoDialog /\ (adds \/ Removable(dialog.row, amount))
    /\ SignAndSend("margin", Op(IF adds THEN "add" ELSE "remove", amount))

\* handleSetStopLoss, handleSetTakeProfit: a cross position is refused before Batch-1, if it is listed
HandleSetStop ==
    /\ dialog # NoDialog /\ dialog.pos \in DOMAIN listed => CrossOrdersEnabled(dialog.pos)
    /\ SignAndSend("protect", Op("stop", 0))

----------------------------------------------------------------------------
(***************************************************************************)
(* The contract answers.                                                   *)
(***************************************************************************)
PartlyClosed(h, n) == [size |-> h.size - n, coll |-> h.coll - (h.coll * n) \div h.size]

Accepts(op) ==
    LET h == held[op.pos] IN
    /\ h.size > 0
    /\ op.what = "close_partial" =>
         op.amount <= h.size /\ (op.amount < h.size => PartlyClosed(h, op.amount).coll >= MinCollateral)
    /\ op.what \in {"close_partial", "add", "remove"} => ModeOf[op.pos] = "Isolated"
    /\ op.what = "remove" => op.amount < h.coll /\ h.coll - op.amount >= h.size \div MaxLeverage

After(op) ==
    LET h == held[op.pos] IN
    CASE op.what \in {"close", "close_cross"} -> Gone
      [] op.what = "close_partial" -> IF op.amount = h.size THEN Gone ELSE PartlyClosed(h, op.amount)
      [] op.what = "add" -> [h EXCEPT !.coll = @ + op.amount]
      [] op.what = "remove" -> [h EXCEPT !.coll = @ - op.amount]
      [] op.what = "stop" -> h

\* What is remembered of an operation that was answered
Resolved(op, state) == [op EXCEPT !.state = state, !.row = Gone, !.amount = 0]

\* Success closes whatever dialog is on screen; a refusal leaves it
Answer(k) ==
    LET n == busy[k].n op == signed[n] IN
    /\ busy[k] # NotBusy /\ busy' = [busy EXCEPT ![k] = NotBusy]
    /\ IF Accepts(op)
       THEN /\ held' = [held EXCEPT ![op.pos] = After(op)] /\ dialog' = NoDialog
            /\ signed' = [signed EXCEPT ![n] = Resolved(op, "done")]
       ELSE /\ signed' = [signed EXCEPT ![n] = Resolved(op, IF held[op.pos] = op.row THEN "refused" ELSE "overtaken")]
            /\ UNCHANGED <<held, dialog>>
    /\ UNCHANGED <<listed, batch1Known, deployed, shocks>>

\* The wallet, the network or another cause: nothing happened
AnswerFails(k) ==
    /\ busy[k] # NotBusy /\ busy' = [busy EXCEPT ![k] = NotBusy]
    /\ signed' = [signed EXCEPT ![busy[k].n] = Resolved(@, "lost")]
    /\ UNCHANGED <<held, listed, batch1Known, deployed, dialog, shocks>>

ModalNext ==
    \/ \E got \in SUBSET Pos : RefreshRows(got)
    \/ ProbeAnswers \/ Dismiss \/ HandleSetStop
    \/ \E p \in Pos : \/ \E k \in Kinds : OpenDialog(k, p)
                      \/ \E h \in {Half(held[p]), Gone} : Shock(p, h)
    \/ \E half \in BOOLEAN : HandleClose(half)
    \/ \E adds \in BOOLEAN, amount \in {2} : HandleEditMargin(adds, amount)
    \/ \E k \in Kinds : Answer(k) \/ AnswerFails(k)

ModalSpec == ModalInit /\ [][ModalNext]_modalVars

----------------------------------------------------------------------------
ModalTypeOK ==
    /\ DOMAIN listed \subseteq Pos /\ \A p \in Pos : held[p].size \in 0..8 /\ (held[p].size > 0 => held[p].coll > 0)
    /\ Cardinality({i \in DOMAIN signed : signed[i].state = "signed"}) = Cardinality({k \in Kinds : busy[k] # NotBusy})

\* What the dialog lets through, the contract accepts: the snap rule and the margin limit spare the user
\* a refusal unless the position changed after the dialog was opened
RefusedOnlyWhenOvertaken ==
    \A i \in DOMAIN signed : signed[i].state # "refused"

\* Before Batch-1 no trigger order is signed for a cross position, even when a refresh dropped its row
\* under the dialog and the page can no longer look up its mode
NoCrossTrigger ==
    \A i \in DOMAIN signed : signed[i].what = "stop" /\ ~deployed => ModeOf[signed[i].pos] # "Cross"

\* The dialogs of the positions table send nothing the contract would refuse on the row they show, and no
\* trigger where it must not be (PositionsList.tsx)
ModalSafe == ModalTypeOK /\ RefusedOnlyWhenOvertaken /\ NoCrossTrigger
=============================================================================
