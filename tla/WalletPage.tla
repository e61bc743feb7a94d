------------------------------ MODULE WalletPage ------------------------------
(* The wallet page of the management console                               *)
(* (src/web/src/components/WalletManagementView.jsx): the balance, which   *)
(* the page and the console around it (adminUser of src/web/src/App.jsx)   *)
(* each keep a copy of, recharges, gift cards and, for an administrator,   *)
(* the table of cards.  Every recharge and every card is worth one.  What  *)
(* the server does with an order or a card is modelled in Wallet; here it  *)
(* credits, refuses, or its answer is lost.                                *)
EXTENDS Integers, FiniteSets

CONSTANTS Cards,          \* the codes of the gift cards
          NoCard,
          WalletIsAdmins, \* isAdmin
          MaxWalletSteps

ASSUME WalletPageAssumption == NoCard \notin Cards /\ WalletIsAdmins \in BOOLEAN

VARIABLES
    credit,        \* the server's: the balance of the user
    cards,         \* the server's: the cards not yet redeemed
    walletData,    \* the balance the page shows
    adminBalance,  \* the balance of adminUser
    redemptions,   \* the cards the table shows
    rechargeForm,  \* [method, valid]: the way to pay, and whether the amount is one
    redeemCode,
    recharging, redeeming, generating,
    showGenModal, activeTab,
    away,          \* the browser is at the payment service
    walletCalls,   \* requests sent and not yet handled
    pressed,       \* recharges pressed and codes sent, so far
    walletSteps    \* what the user did so far, bounded by MaxWalletSteps

walletBalances == <<walletData, adminBalance>>
walletFlags == <<recharging, redeeming, generating>>
walletView == <<redemptions, rechargeForm, redeemCode, showGenModal, activeTab, away>>
walletServer == <<credit, cards>>
walletVars == <<walletServer, walletBalances, walletFlags, walletView, walletCalls, pressed, walletSteps>>

WalletCall(op, card) == [op |-> op, card |-> card, served |-> FALSE, ok |-> FALSE, paid |-> 0, cards |-> {}]
fetchWallet == WalletCall("wallet", NoCard)
fetchUserProfile == WalletCall("profile", NoCard)
fetchRedemptions == IF WalletIsAdmins THEN {WalletCall("cards", NoCard)} ELSE {}

\* The effect of the first render.
Mounted == {fetchWallet} \cup fetchRedemptions

WalletPageInit ==
    /\ credit = 0 /\ cards \in SUBSET Cards
    /\ walletData = 0 /\ adminBalance = 0
    /\ redemptions = {}
    /\ rechargeForm = [method |-> "sandbox", valid |-> TRUE]
    /\ redeemCode = NoCard
    /\ recharging = FALSE /\ redeeming = FALSE /\ generating = FALSE
    /\ showGenModal = FALSE /\ activeTab = "wallet"
    /\ away = FALSE
    /\ walletCalls = Mounted
    /\ pressed = 0 /\ walletSteps = 0

-----------------------------------------------------------------------------
(* The server.                                                             *)

Credits(c) == c.op \in {"sandbox", "complete"} \/ (c.op = "redeem" /\ c.card \in cards)

\* The request is carried out, refused or lost, its answer may be lost; one of
\* the cards that are generated is a card of the model.
WalletAnswer ==
    \E c \in walletCalls, done, ok \in BOOLEAN :
        /\ ~c.served
        /\ ok => done
        /\ c.op = "redeem" /\ done => c.card \in cards
        /\ credit' = IF done /\ Credits(c) THEN credit + 1 ELSE credit
        /\ cards' = IF ~done THEN cards
                    ELSE IF c.op \in {"redeem", "delete"} THEN cards \ {c.card}
                    ELSE IF c.op = "generate" THEN Cards ELSE cards
        /\ walletCalls' = (walletCalls \ {c})
                \cup {[c EXCEPT !.served = TRUE, !.ok = ok, !.paid = credit', !.cards = cards']}
        /\ UNCHANGED <<walletBalances, walletFlags, walletView, pressed, walletSteps>>

Settled(c, op) == c \in walletCalls /\ c.served /\ c.op = op
Handle(c, more) == walletCalls' = (walletCalls \ {c}) \cup (IF c.ok THEN more ELSE {})

\* The end of fetchWallet: the page's copy, adminUser's (onUserUpdated and
\* onBalanceUpdate), and the profile is fetched.
WalletArrives ==
    \E c \in walletCalls :
        /\ Settled(c, "wallet")
        /\ walletData' = IF c.ok THEN c.paid ELSE walletData
        /\ adminBalance' = IF c.ok THEN c.paid ELSE adminBalance
        /\ Handle(c, {fetchUserProfile})
        /\ UNCHANGED <<walletServer, walletFlags, walletView, pressed, walletSteps>>

\* No effect that follows adminUser.
SynchronizedNever(old, new) == walletData

\* The page follows adminUser when its balance changes.
Synchronized(old, new) == IF new # old THEN new ELSE walletData

\* The end of fetchUserProfile.
ProfileArrives ==
    \E c \in walletCalls :
        /\ Settled(c, "profile")
        /\ adminBalance' = IF c.ok THEN c.paid ELSE adminBalance
        /\ walletData' = Synchronized(adminBalance, adminBalance')
        /\ Handle(c, {})
        /\ UNCHANGED <<walletServer, walletFlags, walletView, pressed, walletSteps>>

CardsArrive ==
    \E c \in walletCalls :
        /\ Settled(c, "cards")
        /\ redemptions' = IF c.ok THEN c.cards ELSE redemptions
        /\ Handle(c, {})
        /\ UNCHANGED <<walletServer, walletBalances, walletFlags, rechargeForm, redeemCode,
                       showGenModal, activeTab, away, pressed, walletSteps>>

\* The end of handleRedeem.
RedeemReturns ==
    \E c \in walletCalls :
        /\ Settled(c, "redeem")
        /\ redeeming' = FALSE
        /\ redeemCode' = IF c.ok THEN NoCard ELSE redeemCode
        /\ Handle(c, {fetchWallet} \cup fetchRedemptions)
        /\ UNCHANGED <<walletServer, walletBalances, recharging, generating, redemptions, rechargeForm,
                       showGenModal, activeTab, away, pressed, walletSteps>>

\* A payment without a good answer sent once more.
RechargeReturnsRetrying ==
    \E c \in walletCalls :
        /\ Settled(c, "sandbox") \/ Settled(c, "complete")
        /\ recharging' = ~c.ok
        /\ walletCalls' = (walletCalls \ {c}) \cup {IF c.ok THEN fetchWallet ELSE WalletCall(c.op, NoCard)}
        /\ UNCHANGED <<walletServer, walletBalances, redeeming, generating, walletView, pressed, walletSteps>>

\* The end of handleRecharge, paid at once or after the simulated session.
RechargeReturns ==
    \E c \in walletCalls :
        /\ Settled(c, "sandbox") \/ Settled(c, "complete")
        /\ recharging' = FALSE
        /\ Handle(c, {fetchWallet})
        /\ UNCHANGED <<walletServer, walletBalances, redeeming, generating, walletView, pressed, walletSteps>>

\* The session is a simulated one: its order is paid in a second request, the
\* button still disabled.
SessionSimulated ==
    \E c \in walletCalls :
        /\ Settled(c, "session") /\ c.ok
        /\ Handle(c, {WalletCall("complete", NoCard)})
        /\ UNCHANGED <<walletServer, walletBalances, walletFlags, walletView, pressed, walletSteps>>

SessionFails ==
    \E c \in walletCalls :
        /\ Settled(c, "session") /\ ~c.ok
        /\ recharging' = FALSE
        /\ Handle(c, {})
        /\ UNCHANGED <<walletServer, walletBalances, redeeming, generating, walletView, pressed, walletSteps>>

\* The browser goes to the payment service; nothing of the page is left.
Leave(atService) ==
    /\ away' = atService
    /\ redemptions' = {} /\ redeemCode' = NoCard
    /\ rechargeForm' = [method |-> "sandbox", valid |-> TRUE]
    /\ recharging' = FALSE /\ redeeming' = FALSE /\ generating' = FALSE
    /\ showGenModal' = FALSE /\ activeTab' = "wallet"
    /\ UNCHANGED <<pressed, walletSteps>>

SessionRedirects ==
    \E c \in walletCalls :
        /\ Settled(c, "session") /\ c.ok
        /\ Leave(TRUE)
        /\ walletCalls' = {}
        /\ UNCHANGED <<walletServer, walletBalances>>

\* The user pays there or not, and comes back to a page that starts anew from
\* the stored user.
ComesBack ==
    /\ away
    /\ credit' \in {credit, credit + 1}
    /\ cards' = cards
    /\ Leave(FALSE)
    /\ walletData' = adminBalance
    /\ walletCalls' = Mounted
    /\ UNCHANGED adminBalance

GenerateReturns ==
    \E c \in walletCalls :
        /\ Settled(c, "generate")
        /\ generating' = FALSE
        /\ showGenModal' = IF c.ok THEN FALSE ELSE showGenModal
        /\ Handle(c, fetchRedemptions)
        /\ UNCHANGED <<walletServer, walletBalances, recharging, redeeming, redemptions, rechargeForm,
                       redeemCode, activeTab, away, pressed, walletSteps>>

DeleteCardReturns ==
    \E c \in walletCalls :
        /\ Settled(c, "delete")
        /\ Handle(c, fetchRedemptions)
        /\ UNCHANGED <<walletServer, walletBalances, walletFlags, walletView, pressed, walletSteps>>

-----------------------------------------------------------------------------
(* The page.                                                               *)

Post(c) == walletCalls' = walletCalls \cup {c} /\ UNCHANGED <<walletServer, walletBalances>>

InTab(tab) == ~away /\ activeTab = tab /\ ~showGenModal

\* The button is there for good: wallets may be fetched twice at a time.
RefreshWallet ==
    /\ InTab("wallet")
    /\ Post(fetchWallet)
    /\ UNCHANGED <<walletFlags, walletView, pressed>>

SwitchTab ==
    /\ WalletIsAdmins /\ ~away /\ ~showGenModal
    /\ activeTab' \in {"wallet", "redemptions"}
    /\ UNCHANGED <<walletServer, walletBalances, walletFlags, redemptions, rechargeForm, redeemCode,
                   showGenModal, away, walletCalls, pressed>>

TypeCode ==
    /\ InTab("wallet")
    /\ redeemCode' \in Cards
    /\ UNCHANGED <<walletServer, walletBalances, walletFlags, redemptions, rechargeForm, showGenModal,
                   activeTab, away, walletCalls, pressed>>

RedeemOffered == InTab("wallet") /\ ~redeeming

handleRedeem ==
    /\ RedeemOffered /\ redeemCode # NoCard
    /\ redeeming' = TRUE
    /\ pressed' = pressed + 1
    /\ Post(WalletCall("redeem", redeemCode))
    /\ UNCHANGED <<recharging, generating, walletView>>

\* The amounts on the buttons are valid, a typed one may not be.
ChooseAmount ==
    /\ InTab("wallet")
    /\ \E valid \in BOOLEAN : rechargeForm' = [rechargeForm EXCEPT !.valid = valid]
    /\ UNCHANGED <<walletServer, walletBalances, walletFlags, redemptions, redeemCode, showGenModal,
                   activeTab, away, walletCalls, pressed>>

ChooseMethod ==
    /\ InTab("wallet")
    /\ \E method \in {"sandbox", "stripe"} : rechargeForm' = [rechargeForm EXCEPT !.method = method]
    /\ UNCHANGED <<walletServer, walletBalances, walletFlags, redemptions, redeemCode, showGenModal,
                   activeTab, away, walletCalls, pressed>>

RechargeOffered == InTab("wallet") /\ ~recharging

handleRecharge ==
    /\ RechargeOffered /\ rechargeForm.valid
    /\ recharging' = TRUE
    /\ pressed' = pressed + 1
    /\ Post(WalletCall(IF rechargeForm.method = "sandbox" THEN "sandbox" ELSE "session", NoCard))
    /\ UNCHANGED <<redeeming, generating, walletView>>

\* The table of cards, with its buttons.
CardTableOffered == WalletIsAdmins /\ InTab("redemptions")

RefreshCards ==
    /\ CardTableOffered
    /\ walletCalls' = walletCalls \cup fetchRedemptions
    /\ UNCHANGED <<walletServer, walletBalances, walletFlags, walletView, pressed>>

handleDeleteRedemption ==
    \E card \in redemptions :
        /\ CardTableOffered
        /\ Post(WalletCall("delete", card))
        /\ UNCHANGED <<walletFlags, walletView, pressed>>

OpenGenerate ==
    /\ CardTableOffered
    /\ showGenModal' = TRUE
    /\ UNCHANGED <<walletServer, walletBalances, walletFlags, redemptions, rechargeForm, redeemCode,
                   activeTab, away, walletCalls, pressed>>

CloseGenerate ==
    /\ showGenModal /\ ~away
    /\ showGenModal' = FALSE
    /\ UNCHANGED <<walletServer, walletBalances, walletFlags, redemptions, rechargeForm, redeemCode,
                   activeTab, away, walletCalls, pressed>>

GenerateOffered == showGenModal /\ ~generating /\ ~away

handleGenerateRedemptions ==
    /\ GenerateOffered
    /\ generating' = TRUE
    /\ Post(WalletCall("generate", NoCard))
    /\ UNCHANGED <<recharging, redeeming, walletView, pressed>>

WalletArrivals ==
    \/ WalletAnswer \/ WalletArrives \/ ProfileArrives \/ CardsArrive \/ RedeemReturns \/ RechargeReturns
    \/ SessionSimulated \/ SessionFails \/ SessionRedirects \/ GenerateReturns \/ DeleteCardReturns

WalletPageNext ==
    \/ WalletArrivals
    \/ ComesBack
    \/ /\ walletSteps < MaxWalletSteps
       /\ walletSteps' = walletSteps + 1
       /\ \/ RefreshWallet \/ SwitchTab \/ TypeCode \/ handleRedeem
          \/ ChooseAmount \/ ChooseMethod \/ handleRecharge
          \/ RefreshCards \/ handleDeleteRedemption
          \/ OpenGenerate \/ CloseGenerate \/ handleGenerateRedemptions

WalletPageSpec == WalletPageInit /\ [][WalletPageNext]_walletVars

-----------------------------------------------------------------------------
WalletPageTypeOK ==
    /\ credit \in Nat /\ walletData \in Nat /\ adminBalance \in Nat
    /\ cards \subseteq Cards /\ redemptions \subseteq Cards /\ redeemCode \in Cards \cup {NoCard}
    /\ rechargeForm \in [method : {"sandbox", "stripe"}, valid : BOOLEAN]
    /\ {recharging, redeeming, generating, showGenModal, away} \subseteq BOOLEAN
    /\ activeTab \in {"wallet", "redemptions"}
    /\ pressed \in Nat

\* The page and the console around it never show two balances, in whatever
\* order the answers for the wallet and for the profile come: the page's copy
\* follows adminUser, and adminUser follows the page.
OneBalanceShown == walletData = adminBalance

\* Whatever is lost or late, the user is credited at most once for each press:
\* the console sends no payment twice, and pays no second time for a session.
\* What is still under way counts.
CreditedOncePerPress ==
    LET underWay == {c \in walletCalls : ~c.served /\ c.op \in {"sandbox", "session", "complete", "redeem"}}
                        \cup {c \in walletCalls : c.served /\ c.ok /\ c.op = "session"}
    IN  credit + Cardinality(underWay) + (IF away THEN 1 ELSE 0) <= pressed
=============================================================================
