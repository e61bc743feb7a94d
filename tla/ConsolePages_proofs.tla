-------------------------- MODULE ConsolePages_proofs --------------------------
(***************************************************************************)
(* Proofs about the pages of the console for the users, the wallet, the    *)
(* providers, the logs and about its session, for any accounts, cards,     *)
(* providers, records and tabs.                                            *)
(***************************************************************************)
EXTENDS UsersPage, WalletPage, ChannelsPage, LogsPage, SessionPage, FiniteSetTheorems, TLAPS

-----------------------------------------------------------------------------
(* The users.                                                              *)

IsUserCall(c) == DOMAIN c = {"op", "name", "values", "served", "ok", "rows"}

IsAdjustment(c) == c.op \in {"delta", "exact"}

\* The flag is up exactly while there is an adjustment, and then there is one.
OneForTheFlag ==
    /\ adjustingQuota \in BOOLEAN
    /\ adjustingQuota => \E c \in userCalls : IsAdjustment(c)
    /\ ~adjustingQuota => \A c \in userCalls : ~IsAdjustment(c)
    /\ \A c, d \in userCalls : IsAdjustment(c) /\ IsAdjustment(d) => c = d

UsersInv ==
    /\ \A c \in userCalls : IsUserCall(c)
    /\ DOMAIN quotaForm = {"target", "mode", "value"} /\ quotaForm.mode \in {"delta", "exact"}
    /\ AsksOnlyWhatIsAllowed
    /\ OneForTheFlag

LEMMA NewUserCalls ==
    /\ IsUserCall(ListUsers) /\ ~IsAdjustment(ListUsers) /\ Allowed(ListUsers)
    /\ \A op, name, values :
           LET c == UserCall(op, name, values)
           IN  IsUserCall(c) /\ c.op = op /\ c.name = name /\ c.values = values
  BY DEF ListUsers, UserCall, IsUserCall, IsAdjustment, Allowed

\* What is allowed does not depend on the answer.
LEMMA AllowedBeforeTheAnswer ==
    ASSUME NEW c, NEW d, c.op = d.op, c.name = d.name, c.values = d.values
    PROVE  Allowed(c) => Allowed(d)
  BY DEF Allowed

LEMMA UsersInitHolds == UsersInit => UsersInv
<1> SUFFICES ASSUME UsersInit PROVE UsersInv
  OBVIOUS
<1>1. userCalls = {ListUsers} /\ adjustingQuota = FALSE
  BY DEF UsersInit
<1>2. DOMAIN quotaForm = {"target", "mode", "value"} /\ quotaForm.mode \in {"delta", "exact"}
  BY DEF UsersInit, NoQuotaForm
<1>3. OneForTheFlag /\ AsksOnlyWhatIsAllowed
  BY <1>1, NewUserCalls DEF AsksOnlyWhatIsAllowed, OneForTheFlag
<1> QED
  BY <1>1, <1>2, <1>3, NewUserCalls DEF UsersInv

LEMMA UserAnswerHolds == ASSUME UsersInv, UserAnswer PROVE UsersInv'
<1>1. PICK c \in userCalls, ok \in BOOLEAN :
        /\ userCalls' = (userCalls \ {c}) \cup {[c EXCEPT !.served = TRUE, !.ok = ok, !.rows = accounts']}
        /\ UNCHANGED userForms
  BY DEF UserAnswer
<1> DEFINE d == [c EXCEPT !.served = TRUE, !.ok = ok, !.rows = accounts']
<1>2. IsUserCall(d) /\ d.op = c.op /\ d.name = c.name /\ d.values = c.values
  BY DEF UsersInv, IsUserCall
<1> HIDE DEF d
<1>3. Allowed(d)
  BY <1>2, AllowedBeforeTheAnswer DEF UsersInv, AsksOnlyWhatIsAllowed
<1>4. userCalls' = (userCalls \ {c}) \cup {d}
  BY <1>1 DEF d
<1>5. OneForTheFlag'
  BY <1>1, <1>2, <1>4 DEF UsersInv, OneForTheFlag, IsAdjustment, userForms
<1> QED
  BY <1>1, <1>2, <1>3, <1>4, <1>5 DEF UsersInv, AsksOnlyWhatIsAllowed, userForms

\* An answer is handled: whatever it does to the forms, it takes its request
\* away, and an adjustment the flag.
LEMMA UserReturnsHold ==
    ASSUME UsersInv, UsersArrive \/ RowReturns \/ CreateReturns \/ QuotaReturns \/ ResetReturns
    PROVE  UsersInv'
<1>1. DOMAIN quotaForm' = {"target", "mode", "value"} /\ quotaForm'.mode \in {"delta", "exact"}
  BY DEF UsersInv, UsersArrive, RowReturns, CreateReturns, QuotaReturns, ResetReturns, userForms
<1>2. PICK c \in userCalls :
        /\ userCalls' \in {userCalls \ {c}, (userCalls \ {c}) \cup {ListUsers}}
        /\ \/ IsAdjustment(c) /\ adjustingQuota' = FALSE
           \/ ~IsAdjustment(c) /\ adjustingQuota' = adjustingQuota
  BY DEF UsersArrive, RowReturns, CreateReturns, QuotaReturns, ResetReturns, FetchAfter, fetchUsers, userForms,
         IsAdjustment
<1>3. OneForTheFlag'
  <2>1. ~IsAdjustment(ListUsers)
    BY NewUserCalls
  <2>2. \A d \in userCalls' : IsAdjustment(d) => d \in userCalls /\ d # c
    BY <1>2, <2>1
  <2>3. CASE IsAdjustment(c) /\ adjustingQuota' = FALSE
    BY <2>2, <2>3 DEF UsersInv, OneForTheFlag
  <2>4. CASE ~IsAdjustment(c) /\ adjustingQuota' = adjustingQuota
    BY <1>2, <2>2, <2>4 DEF UsersInv, OneForTheFlag
  <2> QED
    BY <1>2, <2>3, <2>4
<1> QED
  BY <1>1, <1>2, <1>3, NewUserCalls DEF UsersInv, AsksOnlyWhatIsAllowed

\* A request that is no adjustment, and is allowed.
LEMMA UserAsks ==
    ASSUME UsersInv, NEW c, IsUserCall(c), Allowed(c), ~IsAdjustment(c), Ask(c),
           adjustingQuota' = adjustingQuota, quotaForm' = quotaForm
    PROVE  UsersInv'
  BY DEF UsersInv, OneForTheFlag, AsksOnlyWhatIsAllowed, Ask

LEMMA UserGestureHolds == ASSUME UsersInv, UserGesture PROVE UsersInv'
<1>1. CASE RefreshUsers
  <2>1. userCalls' = userCalls \cup {ListUsers} /\ UNCHANGED <<adjustingQuota, quotaForm>>
    BY <1>1 DEF RefreshUsers, fetchUsers, userForms
  <2> QED
    BY <2>1, NewUserCalls DEF UsersInv, OneForTheFlag, AsksOnlyWhatIsAllowed
<1>2. CASE handleToggleStatus
  <2>1. PICK u, values :
          u \in Offered("status") /\ u # Root /\ Ask(UserCall("status", u, values)) /\ UNCHANGED userForms
    BY <1>2 DEF handleToggleStatus
  <2>2. Allowed(UserCall("status", u, values)) /\ ~IsAdjustment(UserCall("status", u, values))
    BY <2>1, NewUserCalls DEF Allowed, IsAdjustment
  <2> QED
    BY <2>1, <2>2, UserAsks, NewUserCalls DEF userForms
<1>3. CASE handleUpdateRole
  <2>1. PICK u, values :
          /\ u \in Offered("role") /\ u # Root
          /\ u = Me => values.role = "admin"
          /\ Ask(UserCall("role", u, values)) /\ UNCHANGED userForms
    BY <1>3 DEF handleUpdateRole, Values
  <2>2. Allowed(UserCall("role", u, values)) /\ ~IsAdjustment(UserCall("role", u, values))
    BY <2>1, NewUserCalls DEF Allowed, IsAdjustment
  <2> QED
    BY <2>1, <2>2, UserAsks, NewUserCalls DEF userForms
<1>4. CASE handleUpdateGroup
  <2>1. PICK u, values : Ask(UserCall("group", u, values)) /\ UNCHANGED userForms
    BY <1>4 DEF handleUpdateGroup
  <2>2. Allowed(UserCall("group", u, values)) /\ ~IsAdjustment(UserCall("group", u, values))
    BY NewUserCalls DEF Allowed, IsAdjustment
  <2> QED
    BY <2>1, <2>2, UserAsks, NewUserCalls DEF userForms
<1>5. CASE handleDeleteUser
  <2>1. PICK u \in Offered("delete") :
          u \notin {Root, Me} /\ Ask(UserCall("delete", u, Values)) /\ UNCHANGED userForms
    BY <1>5 DEF handleDeleteUser
  <2>2. Allowed(UserCall("delete", u, Values)) /\ ~IsAdjustment(UserCall("delete", u, Values))
    BY <2>1, NewUserCalls DEF Allowed, IsAdjustment
  <2> QED
    BY <2>1, <2>2, UserAsks, NewUserCalls DEF userForms
<1>6. CASE handleCreateUser
  <2>1. PICK name, values :
          /\ name # Short /\ values.password # Short
          /\ Ask(UserCall("create", name, values)) /\ UNCHANGED <<quotaForm, adjustingQuota>>
    <3> DEFINE v == [Values EXCEPT !.role = addForm.role, !.password = addForm.password]
    <3>1. v.password = addForm.password
      BY DEF Values
    <3>2. Ask(UserCall("create", addForm.name, v)) /\ UNCHANGED <<quotaForm, adjustingQuota>>
      BY <1>6 DEF handleCreateUser
    <3> HIDE DEF v
    <3> QED
      BY <1>6, <3>1, <3>2 DEF handleCreateUser
  <2>2. Allowed(UserCall("create", name, values)) /\ ~IsAdjustment(UserCall("create", name, values))
    BY <2>1, NewUserCalls DEF Allowed, IsAdjustment
  <2> QED
    BY <2>1, <2>2, UserAsks, NewUserCalls
<1>7. CASE handleResetPassword
  <2>1. PICK u, values : Ask(UserCall("password", u, values)) /\ UNCHANGED <<quotaForm, adjustingQuota>>
    BY <1>7 DEF handleResetPassword
  <2>2. Allowed(UserCall("password", u, values)) /\ ~IsAdjustment(UserCall("password", u, values))
    BY NewUserCalls DEF Allowed, IsAdjustment
  <2> QED
    BY <2>1, <2>2, UserAsks, NewUserCalls
<1>8. CASE handleAdjustQuota
  <2> DEFINE values == [Values EXCEPT !.balance = quotaForm.value]
             c == UserCall(quotaForm.mode, quotaForm.target, values)
  <2>1. IsUserCall(c) /\ IsAdjustment(c) /\ c.op = quotaForm.mode
    BY NewUserCalls DEF UsersInv, IsAdjustment
  <2>2. Allowed(c)
    BY <2>1 DEF Allowed, IsAdjustment
  <2>3. /\ ~adjustingQuota /\ adjustingQuota' = TRUE
        /\ userCalls' = userCalls \cup {c} /\ quotaForm' = quotaForm
    BY <1>8 DEF handleAdjustQuota, AdjustOffered, Ask
  <2> HIDE DEF c
  <2> QED
    BY <2>1, <2>2, <2>3 DEF UsersInv, OneForTheFlag, AsksOnlyWhatIsAllowed
<1>9. CASE \/ FilterUsers \/ OpenAdd \/ TypeUser \/ OpenQuota \/ TypeQuota \/ OpenReset \/ TypePassword
           \/ CloseForm
  <2>1. userCalls' = userCalls /\ adjustingQuota' = adjustingQuota
    BY <1>9 DEF FilterUsers, OpenAdd, TypeUser, OpenQuota, TypeQuota, OpenReset, TypePassword, CloseForm, userForms
  <2>2. DOMAIN quotaForm' = {"target", "mode", "value"} /\ quotaForm'.mode \in {"delta", "exact"}
    BY <1>9 DEF UsersInv, FilterUsers, OpenAdd, TypeUser, OpenQuota, TypeQuota, OpenReset, TypePassword, CloseForm,
       userForms, NoQuotaForm
  <2> QED
    BY <2>1, <2>2 DEF UsersInv, OneForTheFlag, AsksOnlyWhatIsAllowed
<1> QED
  BY <1>1, <1>2, <1>3, <1>4, <1>5, <1>6, <1>7, <1>8, <1>9 DEF UserGesture

LEMMA UsersInvHolds == UsersSpec => []UsersInv
<1>1. UsersInv /\ [UsersNext]_userVars => UsersInv'
  <2> SUFFICES ASSUME UsersInv, [UsersNext]_userVars PROVE UsersInv'
    OBVIOUS
  <2>1. CASE UNCHANGED userVars
    BY <2>1 DEF userVars, UsersInv, AsksOnlyWhatIsAllowed, OneForTheFlag
  <2> QED
    BY <2>1, UserAnswerHolds, UserReturnsHold, UserGestureHolds DEF UsersNext
<1> QED
  BY UsersInitHolds, <1>1, PTL DEF UsersSpec

\* The guards of the page are as strict as the server's, for any accounts and
\* whatever rows the page shows.
THEOREM AsksAreAllowed == UsersSpec => []AsksOnlyWhatIsAllowed
<1>1. UsersInv => AsksOnlyWhatIsAllowed
  BY DEF UsersInv
<1> QED
  BY <1>1, UsersInvHolds, PTL

\* No second adjustment is sent while one is out, whichever forms are closed
\* and opened meanwhile.
THEOREM AdjustmentsAreSingle == UsersSpec => []OneAdjustmentAtATime
<1>1. UsersInv => OneAdjustmentAtATime
  <2> SUFFICES ASSUME UsersInv PROVE OneAdjustmentAtATime
    OBVIOUS
  <2> DEFINE adjusting == {c \in userCalls : c.op \in {"delta", "exact"}}
  <2>1. CASE adjustingQuota
    <3>1. PICK c \in userCalls : IsAdjustment(c)
      BY <2>1 DEF UsersInv, OneForTheFlag
    <3>2. adjusting = {c}
      BY <3>1 DEF UsersInv, OneForTheFlag, IsAdjustment
    <3>3. Cardinality({c}) = 1
      BY FS_Singleton
    <3> QED
      BY <2>1, <3>2, <3>3 DEF OneAdjustmentAtATime
  <2>2. CASE ~adjustingQuota
    <3>1. adjusting = {}
      BY <2>2 DEF UsersInv, OneForTheFlag, IsAdjustment
    <3> QED
      BY <2>2, <3>1, FS_EmptySet DEF OneAdjustmentAtATime
  <2> QED
    BY <2>1, <2>2
<1> QED
  BY <1>1, UsersInvHolds, PTL

-----------------------------------------------------------------------------
(* The wallet.                                                             *)

\* Only the two answers with a balance, and coming back, touch a copy.
LEMMA BalanceStep == ASSUME OneBalanceShown, WalletPageNext PROVE OneBalanceShown'
<1>1. CASE WalletArrives
  BY <1>1 DEF WalletArrives, OneBalanceShown
<1>2. CASE ProfileArrives
  BY <1>2 DEF ProfileArrives, OneBalanceShown, Synchronized
<1>3. CASE ComesBack
  BY <1>3 DEF ComesBack, OneBalanceShown
<1>4. CASE WalletArrivals /\ ~WalletArrives /\ ~ProfileArrives
  <2>1. UNCHANGED walletBalances
    BY <1>4 DEF WalletArrivals, WalletAnswer, CardsArrive, RedeemReturns, RechargeReturns, SessionSimulated,
       SessionFails, SessionRedirects, GenerateReturns, DeleteCardReturns
  <2> QED
    BY <2>1 DEF walletBalances, OneBalanceShown
<1>5. CASE ~WalletArrivals /\ ~ComesBack
  <2>1. UNCHANGED walletBalances
    BY <1>5 DEF WalletPageNext, RefreshWallet, SwitchTab, TypeCode, handleRedeem, ChooseAmount, ChooseMethod,
       handleRecharge, RefreshCards, handleDeleteRedemption, OpenGenerate, CloseGenerate,
       handleGenerateRedemptions, Post
  <2> QED
    BY <2>1 DEF walletBalances, OneBalanceShown
<1> QED
  BY <1>1, <1>2, <1>3, <1>4, <1>5

\* The page and the console around it show one balance, in whatever order the
\* answers come.
THEOREM OneBalance == WalletPageSpec => []OneBalanceShown
<1>1. WalletPageInit => OneBalanceShown
  BY DEF WalletPageInit, OneBalanceShown
<1>2. OneBalanceShown /\ [WalletPageNext]_walletVars => OneBalanceShown'
  <2>1. OneBalanceShown /\ UNCHANGED walletVars => OneBalanceShown'
    BY DEF walletVars, walletBalances, OneBalanceShown
  <2> QED
    BY <2>1, BalanceStep
<1> QED
  BY <1>1, <1>2, PTL DEF WalletPageSpec

IsWalletCall(c) == DOMAIN c = {"op", "card", "served", "ok", "paid", "cards"}

\* A request that may still bring the user a credit.
Paying(c) ==
    \/ ~c.served /\ c.op \in {"sandbox", "session", "complete", "redeem"}
    \/ c.served /\ c.ok /\ c.op = "session"

UnderWay == {c \in walletCalls : Paying(c)}

PaidFor == credit + Cardinality(UnderWay) + (IF away THEN 1 ELSE 0) <= pressed

WalletInv ==
    /\ IsFiniteSet(walletCalls) /\ \A c \in walletCalls : IsWalletCall(c)
    /\ credit \in Nat /\ pressed \in Nat /\ away \in BOOLEAN
    /\ PaidFor

LEMMA PaidForIsTheProperty == PaidFor <=> CreditedOncePerPress
<1>1. UnderWay = {c \in walletCalls : ~c.served /\ c.op \in {"sandbox", "session", "complete", "redeem"}}
                    \cup {c \in walletCalls : c.served /\ c.ok /\ c.op = "session"}
  BY DEF UnderWay, Paying
<1> QED
  BY <1>1 DEF PaidFor, CreditedOncePerPress

LEMMA FewerThan ==
    ASSUME NEW S, IsFiniteSet(S), NEW T, T \subseteq S
    PROVE  IsFiniteSet(T) /\ Cardinality(T) \in Nat /\ Cardinality(T) <= Cardinality(S)
<1>1. T \in SUBSET S
  OBVIOUS
<1>2. IsFiniteSet(T) /\ Cardinality(T) <= Cardinality(S)
  BY <1>1, FS_Subset
<1> QED
  BY <1>2, FS_CardinalityType

\* How many are left when one is taken away, replaced or added.
LEMMA OneTaken ==
    ASSUME NEW S, IsFiniteSet(S), NEW c \in S, NEW T, T \subseteq S \ {c}
    PROVE  Cardinality(T) \in Nat /\ Cardinality(T) + 1 <= Cardinality(S)
<1>1. IsFiniteSet(S \ {c}) /\ Cardinality(S \ {c}) = Cardinality(S) - 1
  BY FS_RemoveElement
<1>2. Cardinality(T) \in Nat /\ Cardinality(T) <= Cardinality(S \ {c})
  BY <1>1, FewerThan
<1>3. Cardinality(S) \in Nat
  BY FS_CardinalityType
<1> QED
  BY <1>1, <1>2, <1>3

LEMMA OneAdded ==
    ASSUME NEW S, IsFiniteSet(S), NEW d, NEW T, T \subseteq S \cup {d}
    PROVE  Cardinality(T) \in Nat /\ Cardinality(T) <= Cardinality(S) + 1
<1>1. Cardinality(S) \in Nat
  BY FS_CardinalityType
<1>2. IsFiniteSet(S \cup {d}) /\ Cardinality(S \cup {d}) \in {Cardinality(S), Cardinality(S) + 1}
  BY FS_AddElement
<1>3. Cardinality(T) \in Nat /\ Cardinality(T) <= Cardinality(S \cup {d})
  BY <1>2, FewerThan
<1> QED
  BY <1>1, <1>2, <1>3

LEMMA OneReplaced ==
    ASSUME NEW S, IsFiniteSet(S), NEW c \in S, NEW d, NEW T, T \subseteq (S \ {c}) \cup {d}
    PROVE  Cardinality(T) \in Nat /\ Cardinality(T) <= Cardinality(S)
<1>1. IsFiniteSet(S \ {c}) /\ Cardinality(S \ {c}) = Cardinality(S) - 1
  BY FS_RemoveElement
<1>2. Cardinality(T) \in Nat /\ Cardinality(T) <= Cardinality(S \ {c}) + 1
  BY <1>1, OneAdded
<1>3. Cardinality(S) \in Nat
  BY FS_CardinalityType
<1> QED
  BY <1>1, <1>2, <1>3

LEMMA UnderWayIsFinite == WalletInv => IsFiniteSet(UnderWay) /\ Cardinality(UnderWay) \in Nat
  BY FS_Subset, FS_CardinalityType DEF WalletInv, UnderWay

LEMMA NewWalletCalls ==
    /\ \A op, card :
          LET c == WalletCall(op, card)
          IN  /\ IsWalletCall(c) /\ c.op = op /\ c.card = card /\ ~c.served
              /\ Paying(c) => op \in {"sandbox", "session", "complete", "redeem"}
    /\ IsWalletCall(fetchWallet) /\ ~Paying(fetchWallet)
    /\ IsWalletCall(fetchUserProfile) /\ ~Paying(fetchUserProfile)
    /\ \A c \in fetchRedemptions : IsWalletCall(c) /\ ~Paying(c)
    /\ IsFiniteSet(fetchRedemptions) /\ IsFiniteSet(Mounted)
    /\ \A c \in Mounted : IsWalletCall(c) /\ ~Paying(c)
<1>1. \A op, card : LET c == WalletCall(op, card)
                    IN  /\ IsWalletCall(c) /\ c.op = op /\ c.card = card /\ ~c.served
                        /\ Paying(c) => op \in {"sandbox", "session", "complete", "redeem"}
  BY DEF WalletCall, IsWalletCall, Paying
<1>2. /\ IsWalletCall(fetchWallet) /\ ~Paying(fetchWallet)
      /\ IsWalletCall(fetchUserProfile) /\ ~Paying(fetchUserProfile)
      /\ \A c \in fetchRedemptions : IsWalletCall(c) /\ ~Paying(c)
  BY <1>1 DEF fetchWallet, fetchUserProfile, fetchRedemptions
<1>3. IsFiniteSet(fetchRedemptions)
  BY FS_EmptySet, FS_Singleton DEF fetchRedemptions
<1>4. IsFiniteSet(Mounted)
  BY <1>3, FS_Singleton, FS_Union DEF Mounted
<1> QED
  BY <1>1, <1>2, <1>3, <1>4 DEF Mounted

\* Nothing is credited, pressed or left, and no payment is sent.
LEMMA NothingPaying ==
    ASSUME WalletInv, UNCHANGED <<credit, away, pressed>>, IsFiniteSet(walletCalls'),
           \A c \in walletCalls' : IsWalletCall(c) /\ (Paying(c) => c \in walletCalls)
    PROVE  WalletInv'
<1>1. UnderWay' \subseteq UnderWay
  BY DEF UnderWay, Paying
<1>2. Cardinality(UnderWay') \in Nat /\ Cardinality(UnderWay') <= Cardinality(UnderWay)
  BY <1>1, UnderWayIsFinite, FewerThan
<1>3. PaidFor'
  BY <1>2, UnderWayIsFinite DEF WalletInv, PaidFor
<1> QED
  BY <1>3 DEF WalletInv

LEMMA HandledWithoutPaying ==
    ASSUME WalletInv, NEW c, NEW more, Handle(c, more), UNCHANGED <<credit, away, pressed>>,
           IsFiniteSet(more), \A d \in more : IsWalletCall(d) /\ ~Paying(d)
    PROVE  WalletInv'
<1>1. IsFiniteSet(walletCalls \ {c})
  BY FS_RemoveElement DEF WalletInv
<1>2. IsFiniteSet(IF c.ok THEN more ELSE {})
  BY FS_EmptySet
<1>3. IsFiniteSet(walletCalls')
  BY <1>1, <1>2, FS_Union DEF Handle
<1>4. \A d \in walletCalls' : IsWalletCall(d) /\ (Paying(d) => d \in walletCalls)
  BY DEF WalletInv, Handle
<1> QED
  BY <1>3, <1>4, NothingPaying

LEMMA PostedWithoutPaying ==
    ASSUME WalletInv, NEW c, IsWalletCall(c), ~Paying(c), walletCalls' = walletCalls \cup {c},
           UNCHANGED <<credit, away, pressed>>
    PROVE  WalletInv'
<1>1. IsFiniteSet(walletCalls')
  BY FS_AddElement DEF WalletInv
<1> QED
  BY <1>1, NothingPaying DEF WalletInv

LEMMA WalletAnswerHolds == ASSUME WalletInv, WalletAnswer PROVE WalletInv'
<1>1. PICK c \in walletCalls, done \in BOOLEAN, ok \in BOOLEAN :
        /\ ~c.served
        /\ credit' = IF done /\ Credits(c) THEN credit + 1 ELSE credit
        /\ walletCalls' = (walletCalls \ {c})
                \cup {[c EXCEPT !.served = TRUE, !.ok = ok, !.paid = credit', !.cards = cards']}
        /\ UNCHANGED <<away, pressed>>
  BY DEF WalletAnswer, walletView
<1> DEFINE d == [c EXCEPT !.served = TRUE, !.ok = ok, !.paid = credit', !.cards = cards']
<1>2. IsWalletCall(d) /\ d.op = c.op /\ d.served
  BY DEF WalletInv, IsWalletCall
<1>3. walletCalls' = (walletCalls \ {c}) \cup {d}
  BY <1>1
<1> HIDE DEF d
<1>4. IsFiniteSet(walletCalls')
  BY <1>3, FS_RemoveElement, FS_AddElement DEF WalletInv
<1>5. UnderWay' = {e \in walletCalls' : Paying(e)}
  BY DEF UnderWay, Paying
<1>6. Paying(d) => d.op = "session"
  BY <1>2 DEF Paying
<1>7. Credits(c) => Paying(c) /\ ~Paying(d)
  BY <1>1, <1>2, <1>6 DEF Credits, Paying
<1>8. Paying(d) => Paying(c)
  BY <1>1, <1>2, <1>6 DEF Paying
<1>9. CASE done /\ Credits(c)
  <2>1. c \in UnderWay /\ UnderWay' \subseteq UnderWay \ {c}
    BY <1>1, <1>3, <1>5, <1>7, <1>9 DEF UnderWay
  <2>2. Cardinality(UnderWay') \in Nat /\ Cardinality(UnderWay') + 1 <= Cardinality(UnderWay)
    BY <2>1, UnderWayIsFinite, OneTaken
  <2> QED
    BY <1>1, <1>2, <1>3, <1>4, <1>9, <2>2, UnderWayIsFinite DEF WalletInv, PaidFor
<1>10. CASE ~(done /\ Credits(c))
  <2>1. Cardinality(UnderWay') \in Nat /\ Cardinality(UnderWay') <= Cardinality(UnderWay)
    <3>1. CASE Paying(c)
      <4>1. c \in UnderWay /\ UnderWay' \subseteq (UnderWay \ {c}) \cup {d}
        BY <1>1, <1>3, <1>5, <3>1 DEF UnderWay
      <4> QED
        BY <4>1, UnderWayIsFinite, OneReplaced
    <3>2. CASE ~Paying(c)
      <4>1. UnderWay' \subseteq UnderWay
        BY <1>3, <1>5, <1>8, <3>2 DEF UnderWay
      <4> QED
        BY <4>1, UnderWayIsFinite, FewerThan
    <3> QED
      BY <3>1, <3>2
  <2> QED
    BY <1>1, <1>2, <1>3, <1>4, <1>10, <2>1, UnderWayIsFinite DEF WalletInv, PaidFor
<1> QED
  BY <1>9, <1>10

\* A session becomes the request that pays for it, or the way to the service.
LEMMA SessionHolds == ASSUME WalletInv, SessionSimulated \/ SessionRedirects PROVE WalletInv'
<1>1. PICK c \in walletCalls :
        /\ Settled(c, "session") /\ c.ok
        /\ \/ Handle(c, {WalletCall("complete", NoCard)}) /\ away' = away
           \/ walletCalls' = {} /\ away' = TRUE
        /\ UNCHANGED <<credit, pressed>>
  BY DEF SessionSimulated, SessionRedirects, Leave, walletView, walletServer
<1>2. c \in UnderWay
  BY <1>1 DEF Settled, UnderWay, Paying
<1>3. UnderWay' = {e \in walletCalls' : Paying(e)}
  BY DEF UnderWay, Paying
<1>4. CASE Handle(c, {WalletCall("complete", NoCard)}) /\ away' = away
  <2> DEFINE d == WalletCall("complete", NoCard)
  <2>1. IsWalletCall(d)
    BY NewWalletCalls
  <2>2. walletCalls' = (walletCalls \ {c}) \cup {d}
    BY <1>1, <1>4 DEF Handle
  <2> HIDE DEF d
  <2>3. UnderWay' \subseteq (UnderWay \ {c}) \cup {d}
    BY <1>3, <2>2 DEF UnderWay
  <2>4. Cardinality(UnderWay') \in Nat /\ Cardinality(UnderWay') <= Cardinality(UnderWay)
    BY <1>2, <2>3, UnderWayIsFinite, OneReplaced
  <2>5. IsFiniteSet(walletCalls')
    BY <2>2, FS_RemoveElement, FS_AddElement DEF WalletInv
  <2> QED
    BY <1>1, <1>4, <2>1, <2>2, <2>4, <2>5, UnderWayIsFinite DEF WalletInv, PaidFor
<1>5. CASE walletCalls' = {} /\ away' = TRUE
  <2>1. UnderWay' = {}
    BY <1>3, <1>5
  <2>2. Cardinality(UnderWay') = 0 /\ IsFiniteSet(walletCalls')
    BY <1>5, <2>1, FS_EmptySet
  <2>3. Cardinality(UnderWay) >= 1
    BY <1>2, UnderWayIsFinite, FS_EmptySet
  <2> QED
    BY <1>1, <1>5, <2>2, <2>3, UnderWayIsFinite DEF WalletInv, PaidFor
<1> QED
  BY <1>1, <1>4, <1>5

LEMMA ComesBackHolds == ASSUME WalletInv, ComesBack PROVE WalletInv'
<1>1. /\ away /\ away' = FALSE /\ credit' \in {credit, credit + 1}
      /\ walletCalls' = Mounted /\ pressed' = pressed
  BY DEF ComesBack, Leave
<1>2. UnderWay' = {}
  BY <1>1, NewWalletCalls DEF UnderWay, Paying
<1>3. Cardinality(UnderWay') = 0
  BY <1>2, FS_EmptySet
<1>4. PaidFor'
  <2>1. (IF away THEN 1 ELSE 0) = 1 /\ (IF away' THEN 1 ELSE 0) = 0
    BY <1>1, Zenon
  <2>2. credit + Cardinality(UnderWay) + 1 <= pressed
    BY <2>1 DEF WalletInv, PaidFor
  <2>3. Cardinality(UnderWay) \in Nat
    BY UnderWayIsFinite
  <2>4. credit \in Nat /\ pressed \in Nat
    BY DEF WalletInv
  <2>5. credit' <= credit + 1 /\ credit' \in Nat /\ pressed' = pressed
    BY <1>1, <2>4
  <2>6. credit' + 0 + 0 <= pressed'
    <3>1. credit + 1 <= pressed
      BY <2>2, <2>3, <2>4
    <3>2. credit' <= pressed'
      BY <2>4, <2>5, <3>1
    <3> QED
      BY <2>5, <3>2
  <2> QED
    BY <1>3, <2>1, <2>6 DEF PaidFor
<1>5. IsFiniteSet(walletCalls') /\ \A c \in walletCalls' : IsWalletCall(c)
  BY <1>1, NewWalletCalls
<1>6. credit' \in Nat /\ pressed' \in Nat
  BY <1>1 DEF WalletInv
<1>7. away' \in BOOLEAN
  BY <1>1, Zenon
<1> QED
  BY <1>4, <1>5, <1>6, <1>7 DEF WalletInv

\* Every press is counted, and sends one request.
LEMMA PressHolds == ASSUME WalletInv, handleRedeem \/ handleRecharge PROVE WalletInv'
<1>1. PICK op, card :
        walletCalls' = walletCalls \cup {WalletCall(op, card)}
  BY DEF handleRedeem, handleRecharge, Post
<1>2. pressed' = pressed + 1 /\ UNCHANGED <<credit, away>>
  BY DEF handleRedeem, handleRecharge, Post, walletView, walletServer
<1> DEFINE d == WalletCall(op, card)
<1>3. IsWalletCall(d) /\ walletCalls' = walletCalls \cup {d}
  BY <1>1, NewWalletCalls
<1> HIDE DEF d
<1>4. UnderWay' = {e \in walletCalls' : Paying(e)}
  BY DEF UnderWay, Paying
<1>5. UnderWay' \subseteq UnderWay \cup {d}
  BY <1>3, <1>4 DEF UnderWay
<1>6. Cardinality(UnderWay') \in Nat /\ Cardinality(UnderWay') <= Cardinality(UnderWay) + 1
  BY <1>5, UnderWayIsFinite, OneAdded
<1>7. IsFiniteSet(walletCalls')
  BY <1>3, FS_AddElement DEF WalletInv
<1> QED
  BY <1>2, <1>3, <1>6, <1>7, UnderWayIsFinite DEF WalletInv, PaidFor

LEMMA WalletStep == ASSUME WalletInv, WalletPageNext PROVE WalletInv'
<1>1. CASE WalletArrives \/ RechargeReturns
  <2>1. PICK c, more :
          Handle(c, more) /\ UNCHANGED <<credit, away, pressed>> /\ more \in {{fetchWallet}, {fetchUserProfile}}
    BY <1>1 DEF WalletArrives, RechargeReturns, walletServer, walletView
  <2>2. IsFiniteSet(more) /\ \A d \in more : IsWalletCall(d) /\ ~Paying(d)
    BY <2>1, FS_Singleton, NewWalletCalls
  <2> QED
    BY <2>1, <2>2, HandledWithoutPaying
<1>2. CASE ProfileArrives \/ CardsArrive \/ SessionFails
  <2>1. PICK c : Handle(c, {}) /\ UNCHANGED <<credit, away, pressed>>
    BY <1>2 DEF ProfileArrives, CardsArrive, SessionFails, walletServer, walletView
  <2> QED
    BY <2>1, FS_EmptySet, HandledWithoutPaying
<1>3. CASE RedeemReturns
  <2>1. PICK c : Handle(c, {fetchWallet} \cup fetchRedemptions) /\ UNCHANGED <<credit, away, pressed>>
    BY <1>3 DEF RedeemReturns, walletServer
  <2>2. IsFiniteSet({fetchWallet} \cup fetchRedemptions)
    BY FS_Singleton, FS_Union, NewWalletCalls
  <2>3. \A d \in {fetchWallet} \cup fetchRedemptions : IsWalletCall(d) /\ ~Paying(d)
    BY NewWalletCalls
  <2> QED
    BY <2>1, <2>2, <2>3, HandledWithoutPaying
<1>4. CASE GenerateReturns \/ DeleteCardReturns
  <2>1. PICK c : Handle(c, fetchRedemptions) /\ UNCHANGED <<credit, away, pressed>>
    BY <1>4 DEF GenerateReturns, DeleteCardReturns, walletServer, walletView
  <2> QED
    BY <2>1, NewWalletCalls, HandledWithoutPaying
<1>5. CASE RefreshWallet \/ handleDeleteRedemption \/ handleGenerateRedemptions
  <2>1. PICK c : /\ walletCalls' = walletCalls \cup {c} /\ UNCHANGED <<credit, away, pressed>>
                 /\ \/ c = fetchWallet
                    \/ \E card : c = WalletCall("delete", card)
                    \/ c = WalletCall("generate", NoCard)
    BY <1>5 DEF RefreshWallet, handleDeleteRedemption, handleGenerateRedemptions, Post, walletServer, walletView
  <2>2. IsWalletCall(c) /\ ~Paying(c)
    BY <2>1, NewWalletCalls
  <2> QED
    BY <2>1, <2>2, PostedWithoutPaying
<1>6. CASE RefreshCards
  <2>1. walletCalls' = walletCalls \cup fetchRedemptions /\ UNCHANGED <<credit, away, pressed>>
    BY <1>6 DEF RefreshCards, walletServer, walletView
  <2>2. IsFiniteSet(walletCalls')
    BY <2>1, FS_Union, NewWalletCalls DEF WalletInv
  <2> QED
    BY <2>1, <2>2, NewWalletCalls, NothingPaying DEF WalletInv
<1>7. CASE SwitchTab \/ TypeCode \/ ChooseAmount \/ ChooseMethod \/ OpenGenerate \/ CloseGenerate
  <2>1. UNCHANGED <<walletCalls, credit, away, pressed>>
    BY <1>7 DEF SwitchTab, TypeCode, ChooseAmount, ChooseMethod, OpenGenerate, CloseGenerate, walletServer
  <2> QED
    BY <2>1, NothingPaying DEF WalletInv
<1> QED
  BY <1>1, <1>2, <1>3, <1>4, <1>5, <1>6, <1>7, WalletAnswerHolds, SessionHolds, ComesBackHolds, PressHolds
     DEF WalletPageNext, WalletArrivals

\* Whatever is lost or late, nobody is credited more than once for a press.
THEOREM PaidOncePerPress == WalletPageSpec => []CreditedOncePerPress
<1>1. WalletPageInit => WalletInv
  <2> SUFFICES ASSUME WalletPageInit PROVE WalletInv
    OBVIOUS
  <2>1. UnderWay = {}
    BY NewWalletCalls DEF WalletPageInit, UnderWay
  <2>2. Cardinality(UnderWay) = 0
    BY <2>1, FS_EmptySet
  <2>3. credit = 0 /\ pressed = 0 /\ away = FALSE /\ walletCalls = Mounted
    BY DEF WalletPageInit
  <2>4. IsFiniteSet(Mounted) /\ \A c \in Mounted : IsWalletCall(c)
    BY NewWalletCalls
  <2>5. (IF away THEN 1 ELSE 0) = 0 /\ away \in BOOLEAN
    BY <2>3, Zenon
  <2>6. PaidFor
    BY <2>2, <2>3, <2>5 DEF PaidFor
  <2> QED
    BY <2>3, <2>4, <2>5, <2>6 DEF WalletInv
<1>2. WalletInv /\ [WalletPageNext]_walletVars => WalletInv'
  <2>1. WalletInv /\ UNCHANGED walletVars => WalletInv'
    BY NothingPaying DEF WalletInv, walletVars, walletServer, walletView
  <2> QED
    BY <2>1, WalletStep
<1>3. WalletInv => CreditedOncePerPress
  BY PaidForIsTheProperty DEF WalletInv
<1> QED
  BY <1>1, <1>2, <1>3, PTL DEF WalletPageSpec

-----------------------------------------------------------------------------
(* The providers.                                                          *)

IsChannelForm(f) == DOMAIN f = {"from", "upstream", "models"}
IsChannelCall(c) == DOMAIN c = {"op", "ids", "form", "served", "reply", "rows"}

\* The form knows what is edited.
ChannelsInv ==
    /\ IsChannelForm(newChannel) /\ newChannel.from = editingChannelId
    /\ \A c \in channelCalls : IsChannelCall(c)
    /\ SavedWhereItCameFrom

\* A request that saves nothing, or what the form says.
GoodChannelCall(c) ==
    /\ IsChannelCall(c)
    /\ c.op = "update" => c.ids = {c.form.from}
    /\ c.op = "create" => c.form.from = NoChannel

LEMMA ChannelsInvIs ==
    ChannelsInv <=> /\ IsChannelForm(newChannel) /\ newChannel.from = editingChannelId
                    /\ \A c \in channelCalls : GoodChannelCall(c)
  BY DEF ChannelsInv, SavedWhereItCameFrom, GoodChannelCall

LEMMA NewChannelCalls ==
    /\ GoodChannelCall(fetchChannels)
    /\ \A op, ids, form : LET c == ChannelCall(op, ids, form)
                          IN  IsChannelCall(c) /\ c.op = op /\ c.ids = ids /\ c.form = form
    /\ IsChannelForm(EmptyChannel) /\ EmptyChannel.from = NoChannel
  BY DEF fetchChannels, ChannelCall, IsChannelCall, GoodChannelCall, IsChannelForm, EmptyChannel

LEMMA ChannelArrivalHolds == ASSUME ChannelsInv, ChannelArrivals PROVE ChannelsInv'
<1>1. CASE ChannelAnswer
  <2>1. PICK c \in channelCalls, reply \in {"ok", "refused", "lost"} :
          /\ channelCalls' = (channelCalls \ {c})
                \cup {[c EXCEPT !.served = TRUE, !.reply = reply, !.rows = providers']}
          /\ UNCHANGED channelForm
    BY <1>1 DEF ChannelAnswer
  <2> DEFINE d == [c EXCEPT !.served = TRUE, !.reply = reply, !.rows = providers']
  <2>2. IsChannelCall(d) /\ d.op = c.op /\ d.ids = c.ids /\ d.form = c.form
    BY DEF ChannelsInv, IsChannelCall
  <2>3. channelCalls' = (channelCalls \ {c}) \cup {d}
    BY <2>1
  <2> HIDE DEF d
  <2>4. GoodChannelCall(d)
    BY <2>2, ChannelsInvIs DEF GoodChannelCall
  <2>5. \A e \in channelCalls' : GoodChannelCall(e)
    BY <2>3, <2>4, ChannelsInvIs
  <2> QED
    BY <2>1, <2>5, ChannelsInvIs DEF channelForm, ChannelsInv, SavedWhereItCameFrom, GoodChannelCall
<1>2. CASE \/ ChannelsArrive \/ SaveChannelReturns \/ ProbeReturns \/ TestReturns \/ PingReturns
           \/ DeleteChannelReturns \/ BatchReturns
  <2>1. \A e \in channelCalls' : e \in channelCalls \/ e = fetchChannels
    BY <1>2 DEF ChannelsArrive, SaveChannelReturns, ProbeReturns, TestReturns, PingReturns,
       DeleteChannelReturns, BatchReturns, Close
  <2>2. IsChannelForm(newChannel') /\ newChannel'.from = editingChannelId'
    <3>1. CASE ProbeReturns
      <4>1. PICK u : newChannel' = [newChannel EXCEPT !.models = u] \/ newChannel' = newChannel
        BY <3>1 DEF ProbeReturns
      <4>2. editingChannelId' = editingChannelId
        BY <3>1 DEF ProbeReturns
      <4>3. IsChannelForm(newChannel') /\ newChannel'.from = newChannel.from
        BY <4>1 DEF ChannelsInv, IsChannelForm
      <4> QED
        BY <4>2, <4>3 DEF ChannelsInv
    <3>2. CASE SaveChannelReturns
      BY <3>2, NewChannelCalls DEF SaveChannelReturns, channelForm, ChannelsInv
    <3>3. CASE ~ProbeReturns /\ ~SaveChannelReturns
      BY <1>2, <3>3 DEF ChannelsArrive, TestReturns, PingReturns, DeleteChannelReturns, BatchReturns,
         channelForm, ChannelsInv
    <3> QED
      BY <3>1, <3>2, <3>3
  <2> QED
    BY <2>1, <2>2, NewChannelCalls DEF ChannelsInv, SavedWhereItCameFrom, GoodChannelCall
<1> QED
  BY <1>1, <1>2 DEF ChannelArrivals

LEMMA ChannelGestureHolds ==
    ASSUME ChannelsInv, ChannelsNext, ~ChannelArrivals PROVE ChannelsInv'
<1>1. CASE handleCreateChannel
  <2>1. PICK c : /\ channelCalls' = channelCalls \cup {c} /\ UNCHANGED channelForm
                 /\ \/ c = ChannelCall("update", {editingChannelId}, newChannel)
                    \/ editingChannelId = NoChannel /\ c = ChannelCall("create", {}, newChannel)
    BY <1>1 DEF handleCreateChannel, Request
  <2>2. GoodChannelCall(c)
    BY <2>1, NewChannelCalls DEF ChannelsInv, GoodChannelCall
  <2> QED
    BY <2>1, <2>2 DEF ChannelsInv, SavedWhereItCameFrom, GoodChannelCall, channelForm
<1>2. CASE \/ PollChannels \/ handleBatchChannels \/ handleDeleteChannel \/ handleTestChannel
           \/ handleBatchPing \/ triggerProbe
  <2>1. PICK c : /\ channelCalls' = channelCalls \cup {c} /\ UNCHANGED channelForm
                 /\ \/ c = fetchChannels
                    \/ \E op \in {"remove", "enable", "disable", "delete", "test", "ping", "probe"} :
                           \E ids, form : c = ChannelCall(op, ids, form)
    BY <1>2 DEF PollChannels, handleBatchChannels, BatchBar, handleDeleteChannel, handleTestChannel,
       handleBatchPing, triggerProbe, Request
  <2>2. GoodChannelCall(c)
    BY <2>1, NewChannelCalls DEF GoodChannelCall
  <2> QED
    BY <2>1, <2>2 DEF ChannelsInv, SavedWhereItCameFrom, GoodChannelCall, channelForm
<1>3. CASE \/ TickChannels \/ openNewChannelModal \/ OpenFromDashboard \/ handleEditChannel
           \/ CloseChannelModal \/ TypeUpstream \/ TypeModels \/ applyPreset
  <2>1. channelCalls' = channelCalls
    BY <1>3 DEF TickChannels, openNewChannelModal, OpenFromDashboard, handleEditChannel, CloseChannelModal,
       TypeUpstream, TypeModels, applyPreset, Typed, ChannelFormOnly
  <2>2. IsChannelForm(newChannel') /\ newChannel'.from = editingChannelId'
    <3>1. CASE openNewChannelModal
      BY <3>1, NewChannelCalls DEF openNewChannelModal
    <3>2. CASE handleEditChannel
      BY <3>2 DEF handleEditChannel, IsChannelForm
    <3>3. CASE TypeUpstream \/ TypeModels \/ applyPreset
      <4>1. PICK u, models :
              /\ \/ newChannel' = [newChannel EXCEPT !.upstream = u]
                 \/ newChannel' = [newChannel EXCEPT !.models = models]
                 \/ newChannel' = [newChannel EXCEPT !.upstream = u, !.models = models]
              /\ editingChannelId' = editingChannelId
        BY <3>3 DEF TypeUpstream, TypeModels, applyPreset, Typed
      <4>2. IsChannelForm(newChannel') /\ newChannel'.from = newChannel.from
        BY <4>1 DEF ChannelsInv, IsChannelForm
      <4> QED
        BY <4>1, <4>2 DEF ChannelsInv
    <3>4. CASE TickChannels \/ OpenFromDashboard \/ CloseChannelModal
      BY <3>4 DEF TickChannels, OpenFromDashboard, CloseChannelModal, channelForm, ChannelsInv
    <3> QED
      BY <1>3, <3>1, <3>2, <3>3, <3>4
  <2> QED
    BY <2>1, <2>2 DEF ChannelsInv, SavedWhereItCameFrom
<1> QED
  BY <1>1, <1>2, <1>3 DEF ChannelsNext

\* A provider is only overwritten with the form that was filled from its row,
\* and made of one that was filled from none.
THEOREM SavedWhereFrom == ChannelsSpec => []SavedWhereItCameFrom
<1>1. ChannelsInit => ChannelsInv
  BY NewChannelCalls DEF ChannelsInit, ChannelsInv, SavedWhereItCameFrom, GoodChannelCall
<1>2. ChannelsInv /\ [ChannelsNext]_channelVars => ChannelsInv'
  <2>1. ChannelsInv /\ UNCHANGED channelVars => ChannelsInv'
    BY DEF channelVars, channelForm, ChannelsInv, SavedWhereItCameFrom
  <2> QED
    BY <2>1, ChannelArrivalHolds, ChannelGestureHolds
<1>3. ChannelsInv => SavedWhereItCameFrom
  BY DEF ChannelsInv
<1> QED
  BY <1>1, <1>2, <1>3, PTL DEF ChannelsSpec

-----------------------------------------------------------------------------
(* The logs.                                                               *)

\* What the handlers read is the page that is viewed.
LogsInv == logOffset = logOffsetRef /\ logSteps \in Nat

LEMMA FetchKeepsTheTwo == \A offset, filters : fetchLogs(offset, filters) => logOffset' = logOffsetRef'
  BY DEF fetchLogs

LEMMA LogStep ==
    ASSUME LogsInv, [LogsNext]_logVars
    PROVE  LogsInv' /\ (logSteps' = logSteps => logOffset' = logOffset)
<1>1. CASE LogsServed \/ LogsFail \/ LogsArrive \/ LogsDeleted
  BY <1>1 DEF LogsServed, LogsFail, LogAnswer, LogsArrive, LogRows, LogsDeleted, logOffsets, LogsInv
<1>2. CASE PollLogs
  BY <1>2 DEF PollLogs, fetchLogs, LogsInv
<1>3. CASE logSteps' = logSteps + 1 /\ LogGesture
  <2>1. logOffset' = logOffsetRef'
    <3>1. CASE \/ RefreshLogs \/ SetTimeRange \/ ClearSessionFilter \/ FilterBySession \/ handleLogPageChange
      BY <3>1, FetchKeepsTheTwo DEF RefreshLogs, SetTimeRange, ClearSessionFilter, FilterBySession,
         handleLogPageChange, SetFilters
    <3>2. CASE \/ RecordWritten \/ SearchRows \/ TickAllLogs \/ TickLog \/ handleBatchDeleteLogs
               \/ handleClearLogs \/ handleDeleteSingleLog \/ InspectLog
      BY <3>2 DEF RecordWritten, SearchRows, TickAllLogs, TickLog, Ticked, handleBatchDeleteLogs,
         handleClearLogs, handleDeleteSingleLog, AskToDelete, InspectLog, logOffsets, LogsInv
    <3> QED
      BY <1>3, <3>1, <3>2 DEF LogGesture
  <2> QED
    BY <1>3, <2>1 DEF LogsInv
<1>4. CASE UNCHANGED logVars
  BY <1>4 DEF logVars, logOffsets, LogsInv
<1> QED
  BY <1>1, <1>2, <1>3, <1>4 DEF LogsNext

\* Nothing but what the user does takes the view to another page.
THEOREM TheUserTurnsPages == LogsSpec => OnlyTheUserTurnsPages
<1>1. LogsInit => LogsInv
  BY DEF LogsInit, LogsInv
<1>2. LogsInv /\ [LogsNext]_logVars => LogsInv'
  BY LogStep
<1>3. LogsInv /\ [LogsNext]_logVars => [logSteps' = logSteps => logOffset' = logOffset]_logVars
  BY LogStep
<1> QED
  BY <1>1, <1>2, <1>3, PTL DEF LogsSpec, OnlyTheUserTurnsPages


-----------------------------------------------------------------------------
(* The session: an administrator's tab is shown to an administrator only.  *)

\* A request is a record, sent under the token of an account.
IsCall(c) ==
    /\ DOMAIN c = {"op", "token", "view", "mine", "served", "reply"}
    /\ c.token \in People

\* A token is never without its user, on the page and in the storage: it is
\* this that keeps a late answer from leaving an administrator's tab to nobody.
TokensHaveUsers ==
    /\ adminToken # NoOne => adminUser # NoOne
    /\ storedToken # NoOne => storedUser # NoOne

SessionInv ==
    /\ {storedToken, storedUser, adminToken, adminUser, pollToken} \subseteq People \cup {NoOne}
    /\ \A c \in sessionCalls : IsCall(c)
    /\ TokensHaveUsers
    /\ AdminTabsNeedAnAdmin

-----------------------------------------------------------------------------
(* The requests.                                                           *)

LEMMA NewSessionCall ==
    ASSUME NEW op, NEW token \in People, NEW view
    PROVE  IsCall(SessionCall(op, token, view)) /\ SessionCall(op, token, view).token = token
  BY DEF IsCall, SessionCall

LEMMA FetchAsks ==
    ASSUME NEW op, NEW token \in People \cup {NoOne}, NEW view
    PROVE  \A c \in Fetch(op, token, view) : IsCall(c)
  BY NewSessionCall DEF Fetch

\* What a render leaves of the requests are requests.
LEMMA RenderedCalls ==
    ASSUME NEW calls, \A c \in calls : IsCall(c), Rendered(calls),
           adminToken' \in People \cup {NoOne}, pollToken \in People \cup {NoOne}
    PROVE  /\ \A c \in sessionCalls' : IsCall(c)
           /\ pollToken' \in People \cup {NoOne}
<1>1. pollToken' \in People \cup {NoOne}
  BY DEF Rendered
<1> QED
  BY <1>1, FetchAsks DEF Rendered

LEMMA FormGoesCalls ==
    ASSUME NEW calls, \A c \in calls : IsCall(c), FormGoes(calls),
           adminToken' \in People \cup {NoOne}, pollToken \in People \cup {NoOne}
    PROVE  /\ \A c \in sessionCalls' : IsCall(c)
           /\ pollToken' \in People \cup {NoOne}
<1> DEFINE gone == {IF c.op \in {"login", "code"} THEN [c EXCEPT !.mine = FALSE] ELSE c : c \in calls}
<1>1. \A c \in gone : IsCall(c)
  <2>1. ASSUME NEW c \in calls PROVE IsCall([c EXCEPT !.mine = FALSE])
    BY DEF IsCall
  <2> QED
    BY <2>1
<1>2. Rendered(calls) \/ Rendered(gone)
  BY DEF FormGoes
<1> HIDE DEF gone
<1> QED
  BY <1>1, <1>2, RenderedCalls

-----------------------------------------------------------------------------
(* The tabs.                                                               *)

\* The tabs of the administration are no tabs of a member.
LEMMA TabsApart == \A tab \in AdminOnlyTabs : tab \notin allowedTabs /\ tab # "wallet"
  BY DEF AdminOnlyTabs, allowedTabs

\* Whoever goes anywhere, the guard sees the user as it then is.
LEMMA GuardKeepsOut ==
    ASSUME NEW view, NEW tab, GoTo(view, tab), adminToken' # NoOne => adminUser' # NoOne
    PROVE  AdminTabsNeedAnAdmin'
  BY TabsApart DEF GoTo, Guarded, AdminTabsNeedAnAdmin

\* Every step after which the place is the guard's, and tokens and users are
\* in pairs, keeps the invariant.
LEMMA GuardedStep ==
    ASSUME SessionInv, NEW calls, \A c \in calls : IsCall(c), FormGoes(calls),
           NEW view, NEW tab, GoTo(view, tab),
           {storedToken', storedUser', adminToken', adminUser'} \subseteq People \cup {NoOne},
           TokensHaveUsers'
    PROVE  SessionInv'
<1>1. /\ \A c \in sessionCalls' : IsCall(c)
      /\ pollToken' \in People \cup {NoOne}
  BY FormGoesCalls DEF SessionInv
<1>2. AdminTabsNeedAnAdmin'
  BY GuardKeepsOut DEF TokensHaveUsers
<1> QED
  BY <1>1, <1>2 DEF SessionInv

\* A hash leads nobody but an administrator to the administration.
LEMMA RouteKeepsOut ==
    ASSUME NEW hash, NEW token, NEW user, Route(hash, token, user).view = "console",
           Route(hash, token, user).tab \in AdminOnlyTabs
    PROVE  user \in Admins /\ token # NoOne
<1>1. defaultTab(user) \in AdminOnlyTabs => user \in Admins
  BY TabsApart DEF defaultTab
<1>2. "wallet" \notin AdminOnlyTabs
  BY DEF AdminOnlyTabs
<1> QED
  BY <1>1, <1>2 DEF Route

-----------------------------------------------------------------------------
LEMMA SessionInitHolds == SessionInit => SessionInv
<1> SUFFICES ASSUME SessionInit PROVE SessionInv
  OBVIOUS
<1>1. \A c \in sessionCalls : IsCall(c)
  BY FetchAsks DEF SessionInit
<1>2. AdminTabsNeedAnAdmin
  BY TabsApart DEF SessionInit, AdminTabsNeedAnAdmin, defaultTab
<1> QED
  BY <1>1, <1>2 DEF SessionInv, SessionInit, TokensHaveUsers

\* The answers, which may change the user at any time.
LEMMA SessionAnswerHolds == ASSUME SessionInv, SessionAnswer PROVE SessionInv'
<1>1. PICK c \in sessionCalls, reply \in {"ok", "refused", "lost"} :
        /\ sessionCalls' = (sessionCalls \ {c}) \cup {[c EXCEPT !.served = TRUE, !.reply = reply]}
        /\ UNCHANGED <<stored, place, session, pollToken, pollView, dialogs, sessionSteps>>
  BY DEF SessionAnswer
<1>2. IsCall(c)
  BY DEF SessionInv
<1>3. IsCall([c EXCEPT !.served = TRUE, !.reply = reply])
  BY <1>2 DEF IsCall
<1> QED
  BY <1>1, <1>3 DEF SessionInv, stored, place, session, TokensHaveUsers, AdminTabsNeedAnAdmin

LEMMA SessionReturnsHold ==
    ASSUME SessionInv, \/ StartReturns \/ ApiReturns \/ SessionProfileArrives \/ UserUpdated
                 \/ LoginReturns \/ PasswordReturns
    PROVE  SessionInv'
<1> USE SessionAssumption
<1>1. \A c \in sessionCalls : IsCall(c) /\ c.token \in People /\ c.token # NoOne
  BY DEF SessionInv, IsCall, People
<1>2. CASE StartReturns
  <2>1. PICK c \in sessionCalls :
           /\ FormGoes(sessionCalls \ {c})
           /\ GoTo(IF c.reply = "refused" /\ c.view = "console" THEN "landing" ELSE viewMode, currentTab)
           /\ CASE c.reply = "ok" ->
                     adminUser' = c.token /\ storedToken' = c.token /\ storedUser' = c.token /\ UNCHANGED adminToken
                [] c.reply = "refused" -> clearStoredAuth
                [] OTHER -> UNCHANGED <<stored, session>>
    BY <1>2 DEF StartReturns
  <2>2. /\ {storedToken', storedUser', adminToken', adminUser'} \subseteq People \cup {NoOne}
        /\ TokensHaveUsers'
    BY <1>1, <2>1 DEF clearStoredAuth, stored, session, SessionInv, TokensHaveUsers
  <2>3. PICK view : GoTo(view, currentTab)
    BY <2>1
  <2> QED
    BY <1>1, <2>1, <2>2, <2>3, GuardedStep
<1>3. CASE ApiReturns \/ PasswordReturns
  <2>1. PICK c \in sessionCalls :
           /\ FormGoes(sessionCalls \ {c})
           /\ GoTo(viewMode, currentTab)
           /\ clearStoredAuth \/ UNCHANGED <<stored, session, showLoginModal>>
    BY <1>3 DEF ApiReturns, PasswordReturns
  <2>2. /\ {storedToken', storedUser', adminToken', adminUser'} \subseteq People \cup {NoOne}
        /\ TokensHaveUsers'
    BY <1>1, <2>1 DEF clearStoredAuth, stored, session, SessionInv, TokensHaveUsers
  <2> QED
    BY <1>1, <2>1, <2>2, GuardedStep
<1>4. CASE SessionProfileArrives
  <2>1. PICK c \in sessionCalls :
           /\ FormGoes(sessionCalls \ {c})
           /\ GoTo(viewMode, currentTab)
           /\ UNCHANGED adminToken
           /\ \/ adminUser' = c.token /\ storedToken' = c.token /\ storedUser' = c.token
              \/ UNCHANGED <<stored, adminUser>>
    BY <1>4 DEF SessionProfileArrives
  <2>2. /\ {storedToken', storedUser', adminToken', adminUser'} \subseteq People \cup {NoOne}
        /\ TokensHaveUsers'
    BY <1>1, <2>1 DEF stored, SessionInv, TokensHaveUsers
  <2> QED
    BY <1>1, <2>1, <2>2, GuardedStep
<1>5. CASE UserUpdated
  <2>1. PICK c \in sessionCalls :
           /\ FormGoes((sessionCalls \ {c}) \cup Fetch("profile", c.token, c.view))
           /\ GoTo(viewMode, currentTab)
           /\ adminUser' = c.token /\ storedUser' = c.token
           /\ UNCHANGED <<adminToken, storedToken>>
    BY <1>5 DEF UserUpdated
  <2>2. /\ {storedToken', storedUser', adminToken', adminUser'} \subseteq People \cup {NoOne}
        /\ TokensHaveUsers'
    BY <1>1, <2>1 DEF SessionInv, TokensHaveUsers
  <2>3. \A d \in (sessionCalls \ {c}) \cup Fetch("profile", c.token, c.view) : IsCall(d)
    BY <1>1, FetchAsks
  <2> QED
    BY <2>1, <2>2, <2>3, GuardedStep
<1>6. CASE LoginReturns
  <2>1. PICK c \in sessionCalls :
           /\ FormGoes((sessionCalls \ {c}) \cup Fetch("api", c.token, c.view))
           /\ GoTo("console", defaultTab(c.token))
           /\ storedToken' = c.token /\ storedUser' = c.token
           /\ adminToken' = c.token /\ adminUser' = c.token
    BY <1>6 DEF LoginReturns
  <2>2. /\ {storedToken', storedUser', adminToken', adminUser'} \subseteq People \cup {NoOne}
        /\ TokensHaveUsers'
    BY <1>1, <2>1 DEF SessionInv, TokensHaveUsers
  <2>3. \A d \in (sessionCalls \ {c}) \cup Fetch("api", c.token, c.view) : IsCall(d)
    BY <1>1, FetchAsks
  <2> QED
    BY <2>1, <2>2, <2>3, GuardedStep
<1> QED
  BY <1>2, <1>3, <1>4, <1>5, <1>6

\* Steps that leave the session and the place alone and only add requests, or
\* take some away.
Quiet(more) ==
    /\ UNCHANGED <<stored, place, session, pollToken>>
    /\ sessionCalls' \subseteq sessionCalls \cup more

LEMMA QuietHolds == ASSUME SessionInv, NEW more, \A c \in more : IsCall(c), Quiet(more) PROVE SessionInv'
  BY DEF SessionInv, Quiet, stored, place, session, TokensHaveUsers, AdminTabsNeedAnAdmin

LEMMA QuietStepsHold ==
    ASSUME SessionInv, \/ LoginFails \/ CodeReturns \/ CountDown \/ TokenExpires \/ PollFires
                 \/ OpenWallet \/ OpenAccount \/ CloseAccount \/ handleChangePassword
                 \/ handleLoginSubmit \/ handleRegisterSubmit \/ handleOAuthLogin \/ DialogOAuthLogin
                 \/ handleSendCode
    PROVE  SessionInv'
<1>1. CASE LoginFails \/ CodeReturns \/ CountDown \/ TokenExpires \/ OpenAccount \/ CloseAccount
  <2>1. Quiet({})
    BY <1>1 DEF LoginFails, CodeReturns, CountDown, TokenExpires, OpenAccount, CloseAccount, Quiet
  <2> QED
    BY <2>1, QuietHolds
<1>2. CASE PollFires \/ OpenWallet \/ handleChangePassword
  <2>1. effectiveToken \in People \cup {NoOne}
    BY DEF effectiveToken, SessionInv
  <2>2. CASE PollFires
    <3> DEFINE token == IF pollToken # NoOne THEN pollToken ELSE storedToken
    <3>1. token \in People \cup {NoOne}
      BY DEF SessionInv
    <3>2. Quiet(Fetch("api", token, pollView))
      BY <2>2 DEF PollFires, Quiet
    <3> QED
      BY <3>1, <3>2, QuietHolds, FetchAsks
  <2>3. CASE OpenWallet
    <3>1. Quiet(Fetch("wallet", effectiveToken, viewMode))
      BY <2>3 DEF OpenWallet, Quiet
    <3> QED
      BY <2>1, <3>1, QuietHolds, FetchAsks
  <2>4. CASE handleChangePassword
    <3>1. Quiet(Fetch("password", effectiveToken, viewMode))
      BY <2>4 DEF handleChangePassword, Quiet
    <3> QED
      BY <2>1, <3>1, QuietHolds, FetchAsks
  <2> QED
    BY <1>2, <2>2, <2>3, <2>4
<1>3. CASE handleLoginSubmit \/ handleRegisterSubmit \/ handleOAuthLogin \/ DialogOAuthLogin \/ handleSendCode
  <2>1. PICK op \in {"login", "code"}, a \in People : SendFromDoor(op, a)
    BY <1>3 DEF handleLoginSubmit, handleRegisterSubmit, handleOAuthLogin, DialogOAuthLogin, handleSendCode,
                People
  <2>2. Quiet({SessionCall(op, a, viewMode)})
    BY <2>1 DEF SendFromDoor, Quiet
  <2> QED
    BY <2>2, QuietHolds, NewSessionCall
<1> QED
  BY <1>1, <1>2, <1>3

\* Steps of the user that lead elsewhere.
LEMMA WaysHold ==
    ASSUME SessionInv, \/ FromLanding \/ FromStatus \/ FromAuth \/ FromMenu \/ handleLocationChange
                 \/ handleLogout \/ CloseLogin
    PROVE  SessionInv'
<1>1. CASE handleLogout
  BY <1>1, GuardedStep DEF handleLogout, clearStoredAuth, SessionInv, TokensHaveUsers
<1>2. CASE CloseLogin
  BY <1>2, GuardedStep DEF CloseLogin, stored, session, SessionInv, TokensHaveUsers
<1>3. CASE FromLanding \/ FromStatus \/ FromAuth \/ FromMenu \/ handleLocationChange
  <2>1. PICK view, tab : Navigate(view, tab)
    BY <1>3 DEF FromLanding, FromStatus, FromAuth, FromMenu, handleLocationChange
  <2> QED
    BY <2>1, GuardedStep DEF Navigate, stored, session, SessionInv, TokensHaveUsers
<1> QED
  BY <1>1, <1>2, <1>3

LEMMA ReloadHolds == ASSUME SessionInv, Reload PROVE SessionInv'
<1>1. PICK hash : Load(hash, storedToken, storedUser)
  BY DEF Reload
<1>2. /\ storedToken' = storedToken /\ storedUser' = storedUser
      /\ adminToken' = storedToken /\ adminUser' = storedUser /\ pollToken' = storedToken
      /\ viewMode' = Route(hash, storedToken, storedUser).view
      /\ currentTab' = Route(hash, storedToken, storedUser).tab
  BY <1>1 DEF Reload, Load, stored
<1>3. \A c \in sessionCalls' : IsCall(c)
  BY <1>1, FetchAsks DEF Load, SessionInv
<1>4. AdminTabsNeedAnAdmin'
  BY <1>2, RouteKeepsOut DEF AdminTabsNeedAnAdmin
<1> QED
  BY <1>2, <1>3, <1>4 DEF SessionInv, TokensHaveUsers

-----------------------------------------------------------------------------
LEMMA SessionInvHolds == SessionSpec => []SessionInv
<1>1. SessionInv /\ [SessionNext]_sessionVars => SessionInv'
  <2> SUFFICES ASSUME SessionInv, [SessionNext]_sessionVars PROVE SessionInv'
    OBVIOUS
  <2>1. CASE SessionArrivals
    BY <2>1, SessionAnswerHolds, SessionReturnsHold, QuietStepsHold DEF SessionArrivals
  <2>2. CASE SessionNext /\ ~SessionArrivals
    BY <2>2, QuietStepsHold, WaysHold, ReloadHolds DEF SessionNext
  <2>3. CASE UNCHANGED sessionVars
    BY <2>3 DEF sessionVars, stored, place, session, SessionInv, TokensHaveUsers, AdminTabsNeedAnAdmin
  <2> QED
    BY <2>1, <2>2, <2>3
<1> QED
  BY SessionInitHolds, <1>1, PTL DEF SessionSpec

\* Whatever answers of an earlier session still come, whatever is typed into
\* the address bar or found in the storage, a session shows an administrator's
\* tab to an administrator only.
THEOREM AdminTabsAreGuarded == SessionSpec => []AdminTabsNeedAnAdmin
<1>1. SessionInv => AdminTabsNeedAnAdmin
  BY DEF SessionInv
<1> QED
  BY <1>1, SessionInvHolds, PTL

-----------------------------------------------------------------------------
(* The types of the users page.                                            *)

\* What a request asks for, and what came with its answer, are of their kinds.
TypedUserCall(c) ==
    /\ DOMAIN c = {"op", "name", "values", "served", "ok", "rows"}
    /\ c.op # "list" => c.name \in Accounts
    /\ c.values.role \in Roles /\ c.values.status \in {"active", "locked"}
    /\ c.values.group \in UserGroups /\ c.values.balance \in Int
    /\ c.rows \in [Accounts -> Records \cup {Gone}]

UsersTyped ==
    /\ UsersTypeOK
    /\ \A c \in userCalls : TypedUserCall(c)
    /\ addForm \in [open : BOOLEAN, name : Accounts \cup {Short}, password : {Short, "generated", "typed"},
                    role : Roles]
    /\ resetForm \in [target : Accounts \cup {NoUser}, password : {Short, "generated"}]

LEMMA UserCallIsTyped ==
    ASSUME NEW op, NEW name \in Accounts, NEW values,
           values.role \in Roles, values.status \in {"active", "locked"},
           values.group \in UserGroups, values.balance \in Int
    PROVE  TypedUserCall(UserCall(op, name, values))
  BY UsersAssumption DEF TypedUserCall, UserCall

LEMMA ListUsersIsTyped == TypedUserCall(ListUsers)
  BY UsersAssumption DEF TypedUserCall, UserCall, ListUsers, Values, Roles

LEMMA UsersInitTyped == ASSUME UsersInit PROVE UsersTyped
<1>1. accounts \in [Accounts -> Records \cup {Gone}] /\ users \in [Accounts -> Records \cup {Gone}]
  BY UsersAssumption DEF UsersInit
<1>2. /\ addForm \in [open : BOOLEAN, name : Accounts \cup {Short}, password : {Short, "generated", "typed"},
                      role : Roles]
      /\ resetForm \in [target : Accounts \cup {NoUser}, password : {Short, "generated"}]
  BY DEF UsersInit, EmptyAddForm, NoResetForm, Roles
<1>3. quotaForm \in [target : Accounts \cup {NoUser}, mode : {"delta", "exact"}, value : Int]
  BY DEF UsersInit, NoQuotaForm
<1>4. \A c \in userCalls : TypedUserCall(c)
  BY ListUsersIsTyped DEF UsersInit
<1> QED
  BY <1>1, <1>2, <1>3, <1>4 DEF UsersInit, UsersTyped, UsersTypeOK

\* What the server makes of a record.
LEMMA ChangedIsTyped ==
    ASSUME NEW record \in Records \cup {Gone}, NEW c, TypedUserCall(c),
           c.op = "create" \/ record # Gone
    PROVE  Changed(record, c) \in Records \cup {Gone}
<1>1. CASE c.op = "create"
  BY <1>1 DEF TypedUserCall, Changed, Records
<1>2. CASE c.op # "create"
  <2>1. record \in Records
    BY <1>2
  <2>2. CASE c.op = "status"
    BY <2>1, <2>2 DEF TypedUserCall, Changed, Records
  <2>3. CASE c.op = "role"
    BY <2>1, <2>3 DEF TypedUserCall, Changed, Records
  <2>4. CASE c.op = "group"
    BY <2>1, <2>4 DEF TypedUserCall, Changed, Records
  <2>5. CASE c.op = "delta"
    BY <2>1, <2>5 DEF TypedUserCall, Changed, Records
  <2>6. CASE c.op = "exact"
    BY <2>1, <2>6 DEF TypedUserCall, Changed, Records
  <2>7. CASE c.op \notin {"create", "status", "role", "group", "delta", "exact"}
    BY <2>1, <2>7 DEF Changed
  <2> QED
    BY <1>2, <2>2, <2>3, <2>4, <2>5, <2>6, <2>7
<1> QED
  BY <1>1, <1>2

LEMMA UserAnswerTyped == ASSUME UsersTyped, UserAnswer PROVE UsersTyped'
<1>1. PICK c \in userCalls, done \in BOOLEAN, ok \in BOOLEAN :
        /\ done => Possible(c)
        /\ accounts' = IF done /\ c.op # "list" THEN [accounts EXCEPT ![c.name] = Changed(@, c)] ELSE accounts
        /\ userCalls' = (userCalls \ {c}) \cup {[c EXCEPT !.served = TRUE, !.ok = ok, !.rows = accounts']}
        /\ UNCHANGED <<userTable, userForms, loadingUsers, userSteps>>
  BY DEF UserAnswer
<1>2. TypedUserCall(c)
  BY DEF UsersTyped
<1>3. accounts' \in [Accounts -> Records \cup {Gone}]
  <2>1. accounts \in [Accounts -> Records \cup {Gone}]
    BY DEF UsersTyped, UsersTypeOK
  <2>2. CASE done /\ c.op # "list"
    <3>1. c.name \in Accounts /\ (c.op = "create" \/ accounts[c.name] # Gone)
      BY <1>1, <1>2, <2>2 DEF TypedUserCall, Possible
    <3>2. Changed(accounts[c.name], c) \in Records \cup {Gone}
      BY <1>2, <2>1, <3>1, ChangedIsTyped
    <3> QED
      BY <1>1, <2>1, <2>2, <3>1, <3>2
  <2> QED
    BY <1>1, <2>1, <2>2
<1> DEFINE d == [c EXCEPT !.served = TRUE, !.ok = ok, !.rows = accounts']
<1>4. TypedUserCall(d)
  BY <1>2, <1>3 DEF TypedUserCall
<1>5. userCalls' = (userCalls \ {c}) \cup {d}
  BY <1>1
<1> HIDE DEF d
<1>6. \A e \in userCalls' : TypedUserCall(e)
  BY <1>4, <1>5 DEF UsersTyped
<1> QED
  BY <1>1, <1>3, <1>6 DEF UsersTyped, UsersTypeOK, userTable, userForms

LEMMA UserReturnsTyped ==
    ASSUME UsersTyped, UsersArrive \/ RowReturns \/ CreateReturns \/ QuotaReturns \/ ResetReturns
    PROVE  UsersTyped'
<1>1. \A c \in userCalls' : TypedUserCall(c)
  <2>1. PICK c \in userCalls : userCalls' \subseteq (userCalls \ {c}) \cup {ListUsers}
    BY DEF UsersArrive, RowReturns, CreateReturns, QuotaReturns, ResetReturns, FetchAfter, fetchUsers
  <2> QED
    BY <2>1, ListUsersIsTyped DEF UsersTyped
<1>2. CASE UsersArrive
  <2>1. users' \in [Accounts -> Records \cup {Gone}]
    BY <1>2 DEF UsersArrive, UsersTyped, UsersTypeOK, TypedUserCall
  <2> QED
    BY <1>1, <1>2, <2>1 DEF UsersArrive, UsersTyped, UsersTypeOK, userForms
<1>3. \A c : FetchAfter(c) => loadingUsers' \in {TRUE, loadingUsers}
  BY DEF FetchAfter, fetchUsers
<1>4. CASE RowReturns
  BY <1>1, <1>3, <1>4 DEF RowReturns, UsersTyped, UsersTypeOK, userTable, userForms
<1>5. CASE CreateReturns
  <2>1. addForm' \in [open : BOOLEAN, name : Accounts \cup {Short}, password : {Short, "generated", "typed"}, role : Roles]
    BY <1>5 DEF CreateReturns, UsersTyped, EmptyAddForm, Roles
  <2> QED
    BY <1>1, <1>3, <1>5, <2>1 DEF CreateReturns, UsersTyped, UsersTypeOK, userTable
<1>6. CASE QuotaReturns
  <2>1. quotaForm' \in [target : Accounts \cup {NoUser}, mode : {"delta", "exact"}, value : Int]
    BY <1>6 DEF QuotaReturns, UsersTyped, UsersTypeOK
  <2> QED
    BY <1>1, <1>3, <1>6, <2>1 DEF QuotaReturns, UsersTyped, UsersTypeOK, userTable
<1>7. CASE ResetReturns
  <2>1. resetForm' \in [target : Accounts \cup {NoUser}, password : {Short, "generated"}]
    BY <1>7 DEF ResetReturns, UsersTyped, NoResetForm
  <2> QED
    BY <1>1, <1>7, <2>1 DEF ResetReturns, UsersTyped, UsersTypeOK, userTable
<1> QED
  BY <1>2, <1>4, <1>5, <1>6, <1>7

\* A request that is asked, with what its handler does to the flags.
LEMMA UserAskTyped ==
    ASSUME UsersTyped, NEW c, TypedUserCall(c), Ask(c), UNCHANGED <<addForm, quotaForm, resetForm>>,
           {creating', adjustingQuota', resetting'} \subseteq BOOLEAN, userSteps' \in Nat
    PROVE  UsersTyped'
  BY DEF UsersTyped, UsersTypeOK, Ask, userTable

LEMMA UserAsksTyped ==
    ASSUME UsersTyped, userSteps' \in Nat,
           \/ RefreshUsers \/ handleToggleStatus \/ handleUpdateRole \/ handleUpdateGroup \/ handleDeleteUser
           \/ handleCreateUser \/ handleAdjustQuota \/ handleResetPassword
    PROVE  UsersTyped'
<1> DEFINE Valued(v) == /\ v.role \in Roles /\ v.status \in {"active", "locked"}
                        /\ v.group \in UserGroups /\ v.balance \in Int
<1>1. \A op, v : \A name \in Accounts : Valued(v) => TypedUserCall(UserCall(op, name, v))
  BY UserCallIsTyped
<1>2. /\ Valued(Values)
      /\ \A x \in {"active", "locked"} : Valued([Values EXCEPT !.status = x])
      /\ \A x \in Roles : Valued([Values EXCEPT !.role = x])
      /\ \A x \in UserGroups : Valued([Values EXCEPT !.group = x])
      /\ \A x \in Int : Valued([Values EXCEPT !.balance = x])
      /\ \A x : Valued([Values EXCEPT !.password = x])
      /\ \A x \in Roles : \A y : Valued([Values EXCEPT !.role = x, !.password = y])
  BY UsersAssumption DEF Values, Roles
<1> HIDE DEF Valued
<1>3. \A op : Offered(op) \subseteq Accounts
  BY DEF Offered, filteredUsers, Existing
<1>4. {creating, adjustingQuota, resetting} \subseteq BOOLEAN
  BY DEF UsersTyped, UsersTypeOK
<1>5. CASE RefreshUsers
  BY <1>5, ListUsersIsTyped DEF RefreshUsers, fetchUsers, userForms, userTable, UsersTyped, UsersTypeOK
<1>6. CASE handleToggleStatus
  <2>1. PICK u \in Offered("status"), x \in {"active", "locked"} :
          Ask(UserCall("status", u, [Values EXCEPT !.status = x])) /\ UNCHANGED userForms
    BY <1>6 DEF handleToggleStatus
  <2>2. TypedUserCall(UserCall("status", u, [Values EXCEPT !.status = x]))
    BY <1>1, <1>2, <1>3
  <2> QED
    BY <1>4, <2>1, <2>2, UserAskTyped DEF userForms
<1>7. CASE handleUpdateRole
  <2>1. PICK u \in Offered("role"), x \in Roles :
          Ask(UserCall("role", u, [Values EXCEPT !.role = x])) /\ UNCHANGED userForms
    BY <1>7 DEF handleUpdateRole
  <2>2. TypedUserCall(UserCall("role", u, [Values EXCEPT !.role = x]))
    BY <1>1, <1>2, <1>3
  <2> QED
    BY <1>4, <2>1, <2>2, UserAskTyped DEF userForms
<1>8. CASE handleUpdateGroup
  <2>1. PICK u \in Offered("group"), x \in UserGroups :
          Ask(UserCall("group", u, [Values EXCEPT !.group = x])) /\ UNCHANGED userForms
    BY <1>8 DEF handleUpdateGroup, GroupChoice
  <2>2. TypedUserCall(UserCall("group", u, [Values EXCEPT !.group = x]))
    BY <1>1, <1>2, <1>3
  <2> QED
    BY <1>4, <2>1, <2>2, UserAskTyped DEF userForms
<1>9. CASE handleDeleteUser
  <2>1. PICK u \in Offered("delete") : Ask(UserCall("delete", u, Values)) /\ UNCHANGED userForms
    BY <1>9 DEF handleDeleteUser
  <2>2. TypedUserCall(UserCall("delete", u, Values))
    BY <1>1, <1>2, <1>3
  <2> QED
    BY <1>4, <2>1, <2>2, UserAskTyped DEF userForms
<1>10. CASE handleCreateUser
  <2> DEFINE c == UserCall("create", addForm.name, [Values EXCEPT !.role = addForm.role, !.password = addForm.password])
  <2>1. addForm.name \in Accounts /\ addForm.role \in Roles
    BY <1>10 DEF handleCreateUser, UsersTyped
  <2>2. TypedUserCall(c)
    BY <1>1, <1>2, <2>1
  <2>3. Ask(c) /\ creating' = TRUE /\ UNCHANGED <<addForm, quotaForm, resetForm, adjustingQuota, resetting>>
    BY <1>10 DEF handleCreateUser
  <2> HIDE DEF c
  <2> QED
    BY <1>4, <2>2, <2>3, UserAskTyped
<1>11. CASE handleAdjustQuota
  <2> DEFINE c == UserCall(quotaForm.mode, quotaForm.target, [Values EXCEPT !.balance = quotaForm.value])
  <2>1. quotaForm.target \in Accounts /\ quotaForm.value \in Int
    BY <1>11 DEF handleAdjustQuota, AdjustOffered, UsersTyped, UsersTypeOK
  <2>2. TypedUserCall(c)
    BY <1>1, <1>2, <2>1
  <2>3. Ask(c) /\ adjustingQuota' = TRUE /\ UNCHANGED <<addForm, quotaForm, resetForm, creating, resetting>>
    BY <1>11 DEF handleAdjustQuota
  <2> HIDE DEF c
  <2> QED
    BY <1>4, <2>2, <2>3, UserAskTyped
<1>12. CASE handleResetPassword
  <2> DEFINE c == UserCall("password", resetForm.target, [Values EXCEPT !.password = resetForm.password])
  <2>1. resetForm.target \in Accounts
    BY <1>12 DEF handleResetPassword, ResetOffered, UsersTyped
  <2>2. TypedUserCall(c)
    BY <1>1, <1>2, <2>1
  <2>3. Ask(c) /\ resetting' = TRUE /\ UNCHANGED <<addForm, quotaForm, resetForm, creating, adjustingQuota>>
    BY <1>12 DEF handleResetPassword
  <2> HIDE DEF c
  <2> QED
    BY <1>4, <2>2, <2>3, UserAskTyped
<1> QED
  BY <1>5, <1>6, <1>7, <1>8, <1>9, <1>10, <1>11, <1>12

LEMMA UserFormsTyped ==
    ASSUME UsersTyped, userSteps' \in Nat,
           \/ FilterUsers \/ OpenAdd \/ TypeUser \/ OpenQuota \/ TypeQuota \/ OpenReset \/ TypePassword \/ CloseForm
    PROVE  UsersTyped'
<1>1. \A op : Offered(op) \subseteq Accounts
  BY DEF Offered, filteredUsers, Existing
<1>2. CASE FilterUsers
  BY <1>2 DEF UsersTyped, UsersTypeOK, FilterUsers, userForms
<1>3. CASE OpenAdd
  BY <1>3 DEF UsersTyped, UsersTypeOK, OpenAdd, userTable
<1>4. CASE TypeUser
  BY <1>4 DEF UsersTyped, UsersTypeOK, TypeUser, userTable
<1>5. CASE OpenQuota
  BY <1>1, <1>5 DEF UsersTyped, UsersTypeOK, OpenQuota, userTable, NoQuotaForm
<1>6. CASE TypeQuota
  <2> DEFINE Q == [target : Accounts \cup {NoUser}, mode : {"delta", "exact"}, value : Int]
  <2>1. \A mode \in {"delta", "exact"}, value \in Int : [quotaForm EXCEPT !.mode = mode, !.value = value] \in Q
    BY DEF UsersTyped, UsersTypeOK
  <2>3. PICK mode \in {"delta", "exact"}, value \in {0, 10} :
          quotaForm' = [quotaForm EXCEPT !.mode = mode, !.value = value]
    BY <1>6 DEF TypeQuota
  <2>4. value \in Int
    OBVIOUS
  <2> HIDE DEF Q
  <2>5. quotaForm' \in Q
    BY <2>1, <2>3, <2>4
  <2>2. quotaForm' \in [target : Accounts \cup {NoUser}, mode : {"delta", "exact"}, value : Int]
    BY <2>5 DEF Q
  <2> QED
    BY <1>6, <2>2 DEF UsersTyped, UsersTypeOK, TypeQuota, userTable
<1>7. CASE OpenReset
  BY <1>1, <1>7 DEF UsersTyped, UsersTypeOK, OpenReset, userTable
<1>8. CASE TypePassword
  BY <1>8 DEF UsersTyped, UsersTypeOK, TypePassword, userTable
<1>9. CASE CloseForm
  BY <1>9 DEF UsersTyped, UsersTypeOK, CloseForm, userTable
<1> QED
  BY <1>2, <1>3, <1>4, <1>5, <1>6, <1>7, <1>8, <1>9

LEMMA UsersStepTyped == ASSUME UsersTyped, [UsersNext]_userVars PROVE UsersTyped'
<1>1. CASE UNCHANGED userVars
  BY <1>1 DEF userVars, UsersTyped, UsersTypeOK
<1>2. CASE userSteps' = userSteps + 1 /\ UserGesture
  <2>1. userSteps' \in Nat
    BY <1>2 DEF UsersTyped, UsersTypeOK
  <2> QED
    BY <1>2, <2>1, UserAsksTyped, UserFormsTyped DEF UserGesture
<1> QED
  BY <1>1, <1>2, UserAnswerTyped, UserReturnsTyped DEF UsersNext

-----------------------------------------------------------------------------
(* The types of the wallet page.                                           *)

TypedWalletCall(c) ==
    /\ DOMAIN c = {"op", "card", "served", "ok", "paid", "cards"}
    /\ c.card \in Cards \cup {NoCard} /\ c.paid \in Nat /\ c.cards \subseteq Cards

WalletTyped ==
    /\ WalletPageTypeOK
    /\ \A c \in walletCalls : TypedWalletCall(c)
    /\ walletSteps \in Nat

LEMMA WalletCallsTyped ==
    /\ \A op : \A card \in Cards \cup {NoCard} : TypedWalletCall(WalletCall(op, card))
    /\ TypedWalletCall(fetchWallet) /\ TypedWalletCall(fetchUserProfile)
    /\ \A c \in fetchRedemptions \cup Mounted : TypedWalletCall(c)
  BY DEF TypedWalletCall, WalletCall, fetchWallet, fetchUserProfile, fetchRedemptions, Mounted

LEMMA WalletInitTyped == ASSUME WalletPageInit PROVE WalletTyped
  BY WalletCallsTyped DEF WalletPageInit, WalletTyped, WalletPageTypeOK

LEMMA WalletAnswerTyped == ASSUME WalletTyped, WalletAnswer PROVE WalletTyped'
<1>1. PICK c \in walletCalls, done \in BOOLEAN, ok \in BOOLEAN :
        /\ credit' \in {credit, credit + 1}
        /\ cards' \in {cards, cards \ {c.card}, Cards}
        /\ walletCalls' = (walletCalls \ {c})
                \cup {[c EXCEPT !.served = TRUE, !.ok = ok, !.paid = credit', !.cards = cards']}
        /\ UNCHANGED <<walletBalances, walletFlags, walletView, pressed, walletSteps>>
  BY DEF WalletAnswer
<1>2. credit' \in Nat /\ cards' \subseteq Cards
  BY <1>1 DEF WalletTyped, WalletPageTypeOK
<1> DEFINE d == [c EXCEPT !.served = TRUE, !.ok = ok, !.paid = credit', !.cards = cards']
<1>3. TypedWalletCall(d)
  BY <1>2 DEF WalletTyped, TypedWalletCall
<1>4. walletCalls' = (walletCalls \ {c}) \cup {d}
  BY <1>1
<1> HIDE DEF d
<1>5. \A e \in walletCalls' : TypedWalletCall(e)
  BY <1>3, <1>4 DEF WalletTyped
<1> QED
  BY <1>1, <1>2, <1>5 DEF WalletTyped, WalletPageTypeOK, walletBalances, walletFlags, walletView

\* A page that is left, or starts anew.
LEMMA LeftAlone ==
    ASSUME WalletTyped, NEW atService \in BOOLEAN, Leave(atService)
    PROVE  /\ redemptions' \subseteq Cards /\ redeemCode' \in Cards \cup {NoCard}
           /\ rechargeForm' \in [method : {"sandbox", "stripe"}, valid : BOOLEAN]
           /\ {recharging', redeeming', generating', showGenModal', away'} \subseteq BOOLEAN
           /\ activeTab' \in {"wallet", "redemptions"}
           /\ pressed' \in Nat /\ walletSteps' \in Nat
<1>1. rechargeForm' \in [method : {"sandbox", "stripe"}, valid : BOOLEAN]
  BY DEF Leave
<1> QED
  BY <1>1 DEF Leave, WalletTyped, WalletPageTypeOK

LEMMA WalletArrivalsTyped ==
    ASSUME WalletTyped,
           \/ WalletArrives \/ ProfileArrives \/ CardsArrive \/ RedeemReturns \/ RechargeReturns
           \/ SessionSimulated \/ SessionFails \/ SessionRedirects \/ GenerateReturns \/ DeleteCardReturns
    PROVE  WalletTyped'
<1>1. \A c \in walletCalls' : TypedWalletCall(c)
  <2>1. walletCalls' \subseteq walletCalls \cup {fetchWallet, fetchUserProfile, WalletCall("complete", NoCard)}
                                  \cup fetchRedemptions
    BY DEF WalletArrives, ProfileArrives, CardsArrive, RedeemReturns, RechargeReturns, SessionSimulated,
           SessionFails, SessionRedirects, GenerateReturns, DeleteCardReturns, Handle
  <2> QED
    BY <2>1, WalletCallsTyped DEF WalletTyped
<1>2. CASE WalletArrives
  BY <1>1, <1>2 DEF WalletArrives, Settled, WalletTyped, WalletPageTypeOK, TypedWalletCall, walletServer, walletFlags, walletView
<1>3. CASE ProfileArrives
  BY <1>1, <1>3 DEF ProfileArrives, Synchronized, Settled, WalletTyped, WalletPageTypeOK, TypedWalletCall, walletServer, walletFlags, walletView
<1>4. CASE CardsArrive
  BY <1>1, <1>4 DEF CardsArrive, Settled, WalletTyped, WalletPageTypeOK, TypedWalletCall, walletServer, walletBalances, walletFlags
<1>5. CASE RedeemReturns \/ RechargeReturns \/ SessionFails \/ GenerateReturns
  BY <1>1, <1>5 DEF RedeemReturns, RechargeReturns, SessionFails, GenerateReturns, WalletTyped, WalletPageTypeOK,
     walletServer, walletBalances, walletView
<1>6. CASE SessionSimulated \/ DeleteCardReturns
  BY <1>1, <1>6 DEF SessionSimulated, DeleteCardReturns, WalletTyped, WalletPageTypeOK, walletServer, walletBalances,
     walletFlags, walletView
<1>7. CASE SessionRedirects
  BY <1>1, <1>7, LeftAlone DEF SessionRedirects, WalletTyped, WalletPageTypeOK, walletServer, walletBalances
<1> QED
  BY <1>2, <1>3, <1>4, <1>5, <1>6, <1>7

LEMMA ComesBackTyped == ASSUME WalletTyped, ComesBack PROVE WalletTyped'
<1>1. Leave(FALSE) /\ \A c \in walletCalls' : TypedWalletCall(c)
  BY WalletCallsTyped DEF ComesBack
<1>2. credit' \in Nat /\ walletData' \in Nat /\ adminBalance' \in Nat /\ cards' \subseteq Cards
  BY DEF ComesBack, WalletTyped, WalletPageTypeOK
<1> QED
  BY <1>1, <1>2, LeftAlone DEF WalletTyped, WalletPageTypeOK

LEMMA WalletGestureTyped ==
    ASSUME WalletTyped, walletSteps' \in Nat,
           \/ RefreshWallet \/ SwitchTab \/ TypeCode \/ handleRedeem
           \/ ChooseAmount \/ ChooseMethod \/ handleRecharge
           \/ RefreshCards \/ handleDeleteRedemption
           \/ OpenGenerate \/ CloseGenerate \/ handleGenerateRedemptions
    PROVE  WalletTyped'
<1>1. \A c \in walletCalls' : TypedWalletCall(c)
  <2>1. CASE UNCHANGED walletCalls
    BY <2>1 DEF WalletTyped
  <2>2. CASE RefreshWallet \/ RefreshCards
    BY <2>2, WalletCallsTyped DEF WalletTyped, RefreshWallet, RefreshCards, Post
  <2>3. CASE handleRedeem \/ handleRecharge \/ handleDeleteRedemption \/ handleGenerateRedemptions
    <3>1. PICK op, card : card \in Cards \cup {NoCard} /\ walletCalls' = walletCalls \cup {WalletCall(op, card)}
      BY <2>3 DEF WalletTyped, WalletPageTypeOK, handleRedeem, handleRecharge, handleDeleteRedemption,
                  handleGenerateRedemptions, Post
    <3> QED
      BY <3>1, WalletCallsTyped DEF WalletTyped
  <2> QED
    BY <2>1, <2>2, <2>3 DEF SwitchTab, TypeCode, ChooseAmount, ChooseMethod, OpenGenerate, CloseGenerate
<1>2. CASE RefreshWallet \/ RefreshCards \/ handleDeleteRedemption \/ handleGenerateRedemptions
  BY <1>1, <1>2 DEF RefreshWallet, RefreshCards, handleDeleteRedemption, handleGenerateRedemptions, Post,
     WalletTyped, WalletPageTypeOK, walletServer, walletBalances, walletFlags, walletView
<1>5. CASE handleRedeem \/ handleRecharge
  <2>1. pressed' \in Nat
    BY <1>5 DEF handleRedeem, handleRecharge, WalletTyped, WalletPageTypeOK
  <2>2. {recharging', redeeming', generating'} \subseteq BOOLEAN
    BY <1>5 DEF handleRedeem, handleRecharge, WalletTyped, WalletPageTypeOK
  <2> QED
    BY <1>1, <1>5, <2>1, <2>2 DEF handleRedeem, handleRecharge, Post, WalletTyped, WalletPageTypeOK, walletServer,
       walletBalances, walletView
<1>3. CASE SwitchTab \/ TypeCode \/ OpenGenerate \/ CloseGenerate
  BY <1>1, <1>3 DEF SwitchTab, TypeCode, OpenGenerate, CloseGenerate, WalletTyped, WalletPageTypeOK, walletServer,
     walletBalances, walletFlags
<1>4. CASE ChooseAmount \/ ChooseMethod
  <2>1. rechargeForm' \in [method : {"sandbox", "stripe"}, valid : BOOLEAN]
    BY <1>4 DEF ChooseAmount, ChooseMethod, WalletTyped, WalletPageTypeOK
  <2> QED
    BY <1>1, <1>4, <2>1 DEF ChooseAmount, ChooseMethod, WalletTyped, WalletPageTypeOK, walletServer,
       walletBalances, walletFlags
<1> QED
  BY <1>2, <1>3, <1>4, <1>5

LEMMA WalletStepTyped == ASSUME WalletTyped, [WalletPageNext]_walletVars PROVE WalletTyped'
<1>1. CASE UNCHANGED walletVars
  BY <1>1 DEF walletVars, walletServer, walletBalances, walletFlags, walletView, WalletTyped, WalletPageTypeOK
<1>2. walletSteps' = walletSteps + 1 => walletSteps' \in Nat
  BY DEF WalletTyped
<1> QED
  BY <1>1, <1>2, WalletAnswerTyped, WalletArrivalsTyped, ComesBackTyped, WalletGestureTyped
     DEF WalletPageNext, WalletArrivals

-----------------------------------------------------------------------------
(* The types of the logs.                                                  *)

\* What is asked for, and the records that came, are of their kinds.
TypedLogCall(c) ==
    /\ DOMAIN c = {"op", "offset", "filters", "ids", "served", "ok"}
    /\ c.ids \subseteq LogIds /\ c.offset \in Nat

LogsTyped ==
    /\ LogsTypeOK
    /\ \A c \in logCalls : TypedLogCall(c)
    /\ logSteps \in Nat

LEMMA LogCallsTyped ==
    /\ \A offset \in Nat : \A filters : TypedLogCall(LogQuery(offset, filters))
    /\ \A op : \A ids \in SUBSET LogIds : TypedLogCall(LogRequest(op, ids))
  BY DEF TypedLogCall, LogQuery, LogRequest

LEMMA LogsInitTyped == ASSUME LogsInit PROVE LogsTyped
<1>1. \A c \in logCalls : TypedLogCall(c)
  BY LogCallsTyped DEF LogsInit
<1> QED
  BY <1>1, LogsAssumption DEF LogsInit, LogsTyped, LogsTypeOK, TypedLogCall, LogIds, Ranges, Filters

\* A fetch of any page there may be.
LEMMA FetchTyped ==
    ASSUME LogsTyped, NEW offset \in Nat, NEW filters, fetchLogs(offset, filters)
    PROVE  /\ \A c \in logCalls' : TypedLogCall(c)
           /\ {logOffset', logOffsetRef'} \subseteq Nat /\ logLoading' \in BOOLEAN
  BY LogCallsTyped DEF LogsTyped, fetchLogs

LEMMA LogAnswerTyped == ASSUME LogsTyped, NEW c, NEW ok \in BOOLEAN, LogAnswer(c, ok) PROVE LogsTyped'
<1> DEFINE ids == IF c.op = "logs" THEN LogPage(c.offset, c.filters) ELSE c.ids
           d == [c EXCEPT !.served = TRUE, !.ok = ok, !.ids = ids]
<1>1. TypedLogCall(c)
  BY DEF LogAnswer, LogsTyped
<1>2. LogPage(c.offset, c.filters) \subseteq serverLogs
  BY DEF LogPage, MatchingLogs
<1>3. ids \subseteq LogIds
  BY <1>1, <1>2 DEF TypedLogCall, LogsTyped, LogsTypeOK
<1> HIDE DEF ids
<1>4. TypedLogCall(d)
  BY <1>1, <1>3 DEF TypedLogCall
<1>5. logCalls' = (logCalls \ {c}) \cup {d}
  BY <1>1 DEF LogAnswer, TypedLogCall, ids
<1> HIDE DEF d
<1>6. \A e \in logCalls' : TypedLogCall(e)
  BY <1>4, <1>5 DEF LogsTyped
<1>7. serverLogs' \subseteq LogIds
  BY DEF LogAnswer, LogsTyped, LogsTypeOK
<1> QED
  BY <1>6, <1>7 DEF LogAnswer, LogsTyped, LogsTypeOK, TypedLogCall, logOffsets, logFilters

LEMMA LogArrivalsTyped == ASSUME LogsTyped, LogsArrive \/ LogsDeleted \/ PollLogs PROVE LogsTyped'
<1>1. CASE LogsArrive
  <2>1. PICK c \in logCalls : LogRows(c)
    BY <1>1 DEF LogsArrive
  <2>2. TypedLogCall(c)
    BY DEF LogsTyped
  <2> QED
    BY <2>1, <2>2 DEF LogRows, LogsTyped, LogsTypeOK, TypedLogCall, logOffsets, logFilters
<1>2. CASE LogsDeleted
  <2>1. logOffsetRef \in Nat
    BY DEF LogsTyped, LogsTypeOK
  <2>2. \A c \in logCalls' : TypedLogCall(c)
    BY <1>2, <2>1, LogCallsTyped DEF LogsDeleted, LogsTyped
  <2>3. selectedLogIds' \subseteq LogIds /\ logLoading' \in BOOLEAN
    BY <1>2 DEF LogsDeleted, LogsTyped, LogsTypeOK
  <2> QED
    BY <1>2, <2>2, <2>3 DEF LogsDeleted, LogsTyped, LogsTypeOK, TypedLogCall, logOffsets, logFilters
<1>3. CASE PollLogs
  <2>1. logOffsetRef \in Nat
    BY DEF LogsTyped, LogsTypeOK
  <2>2. /\ \A c \in logCalls' : TypedLogCall(c)
        /\ {logOffset', logOffsetRef'} \subseteq Nat /\ logLoading' \in BOOLEAN
    BY <1>3, <2>1, FetchTyped DEF PollLogs
  <2> QED
    BY <1>3, <2>2 DEF PollLogs, LogsTyped, LogsTypeOK, TypedLogCall, logFilters
<1> QED
  BY <1>1, <1>2, <1>3

LEMMA SetFiltersTyped ==
    ASSUME LogsTyped, NEW range \in Ranges, NEW conversation \in Conversations \cup {NoFilter},
           SetFilters(range, conversation), activeLogDetail' \in LogIds \cup {0}, logSteps' \in Nat
    PROVE  LogsTyped'
<1>1. /\ \A c \in logCalls' : TypedLogCall(c)
      /\ {logOffset', logOffsetRef'} \subseteq Nat /\ logLoading' \in BOOLEAN
  BY FetchTyped DEF SetFilters
<1> QED
  BY <1>1 DEF SetFilters, LogsTyped, LogsTypeOK, TypedLogCall

LEMMA LogGestureTyped == ASSUME LogsTyped, LogGesture, logSteps' \in Nat PROVE LogsTyped'
<1>1. filteredLogs \subseteq LogIds /\ LogsOffered \subseteq LogIds
  <2>1. logs \subseteq LogIds /\ activeLogDetail \in LogIds \cup {0}
    BY DEF LogsTyped, LogsTypeOK
  <2>2. filteredLogs \subseteq LogIds
    BY <2>1 DEF filteredLogs
  <2> QED
    BY <2>1, <2>2 DEF LogsOffered, LogsInReach
<1>2. /\ timeRange \in Ranges /\ {sessionFilter, NoFilter} \subseteq Conversations \cup {NoFilter}
      /\ logOffsetRef \in Nat /\ logOffset \in Nat
      /\ activeLogDetail \in LogIds \cup {0}
  BY DEF LogsTyped, LogsTypeOK
<1>3. CASE RecordWritten
  BY <1>3 DEF RecordWritten, LogsTyped, LogsTypeOK, logOffsets, logFilters
<1>4. CASE RefreshLogs \/ handleLogPageChange
  <2>1. PICK offset, filters : offset \in Nat /\ fetchLogs(offset, filters)
    <3>1. CASE RefreshLogs
      BY <1>2, <3>1 DEF RefreshLogs
    <3>2. CASE handleLogPageChange
      <4>1. PICK offset \in PagesOffered : offset >= 0 /\ fetchLogs(offset, Filters(timeRange, sessionFilter))
        BY <3>2 DEF handleLogPageChange
      <4>2. offset \in Int
        BY <1>2, LogsAssumption DEF PagesOffered
      <4> QED
        BY <4>1, <4>2
    <3> QED
      BY <1>4, <3>1, <3>2
  <2>2. /\ \A c \in logCalls' : TypedLogCall(c)
        /\ {logOffset', logOffsetRef'} \subseteq Nat /\ logLoading' \in BOOLEAN
    BY <2>1, FetchTyped
  <2> QED
    BY <1>4, <2>2 DEF RefreshLogs, handleLogPageChange, LogsTyped, LogsTypeOK, TypedLogCall, logFilters
<1>5. CASE SetTimeRange
  BY <1>2, <1>5, SetFiltersTyped DEF SetTimeRange
<1>6. CASE ClearSessionFilter
  BY <1>2, <1>6, SetFiltersTyped DEF ClearSessionFilter
<1>7. CASE FilterBySession
  <2>1. PICK i \in LogsOffered : SetFilters(timeRange, SessionOf[i]) /\ activeLogDetail' = 0
    BY <1>7 DEF FilterBySession
  <2>2. SessionOf[i] \in Conversations \cup {NoFilter}
    BY <1>1, LogsAssumption DEF LogIds
  <2> QED
    BY <1>2, <2>1, <2>2, SetFiltersTyped
<1>8. CASE SearchRows
  BY <1>8 DEF SearchRows, LogsTyped, LogsTypeOK, logOffsets, logFilters
<1>9. CASE TickAllLogs \/ TickLog
  <2>1. PICK ids : Ticked(ids) /\ ids \subseteq LogIds
    <3>1. selectedLogIds \subseteq LogIds
      BY DEF LogsTyped, LogsTypeOK
    <3>2. CASE TickAllLogs
      BY <1>1, <3>2 DEF TickAllLogs
    <3>3. CASE TickLog
      <4>1. PICK i \in filteredLogs : Ticked(IF i \in selectedLogIds THEN selectedLogIds \ {i} ELSE selectedLogIds \cup {i})
        BY <3>3 DEF TickLog
      <4>2. (IF i \in selectedLogIds THEN selectedLogIds \ {i} ELSE selectedLogIds \cup {i}) \subseteq LogIds
        BY <1>1, <3>1
      <4> QED
        BY <4>1, <4>2
    <3> QED
      BY <1>9, <3>2, <3>3
  <2> QED
    BY <2>1 DEF Ticked, LogsTyped, LogsTypeOK, logOffsets, logFilters
<1>10. CASE handleBatchDeleteLogs \/ handleClearLogs \/ handleDeleteSingleLog
  <2>1. PICK op, ids : ids \in SUBSET LogIds /\ AskToDelete(LogRequest(op, ids))
    BY <1>1, <1>10 DEF handleBatchDeleteLogs, handleClearLogs, handleDeleteSingleLog, LogsTyped, LogsTypeOK
  <2>2. \A c \in logCalls' : TypedLogCall(c)
    BY <2>1, LogCallsTyped DEF AskToDelete, LogsTyped
  <2>3. activeLogDetail' \in LogIds \cup {0}
    BY <1>2, <1>10 DEF handleBatchDeleteLogs, handleClearLogs, handleDeleteSingleLog
  <2> QED
    BY <2>1, <2>2, <2>3 DEF AskToDelete, LogsTyped, LogsTypeOK, TypedLogCall, logOffsets, logFilters
<1>11. CASE InspectLog
  BY <1>1, <1>11 DEF InspectLog, LogsTyped, LogsTypeOK, logOffsets, logFilters
<1> QED
  BY <1>3, <1>4, <1>5, <1>6, <1>7, <1>8, <1>9, <1>10, <1>11 DEF LogGesture

LEMMA LogsStepTyped == ASSUME LogsTyped, [LogsNext]_logVars PROVE LogsTyped'
<1>1. CASE UNCHANGED logVars
  BY <1>1 DEF logVars, logOffsets, logFilters, LogsTyped, LogsTypeOK
<1>2. logSteps' = logSteps + 1 => logSteps' \in Nat
  BY DEF LogsTyped
<1> QED
  BY <1>1, <1>2, LogAnswerTyped, LogArrivalsTyped, LogGestureTyped DEF LogsNext, LogsServed, LogsFail

-----------------------------------------------------------------------------
(* The types of the providers.                                             *)

Forms == [from : Channels \cup {NoChannel}, upstream : Upstreams \cup {NoUpstream}, models : Upstreams \cup {NoUpstream}]

TypedChannelCall(c) ==
    /\ DOMAIN c = {"op", "ids", "form", "served", "reply", "rows"}
    /\ c.ids \subseteq Channels /\ c.form \in Forms /\ c.rows \in [Channels -> Providers]

ChannelsTyped ==
    /\ ChannelsTypeOK
    /\ \A c \in channelCalls : TypedChannelCall(c)

LEMMA ChannelCallsTyped ==
    /\ Absent \in Providers /\ EmptyChannel \in Forms
    /\ \A op, ids, form : ids \subseteq Channels /\ form \in Forms => TypedChannelCall(ChannelCall(op, ids, form))
    /\ TypedChannelCall(fetchChannels)
<1>1. Absent \in Providers /\ EmptyChannel \in Forms
  BY DEF Absent, Providers, EmptyChannel, Forms
<1>2. \A op, ids, form : ids \subseteq Channels /\ form \in Forms => TypedChannelCall(ChannelCall(op, ids, form))
  BY <1>1 DEF TypedChannelCall, ChannelCall
<1> QED
  BY <1>1, <1>2 DEF fetchChannels

LEMMA ChannelsInitTyped == ASSUME ChannelsInit PROVE ChannelsTyped
  BY ChannelCallsTyped, ChannelsAssumption DEF ChannelsInit, ChannelsTyped, ChannelsTypeOK, Forms

\* What the server may make of the table.
LEMMA ProvidersTyped ==
    ASSUME ChannelsTyped, NEW c, TypedChannelCall(c), NEW table \in ProvidersAfter(c)
    PROVE  table \in [Channels -> Providers]
<1>1. providers \in [Channels -> Providers] /\ Absent \in Providers
  BY ChannelCallsTyped DEF ChannelsTyped, ChannelsTypeOK
<1>2. \A active \in BOOLEAN : [upstream |-> c.form.upstream, models |-> c.form.models, active |-> active] \in Providers
  BY DEF TypedChannelCall, Forms, Providers
<1>3. \A p \in Providers, active \in BOOLEAN : p.active \in BOOLEAN /\ [p EXCEPT !.active = active] \in Providers
  BY DEF Providers
<1>4. CASE c.op = "create"
  BY <1>1, <1>2, <1>4 DEF ProvidersAfter
<1>5. CASE c.op = "update"
  <2>1. table = [ch \in Channels |-> IF ch \in c.ids /\ providers[ch] # Absent
                     THEN [upstream |-> c.form.upstream, models |-> c.form.models, active |-> providers[ch].active]
                     ELSE providers[ch]]
    BY <1>5 DEF ProvidersAfter
  <2>2. \A ch \in Channels : table[ch] \in Providers
    BY <1>1, <1>2, <1>3, <2>1
  <2> QED
    BY <2>1, <2>2
<1>6. CASE c.op \in {"delete", "remove"}
  BY <1>1, <1>6 DEF ProvidersAfter
<1>7. CASE c.op \in {"enable", "disable"}
  <2>1. table = [ch \in Channels |-> IF ch \in c.ids /\ providers[ch] # Absent
                     THEN [providers[ch] EXCEPT !.active = (c.op = "enable")] ELSE providers[ch]]
    BY <1>7 DEF ProvidersAfter
  <2>2. \A ch \in Channels : table[ch] \in Providers
    BY <1>1, <1>3, <2>1
  <2> QED
    BY <2>1, <2>2
<1>8. CASE c.op \notin {"create", "update", "delete", "remove", "enable", "disable"}
  BY <1>1, <1>8 DEF ProvidersAfter
<1> QED
  BY <1>4, <1>5, <1>6, <1>7, <1>8

LEMMA ChannelAnswerTyped == ASSUME ChannelsTyped, ChannelAnswer PROVE ChannelsTyped'
<1>1. PICK c \in channelCalls, reply \in {"ok", "refused", "lost"} :
        /\ providers' = providers \/ providers' \in ProvidersAfter(c)
        /\ channelCalls' = (channelCalls \ {c}) \cup {[c EXCEPT !.served = TRUE, !.reply = reply, !.rows = providers']}
        /\ UNCHANGED <<channels, selectedChannelIds, channelForm, channelFlags, channelSteps>>
  BY DEF ChannelAnswer
<1>2. TypedChannelCall(c)
  BY DEF ChannelsTyped
<1>3. providers' \in [Channels -> Providers]
  BY <1>1, <1>2, ProvidersTyped DEF ChannelsTyped, ChannelsTypeOK
<1> DEFINE d == [c EXCEPT !.served = TRUE, !.reply = reply, !.rows = providers']
<1>4. TypedChannelCall(d)
  BY <1>2, <1>3 DEF TypedChannelCall
<1>5. channelCalls' = (channelCalls \ {c}) \cup {d}
  BY <1>1
<1> HIDE DEF d
<1>6. \A e \in channelCalls' : TypedChannelCall(e)
  BY <1>4, <1>5 DEF ChannelsTyped
<1> QED
  BY <1>1, <1>3, <1>6 DEF ChannelsTyped, ChannelsTypeOK, channelForm, channelFlags

LEMMA ChannelReturnsTyped ==
    ASSUME ChannelsTyped,
           \/ ChannelsArrive \/ SaveChannelReturns \/ ProbeReturns \/ TestReturns \/ PingReturns
           \/ DeleteChannelReturns \/ BatchReturns
    PROVE  ChannelsTyped'
<1>1. \A c \in channelCalls' : TypedChannelCall(c)
  <2>1. channelCalls' \subseteq channelCalls \cup {fetchChannels}
    BY DEF ChannelsArrive, SaveChannelReturns, ProbeReturns, TestReturns, PingReturns, DeleteChannelReturns,
           BatchReturns, Close
  <2> QED
    BY <2>1, ChannelCallsTyped DEF ChannelsTyped
<1>2. \A c \in channelCalls : TypedChannelCall(c)
  BY DEF ChannelsTyped
<1>3. CASE ChannelsArrive
  BY <1>1, <1>2, <1>3 DEF ChannelsArrive, ChannelsTyped, ChannelsTypeOK, TypedChannelCall, channelForm, channelFlags
<1>4. CASE SaveChannelReturns
  BY <1>1, <1>4, ChannelCallsTyped DEF SaveChannelReturns, ChannelsTyped, ChannelsTypeOK, channelForm, channelFlags, Forms
<1>5. CASE ProbeReturns
  <2>1. newChannel \in Forms
    BY DEF ChannelsTyped, ChannelsTypeOK, Forms
  <2>2. newChannel' \in Forms
    BY <1>2, <1>5, <2>1 DEF ProbeReturns, TypedChannelCall, Forms
  <2> QED
    BY <1>1, <1>5, <2>2 DEF ProbeReturns, ChannelsTyped, ChannelsTypeOK, Forms
<1>6. CASE TestReturns \/ PingReturns
  BY <1>1, <1>2, <1>6 DEF TestReturns, PingReturns, ChannelsTyped, ChannelsTypeOK, TypedChannelCall, channelForm
<1>7. CASE DeleteChannelReturns \/ BatchReturns
  BY <1>1, <1>7 DEF DeleteChannelReturns, BatchReturns, ChannelsTyped, ChannelsTypeOK, channelForm, channelFlags
<1> QED
  BY <1>3, <1>4, <1>5, <1>6, <1>7

LEMMA ChannelRowsTyped ==
    ASSUME ChannelsTyped, channelSteps' \in Nat,
           \/ PollChannels \/ TickChannels \/ handleBatchChannels \/ handleDeleteChannel \/ handleTestChannel
           \/ handleBatchPing \/ triggerProbe \/ handleCreateChannel
    PROVE  ChannelsTyped'
<1>1. Present(channels) \subseteq Channels /\ RowButtons \subseteq Channels
  BY DEF Present, RowButtons
<1>2. \A c \in channelCalls' : TypedChannelCall(c)
  <2>1. CASE TickChannels
    BY <2>1 DEF TickChannels, ChannelsTyped
  <2>2. CASE PollChannels
    BY <2>2, ChannelCallsTyped DEF PollChannels, Request, ChannelsTyped
  <2>3. newChannel \in Forms /\ EmptyChannel \in Forms /\ selectedChannelIds \subseteq Channels
        /\ editingChannelId \in Channels \cup {NoChannel}
    BY ChannelCallsTyped DEF ChannelsTyped, ChannelsTypeOK, Forms
  <2>4. CASE handleBatchChannels \/ handleDeleteChannel \/ handleTestChannel \/ handleBatchPing \/ triggerProbe
             \/ handleCreateChannel
    <3>1. PICK op, ids, form : ids \subseteq Channels /\ form \in Forms /\ Request(ChannelCall(op, ids, form))
      <4>1. CASE handleCreateChannel
        BY <2>3, <4>1 DEF handleCreateChannel
      <4>2. CASE triggerProbe
        BY <2>3, <4>2 DEF triggerProbe
      <4>3. CASE handleBatchChannels \/ handleDeleteChannel \/ handleTestChannel \/ handleBatchPing
        BY <1>1, <2>3, <4>3 DEF handleBatchChannels, handleDeleteChannel, handleTestChannel, handleBatchPing
      <4> QED
        BY <2>4, <4>1, <4>2, <4>3
    <3> QED
      BY <3>1, ChannelCallsTyped DEF Request, ChannelsTyped
  <2> QED
    BY <2>1, <2>2, <2>4
<1>3. CASE PollChannels \/ handleBatchChannels \/ handleDeleteChannel \/ handleCreateChannel
  BY <1>2, <1>3 DEF PollChannels, handleBatchChannels, handleDeleteChannel, handleCreateChannel, Request,
     ChannelsTyped, ChannelsTypeOK, channelForm, channelFlags
<1>4. CASE TickChannels
  BY <1>1, <1>2, <1>4 DEF TickChannels, ChannelsTyped, ChannelsTypeOK, channelForm, channelFlags
<1>5. CASE handleTestChannel \/ handleBatchPing \/ triggerProbe
  BY <1>1, <1>2, <1>5 DEF handleTestChannel, handleBatchPing, triggerProbe, Request, ChannelsTyped, ChannelsTypeOK,
     channelForm
<1> QED
  BY <1>3, <1>4, <1>5

LEMMA ChannelFormTyped ==
    ASSUME ChannelsTyped, channelSteps' \in Nat,
           \/ openNewChannelModal \/ OpenFromDashboard \/ handleEditChannel \/ CloseChannelModal
           \/ TypeUpstream \/ TypeModels \/ applyPreset
    PROVE  ChannelsTyped'
<1>1. newChannel \in Forms /\ EmptyChannel \in Forms
  BY ChannelCallsTyped DEF ChannelsTyped, ChannelsTypeOK, Forms
<1>2. RowButtons \subseteq Channels
  BY DEF Present, RowButtons
<1>3. channels \in [Channels -> Providers]
  BY DEF ChannelsTyped, ChannelsTypeOK
<1>4. newChannel' \in Forms
  <2>1. CASE openNewChannelModal \/ OpenFromDashboard \/ CloseChannelModal
    BY <1>1, <2>1 DEF openNewChannelModal, OpenFromDashboard, CloseChannelModal
  <2>2. CASE handleEditChannel
    BY <1>2, <1>3, <2>2 DEF handleEditChannel, Forms, Providers
  <2>3. CASE TypeUpstream \/ TypeModels
    BY <1>1, <2>3 DEF TypeUpstream, TypeModels, Typed, Forms
  <2>4. CASE applyPreset
    BY <1>1, <2>4 DEF applyPreset, Typed, Forms
  <2> QED
    BY <2>1, <2>2, <2>3, <2>4
<1>5. showChannelModal' \in BOOLEAN /\ editingChannelId' \in Channels \cup {NoChannel}
  BY <1>2 DEF openNewChannelModal, OpenFromDashboard, handleEditChannel, CloseChannelModal, TypeUpstream, TypeModels,
     applyPreset, Typed, ChannelsTyped, ChannelsTypeOK
<1>6. ChannelFormOnly
  BY DEF openNewChannelModal, OpenFromDashboard, handleEditChannel, CloseChannelModal, TypeUpstream, TypeModels,
     applyPreset, Typed
<1> QED
  BY <1>4, <1>5, <1>6 DEF ChannelFormOnly, ChannelsTyped, ChannelsTypeOK, Forms, channelFlags

LEMMA ChannelsStepTyped == ASSUME ChannelsTyped, [ChannelsNext]_channelVars PROVE ChannelsTyped'
<1>1. CASE UNCHANGED channelVars
  BY <1>1 DEF channelVars, channelForm, channelFlags, ChannelsTyped, ChannelsTypeOK
<1>2. channelSteps' = channelSteps + 1 => channelSteps' \in Nat
  BY DEF ChannelsTyped, ChannelsTypeOK
<1> QED
  BY <1>1, <1>2, ChannelAnswerTyped, ChannelReturnsTyped, ChannelRowsTyped, ChannelFormTyped
     DEF ChannelsNext, ChannelArrivals

-----------------------------------------------------------------------------
(* The types of the session.                                               *)

\* Where the page is, and what it shows of its dialogs.
SessionPlaced ==
    /\ expired \subseteq People
    /\ viewMode \in Views /\ pollView \in Views /\ currentTab \in Tabs /\ authTab \in {"login", "register"}
    /\ showLoginModal \in BOOLEAN /\ showAccountModal \in BOOLEAN
    /\ door \in [busy : BOOLEAN, sending : BOOLEAN, countdown : 0..2]

LEMMA SessionTypes == SessionInv /\ SessionPlaced => SessionTypeOK
  BY DEF SessionInv, SessionPlaced, SessionTypeOK

LEMMA WhereRoutesLead ==
    ASSUME NEW hash \in {"", "landing", "status", "login", "register"} \cup Tabs, NEW token, NEW user
    PROVE  Route(hash, token, user).view \in Views /\ Route(hash, token, user).tab \in Tabs
<1>1. defaultTab(user) \in Tabs /\ "wallet" \in Tabs
  BY SessionAssumption DEF defaultTab
<1>2. CASE hash \in {"status", "landing"}
  BY <1>1, <1>2 DEF Route, Views
<1>3. CASE hash \in {"login", "register"}
  BY <1>1, <1>3 DEF Route, Views
<1>4. CASE hash \notin {"status", "landing", "login", "register"} /\ hash \in Tabs /\ token # NoOne
  BY <1>1, <1>4, SessionAssumption DEF Route, Views, AdminOnlyTabs, allowedTabs
<1>5. CASE hash \notin {"status", "landing", "login", "register"} /\ ~(hash \in Tabs /\ token # NoOne)
  BY <1>1, <1>5 DEF Route, Views
<1> QED
  BY <1>2, <1>3, <1>4, <1>5

LEMMA SessionInitPlaced == ASSUME SessionInit PROVE SessionPlaced
<1>1. viewMode \in Views
  BY WhereRoutesLead DEF SessionInit
<1>2. currentTab \in Tabs
  BY SessionAssumption DEF SessionInit, defaultTab
<1>3. FreshDoor \in [busy : BOOLEAN, sending : BOOLEAN, countdown : 0..2]
  BY DEF FreshDoor
<1> QED
  BY <1>1, <1>2, <1>3, ZenonT(30) DEF SessionInit, SessionPlaced

\* A render leads to a place when its step does.
LEMMA RenderPlaces ==
    ASSUME SessionPlaced, NEW view \in Views, NEW tab \in Tabs, GoTo(view, tab), NEW calls, FormGoes(calls)
    PROVE  /\ viewMode' \in Views /\ pollView' \in Views /\ currentTab' \in Tabs
           /\ door' \in [busy : BOOLEAN, sending : BOOLEAN, countdown : 0..2]
<1>1. viewMode' \in Views /\ currentTab' \in Tabs
  BY SessionAssumption DEF GoTo, Guarded
<1>2. FreshDoor \in [busy : BOOLEAN, sending : BOOLEAN, countdown : 0..2]
  BY DEF FreshDoor
<1>3. door' \in {FreshDoor, door} /\ \E more : Rendered(more)
  BY DEF FormGoes
<1>4. pollView' \in {viewMode', pollView}
  BY <1>3 DEF Rendered
<1> QED
  BY <1>1, <1>2, <1>3, <1>4 DEF SessionPlaced

LEMMA SessionArrivalsPlaced == ASSUME SessionInv, SessionPlaced, SessionArrivals PROVE SessionPlaced'
<1>1. viewMode \in Views /\ currentTab \in Tabs /\ "landing" \in Views /\ "console" \in Views
  BY DEF SessionPlaced, Views
<1>2. \A user : defaultTab(user) \in Tabs
  BY SessionAssumption DEF defaultTab
<1>3. CASE SessionAnswer
  BY <1>3 DEF SessionAnswer, SessionPlaced, place, dialogs
<1>4. CASE StartReturns \/ ApiReturns \/ SessionProfileArrives \/ UserUpdated \/ LoginReturns \/ PasswordReturns
  <2>1. PICK view, tab, calls : view \in Views /\ tab \in Tabs /\ GoTo(view, tab) /\ FormGoes(calls)
    <3>1. CASE StartReturns
      BY <1>1, <3>1 DEF StartReturns
    <3>2. CASE ApiReturns \/ SessionProfileArrives \/ PasswordReturns
      BY <1>1, <3>2 DEF ApiReturns, SessionProfileArrives, PasswordReturns
    <3>3. CASE UserUpdated
      BY <1>1, <3>3 DEF UserUpdated
    <3>4. CASE LoginReturns
      BY <1>1, <1>2, <3>4 DEF LoginReturns
    <3> QED
      BY <1>4, <3>1, <3>2, <3>3, <3>4
  <2>2. /\ viewMode' \in Views /\ pollView' \in Views /\ currentTab' \in Tabs
        /\ door' \in [busy : BOOLEAN, sending : BOOLEAN, countdown : 0..2]
    BY <2>1, RenderPlaces
  <2>3. showLoginModal' \in BOOLEAN /\ showAccountModal' \in BOOLEAN /\ expired' = expired /\ authTab' = authTab
    <3>1. CASE StartReturns
      BY <3>1, Zenon DEF StartReturns, SessionPlaced
    <3>2. CASE ApiReturns \/ PasswordReturns
      BY <3>2 DEF ApiReturns, PasswordReturns, SessionPlaced
    <3>3. CASE SessionProfileArrives \/ UserUpdated \/ LoginReturns
      BY <3>3 DEF SessionProfileArrives, UserUpdated, LoginReturns, SessionPlaced
    <3> QED
      BY <1>4, <3>1, <3>2, <3>3
  <2> QED
    BY <2>2, <2>3 DEF SessionPlaced
<1>5. CASE LoginFails \/ CodeReturns \/ CountDown
  <2>1. door' \in [busy : BOOLEAN, sending : BOOLEAN, countdown : 0..2]
    <3>1. CASE LoginFails
      BY <3>1 DEF LoginFails, SessionPlaced
    <3>2. CASE CodeReturns
      <4>1. \A n \in 0..2 : [door EXCEPT !.sending = FALSE, !.countdown = n]
                                            \in [busy : BOOLEAN, sending : BOOLEAN, countdown : 0..2]
        BY DEF SessionPlaced
      <4>2. door \in [busy : BOOLEAN, sending : BOOLEAN, countdown : 0..2]
        BY DEF SessionPlaced
      <4>3. PICK n \in {2, door.countdown} : door' \in {door, [door EXCEPT !.sending = FALSE, !.countdown = n]}
        BY <3>2 DEF CodeReturns
      <4>4. n \in 0..2
        BY <4>2
      <4> QED
        BY <4>1, <4>2, <4>3, <4>4
    <3>3. CASE CountDown
      BY <3>3 DEF CountDown, SessionPlaced
    <3> QED
      BY <1>5, <3>1, <3>2, <3>3
  <2> QED
    BY <1>5, <2>1 DEF LoginFails, CodeReturns, CountDown, SessionPlaced, place
<1> QED
  BY <1>3, <1>4, <1>5 DEF SessionArrivals

LEMMA SessionWaysPlaced ==
    ASSUME SessionInv, SessionPlaced,
           FromLanding \/ FromStatus \/ FromAuth \/ FromMenu \/ handleLocationChange \/ handleLogout \/ CloseLogin
    PROVE  SessionPlaced'
<1>1. viewMode \in Views /\ currentTab \in Tabs
  BY DEF SessionPlaced
<1>2. EnterConsole \in Views /\ {"landing", "status", "auth", "console"} \subseteq Views /\ "docs" \in Tabs
  BY SessionAssumption DEF EnterConsole, Views
<1>3. PICK view, tab, calls : view \in Views /\ tab \in Tabs /\ GoTo(view, tab) /\ FormGoes(calls)
  <2>1. CASE FromLanding
    <3>1. PICK to \in {<<view, currentTab>> : view \in LandingTop} \cup LandingDocs : Navigate(to[1], to[2])
      BY <2>1 DEF FromLanding
    <3>2. to[1] \in Views /\ to[2] \in Tabs
      BY <1>1, <1>2 DEF LandingTop, LandingDocs
    <3> QED
      BY <3>1, <3>2 DEF Navigate
  <2>2. CASE FromStatus \/ FromAuth
    BY <1>1, <1>2, <2>2 DEF FromStatus, FromAuth, Navigate
  <2>3. CASE FromMenu
    BY <1>1, <1>2, <2>3 DEF FromMenu, AdminMenu, MemberMenu, Outside, Navigate
  <2>4. CASE handleLocationChange
    BY <2>4, WhereRoutesLead DEF handleLocationChange, Navigate
  <2>5. CASE handleLogout \/ CloseLogin
    BY <1>1, <1>2, <2>5 DEF handleLogout, CloseLogin
  <2> QED
    BY <2>1, <2>2, <2>3, <2>4, <2>5
<1>4. /\ viewMode' \in Views /\ pollView' \in Views /\ currentTab' \in Tabs
      /\ door' \in [busy : BOOLEAN, sending : BOOLEAN, countdown : 0..2]
  BY <1>3, RenderPlaces
<1>5. showLoginModal' \in BOOLEAN /\ showAccountModal' \in BOOLEAN /\ expired' = expired
  BY DEF FromLanding, FromStatus, FromAuth, FromMenu, handleLocationChange, handleLogout, CloseLogin, Navigate,
         SessionPlaced
<1>6. authTab' \in {"login", "register"}
  BY DEF FromLanding, FromStatus, FromAuth, FromMenu, handleLocationChange, handleLogout, CloseLogin, SessionPlaced
<1> QED
  BY <1>4, <1>5, <1>6 DEF SessionPlaced

LEMMA SessionGesturesPlaced ==
    ASSUME SessionInv, SessionPlaced,
           \/ TokenExpires \/ PollFires \/ Reload \/ OpenWallet \/ OpenAccount \/ CloseAccount
           \/ handleChangePassword \/ handleLoginSubmit \/ handleRegisterSubmit \/ handleOAuthLogin
           \/ DialogOAuthLogin \/ handleSendCode
    PROVE  SessionPlaced'
<1>1. CASE TokenExpires \/ PollFires \/ OpenWallet \/ handleChangePassword
  BY <1>1 DEF TokenExpires, PollFires, OpenWallet, handleChangePassword, SessionPlaced, place, dialogs
<1>2. CASE OpenAccount \/ CloseAccount
  BY <1>2 DEF OpenAccount, CloseAccount, SessionPlaced, place
<1>3. CASE handleLoginSubmit \/ handleRegisterSubmit \/ handleOAuthLogin \/ DialogOAuthLogin \/ handleSendCode
  <2>1. door' \in [busy : BOOLEAN, sending : BOOLEAN, countdown : 0..2]
    BY <1>3 DEF handleLoginSubmit, handleRegisterSubmit, handleOAuthLogin, DialogOAuthLogin, handleSendCode, SessionPlaced
  <2>2. UNCHANGED <<expired, stored, place, session, pollToken, pollView, showLoginModal, showAccountModal>>
    BY <1>3 DEF handleLoginSubmit, handleRegisterSubmit, handleOAuthLogin, DialogOAuthLogin, handleSendCode, SendFromDoor
  <2> QED
    BY <2>1, <2>2 DEF SessionPlaced, place
<1>4. CASE Reload
  <2>1. PICK hash \in targetHash : Load(hash, storedToken, storedUser)
    BY <1>4 DEF Reload
  <2>2. hash \in {"", "landing", "status", "login", "register"} \cup Tabs
    BY DEF targetHash, SessionPlaced
  <2>3. viewMode' \in Views /\ pollView' \in Views /\ currentTab' \in Tabs
    BY <2>1, <2>2, WhereRoutesLead DEF Load
  <2>4. door' \in [busy : BOOLEAN, sending : BOOLEAN, countdown : 0..2]
    BY <2>1 DEF Load, FreshDoor
  <2> QED
    BY <1>4, <2>1, <2>3, <2>4 DEF Reload, Load, SessionPlaced
<1> QED
  BY <1>1, <1>2, <1>3, <1>4

LEMMA SessionStepPlaced == ASSUME SessionInv, SessionPlaced, [SessionNext]_sessionVars PROVE SessionPlaced'
<1>1. CASE UNCHANGED sessionVars
  BY <1>1 DEF sessionVars, place, dialogs, SessionPlaced
<1> QED
  BY <1>1, SessionArrivalsPlaced, SessionWaysPlaced, SessionGesturesPlaced DEF SessionNext

-----------------------------------------------------------------------------
\* The rows, forms, flags, requests and answers of each page are of their
\* kinds, whatever is typed, late or lost.
THEOREM UsersTypeCorrect == UsersSpec => []UsersTypeOK
<1>1. UsersTyped => UsersTypeOK
  BY DEF UsersTyped
<1>2. UsersTyped /\ [UsersNext]_userVars => UsersTyped'
  BY UsersStepTyped
<1> QED
  BY UsersInitTyped, <1>1, <1>2, PTL DEF UsersSpec

\* The same of the wallet page: balances, cards and the way to pay.
THEOREM WalletTypeCorrect == WalletPageSpec => []WalletPageTypeOK
<1>1. WalletTyped => WalletPageTypeOK
  BY DEF WalletTyped
<1>2. WalletTyped /\ [WalletPageNext]_walletVars => WalletTyped'
  BY WalletStepTyped
<1> QED
  BY WalletInitTyped, <1>1, <1>2, PTL DEF WalletPageSpec

\* The same of the logs: no offset below zero is ever asked for.
THEOREM LogsTypeCorrect == LogsSpec => []LogsTypeOK
<1>1. LogsTyped => LogsTypeOK
  BY DEF LogsTyped
<1>2. LogsTyped /\ [LogsNext]_logVars => LogsTyped'
  BY LogsStepTyped
<1> QED
  BY LogsInitTyped, <1>1, <1>2, PTL DEF LogsSpec

\* The same of the providers: rows, and the form that is filled from them.
THEOREM ChannelsTypeCorrect == ChannelsSpec => []ChannelsTypeOK
<1>1. ChannelsTyped => ChannelsTypeOK
  BY DEF ChannelsTyped
<1>2. ChannelsTyped /\ [ChannelsNext]_channelVars => ChannelsTyped'
  BY ChannelsStepTyped
<1> QED
  BY ChannelsInitTyped, <1>1, <1>2, PTL DEF ChannelsSpec

\* The same of the session: any hash leads to a view and a tab there is.
THEOREM SessionTypeCorrect == SessionSpec => []SessionTypeOK
<1>1. SessionInv /\ SessionPlaced /\ [SessionNext]_sessionVars => SessionPlaced'
  BY SessionStepPlaced
<1> QED
  BY SessionInitPlaced, <1>1, SessionInvHolds, SessionTypes, PTL DEF SessionSpec
=============
