----------------------------- MODULE Wallet_proofs -----------------------------
(***************************************************************************)
(* Proofs about Wallet, for any number of workers, users, codes and orders *)
(* and on either database.                                                 *)
(***************************************************************************)
EXTENDS Wallet, SumTheorems

(* A transaction that has marked a code used and not committed is the only *)
(* one, and the code is still active for everyone else.                    *)
MarkedIsActive ==
    \A w \in Workers : \A c \in Codes : HoldsVoucher(w, c) => codes[c] = "active"

OneHolder ==
    \A c \in Codes : \A w, q \in Workers : HoldsVoucher(w, c) /\ HoldsVoucher(q, c) => w = q

(* The user row that was credited stays as it was found until the commit.  *)
HitIsCurrent ==
    \A w \in Workers : tx[w].pc = "credited" => (tx[w].hit <=> tx[w].user \in users)

\* A redemption is for a user.
RedeemedForAUser ==
    \A w \in Workers : tx[w].voucher \in Codes => tx[w].user \in Users

IInv ==
    /\ TypeOK
    /\ MarkedIsActive
    /\ OneHolder
    /\ HitIsCurrent
    /\ RedeemedForAUser
    /\ CodeCreditedOnce

(* The initial states satisfy the inductive invariant. *)
LEMMA InitInvariant == Init => IInv
<1> SUFFICES ASSUME Init PROVE IInv
    OBVIOUS
<1> USE DEF Init, Idle
<1>1. TypeOK
    BY WalletAssumption DEF TypeOK, Transaction
<1>2. MarkedIsActive /\ OneHolder /\ HitIsCurrent
    BY DEF MarkedIsActive, OneHolder, HitIsCurrent, HoldsVoucher
<1>3. RedeemedForAUser
    BY WalletAssumption DEF RedeemedForAUser, Vouchers
<1>4. CodeCreditedOnce
    BY DEF CodeCreditedOnce, Vouchers
<1> QED
    BY <1>1, <1>2, <1>3, <1>4 DEF IInv

(* Every step keeps the inductive invariant. *)
LEMMA StepInvariant == IInv /\ [Next]_vars => IInv'
<1> SUFFICES ASSUME IInv, [Next]_vars PROVE IInv'
    OBVIOUS
<1> USE WalletAssumption DEF IInv
<1>1. ASSUME NEW w \in Workers, NEW c \in Codes, NEW u \in Users, RedeemSelect(w, c, u) PROVE IInv'
    <2> USE <1>1 DEF RedeemSelect, Rollback, Idle, userVars, codeVars, orderVars, Vouchers
    <2>1. TypeOK'
        BY DEF TypeOK, Transaction
    <2>2. MarkedIsActive'
        BY DEF TypeOK, Transaction, MarkedIsActive, OneHolder, HoldsVoucher, VoucherRowFree
    <2>3. OneHolder'
        BY DEF TypeOK, Transaction, OneHolder, HoldsVoucher, VoucherRowFree
    <2>4. HitIsCurrent'
        BY DEF TypeOK, Transaction, HitIsCurrent, HoldsUser, UserRowFree
    <2>5. RedeemedForAUser'
        BY DEF TypeOK, Transaction, RedeemedForAUser
    <2>6. CodeCreditedOnce'
        BY DEF TypeOK, Transaction, CodeCreditedOnce, MarkedIsActive, HoldsVoucher
    <2> QED
        BY <2>1, <2>2, <2>3, <2>4, <2>5, <2>6
<1>2. ASSUME NEW w \in Workers, NEW o \in Orders, NEW u \in Users, SandboxRecharge(w, o, u) PROVE IInv'
    <2> USE <1>2 DEF SandboxRecharge, Rollback, Idle, userVars, codeVars, orderVars, Vouchers, InsertOrder
    <2>1. TypeOK'
        <3>1. tx'[w] \in Transaction
            BY DEF TypeOK, Transaction
        <3> QED
            BY <3>1 DEF TypeOK
    <2>2. MarkedIsActive'
        BY DEF TypeOK, Transaction, MarkedIsActive, OneHolder, HoldsVoucher, VoucherRowFree
    <2>3. OneHolder'
        BY DEF TypeOK, Transaction, OneHolder, HoldsVoucher, VoucherRowFree
    <2>4. HitIsCurrent'
        BY DEF TypeOK, Transaction, HitIsCurrent, HoldsUser, UserRowFree
    <2>5. RedeemedForAUser'
        BY DEF TypeOK, Transaction, RedeemedForAUser
    <2>6. CodeCreditedOnce'
        BY DEF TypeOK, Transaction, CodeCreditedOnce, MarkedIsActive, HoldsVoucher
    <2> QED
        BY <2>1, <2>2, <2>3, <2>4, <2>5, <2>6
<1>3. ASSUME NEW w \in Workers, NEW o \in Orders, StripeWebhook(w, o) PROVE IInv'
    <2> USE <1>3 DEF StripeWebhook, Rollback, Idle, userVars, codeVars, orderVars, Vouchers
    <2>1. TypeOK'
        BY DEF TypeOK, Transaction
    <2>2. MarkedIsActive'
        BY DEF TypeOK, Transaction, MarkedIsActive, OneHolder, HoldsVoucher, VoucherRowFree
    <2>3. OneHolder'
        BY DEF TypeOK, Transaction, OneHolder, HoldsVoucher, VoucherRowFree
    <2>4. HitIsCurrent'
        BY DEF TypeOK, Transaction, HitIsCurrent, HoldsUser, UserRowFree
    <2>5. RedeemedForAUser'
        BY DEF TypeOK, Transaction, RedeemedForAUser
    <2>6. CodeCreditedOnce'
        BY DEF TypeOK, Transaction, CodeCreditedOnce, MarkedIsActive, HoldsVoucher
    <2> QED
        BY <2>1, <2>2, <2>3, <2>4, <2>5, <2>6
<1>4. ASSUME NEW w \in Workers, CompleteSelect(w) PROVE IInv'
    <2> USE <1>4 DEF CompleteSelect, Rollback, Idle, userVars, codeVars, orderVars, Vouchers
    <2>1. TypeOK'
        BY DEF TypeOK, Transaction
    <2>2. MarkedIsActive'
        BY DEF TypeOK, Transaction, MarkedIsActive, OneHolder, HoldsVoucher, VoucherRowFree
    <2>3. OneHolder'
        BY DEF TypeOK, Transaction, OneHolder, HoldsVoucher, VoucherRowFree
    <2>4. HitIsCurrent'
        BY DEF TypeOK, Transaction, HitIsCurrent, HoldsUser, UserRowFree
    <2>5. RedeemedForAUser'
        BY DEF TypeOK, Transaction, RedeemedForAUser
    <2>6. CodeCreditedOnce'
        BY DEF TypeOK, Transaction, CodeCreditedOnce, MarkedIsActive, HoldsVoucher
    <2> QED
        BY <2>1, <2>2, <2>3, <2>4, <2>5, <2>6
<1>5. ASSUME NEW w \in Workers, MarkUsed(w) PROVE IInv'
    <2> USE <1>5 DEF MarkUsed, Rollback, Idle, userVars, codeVars, orderVars, Vouchers
    <2>1. TypeOK'
        BY DEF TypeOK, Transaction
    <2>2. MarkedIsActive'
        BY DEF TypeOK, Transaction, MarkedIsActive, OneHolder, HoldsVoucher, VoucherRowFree
    <2>3. OneHolder'
        BY DEF TypeOK, Transaction, OneHolder, HoldsVoucher, VoucherRowFree
    <2>4. HitIsCurrent'
        BY DEF TypeOK, Transaction, HitIsCurrent, HoldsUser, UserRowFree
    <2>5. RedeemedForAUser'
        BY DEF TypeOK, Transaction, RedeemedForAUser
    <2>6. CodeCreditedOnce'
        BY DEF TypeOK, Transaction, CodeCreditedOnce, MarkedIsActive, HoldsVoucher
    <2> QED
        BY <2>1, <2>2, <2>3, <2>4, <2>5, <2>6
<1>6. ASSUME NEW w \in Workers, MarkPaid(w) PROVE IInv'
    <2> USE <1>6 DEF MarkPaid, Rollback, Idle, userVars, codeVars, orderVars, Vouchers
    <2>1. TypeOK'
        BY DEF TypeOK, Transaction
    <2>2. MarkedIsActive'
        BY DEF TypeOK, Transaction, MarkedIsActive, OneHolder, HoldsVoucher, VoucherRowFree
    <2>3. OneHolder'
        BY DEF TypeOK, Transaction, OneHolder, HoldsVoucher, VoucherRowFree
    <2>4. HitIsCurrent'
        BY DEF TypeOK, Transaction, HitIsCurrent, HoldsUser, UserRowFree
    <2>5. RedeemedForAUser'
        BY DEF TypeOK, Transaction, RedeemedForAUser
    <2>6. CodeCreditedOnce'
        BY DEF TypeOK, Transaction, CodeCreditedOnce, MarkedIsActive, HoldsVoucher
    <2> QED
        BY <2>1, <2>2, <2>3, <2>4, <2>5, <2>6
<1>7. ASSUME NEW w \in Workers, Credit(w) PROVE IInv'
    <2> USE <1>7 DEF Credit, Rollback, Idle, userVars, codeVars, orderVars, Vouchers
    <2>1. TypeOK'
        <3>1. (tx[w].user \in users) \in BOOLEAN
            OBVIOUS
        <3>2. tx[w] \in Transaction
            BY DEF TypeOK, Transaction
        <3>3. tx'[w] \in Transaction
            BY <3>1, <3>2 DEF TypeOK, Transaction
        <3> QED
            BY <3>3 DEF TypeOK
    <2>2. MarkedIsActive'
        BY DEF TypeOK, Transaction, MarkedIsActive, OneHolder, HoldsVoucher, VoucherRowFree
    <2>3. OneHolder'
        BY DEF TypeOK, Transaction, OneHolder, HoldsVoucher, VoucherRowFree
    <2>4. HitIsCurrent'
        BY DEF TypeOK, Transaction, HitIsCurrent, HoldsUser, UserRowFree
    <2>5. RedeemedForAUser'
        BY DEF TypeOK, Transaction, RedeemedForAUser
    <2>6. CodeCreditedOnce'
        BY DEF TypeOK, Transaction, CodeCreditedOnce, MarkedIsActive, HoldsVoucher
    <2> QED
        BY <2>1, <2>2, <2>3, <2>4, <2>5, <2>6
<1>8. ASSUME NEW w \in Workers, Commit(w) PROVE IInv'
    <2> USE <1>8 DEF Commit, Rollback, Idle, userVars, codeVars, orderVars, Vouchers
    <2>1. TypeOK'
        BY DEF TypeOK, Transaction
    <2>2. MarkedIsActive'
        BY DEF TypeOK, Transaction, MarkedIsActive, OneHolder, HoldsVoucher, VoucherRowFree
    <2>3. OneHolder'
        BY DEF TypeOK, Transaction, OneHolder, HoldsVoucher, VoucherRowFree
    <2>4. HitIsCurrent'
        BY DEF TypeOK, Transaction, HitIsCurrent, HoldsUser, UserRowFree
    <2>5. RedeemedForAUser'
        BY DEF TypeOK, Transaction, RedeemedForAUser
    <2>6. CodeCreditedOnce'
        BY DEF TypeOK, Transaction, CodeCreditedOnce, MarkedIsActive, HoldsVoucher
    <2> QED
        BY <2>1, <2>2, <2>3, <2>4, <2>5, <2>6
<1>9. ASSUME NEW w \in Workers, Abort(w) PROVE IInv'
    <2> USE <1>9 DEF Abort, Rollback, Idle, userVars, codeVars, orderVars, Vouchers
    <2>1. TypeOK'
        BY DEF TypeOK, Transaction
    <2>2. MarkedIsActive'
        BY DEF TypeOK, Transaction, MarkedIsActive, OneHolder, HoldsVoucher, VoucherRowFree
    <2>3. OneHolder'
        BY DEF TypeOK, Transaction, OneHolder, HoldsVoucher, VoucherRowFree
    <2>4. HitIsCurrent'
        BY DEF TypeOK, Transaction, HitIsCurrent, HoldsUser, UserRowFree
    <2>5. RedeemedForAUser'
        BY DEF TypeOK, Transaction, RedeemedForAUser
    <2>6. CodeCreditedOnce'
        BY DEF TypeOK, Transaction, CodeCreditedOnce, MarkedIsActive, HoldsVoucher
    <2> QED
        BY <2>1, <2>2, <2>3, <2>4, <2>5, <2>6
<1>10. ASSUME NEW o \in Orders, NEW u \in Users, CreateStripeRechargeSession(o, u) PROVE IInv'
    <2> USE <1>10 DEF CreateStripeRechargeSession, Rollback, Idle, userVars, codeVars, orderVars, Vouchers, InsertOrder
    <2>1. TypeOK'
        BY DEF TypeOK, Transaction
    <2>2. MarkedIsActive'
        BY DEF TypeOK, Transaction, MarkedIsActive, OneHolder, HoldsVoucher, VoucherRowFree
    <2>3. OneHolder'
        BY DEF TypeOK, Transaction, OneHolder, HoldsVoucher, VoucherRowFree
    <2>4. HitIsCurrent'
        BY DEF TypeOK, Transaction, HitIsCurrent, HoldsUser, UserRowFree
    <2>5. RedeemedForAUser'
        BY DEF TypeOK, Transaction, RedeemedForAUser
    <2>6. CodeCreditedOnce'
        BY DEF TypeOK, Transaction, CodeCreditedOnce, MarkedIsActive, HoldsVoucher
    <2> QED
        BY <2>1, <2>2, <2>3, <2>4, <2>5, <2>6
<1>11. ASSUME NEW c \in Codes, CreateRedemptionCode(c) PROVE IInv'
    <2> USE <1>11 DEF CreateRedemptionCode, Rollback, Idle, userVars, codeVars, orderVars, Vouchers
    <2>1. TypeOK'
        BY DEF TypeOK, Transaction
    <2>2. MarkedIsActive'
        BY DEF TypeOK, Transaction, MarkedIsActive, OneHolder, HoldsVoucher, VoucherRowFree
    <2>3. OneHolder'
        BY DEF TypeOK, Transaction, OneHolder, HoldsVoucher, VoucherRowFree
    <2>4. HitIsCurrent'
        BY DEF TypeOK, Transaction, HitIsCurrent, HoldsUser, UserRowFree
    <2>5. RedeemedForAUser'
        BY DEF TypeOK, Transaction, RedeemedForAUser
    <2>6. CodeCreditedOnce'
        BY DEF TypeOK, Transaction, CodeCreditedOnce, MarkedIsActive, HoldsVoucher
    <2> QED
        BY <2>1, <2>2, <2>3, <2>4, <2>5, <2>6
<1>12. ASSUME NEW c \in Codes, DeleteRedemptionCode(c) PROVE IInv'
    <2> USE <1>12 DEF DeleteRedemptionCode, Rollback, Idle, userVars, codeVars, orderVars, Vouchers
    <2>1. TypeOK'
        BY DEF TypeOK, Transaction
    <2>2. MarkedIsActive'
        BY DEF TypeOK, Transaction, MarkedIsActive, OneHolder, HoldsVoucher, VoucherRowFree
    <2>3. OneHolder'
        BY DEF TypeOK, Transaction, OneHolder, HoldsVoucher, VoucherRowFree
    <2>4. HitIsCurrent'
        BY DEF TypeOK, Transaction, HitIsCurrent, HoldsUser, UserRowFree
    <2>5. RedeemedForAUser'
        BY DEF TypeOK, Transaction, RedeemedForAUser
    <2>6. CodeCreditedOnce'
        BY DEF TypeOK, Transaction, CodeCreditedOnce, MarkedIsActive, HoldsVoucher
    <2> QED
        BY <2>1, <2>2, <2>3, <2>4, <2>5, <2>6
<1>13. ASSUME NEW u \in Users, NEW delta \in {-1, 1}, AdjustBalance(u, delta) PROVE IInv'
    <2> USE <1>13 DEF AdjustBalance, Rollback, Idle, userVars, codeVars, orderVars, Vouchers
    <2>1. TypeOK'
        BY DEF TypeOK, Transaction
    <2>2. MarkedIsActive'
        BY DEF TypeOK, Transaction, MarkedIsActive, OneHolder, HoldsVoucher, VoucherRowFree
    <2>3. OneHolder'
        BY DEF TypeOK, Transaction, OneHolder, HoldsVoucher, VoucherRowFree
    <2>4. HitIsCurrent'
        BY DEF TypeOK, Transaction, HitIsCurrent, HoldsUser, UserRowFree
    <2>5. RedeemedForAUser'
        BY DEF TypeOK, Transaction, RedeemedForAUser
    <2>6. CodeCreditedOnce'
        BY DEF TypeOK, Transaction, CodeCreditedOnce, MarkedIsActive, HoldsVoucher
    <2> QED
        BY <2>1, <2>2, <2>3, <2>4, <2>5, <2>6
<1>14. ASSUME NEW u \in Users, NEW b \in Balances, SetUserBalance(u, b) PROVE IInv'
    <2> USE <1>14 DEF SetUserBalance, Rollback, Idle, userVars, codeVars, orderVars, Vouchers
    <2>1. TypeOK'
        BY DEF TypeOK, Transaction
    <2>2. MarkedIsActive'
        BY DEF TypeOK, Transaction, MarkedIsActive, OneHolder, HoldsVoucher, VoucherRowFree
    <2>3. OneHolder'
        BY DEF TypeOK, Transaction, OneHolder, HoldsVoucher, VoucherRowFree
    <2>4. HitIsCurrent'
        BY DEF TypeOK, Transaction, HitIsCurrent, HoldsUser, UserRowFree
    <2>5. RedeemedForAUser'
        BY DEF TypeOK, Transaction, RedeemedForAUser
    <2>6. CodeCreditedOnce'
        BY DEF TypeOK, Transaction, CodeCreditedOnce, MarkedIsActive, HoldsVoucher
    <2> QED
        BY <2>1, <2>2, <2>3, <2>4, <2>5, <2>6
<1>15. ASSUME NEW u \in Users, DeleteUser(u) PROVE IInv'
    <2> USE <1>15 DEF DeleteUser, Rollback, Idle, userVars, codeVars, orderVars, Vouchers
    <2>1. TypeOK'
        BY DEF TypeOK, Transaction
    <2>2. MarkedIsActive'
        BY DEF TypeOK, Transaction, MarkedIsActive, OneHolder, HoldsVoucher, VoucherRowFree
    <2>3. OneHolder'
        BY DEF TypeOK, Transaction, OneHolder, HoldsVoucher, VoucherRowFree
    <2>4. HitIsCurrent'
        BY DEF TypeOK, Transaction, HitIsCurrent, HoldsUser, UserRowFree
    <2>5. RedeemedForAUser'
        BY DEF TypeOK, Transaction, RedeemedForAUser
    <2>6. CodeCreditedOnce'
        BY DEF TypeOK, Transaction, CodeCreditedOnce, MarkedIsActive, HoldsVoucher
    <2> QED
        BY <2>1, <2>2, <2>3, <2>4, <2>5, <2>6
<1>16. CASE UNCHANGED vars
    BY <1>16 DEF vars, userVars, codeVars, orderVars, TypeOK, MarkedIsActive, OneHolder, HitIsCurrent,
        RedeemedForAUser, CodeCreditedOnce, HoldsVoucher
<1> QED
    BY <1>1, <1>2, <1>3, <1>4, <1>5, <1>6, <1>7, <1>8, <1>9, <1>10, <1>11, <1>12, <1>13, <1>14, <1>15, <1>16 DEF Next

(* The tables and the workers are well-typed. *)
THEOREM TypeCorrect == Spec => []TypeOK
<1>1. Spec => []IInv
    BY InitInvariant, StepInvariant, PTL DEF Spec
<1>2. IInv => TypeOK
    BY DEF IInv
<1> QED
    BY <1>1, <1>2, PTL

(* However many requests redeem a code at once, on either database, and    *)
(* wherever they fail, it is added to a balance at most once, and not      *)
(* while it can still be redeemed (RedeemCode).                            *)
THEOREM CodesAreCreditedOnce == Spec => []CodeCreditedOnce
<1>1. Spec => []IInv
    BY InitInvariant, StepInvariant, PTL DEF Spec
<1>2. IInv => CodeCreditedOnce
    BY DEF IInv
<1> QED
    BY <1>1, <1>2, PTL

-----------------------------------------------------------------------------
(* RedeemCode implements the indivisible redemption of VoucherLedger.      *)

(* The initial tables are those of the ledger. *)
LEMMA InitLedger == Init => Ledger!Init
    BY DEF Init, Ledger!Init, Vouchers

(* Every step is a step of the ledger or leaves it alone: only the commit  *)
(* of a redemption redeems.                                                *)
LEMMA StepLedger == IInv /\ [Next]_vars => [Ledger!Next]_(Ledger!vars)
<1> SUFFICES ASSUME IInv, [Next]_vars PROVE Ledger!Next \/ UNCHANGED Ledger!vars
    OBVIOUS
<1> USE WalletAssumption DEF IInv, userVars, codeVars, orderVars, Vouchers
<1>1. ASSUME UNCHANGED <<users, codes, usedBy, credited>> PROVE UNCHANGED Ledger!vars
    BY <1>1 DEF Ledger!vars
<1>2. ASSUME NEW w \in Workers, Commit(w) PROVE Ledger!Next \/ UNCHANGED Ledger!vars
    <2> DEFINE v == tx[w].voucher
               u == tx[w].user
    <2>1. tx[w] \in Transaction /\ v \in Vouchers
        BY <1>2 DEF Commit, TypeOK, Transaction, Idle
    <2>2. CASE v \in Codes
        <3>1. codes[v] = "active" /\ u \in Users /\ credited[v] = 0 /\ (tx[w].hit <=> u \in users)
            BY <1>2, <2>2 DEF Commit, MarkedIsActive, HoldsVoucher, RedeemedForAUser, HitIsCurrent, CodeCreditedOnce
        <3>2. codes' = [codes EXCEPT ![v] = "used"] /\ usedBy' = [usedBy EXCEPT ![v] = u] /\ users' = users
            BY <1>2, <2>2 DEF Commit
        <3>3. [c \in Codes |-> credited'[c]]
                = [[c \in Codes |-> credited[c]] EXCEPT ![v] = IF u \in users THEN 1 ELSE 0]
            <4>1. CASE tx[w].hit
                <5>1. credited' = [credited EXCEPT ![v] = @ + 1]
                    BY <1>2, <4>1 DEF Commit
                <5>2. credited'[v] = 1 /\ \A c \in Codes : c # v => credited'[c] = credited[c]
                    BY <2>1, <3>1, <5>1 DEF TypeOK
                <5> QED
                    BY <2>2, <3>1, <4>1, <5>2
            <4>2. CASE ~tx[w].hit
                BY <1>2, <2>2, <3>1, <4>2 DEF Commit, TypeOK
            <4> QED
                BY <4>1, <4>2
        <3> QED
            BY <2>2, <3>1, <3>2, <3>3 DEF Ledger!Next, Ledger!Redeem
    <2>3. CASE v \in Orders
        <3>1. \A c \in Codes : credited'[c] = credited[c]
            BY <1>2, <2>3 DEF Commit, TypeOK
        <3>2. UNCHANGED <<users, codes, usedBy>>
            BY <1>2, <2>3 DEF Commit
        <3> QED
            BY <3>1, <3>2 DEF Ledger!vars
    <2> QED
        BY <2>1, <2>2, <2>3
<1>3. ASSUME NEW c \in Codes, CreateRedemptionCode(c) PROVE Ledger!Next
    BY <1>3 DEF CreateRedemptionCode, Ledger!Next, Ledger!Issue
<1>4. ASSUME NEW c \in Codes, DeleteRedemptionCode(c) PROVE Ledger!Next
    BY <1>4 DEF DeleteRedemptionCode, Ledger!Next, Ledger!Withdraw
<1>5. ASSUME NEW u \in Users, DeleteUser(u) PROVE Ledger!Next
    BY <1>5 DEF DeleteUser, Ledger!Next, Ledger!Remove
<1> QED
    BY <1>1, <1>2, <1>3, <1>4, <1>5
    DEF Next, vars, RedeemSelect, SandboxRecharge, StripeWebhook, CompleteSelect, MarkUsed, MarkPaid,
        Credit, Abort, CreateStripeRechargeSession, AdjustBalance, SetUserBalance

(* The statements of RedeemCode, interleaved with every other writer, on   *)
(* either database, amount to one indivisible redemption.                  *)
THEOREM RedemptionIsAtomicHolds == Spec => RedemptionIsAtomic
<1>1. Spec => []IInv
    BY InitInvariant, StepInvariant, PTL DEF Spec
<1> QED
    BY <1>1, InitLedger, StepLedger, PTL DEF Spec, RedemptionIsAtomic, Ledger!Spec

-----------------------------------------------------------------------------
(* The money.                                                              *)

\* A code names who redeemed it from the moment it is used, not before.
UnusedIsNobodys == \A c \in Codes : codes[c] \in {"none", "active"} => usedBy[c] = NoUser

\* An order that is being completed is in the table, in the name it is completed for.
CompletedForTheOwner ==
    \A w \in Workers : \A o \in Orders :
        tx[w].voucher = o =>
            /\ orders[o] # "none"
            /\ InTransaction(w) => tx[w].user = owner[o]

(* With one connection there is one transaction at a time, so an order it  *)
(* completes is still unpaid, and one that is unpaid was never credited.   *)
OneConnection ==
    dialect = "sqlite" =>
        /\ \A w, q \in Workers : InTransaction(w) /\ InTransaction(q) => w = q
        /\ \A w \in Workers : \A o \in Orders : InTransaction(w) /\ tx[w].voucher = o => orders[o] # "paid"
        /\ \A o \in Orders : credited[o] <= 1 /\ (orders[o] # "paid" => credited[o] = 0)

MoneyInv ==
    /\ UnusedIsNobodys
    /\ CompletedForTheOwner
    /\ OneConnection
    /\ BalanceHoldsTheVouchers

LEMMA VouchersAreSummed ==
    ASSUME NEW S \in SUBSET Vouchers
    PROVE  IsFiniteSet(S) /\ SumFunctionOnSet(Worth, S) \in Nat /\ \A v \in S : Worth[v] \in Nat \ {0}
<1>1. IsFiniteSet(Vouchers)
  BY WalletAssumption, FS_Union DEF Vouchers
<1>2. IsFiniteSet(S) /\ \A v \in S : Worth[v] \in Nat \ {0}
  BY <1>1, WalletAssumption, FS_Subset
<1> QED BY <1>2, SumType

\* One more voucher adds its worth.
LEMMA OneMoreVoucher ==
    ASSUME NEW S \in SUBSET Vouchers, NEW v \in Vouchers \ S
    PROVE  SumFunctionOnSet(Worth, S \cup {v}) = SumFunctionOnSet(Worth, S) + Worth[v]
<1>1. S \cup {v} \in SUBSET Vouchers /\ (S \cup {v}) \ {v} = S
  OBVIOUS
<1>2. /\ IsFiniteSet(S \cup {v}) /\ \A x \in S \cup {v} : Worth[x] \in Nat
      /\ SumFunctionOnSet(Worth, S) \in Nat
  BY <1>1, VouchersAreSummed
<1>3. SumFunctionOnSet(Worth, S \cup {v}) = Worth[v] + SumFunctionOnSet(Worth, (S \cup {v}) \ {v})
  <2>1. v \in S \cup {v}
    OBVIOUS
  <2> QED BY <1>2, <2>1, SumSplit
<1>4. SumFunctionOnSet(Worth, (S \cup {v}) \ {v}) = SumFunctionOnSet(Worth, S)
  BY <1>1
<1>5. Worth[v] \in Nat
  BY <1>2
<1> QED BY <1>2, <1>3, <1>4, <1>5

LEMMA InitMoney == Init => MoneyInv
<1> SUFFICES ASSUME Init PROVE MoneyInv
  OBVIOUS
<1>1. UnusedIsNobodys /\ CompletedForTheOwner /\ OneConnection
  BY WalletAssumption
  DEF Init, Idle, UnusedIsNobodys, CompletedForTheOwner, OneConnection, InTransaction, Vouchers
<1>2. ASSUME NEW u \in users PROVE Redeemed(u) = 0
  <2>1. VouchersOf(u) = {}
    BY <1>2, WalletAssumption DEF Init, VouchersOf
  <2> QED BY <2>1, SumEmpty DEF Redeemed
<1>3. BalanceHoldsTheVouchers
  BY <1>2 DEF Init, BalanceHoldsTheVouchers
<1> QED BY <1>1, <1>3 DEF MoneyInv

\* A step that moves no voucher, and a balance together with what it owes to
\* other writers only.
LEMMA NoVoucherMoves ==
    ASSUME BalanceHoldsTheVouchers, users' \subseteq users, dialect' = dialect,
           \A u \in users : balance'[u] - base'[u] = balance[u] - base[u] /\ VouchersOf(u)' = VouchersOf(u)
    PROVE  BalanceHoldsTheVouchers'
<1>1. \A u \in users' : Redeemed(u)' = Redeemed(u)
  BY DEF Redeemed
<1> QED BY <1>1 DEF BalanceHoldsTheVouchers

\* Where none of the tables of vouchers changes.
LEMMA TablesUntouched ==
    ASSUME UNCHANGED <<codeVars, orderVars>> PROVE \A u : VouchersOf(u)' = VouchersOf(u)
BY DEF VouchersOf, codeVars, orderVars

-----------------------------------------------------------------------------
(* The commit. *)

LEMMA CommitBalances ==
    ASSUME IInv, MoneyInv, NEW w \in Workers, Commit(w)
    PROVE  BalanceHoldsTheVouchers'
<1>0. PICK v, payer : v = tx[w].voucher /\ payer = tx[w].user
  OBVIOUS
<1>1. /\ tx[w] \in Transaction /\ v \in Vouchers /\ tx[w].pc = "credited" /\ InTransaction(w)
      /\ tx[w].hit \in BOOLEAN /\ (tx[w].hit <=> payer \in users)
      /\ users' = users /\ base' = base /\ dialect' = dialect /\ owner' = owner
  BY <1>0 DEF Commit, IInv, TypeOK, Transaction, Idle, InTransaction, HitIsCurrent
<1>2. /\ users \subseteq Users /\ balance \in [Users -> Int] /\ base \in [Users -> Int]
      /\ Worth[v] \in Nat \ {0} /\ NoUser \notin Users
  BY <1>0, <1>1, WalletAssumption DEF IInv, TypeOK
<1>3. \A u \in users : /\ VouchersOf(u) \in SUBSET Vouchers
                       /\ Redeemed(u) \in Nat
  <2>1. \A u \in users : VouchersOf(u) \in SUBSET Vouchers
    BY DEF VouchersOf, Vouchers
  <2> QED BY <2>1, VouchersAreSummed DEF Redeemed
<1>4. \A u \in users : balance'[u] = IF u = payer THEN balance[u] + Worth[v] ELSE balance[u]
  <2>1. CASE tx[w].hit
    BY <1>0, <1>1, <1>2, <2>1 DEF Commit
  <2>2. CASE ~tx[w].hit
    BY <1>0, <1>1, <1>2, <2>2 DEF Commit
  <2> QED BY <2>1, <2>2
<1>5. \A u \in users : u # payer => VouchersOf(u)' = VouchersOf(u)
  <2>1. CASE v \in Codes
    <3>1. usedBy' = [usedBy EXCEPT ![v] = payer] /\ orders' = orders /\ owner' = owner
      BY <1>0, <1>1, <2>1 DEF Commit
    <3>2. usedBy[v] = NoUser /\ usedBy \in [Codes -> Users \cup {NoUser}]
      <4>1. codes[v] = "active"
        BY <1>0, <1>1, <2>1 DEF IInv, MarkedIsActive, HoldsVoucher
      <4> QED BY <2>1, <4>1 DEF MoneyInv, UnusedIsNobodys, IInv, TypeOK
    <3>3. \A u \in users : \A c \in Codes : u # payer => (usedBy'[c] = u <=> usedBy[c] = u)
      BY <1>2, <2>1, <3>1, <3>2
    <3> QED BY <3>1, <3>3 DEF VouchersOf
  <2>2. CASE v \in Orders
    <3>1. orders' = [orders EXCEPT ![v] = "paid"] /\ usedBy' = usedBy /\ owner[v] = payer
      BY <1>0, <1>1, <2>2, WalletAssumption DEF Commit, codeVars, MoneyInv, CompletedForTheOwner, Vouchers
    <3>2. \A u \in users : \A o \in Orders :
             u # payer => (owner[o] = u /\ orders'[o] = "paid" <=> owner[o] = u /\ orders[o] = "paid")
      BY <2>2, <3>1 DEF IInv, TypeOK
    <3> QED BY <1>0, <1>1, <3>1, <3>2 DEF VouchersOf
  <2> QED BY <1>0, <1>1, <2>1, <2>2 DEF Vouchers
<1>6. payer \in users => VouchersOf(payer)' = VouchersOf(payer) \cup {v}
  <2>1. CASE v \in Codes
    <3>1. usedBy' = [usedBy EXCEPT ![v] = payer] /\ orders' = orders /\ owner' = owner
      BY <1>0, <1>1, <2>1 DEF Commit
    <3>2. \A c \in Codes : usedBy'[c] = payer <=> usedBy[c] = payer \/ c = v
      BY <2>1, <3>1 DEF IInv, TypeOK
    <3>3. VouchersOf(payer)' = {c \in Codes : usedBy'[c] = payer} \cup {o \in Orders : owner[o] = payer /\ orders[o] = "paid"}
      BY <3>1 DEF VouchersOf
    <3> QED BY <2>1, <3>2, <3>3 DEF VouchersOf
  <2>2. CASE v \in Orders
    <3>1. orders' = [orders EXCEPT ![v] = "paid"] /\ usedBy' = usedBy /\ owner[v] = payer
      BY <1>0, <1>1, <2>2, WalletAssumption DEF Commit, codeVars, MoneyInv, CompletedForTheOwner, Vouchers
    <3>2. \A o \in Orders : owner[o] = payer /\ orders'[o] = "paid"
             <=> (owner[o] = payer /\ orders[o] = "paid") \/ o = v
      BY <2>2, <3>1 DEF IInv, TypeOK
    <3>3. VouchersOf(payer)' = {c \in Codes : usedBy[c] = payer} \cup {o \in Orders : owner[o] = payer /\ orders'[o] = "paid"}
      BY <1>0, <1>1, <3>1 DEF VouchersOf
    <3> QED BY <2>2, <3>2, <3>3 DEF VouchersOf
  <2> QED BY <1>0, <1>1, <2>1, <2>2 DEF Vouchers
<1>7. dialect = "sqlite" /\ payer \in users => v \notin VouchersOf(payer)
  <2> SUFFICES ASSUME dialect = "sqlite", payer \in users PROVE v \notin VouchersOf(payer)
    OBVIOUS
  <2>1. CASE v \in Codes
    BY <1>0, <1>1, <1>2, <2>1, WalletAssumption
    DEF IInv, MarkedIsActive, HoldsVoucher, MoneyInv, UnusedIsNobodys, VouchersOf
  <2>2. CASE v \in Orders
    <3>1. orders[v] # "paid"
      BY <1>0, <1>1, <2>2 DEF MoneyInv, OneConnection
    <3> QED BY <2>2, <3>1, WalletAssumption DEF VouchersOf
  <2> QED BY <1>0, <1>1, <2>1, <2>2 DEF Vouchers
<1>8. payer \in users =>
        \/ Redeemed(payer)' = Redeemed(payer) + Worth[v]
        \/ dialect # "sqlite" /\ Redeemed(payer)' = Redeemed(payer)
  <2> SUFFICES ASSUME payer \in users
               PROVE  \/ Redeemed(payer)' = Redeemed(payer) + Worth[v]
                      \/ dialect # "sqlite" /\ Redeemed(payer)' = Redeemed(payer)
    OBVIOUS
  <2> DEFINE before == VouchersOf(payer)
             after == VouchersOf(payer)'
  <2>1. before \in SUBSET Vouchers /\ after = before \cup {v}
    BY <1>3, <1>6
  <2>2. Redeemed(payer) = SumFunctionOnSet(Worth, before) /\ Redeemed(payer)' = SumFunctionOnSet(Worth, after)
    BY <1>1 DEF Redeemed
  <2>3. CASE v \in before
    <3>1. after = before /\ dialect # "sqlite"
      BY <1>7, <2>1, <2>3
    <3> HIDE DEF before, after
    <3> QED BY <2>2, <3>1
  <2>4. CASE v \notin before
    <3>1. v \in Vouchers \ before
      BY <1>0, <1>1, <2>4
    <3> HIDE DEF before, after
    <3> QED BY <2>1, <2>2, <3>1, OneMoreVoucher
  <2> QED BY <2>3, <2>4
<1>9. \A u \in users : u # payer => Redeemed(u)' = Redeemed(u)
  BY <1>5 DEF Redeemed
<1>10. ASSUME NEW u \in users
       PROVE  /\ balance'[u] - base'[u] >= Redeemed(u)'
              /\ dialect = "sqlite" => balance'[u] - base'[u] = Redeemed(u)'
  <2>1. /\ balance[u] - base[u] >= Redeemed(u)
        /\ dialect = "sqlite" => balance[u] - base[u] = Redeemed(u)
        /\ balance[u] \in Int /\ base[u] \in Int /\ Redeemed(u) \in Nat /\ base'[u] = base[u]
    BY <1>0, <1>1, <1>2, <1>3 DEF MoneyInv, BalanceHoldsTheVouchers
  <2>2. CASE u = payer
    <3>1. balance'[u] = balance[u] + Worth[v]
      BY <1>4, <2>2
    <3>2. \/ Redeemed(u)' = Redeemed(u) + Worth[v]
          \/ dialect # "sqlite" /\ Redeemed(u)' = Redeemed(u)
      BY <1>8, <2>2
    <3>3. Worth[v] \in Nat
      BY <1>2
    <3> QED BY <2>1, <3>1, <3>2, <3>3
  <2>3. CASE u # payer
    BY <1>4, <1>9, <2>1, <2>3
  <2> QED BY <2>2, <2>3
<1> QED BY <1>0, <1>1, <1>10 DEF BalanceHoldsTheVouchers

LEMMA CommitKeepsMoney ==
    ASSUME IInv, MoneyInv, NEW w \in Workers, Commit(w)
    PROVE  MoneyInv'
<1>0. PICK v, payer : v = tx[w].voucher /\ payer = tx[w].user
  OBVIOUS
<1>1. /\ v \in Vouchers /\ tx[w].pc = "credited" /\ InTransaction(w) /\ tx' = [tx EXCEPT ![w] = Idle]
      /\ dialect' = dialect /\ owner' = owner
  BY <1>0 DEF Commit, Rollback, IInv, TypeOK, Transaction, Idle, InTransaction
<1>2. /\ \A q \in Workers \ {w} : tx'[q] = tx[q] /\ (InTransaction(q)' <=> InTransaction(q))
      /\ tx'[w] = Idle /\ ~InTransaction(w)' /\ tx'[w].voucher = NoVoucher
  BY <1>1 DEF IInv, TypeOK, InTransaction, Idle
<1>3. UnusedIsNobodys'
  BY <1>0, <1>1, WalletAssumption DEF Commit, codeVars, MoneyInv, UnusedIsNobodys, IInv, TypeOK
<1>4. CompletedForTheOwner'
  <2>1. \A o \in Orders : orders[o] # "none" => orders'[o] # "none"
    BY <1>0, <1>1 DEF Commit, IInv, TypeOK
  <2>2. tx'[w].voucher \notin Orders
    BY <1>2, WalletAssumption DEF Vouchers
  <2>3. ASSUME NEW q \in Workers, NEW o \in Orders, tx'[q].voucher = o
        PROVE  orders'[o] # "none" /\ (InTransaction(q)' => tx'[q].user = owner'[o])
    <3>1. q \in Workers \ {w}
      BY <2>2, <2>3
    <3> QED BY <1>1, <1>2, <2>1, <2>3, <3>1 DEF MoneyInv, CompletedForTheOwner
  <2> QED BY <2>3 DEF CompletedForTheOwner
<1>5. OneConnection'
  <2> SUFFICES ASSUME dialect = "sqlite"
               PROVE  /\ \A q \in Workers : ~InTransaction(q)'
                      /\ \A o \in Orders : credited'[o] <= 1 /\ (orders'[o] # "paid" => credited'[o] = 0)
    BY <1>1 DEF OneConnection
  <2>1. \A q \in Workers : ~InTransaction(q)'
    BY <1>1, <1>2 DEF MoneyInv, OneConnection
  <2>2. credited \in [Vouchers -> Nat] /\ orders \in [Orders -> {"none", "pending", "paid"}]
    BY DEF IInv, TypeOK
  <2>3. CASE v \in Codes
    <3>1. orders' = orders /\ \A o \in Orders : credited'[o] = credited[o]
      BY <1>0, <2>2, <2>3, WalletAssumption DEF Commit, Vouchers
    <3> QED BY <2>1, <3>1 DEF MoneyInv, OneConnection
  <2>4. CASE v \in Orders
    <3>1. orders[v] # "paid" /\ credited[v] = 0
      BY <1>0, <1>1, <2>4 DEF MoneyInv, OneConnection
    <3>2. orders' = [orders EXCEPT ![v] = "paid"] /\ credited' \in {credited, [credited EXCEPT ![v] = @ + 1]}
      BY <1>0, <2>4, WalletAssumption DEF Commit
    <3>3. \A o \in Orders : o # v => credited'[o] = credited[o] /\ orders'[o] = orders[o]
      BY <1>1, <2>2, <3>2 DEF Vouchers
    <3>4. credited'[v] \in {0, 1} /\ orders'[v] = "paid"
      BY <1>1, <2>2, <2>4, <3>1, <3>2 DEF Vouchers
    <3> QED BY <2>1, <3>3, <3>4 DEF MoneyInv, OneConnection
  <2> QED BY <1>1, <2>3, <2>4 DEF Vouchers
<1> QED BY <1>3, <1>4, <1>5, CommitBalances DEF MoneyInv

-----------------------------------------------------------------------------
(* The other steps.                                                        *)

\* Steps of a worker that write nothing yet.
WritesLater(w) ==
    /\ UNCHANGED <<dialect, userVars, codeVars, orderVars, credited>>
    /\ \A q \in Workers \ {w} : tx'[q] = tx[q]

LEMMA WritesLaterKeepsMoney ==
    ASSUME IInv, MoneyInv, NEW w \in Workers, WritesLater(w),
           \A o \in Orders : tx'[w].voucher = o =>
               orders[o] # "none" /\ (InTransaction(w)' => tx'[w].user = owner[o]),
           \/ ~InTransaction(w)'
           \/ /\ InTransaction(w) \/ ConnectionFree
              /\ dialect = "sqlite" => \A o \in Orders : tx'[w].voucher = o => orders[o] # "paid"
    PROVE  MoneyInv'
<1> USE DEF MoneyInv
<1>1. /\ UNCHANGED <<dialect, users, balance, base, codes, usedBy, orders, owner, credited>>
      /\ \A q \in Workers \ {w} : tx'[q] = tx[q] /\ (InTransaction(q)' <=> InTransaction(q))
  BY DEF WritesLater, userVars, codeVars, orderVars, InTransaction
<1>2. UnusedIsNobodys'
  BY <1>1 DEF UnusedIsNobodys
<1>3. CompletedForTheOwner'
  BY <1>1 DEF CompletedForTheOwner
<1>4. OneConnection'
  <2>1. CASE ~InTransaction(w)'
    BY <1>1, <2>1 DEF OneConnection
  <2>2. CASE /\ InTransaction(w) \/ ConnectionFree
             /\ dialect = "sqlite" => \A o \in Orders : tx'[w].voucher = o => orders[o] # "paid"
    <3>1. dialect = "sqlite" => \A q \in Workers \ {w} : ~InTransaction(q)
      BY <2>2 DEF OneConnection, ConnectionFree
    <3> QED BY <1>1, <2>2, <3>1 DEF OneConnection
  <2> QED BY <2>1, <2>2
<1>5. BalanceHoldsTheVouchers'
  BY <1>1, TablesUntouched, NoVoucherMoves DEF codeVars, orderVars
<1> QED BY <1>2, <1>3, <1>4, <1>5

LEMMA WorkerKeepsMoney ==
    ASSUME IInv, MoneyInv, NEW w \in Workers,
           \/ \E c \in Codes, u \in Users : RedeemSelect(w, c, u)
           \/ \E o \in Orders : StripeWebhook(w, o)
           \/ CompleteSelect(w) \/ MarkUsed(w) \/ MarkPaid(w) \/ Credit(w) \/ Abort(w)
    PROVE  MoneyInv'
<1>0. tx \in [Workers -> Transaction \cup {Idle}]
  BY DEF IInv, TypeOK
<1>1. WritesLater(w)
  BY <1>0
  DEF WritesLater, RedeemSelect, StripeWebhook, CompleteSelect, MarkUsed, MarkPaid, Credit, Abort, Rollback
<1>2. ASSUME NEW c \in Codes, NEW u \in Users, RedeemSelect(w, c, u) PROVE MoneyInv'
  <2>1. tx'[w].voucher = c /\ c \notin Orders /\ ConnectionFree
    BY <1>0, <1>2, WalletAssumption DEF RedeemSelect
  <2> QED BY <1>1, <2>1, WritesLaterKeepsMoney
<1>3. ASSUME NEW o \in Orders, StripeWebhook(w, o) PROVE MoneyInv'
  <2>1. tx'[w].voucher = o /\ ~InTransaction(w)' /\ orders[o] # "none"
    BY <1>0, <1>3 DEF StripeWebhook, Idle, InTransaction
  <2> QED BY <1>1, <2>1, WritesLaterKeepsMoney
<1>4. CASE Abort(w) \/ tx' = [tx EXCEPT ![w] = Idle]
  <2>1. tx'[w].voucher = NoVoucher /\ ~InTransaction(w)' /\ NoVoucher \notin Orders
    BY <1>0, <1>4, WalletAssumption DEF Abort, Rollback, Idle, InTransaction, Vouchers
  <2> QED BY <1>1, <2>1, WritesLaterKeepsMoney
<1>5. CASE CompleteSelect(w) /\ tx' # [tx EXCEPT ![w] = Idle]
  <2>1. /\ orders[tx[w].voucher] # "paid" /\ ConnectionFree
        /\ tx' = [tx EXCEPT ![w].pc = "read", ![w].user = owner[tx[w].voucher]]
    BY <1>5 DEF CompleteSelect, Rollback
  <2>2. tx[w] \in Transaction
    BY <1>0, <1>5 DEF CompleteSelect, Idle
  <2>3. tx'[w].voucher = tx[w].voucher /\ tx'[w].user = owner[tx[w].voucher]
    BY <1>0, <2>1, <2>2 DEF Transaction
  <2>4. \A o \in Orders : tx'[w].voucher = o => orders[o] # "none" /\ orders[o] # "paid" /\ tx'[w].user = owner[o]
    BY <2>1, <2>3 DEF MoneyInv, CompletedForTheOwner
  <2> QED BY <1>1, <2>1, <2>4, WritesLaterKeepsMoney
<1>6. CASE (MarkUsed(w) \/ MarkPaid(w) \/ Credit(w)) /\ tx' # [tx EXCEPT ![w] = Idle]
  <2>1. InTransaction(w) /\ tx[w] \in Transaction
    BY <1>0, <1>6 DEF MarkUsed, MarkPaid, Credit, Idle, InTransaction
  <2>2. tx'[w].voucher = tx[w].voucher /\ tx'[w].user = tx[w].user
    BY <1>0, <1>6, <2>1 DEF MarkUsed, MarkPaid, Credit, Rollback, Transaction
  <2>3. \A o \in Orders : tx'[w].voucher = o =>
           orders[o] # "none" /\ tx'[w].user = owner[o] /\ (dialect = "sqlite" => orders[o] # "paid")
    BY <2>1, <2>2 DEF MoneyInv, CompletedForTheOwner, OneConnection
  <2> QED BY <1>1, <2>1, <2>3, WritesLaterKeepsMoney
<1> QED BY <1>2, <1>3, <1>4, <1>5, <1>6

\* An order is entered, and w completes it next if it is the sandbox that enters it.
LEMMA OrdersKeepMoney ==
    ASSUME IInv, MoneyInv, NEW o \in Orders, NEW u \in Users,
           \/ CreateStripeRechargeSession(o, u)
           \/ \E w \in Workers : SandboxRecharge(w, o, u)
    PROVE  MoneyInv'
<1> USE DEF MoneyInv
<1>1. /\ UNCHANGED <<dialect, users, balance, base, codes, usedBy, credited>>
      /\ InsertOrder(o, u)
  BY DEF CreateStripeRechargeSession, SandboxRecharge, userVars, codeVars
<1>2. /\ tx \in [Workers -> Transaction \cup {Idle}] /\ owner \in [Orders -> Users \cup {NoUser}]
      /\ orders \in [Orders -> {"none", "pending", "paid"}]
  BY DEF IInv, TypeOK
<1>3. /\ orders'[o] # "none" /\ \A x \in Orders : orders[x] # "none" => orders'[x] = orders[x] /\ owner'[x] = owner[x]
      /\ \A x \in Orders : orders[x] = "none" => orders'[x] # "paid"
  BY <1>1, <1>2 DEF InsertOrder, orderVars
<1>4. \A q \in Workers : (InTransaction(q)' <=> InTransaction(q)) /\ (InTransaction(q) => tx'[q] = tx[q])
  <2>1. CASE CreateStripeRechargeSession(o, u)
    BY <2>1 DEF CreateStripeRechargeSession, InTransaction
  <2>2. ASSUME NEW w \in Workers, SandboxRecharge(w, o, u)
        PROVE  \A q \in Workers : (InTransaction(q)' <=> InTransaction(q)) /\ (InTransaction(q) => tx'[q] = tx[q])
    <3>1. tx[w] = Idle /\ tx'[w].pc = "complete" /\ \A q \in Workers \ {w} : tx'[q] = tx[q]
      BY <1>2, <2>2 DEF SandboxRecharge, Idle
    <3> QED BY <3>1 DEF InTransaction, Idle
  <2> QED BY <2>1, <2>2
<1>5. \A q \in Workers : \A x \in Orders : tx'[q].voucher = x => x = o \/ tx[q].voucher = x
  <2>1. CASE CreateStripeRechargeSession(o, u)
    BY <2>1 DEF CreateStripeRechargeSession
  <2>2. ASSUME NEW w \in Workers, SandboxRecharge(w, o, u)
        PROVE  \A q \in Workers : \A x \in Orders : tx'[q].voucher = x => x = o \/ tx[q].voucher = x
    <3>1. tx'[w].voucher = o /\ \A q \in Workers \ {w} : tx'[q] = tx[q]
      BY <1>2, <2>2 DEF SandboxRecharge, Idle
    <3> QED BY <3>1
  <2> QED BY <2>1, <2>2
<1>6. UnusedIsNobodys'
  BY <1>1 DEF UnusedIsNobodys
<1>7. CompletedForTheOwner'
  <2> SUFFICES ASSUME NEW q \in Workers, NEW x \in Orders, tx'[q].voucher = x
               PROVE  orders'[x] # "none" /\ (InTransaction(q)' => tx'[q].user = owner'[x])
    BY DEF CompletedForTheOwner
  <2>1. orders'[x] # "none"
    BY <1>3, <1>5 DEF CompletedForTheOwner
  <2>2. ASSUME InTransaction(q)' PROVE tx'[q].user = owner'[x]
    <3>1. tx'[q] = tx[q] /\ InTransaction(q)
      BY <1>4, <2>2
    <3> QED BY <1>3, <3>1 DEF CompletedForTheOwner
  <2> QED BY <2>1, <2>2
<1>8. OneConnection'
  <2> SUFFICES ASSUME dialect = "sqlite"
               PROVE  /\ \A w, q \in Workers : InTransaction(w)' /\ InTransaction(q)' => w = q
                      /\ \A w \in Workers : \A x \in Orders :
                            InTransaction(w)' /\ tx'[w].voucher = x => orders'[x] # "paid"
                      /\ \A x \in Orders : credited'[x] <= 1 /\ (orders'[x] # "paid" => credited'[x] = 0)
    BY <1>1 DEF OneConnection
  <2>1. \A x \in Orders : orders'[x] = "paid" <=> orders[x] = "paid"
    BY <1>3
  <2> QED BY <1>1, <1>4, <2>1 DEF OneConnection
<1>9. BalanceHoldsTheVouchers'
  <2>1. \A x \in users : VouchersOf(x)' = VouchersOf(x)
    <3>1. \A x \in users : \A p \in Orders :
             owner'[p] = x /\ orders'[p] = "paid" <=> owner[p] = x /\ orders[p] = "paid"
      BY <1>3
    <3> QED BY <1>1, <3>1 DEF VouchersOf
  <2> QED BY <1>1, <2>1, NoVoucherMoves
<1> QED BY <1>6, <1>7, <1>8, <1>9

LEMMA CodesKeepMoney ==
    ASSUME IInv, MoneyInv, NEW c \in Codes, CreateRedemptionCode(c) \/ DeleteRedemptionCode(c)
    PROVE  MoneyInv'
<1> USE DEF MoneyInv
<1>1. UNCHANGED <<dialect, users, balance, base, usedBy, orders, owner, credited, tx>>
  BY DEF CreateRedemptionCode, DeleteRedemptionCode, userVars, orderVars
<1>2. UnusedIsNobodys'
  BY <1>1 DEF CreateRedemptionCode, DeleteRedemptionCode, UnusedIsNobodys, IInv, TypeOK
<1>3. CompletedForTheOwner' /\ OneConnection'
  BY <1>1 DEF CompletedForTheOwner, OneConnection, InTransaction
<1>4. BalanceHoldsTheVouchers'
  BY <1>1, NoVoucherMoves DEF VouchersOf
<1> QED BY <1>2, <1>3, <1>4

LEMMA UsersKeepMoney ==
    ASSUME IInv, MoneyInv, NEW u \in Users,
           \/ \E delta \in {-1, 1} : AdjustBalance(u, delta)
           \/ \E b \in Balances : SetUserBalance(u, b)
           \/ DeleteUser(u)
    PROVE  MoneyInv'
<1> USE DEF MoneyInv
<1>1. UNCHANGED <<dialect, codes, usedBy, orders, owner, credited, tx>>
  BY DEF AdjustBalance, SetUserBalance, DeleteUser, codeVars, orderVars
<1>2. UnusedIsNobodys' /\ CompletedForTheOwner' /\ OneConnection'
  BY <1>1 DEF UnusedIsNobodys, CompletedForTheOwner, OneConnection, InTransaction
<1>3. users' \subseteq users /\ \A x \in users : balance'[x] - base'[x] = balance[x] - base[x]
  <2>0. balance \in [Users -> Int] /\ base \in [Users -> Int] /\ users \subseteq Users
    BY DEF IInv, TypeOK
  <2>1. ASSUME NEW delta \in {-1, 1}, AdjustBalance(u, delta)
        PROVE  users' \subseteq users /\ \A x \in users : balance'[x] - base'[x] = balance[x] - base[x]
    BY <2>0, <2>1 DEF AdjustBalance
  <2>2. ASSUME NEW b \in Balances, SetUserBalance(u, b)
        PROVE  users' \subseteq users /\ \A x \in users : balance'[x] - base'[x] = balance[x] - base[x]
    BY <2>0, <2>2, WalletAssumption DEF SetUserBalance
  <2>3. CASE DeleteUser(u)
    BY <2>3 DEF DeleteUser
  <2> QED BY <2>1, <2>2, <2>3
<1>4. BalanceHoldsTheVouchers'
  BY <1>1, <1>3, NoVoucherMoves DEF VouchersOf
<1> QED BY <1>2, <1>4

LEMMA MoneyStep == IInv /\ MoneyInv /\ [Next]_vars => MoneyInv'
<1> SUFFICES ASSUME IInv, MoneyInv, [Next]_vars PROVE MoneyInv'
  OBVIOUS
<1>1. CASE UNCHANGED vars
  <2>1. UNCHANGED <<dialect, users, balance, base, codes, usedBy, orders, owner, credited, tx>>
    BY <1>1 DEF vars, userVars, codeVars, orderVars
  <2>2. UnusedIsNobodys' /\ CompletedForTheOwner' /\ OneConnection'
    BY <2>1 DEF MoneyInv, UnusedIsNobodys, CompletedForTheOwner, OneConnection, InTransaction
  <2>3. BalanceHoldsTheVouchers'
    BY <2>1, NoVoucherMoves DEF MoneyInv, VouchersOf
  <2> QED BY <2>2, <2>3 DEF MoneyInv
<1>2. CASE Next
  BY <1>2, CommitKeepsMoney, WorkerKeepsMoney, OrdersKeepMoney, CodesKeepMoney, UsersKeepMoney DEF Next
<1> QED BY <1>1, <1>2

LEMMA MoneyAlways == Spec => []MoneyInv
<1>1. Spec => []IInv
  BY InitInvariant, StepInvariant, PTL DEF Spec
<1> QED BY <1>1, InitMoney, MoneyStep, PTL DEF Spec

(* No money is lost: a user's balance holds the worth of every code used   *)
(* and every order paid in their name, next to what the other writers of   *)
(* the row did, for any amounts and on either database; on SQLite it holds *)
(* nothing else (RedeemCode, CompleteRechargeOrder).                       *)
THEOREM NoMoneyIsLost == Spec => []BalanceHoldsTheVouchers
<1>1. MoneyInv => BalanceHoldsTheVouchers
  BY DEF MoneyInv
<1> QED BY <1>1, MoneyAlways, PTL

(* "Already completed (idempotent)" (repository.go:1313) is true of SQLite *)
(* and of its single connection: there an order is credited once however   *)
(* often its webhook is delivered.  On PostgreSQL it is not.               *)
THEOREM OrdersAreCreditedOnceOnSQLite == Spec => [](dialect = "sqlite" => OrderCreditedOnce)
<1>1. MoneyInv => (dialect = "sqlite" => OrderCreditedOnce)
  BY DEF MoneyInv, OneConnection, OrderCreditedOnce
<1> QED BY <1>1, MoneyAlways, PTL
=============================================================================
