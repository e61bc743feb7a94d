-------------------------------- MODULE Wallet --------------------------------
(***************************************************************************)
(* Wallet credits of internal/storage/repository.go: RedeemCode and        *)
(* CompleteRechargeOrder, statement by statement, under concurrent         *)
(* requests and replicas, with the handlers that call them                 *)
(* (internal/controlplane/wallet_handler.go) and the single-statement      *)
(* writes that touch the same rows.                                        *)
(*                                                                         *)
(* SQLite gives the process one connection, so a transaction keeps every   *)
(* other statement waiting.  PostgreSQL runs transactions side by side     *)
(* under READ COMMITTED: a SELECT sees committed rows, an UPDATE or DELETE *)
(* waits for the row and then looks at its committed version again, and a  *)
(* transaction's own writes show when it commits.                          *)
(*                                                                         *)
(* The variables are the committed tables; what a transaction has written  *)
(* and not committed, and the rows it holds, follow from its place in the  *)
(* code.                                                                   *)
(***************************************************************************)
EXTENDS Integers, FiniteSets, Functions

CONSTANTS
    Workers,    \* requests being handled, by any replica
    Users, NoUser,
    Codes,      \* redemption codes
    Orders,     \* recharge order numbers
    NoVoucher,
    Worth,      \* Worth[v]: the amount of a code or an order
    Dialects,   \* the databases considered
    Balances,   \* balances an administrator may set
    MaxAdjust   \* bound: how far the other writers move a balance

Vouchers == Codes \cup Orders

ASSUME WalletAssumption ==
    /\ IsFiniteSet(Codes) /\ IsFiniteSet(Orders)
    /\ Codes \cap Orders = {}
    /\ NoVoucher \notin Vouchers
    /\ NoUser \notin Users
    /\ Worth \in [Vouchers -> Nat \ {0}]
    /\ Dialects \subseteq {"sqlite", "postgres"}
    /\ Balances \subseteq Int
    /\ MaxAdjust \in Nat

VARIABLES
    dialect,    \* the database in use; never changes
    users,      \* table users: those that exist
    balance,    \* users.balance
    codes,      \* redemption_codes.status
    usedBy,     \* redemption_codes.used_by
    orders,     \* recharge_orders.status
    owner,      \* recharge_orders.username
    tx,         \* tx[w]: where worker w is in its handler
    credited,   \* history: how often a voucher was added to a balance
    base        \* history: what a balance owes to other writers than vouchers

userVars == <<users, balance, base>>
codeVars == <<codes, usedBy>>
orderVars == <<orders, owner>>
vars == <<dialect, userVars, codeVars, orderVars, tx, credited>>

Idle == [pc |-> "idle", voucher |-> NoVoucher, user |-> NoUser, hit |-> FALSE]

Init ==
    /\ dialect \in Dialects
    /\ users = Users
    /\ balance = [u \in Users |-> 0]
    /\ base = [u \in Users |-> 0]
    /\ codes = [c \in Codes |-> "none"]
    /\ usedBy = [c \in Codes |-> NoUser]
    /\ orders = [o \in Orders |-> "none"]
    /\ owner = [o \in Orders |-> NoUser]
    /\ tx = [w \in Workers |-> Idle]
    /\ credited = [v \in Vouchers |-> 0]

-----------------------------------------------------------------------------
(* The database. *)

InTransaction(w) == tx[w].pc \in {"read", "marked", "credited"}

\* A connection for a statement outside a transaction, or to begin one.
ConnectionFree == dialect = "sqlite" => \A w \in Workers : ~InTransaction(w)

HoldsVoucher(w, v) == tx[w].pc \in {"marked", "credited"} /\ tx[w].voucher = v

HoldsUser(w, u) == tx[w].pc = "credited" /\ tx[w].hit /\ tx[w].user = u

VoucherRowFree(v) == \A w \in Workers : ~HoldsVoucher(w, v)

UserRowFree(u) == \A w \in Workers : ~HoldsUser(w, u)

RollbackKeeping(w) == tx' = [tx EXCEPT ![w].pc = "idle"]
Rollback(w) == tx' = [tx EXCEPT ![w] = Idle]

-----------------------------------------------------------------------------
(* RedeemCode. *)

\* A code that does not exist or is not active ends the call at once.
RedeemSelect(w, c, u) ==
    /\ tx[w] = Idle
    /\ ConnectionFree
    /\ codes[c] = "active"
    /\ tx' = [tx EXCEPT ![w] = [pc |-> "read", voucher |-> c, user |-> u, hit |-> FALSE]]
    /\ UNCHANGED <<dialect, userVars, codeVars, orderVars, credited>>

MarkUsedUnguarded(w) ==
    /\ tx[w].pc = "read" /\ tx[w].voucher \in Codes
    /\ VoucherRowFree(tx[w].voucher)
    /\ tx' = [tx EXCEPT ![w].pc = "marked"]
    /\ UNCHANGED <<dialect, userVars, codeVars, orderVars, credited>>

MarkUsedAtOnce(w) ==
    /\ tx[w].pc = "read" /\ tx[w].voucher \in Codes
    /\ IF codes[tx[w].voucher] = "active"
       THEN /\ codes' = [codes EXCEPT ![tx[w].voucher] = "used"]
            /\ usedBy' = [usedBy EXCEPT ![tx[w].voucher] = tx[w].user]
            /\ tx' = [tx EXCEPT ![w].pc = "marked"]
       ELSE Rollback(w) /\ UNCHANGED codeVars
    /\ UNCHANGED <<dialect, userVars, orderVars, credited>>

(* UPDATE ... WHERE id = ? AND status = 'active': once the row is free,    *)
(* its committed status decides.                                           *)
MarkUsed(w) ==
    /\ tx[w].pc = "read" /\ tx[w].voucher \in Codes
    /\ VoucherRowFree(tx[w].voucher)
    /\ IF codes[tx[w].voucher] = "active"
       THEN tx' = [tx EXCEPT ![w].pc = "marked"]
       ELSE Rollback(w)
    /\ UNCHANGED <<dialect, userVars, codeVars, orderVars, credited>>

-----------------------------------------------------------------------------
(* Recharge orders. *)

\* INSERT INTO recharge_orders: a number that is taken fails, which both
\* handlers ignore.
InsertOrder(o, u) ==
    IF orders[o] = "none"
    THEN /\ orders' = [orders EXCEPT ![o] = "pending"]
         /\ owner' = [owner EXCEPT ![o] = u]
    ELSE UNCHANGED orderVars

\* CreateStripeRechargeSession, and SandboxRecharge up to its call of
\* CompleteRechargeOrder.
CreateStripeRechargeSession(o, u) ==
    /\ ConnectionFree
    /\ InsertOrder(o, u)
    /\ UNCHANGED <<dialect, userVars, codeVars, tx, credited>>

SandboxRecharge(w, o, u) ==
    /\ tx[w] = Idle
    /\ ConnectionFree
    /\ InsertOrder(o, u)
    /\ tx' = [tx EXCEPT ![w] = [Idle EXCEPT !.pc = "complete", !.voucher = o]]
    /\ UNCHANGED <<dialect, userVars, codeVars, credited>>

\* The payment service delivers a completed session at least once.
StripeWebhook(w, o) ==
    /\ tx[w] = Idle
    /\ orders[o] # "none"
    /\ tx' = [tx EXCEPT ![w] = [Idle EXCEPT !.pc = "complete", !.voucher = o]]
    /\ UNCHANGED <<dialect, userVars, codeVars, orderVars, credited>>

CompleteSelectAgain(w) ==
    LET o == tx[w].voucher
    IN  /\ tx[w].pc = "complete"
        /\ ConnectionFree
        /\ tx' = [tx EXCEPT ![w].pc = "read", ![w].user = owner[o]]
        /\ UNCHANGED <<dialect, userVars, codeVars, orderVars, credited>>

\* CompleteRechargeOrder: an order already paid ends the call at once.
CompleteSelect(w) ==
    LET o == tx[w].voucher
    IN  /\ tx[w].pc = "complete"
        /\ ConnectionFree
        /\ IF orders[o] = "paid"
           THEN Rollback(w)
           ELSE tx' = [tx EXCEPT ![w].pc = "read", ![w].user = owner[o]]
        /\ UNCHANGED <<dialect, userVars, codeVars, orderVars, credited>>

\* UPDATE ... SET status = 'paid' WHERE id = ?: whatever the status is now.
MarkPaid(w) ==
    /\ tx[w].pc = "read" /\ tx[w].voucher \in Orders
    /\ VoucherRowFree(tx[w].voucher)
    /\ tx' = [tx EXCEPT ![w].pc = "marked"]
    /\ UNCHANGED <<dialect, userVars, codeVars, orderVars, credited>>

-----------------------------------------------------------------------------
(* The end of both transactions. *)

\* UPDATE users SET balance = balance + ? WHERE username = ?: when the user
\* does not exist no row changes, which is not noticed.
Credit(w) ==
    /\ tx[w].pc = "marked"
    /\ UserRowFree(tx[w].user)
    /\ tx' = [tx EXCEPT ![w].pc = "credited", ![w].hit = tx[w].user \in users]
    /\ UNCHANGED <<dialect, userVars, codeVars, orderVars, credited>>

Commit(w) ==
    LET v == tx[w].voucher
        u == tx[w].user
    IN  /\ tx[w].pc = "credited"
        /\ IF v \in Codes
           THEN /\ codes' = [codes EXCEPT ![v] = "used"]
                /\ usedBy' = [usedBy EXCEPT ![v] = u]
                /\ UNCHANGED orders
           ELSE orders' = [orders EXCEPT ![v] = "paid"] /\ UNCHANGED codeVars
        /\ IF tx[w].hit
           THEN /\ balance' = [balance EXCEPT ![u] = @ + Worth[v]]
                /\ credited' = [credited EXCEPT ![v] = @ + 1]
           ELSE UNCHANGED <<balance, credited>>
        /\ Rollback(w)
        /\ UNCHANGED <<dialect, users, base, owner>>

\* A statement or the commit fails, or the process dies: nothing is kept.
Abort(w) ==
    /\ tx[w].pc # "idle"
    /\ Rollback(w)
    /\ UNCHANGED <<dialect, userVars, codeVars, orderVars, credited>>

-----------------------------------------------------------------------------
(* Single-statement writers. *)

CreateRedemptionCode(c) ==
    /\ ConnectionFree
    /\ codes[c] = "none"
    /\ codes' = [codes EXCEPT ![c] = "active"]
    /\ UNCHANGED <<dialect, userVars, usedBy, orderVars, tx, credited>>

\* The codes are random: a deleted one is not issued again.
DeleteRedemptionCode(c) ==
    /\ ConnectionFree
    /\ VoucherRowFree(c)
    /\ codes[c] \in {"active", "used"}
    /\ codes' = [codes EXCEPT ![c] = "deleted"]
    /\ UNCHANGED <<dialect, userVars, usedBy, orderVars, tx, credited>>

\* UpdateUserBalance by an administrator, DeductUserBalance for usage.
AdjustBalance(u, delta) ==
    /\ ConnectionFree
    /\ u \in users /\ UserRowFree(u)
    /\ base[u] + delta \in -MaxAdjust .. MaxAdjust
    /\ balance' = [balance EXCEPT ![u] = @ + delta]
    /\ base' = [base EXCEPT ![u] = @ + delta]
    /\ UNCHANGED <<dialect, users, codeVars, orderVars, tx, credited>>

SetUserBalance(u, b) ==
    /\ ConnectionFree
    /\ u \in users /\ UserRowFree(u)
    /\ balance' = [balance EXCEPT ![u] = b]
    /\ base' = [base EXCEPT ![u] = b - (balance[u] - base[u])]
    /\ base'[u] \in -MaxAdjust .. MaxAdjust
    /\ UNCHANGED <<dialect, users, codeVars, orderVars, tx, credited>>

DeleteUser(u) ==
    /\ ConnectionFree
    /\ u \in users /\ UserRowFree(u)
    /\ users' = users \ {u}
    /\ UNCHANGED <<dialect, balance, base, codeVars, orderVars, tx, credited>>

Next ==
    \/ \E w \in Workers :
          \/ \E c \in Codes, u \in Users : RedeemSelect(w, c, u)
          \/ \E o \in Orders, u \in Users : SandboxRecharge(w, o, u)
          \/ \E o \in Orders : StripeWebhook(w, o)
          \/ CompleteSelect(w) \/ MarkUsed(w) \/ MarkPaid(w)
          \/ Credit(w) \/ Commit(w) \/ Abort(w)
    \/ \E o \in Orders, u \in Users : CreateStripeRechargeSession(o, u)
    \/ \E c \in Codes : CreateRedemptionCode(c) \/ DeleteRedemptionCode(c)
    \/ \E u \in Users :
          \/ \E delta \in {-1, 1} : AdjustBalance(u, delta)
          \/ \E b \in Balances : SetUserBalance(u, b)
          \/ DeleteUser(u)

Spec == Init /\ [][Next]_vars

-----------------------------------------------------------------------------
(* Properties. *)

Transaction ==
    [pc : {"complete", "read", "marked", "credited"},
     voucher : Vouchers, user : Users \cup {NoUser}, hit : BOOLEAN]

TypeOK ==
    /\ dialect \in Dialects
    /\ users \subseteq Users
    /\ balance \in [Users -> Int]
    /\ base \in [Users -> Int]
    /\ codes \in [Codes -> {"none", "active", "used", "deleted"}]
    /\ usedBy \in [Codes -> Users \cup {NoUser}]
    /\ orders \in [Orders -> {"none", "pending", "paid"}]
    /\ owner \in [Orders -> Users \cup {NoUser}]
    /\ tx \in [Workers -> Transaction \cup {Idle}]
    /\ credited \in [Vouchers -> Nat]

(* A code is never added to a balance twice, and not at all while it can   *)
(* still be redeemed, however many requests redeem it at once and wherever *)
(* they fail ("atomic status check to prevent race-condition double        *)
(* redemption", RedeemCode).                                               *)
CodeCreditedOnce ==
    \A c \in Codes :
        /\ credited[c] <= 1
        /\ codes[c] \in {"none", "active"} => credited[c] = 0

\* The vouchers in u's name, and what they add up to.
VouchersOf(u) ==
    {c \in Codes : usedBy[c] = u} \cup {o \in Orders : owner[o] = u /\ orders[o] = "paid"}

Redeemed(u) == SumFunctionOnSet(Worth, VouchersOf(u))

(* No money is lost: a user's balance holds every code used and every      *)
(* order paid in their name next to what the other writers did, whatever   *)
(* writes the same row in between; and with the single connection of       *)
(* SQLite it holds nothing else.                                           *)
BalanceHoldsTheVouchers ==
    \A u \in users :
        /\ balance[u] - base[u] >= Redeemed(u)
        /\ dialect = "sqlite" => balance[u] - base[u] = Redeemed(u)

(* The statements of RedeemCode, interleaved with everything else, amount  *)
(* to one indivisible redemption.                                          *)
Ledger == INSTANCE VoucherLedger WITH credited <- [c \in Codes |-> credited[c]]

RedemptionIsAtomic == Ledger!Spec

(* Completing an order again changes nothing: "Already completed           *)
(* (idempotent)" (repository.go:1313).                                     *)
OrderCreditedOnce == \A o \in Orders : credited[o] <= 1
=============================================================================
