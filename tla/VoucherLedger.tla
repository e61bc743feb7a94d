---------------------------- MODULE VoucherLedger ----------------------------
(***************************************************************************)
(* What redeeming a gift code promises, as one indivisible step: an active *)
(* code becomes used by one user and that user is credited, once.  A code  *)
(* redeemed in the name of a user who no longer exists credits no one.     *)
(***************************************************************************)
EXTENDS Naturals

CONSTANTS Users, NoUser, Codes

VARIABLES
    users,      \* the users that exist
    codes,      \* codes[c]: "none", "active", "used" or "deleted"
    usedBy,     \* usedBy[c]: the user a used code was redeemed by
    credited    \* credited[c]: how often c was added to a balance

vars == <<users, codes, usedBy, credited>>

Init ==
    /\ users = Users
    /\ codes = [c \in Codes |-> "none"]
    /\ usedBy = [c \in Codes |-> NoUser]
    /\ credited = [c \in Codes |-> 0]

Issue(c) ==
    /\ codes[c] = "none"
    /\ codes' = [codes EXCEPT ![c] = "active"]
    /\ UNCHANGED <<users, usedBy, credited>>

Redeem(c, u) ==
    /\ codes[c] = "active"
    /\ codes' = [codes EXCEPT ![c] = "used"]
    /\ usedBy' = [usedBy EXCEPT ![c] = u]
    /\ credited' = [credited EXCEPT ![c] = IF u \in users THEN 1 ELSE 0]
    /\ UNCHANGED users

Withdraw(c) ==
    /\ codes[c] \in {"active", "used"}
    /\ codes' = [codes EXCEPT ![c] = "deleted"]
    /\ UNCHANGED <<users, usedBy, credited>>

Remove(u) ==
    /\ u \in users
    /\ users' = users \ {u}
    /\ UNCHANGED <<codes, usedBy, credited>>

Next ==
    \/ \E c \in Codes : Issue(c) \/ Withdraw(c) \/ \E u \in Users : Redeem(c, u)
    \/ \E u \in Users : Remove(u)

Spec == Init /\ [][Next]_vars
=============================================================================
