------------------------------ MODULE MCPayments ------------------------------
(* Instances of Payments for TLC: one user, or one user per payment.       *)
EXTENDS Payments, TLC

CONSTANTS u1, p1, p2

OnePayer == [p \in Payments |-> u1]

(* The notifications: the provider's own; also without a payment's id; and *)
(* with one that names p2 with the transaction of p1.                      *)
OwnBodies     == {Own(p) : p \in Payments}
UnnamedBodies == OwnBodies \cup {[object |-> p, paymentId |-> Null] : p \in Payments}
CrossedBodies == UnnamedBodies \cup {[object |-> p1, paymentId |-> p2]}

Symmetry == Permutations(Subs) \cup Permutations(Callers)
===============================================================================
