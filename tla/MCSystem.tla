-------------------------------- MODULE MCSystem ------------------------------
(* An instance of System for TLC: two users, each with a payment of his    *)
(* own, and a notification that names p2 with the transaction of p1.       *)
EXTENDS System

CONSTANTS u1, u2, p1, p2, c1

MCPayer    == [p \in Payments |-> IF p = p1 THEN u1 ELSE u2]
MCBodies   == {Own(p) : p \in Payments} \cup {[object |-> p1, paymentId |-> p2]}
MCSubnet   == [network |-> 0, broadcast |-> 4]    \* hosts 1, 2 and 3
MCIps      == 1 .. 3
OneCountry == [s \in Servers |-> c1]
===============================================================================
