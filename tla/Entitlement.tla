----------------------------- MODULE Entitlement ------------------------------
(***************************************************************************)
(* What a user is promised (the comment of grantOrExtend in                *)
(* apps/api/src/subscriptions/subscriptions.service.ts): each grant adds   *)
(* Days to the end of the access the user has, or starts Days of access    *)
(* now.  Access ends at its end and at no other moment.                    *)
(***************************************************************************)
EXTENDS Naturals

CONSTANTS Users, Days

VARIABLES
  now,
  until      \* until[u]: the end of u's access, 0 when u has none

Init ==
  /\ now = 0
  /\ until = [u \in Users |-> 0]

Grant(u) ==
  /\ until' = [until EXCEPT ![u] = (IF @ = 0 THEN now ELSE @) + Days]
  /\ UNCHANGED now

Tick ==
  /\ now' = now + 1
  /\ until' = [u \in Users |-> IF until[u] <= now' THEN 0 ELSE until[u]]

Next == Tick \/ \E u \in Users : Grant(u)

Spec == Init /\ [][Next]_<<now, until>>
===============================================================================
