------------------------------- MODULE MCConsole ------------------------------
(***************************************************************************)
(* What admins do in the console: route lists, the catalogue, the servers  *)
(* page, and subscriptions granted one at a time.  The four share no state.*)
(* Each moves while the others rest, so every one of its states and steps  *)
(* is met, and TLC has the sum of their states to go through instead of    *)
(* the product.                                                            *)
(***************************************************************************)
EXTENDS Routes, Catalogue, ServersPage, Subscriptions

vars == <<routesVars, catalogueVars, pageVars, subVars>>
Init == RoutesInit /\ CatalogueInit /\ PageInit /\ SubInit

RoutesMove    == /\ CatalogueInit /\ PageInit /\ SubInit /\ RoutesNext
                 /\ UNCHANGED <<catalogueVars, pageVars, subVars>>
CatalogueMove == /\ RoutesInit /\ PageInit /\ SubInit /\ CatalogueNext
                 /\ UNCHANGED <<routesVars, pageVars, subVars>>
PageMove      == /\ RoutesInit /\ CatalogueInit /\ SubInit /\ PageNext
                 /\ UNCHANGED <<routesVars, catalogueVars, subVars>>
GrantsMove    == /\ RoutesInit /\ CatalogueInit /\ PageInit /\ SubNext
                 /\ UNCHANGED <<routesVars, catalogueVars, pageVars>>

Next == RoutesMove \/ CatalogueMove \/ PageMove \/ GrantsMove
Spec == Init /\ [][Next]_vars /\ PageFairness
===============================================================================
