------------------------------- MODULE MCSession ------------------------------
(***************************************************************************)
(* What the browser of a user does, for TLC: the session, and the configs  *)
(* page.  The two share no state, since a call of the page that fails for  *)
(* want of a session fails like any other.  Each moves while the other     *)
(* rests.                                                                  *)
(***************************************************************************)
EXTENDS WebSession, ConfigsPage, TLC

BrowserInit == Init /\ ConfigsInit
BrowserNext == \/ ConfigsInit /\ Next /\ UNCHANGED configsVars
               \/ Init /\ ConfigsNext /\ UNCHANGED vars
BrowserSpec == BrowserInit /\ [][BrowserNext]_<<vars, configsVars>>

Symmetry == Permutations(Tokens) \cup Permutations(Calls)
===============================================================================
