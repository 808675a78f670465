----------------------------- MODULE DebtBudget -----------------------------
(***************************************************************************)
(* What a proof-debt budget promises, with no file, snapshot or process:   *)
(* a counter of unverified claims per risk class.  A promotion adds to it  *)
(* only while it is below the threshold of its class, whatever it is made  *)
(* up of; a direct incur, counted apart, asks for no threshold; a payment  *)
(* takes one away.                                                         *)
(***************************************************************************)
EXTENDS Naturals

CONSTANTS
    Class,  \* the risk classes
    Limit   \* the unverified claims at which no more of the class is promoted

VARIABLES
    owed,   \* unverified claims, by class
    direct  \* the direct incurs so far, by class

vars == <<owed, direct>>

Init ==
    /\ owed = [rc \in Class |-> 0]
    /\ direct = [rc \in Class |-> 0]

Promote(rc) ==
    /\ owed[rc] < Limit[rc]
    /\ owed' = [owed EXCEPT ![rc] = @ + 1]
    /\ UNCHANGED direct

Incur(rc) ==
    /\ owed' = [owed EXCEPT ![rc] = @ + 1]
    /\ direct' = [direct EXCEPT ![rc] = @ + 1]

Settle(rc) ==
    /\ owed[rc] > 0
    /\ owed' = [owed EXCEPT ![rc] = @ - 1]
    /\ UNCHANGED direct

Next == \E rc \in Class : Promote(rc) \/ Incur(rc) \/ Settle(rc)

Spec == Init /\ [][Next]_vars
=============================================================================
