----------------------- MODULE WriteAheadPlacement -----------------------
(***************************************************************************)
(* What the execution agent promises about placing orders, whatever fails: *)
(* an order is journaled, then announced to the control plane, then placed *)
(* at most once, and only by the process that journaled it.  An order that *)
(* process gives up, by dying or because the announcement failed, is never *)
(* placed any more.                                                        *)
(***************************************************************************)
EXTENDS Naturals

CONSTANTS Orders, NoOrder   \* NoOrder is not one of the orders

VARIABLES
    stage,  \* Orders -> how far the order has come
    live    \* the order the process is still to place, or NoOrder

vars == <<stage, live>>

Init ==
    /\ stage = [o \in Orders |-> "idle"]
    /\ live = NoOrder

Prepare(o) ==
    /\ live = NoOrder
    /\ stage[o] = "idle"
    /\ stage' = [stage EXCEPT ![o] = "prepared"]
    /\ live' = o

\* The control plane may record an announcement after the order was given up.
Announce(o) ==
    /\ stage[o] = "prepared"
    /\ stage' = [stage EXCEPT ![o] = "announced"]
    /\ live' = live

Place(o) ==
    /\ live = o
    /\ stage[o] = "announced"
    /\ stage' = [stage EXCEPT ![o] = "placed"]
    /\ live' = NoOrder

GiveUp ==
    /\ live # NoOrder
    /\ live' = NoOrder
    /\ stage' = stage

Next ==
    \/ \E o \in Orders : Prepare(o) \/ Announce(o) \/ Place(o)
    \/ GiveUp

Spec == Init /\ [][Next]_vars
=============================================================================
