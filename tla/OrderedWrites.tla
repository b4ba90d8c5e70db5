--------------------------- MODULE OrderedWrites ---------------------------
(***************************************************************************)
(* What the register manager promises to those who request a value: the    *)
(* unit gets, for each register, only requested values, and in the order   *)
(* of the requests.  A value may be skipped (a newer request replaced it)  *)
(* and may be written more than once (its answer was lost); that is left   *)
(* open here, as it is in the code.                                        *)
(***************************************************************************)
EXTENDS Integers, Sequences

CONSTANTS Addresses, Values

VARIABLES
    requests,       \* address -> values requested so far, oldest first
    delivered       \* address -> index of the value the unit last got, 0: none

Init ==
    /\ requests = [a \in Addresses |-> <<>>]
    /\ delivered = [a \in Addresses |-> 0]

Request(a, v) ==
    /\ requests' = [requests EXCEPT ![a] = Append(@, v)]
    /\ UNCHANGED delivered

Deliver(a) ==
    /\ \E i \in delivered[a] + 1 .. Len(requests[a]) :
          delivered' = [delivered EXCEPT ![a] = i]
    /\ UNCHANGED requests

Next == \E a \in Addresses : Deliver(a) \/ \E v \in Values : Request(a, v)

Spec == Init /\ [][Next]_<<requests, delivered>>
=============================================================================
