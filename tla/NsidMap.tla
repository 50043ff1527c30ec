------------------------------ MODULE NsidMap ------------------------------
(***************************************************************************)
(* What the NSID manager promises the TZ shim: a finite map from the       *)
(* tokens in use to the NSIDs their threads were given, with room for      *)
(* Capacity of them.  A token maps to one NSID for as long as it is in     *)
(* use, and is never bound again once it has been dropped.                 *)
(***************************************************************************)
EXTENDS Integers, FiniteSets

CONSTANTS Capacity, Token, Nsid

VARIABLES
    map,        \* the set of (token, nsid) pairs
    used        \* the tokens that have been bound so far

Bound == {p[1] : p \in map}

Init == map = {} /\ used = {}

Bind(token, nsid) ==
    /\ token \notin used
    /\ Cardinality(map) < Capacity
    /\ map' = map \cup {<<token, nsid>>}
    /\ used' = used \cup {token}

\* A token can be used up without being bound (the thread is not created).
Waste(token) ==
    /\ token \notin used
    /\ used' = used \cup {token}
    /\ UNCHANGED map

Drop(token) ==
    /\ token \in Bound
    /\ map' = {p \in map : p[1] # token}
    /\ UNCHANGED used

Next ==
    \E token \in Token :
        \/ \E nsid \in Nsid : Bind(token, nsid)
        \/ Waste(token)
        \/ Drop(token)

Spec == Init /\ [][Next]_<<map, used>>
=============================================================================
