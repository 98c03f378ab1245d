----------------------------- MODULE LookupService -----------------------------
(***************************************************************************)
(* What Connection expects of a session store: a lookup is opened once and *)
(* its callback is called at most once, with the answer to that lookup,    *)
(* unless the store gives the lookup up.  A lookup given up stays so.      *)
(***************************************************************************)
CONSTANT Lookups

VARIABLE status

Init == status = [l \in Lookups |-> "new"]

Ask(l) == /\ status[l] = "new"
          /\ status' = [status EXCEPT ![l] = "open"]

Reply(l) == /\ status[l] = "open"
            /\ status' = [status EXCEPT ![l] = "done"]

GiveUp(ls) == status' = [l \in Lookups |-> IF l \in ls THEN "given up" ELSE status[l]]

Next == \/ \E l \in Lookups : Ask(l) \/ Reply(l)
        \/ \E ls \in SUBSET Lookups : GiveUp(ls)

Spec == Init /\ [][Next]_status
=============================================================================
