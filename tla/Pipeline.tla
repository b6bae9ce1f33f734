------------------------------ MODULE Pipeline ------------------------------
(***************************************************************************)
(* What the handler chain promises: the handlers of a chain are called one *)
(* after the other in the chain's order, each at most once; the rest of    *)
(* them can be dropped as a whole (Abort) or replaced as a whole (the 404  *)
(* handlers), and a request ends only when nothing is left to call and     *)
(* every handler that was called has ended.  There is no index and no      *)
(* arithmetic here.                                                        *)
(***************************************************************************)
EXTENDS Integers, Sequences

CONSTANTS Chains, NoRoute

VARIABLES
    chain,      \* the handlers chosen for the request
    todo,       \* the positions of those that are still to be called
    active,     \* how many handlers have been called and have not ended
    state       \* "running", "done" or "crashed"

vars == <<chain, todo, active, state>>

Positions(c) == {i \in 0 .. Len(c) - 1 : c[i + 1] # "nil"}

Init ==
    /\ chain \in Chains
    /\ todo = Positions(chain)
    /\ active = 0
    /\ state = "running"

Call ==
    /\ state = "running"
    /\ \E p \in todo :
          /\ \A q \in todo : p <= q
          /\ todo' = todo \ {p}
    /\ active' = active + 1
    /\ UNCHANGED <<chain, state>>

(* A handler ends, or a panic ends several; a recovered panic may abort.    *)
End ==
    /\ state = "running"
    /\ active' \in 0 .. active
    /\ todo' \in {todo, {}}
    /\ active' = active => active > 0
    /\ UNCHANGED <<chain, state>>

(* Only a running handler can exchange the chain. *)
Divert ==
    /\ state = "running"
    /\ active > 0
    /\ chain' = NoRoute
    /\ todo' = Positions(NoRoute)
    /\ UNCHANGED <<active, state>>

Finish ==
    /\ state = "running"
    /\ active = 0
    /\ todo = {}
    /\ state' = "done"
    /\ UNCHANGED <<chain, todo, active>>

Crash ==
    /\ state = "running"
    /\ state' = "crashed"
    /\ todo' = {}
    /\ active' = 0
    /\ UNCHANGED chain

Next == Call \/ End \/ Divert \/ Finish \/ Crash

Spec == Init /\ [][Next]_vars

=============================================================================
