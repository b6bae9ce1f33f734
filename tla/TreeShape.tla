----------------------------- MODULE TreeShape -----------------------------
(***************************************************************************)
(* The shape of a routing tree, which is what its look-ups rely on.  The   *)
(* operators run down the tree, which keeps this module to TLC.            *)
(***************************************************************************)
EXTENDS RouteTree

(* The handlers a tree holds, counted at the nodes. *)
RECURSIVE Handlers(_)
Handlers(n) ==
    (IF n.handlers = Nil THEN 0 ELSE 1)
        + FoldLeft(LAMBDA sum, child : sum + Handlers(child), 0, n.children)

(* Each letter of indices belongs to the child at its position, no two      *)
(* children begin alike, the children are sorted by priority, a wildcard    *)
(* child is the last one and the only one without a letter, and a node's    *)
(* priority is the number of routes registered under it.                    *)
RECURSIVE Sorted(_)
Sorted(n) ==
    /\ n.priority = Handlers(n)
    /\ \A i, j \in 1..Len(n.indices) :
          i < j => /\ n.indices[i] # n.indices[j]
                   /\ n.children[i].priority >= n.children[j].priority
    /\ \A i \in 1..Len(n.indices) :
          n.children[i].path # <<>> => n.children[i].path[1] = n.indices[i]
    /\ n.nType \in {"static", "root"} =>
          Len(n.children) = Len(n.indices) + (IF n.wildChild THEN 1 ELSE 0)
    /\ \A i \in 1..Len(n.children) : Sorted(n.children[i])

(* No node has a wildcard child beside other children.                      *)
RECURSIVE Unmixed(_)
Unmixed(n) == (n.wildChild => Len(n.children) = 1) /\ \A i \in DOMAIN n.children : Unmixed(n.children[i])

(* As long as no registration panicked the tree is in this shape            *)
(* (tree.go:79-87, 152-175).                                                *)
WellFormed == Cardinality(accepted) = calls => Sorted(tree)
=============================================================================
