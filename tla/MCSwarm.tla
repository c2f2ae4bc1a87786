------------------------------ MODULE MCSwarm ------------------------------
(* Swarm on small instances.                                               *)
EXTENDS Swarm

\* A plan, whose child and merge follow from it; two merges for one lock; and
\* a merge that waits for another, which may fail.
Root(type, deps) == [type |-> type, deps |-> deps]
MCRootLists == {
    <<Root("plan", {})>>,
    <<Root("merge", {}), Root("merge", {})>>,
    <<Root("merge", {}), Root("merge", {1})>>}
=============================================================================
