------------------------------- MODULE MCWire -------------------------------
(* Instance for TLC: a few task_specs that differ in every field.          *)
EXTENDS Wire

MCStrings == {"", "x"}
MCSpec(type, s, deps, depth, opt) ==
    [type |-> type, title |-> s, prompt |-> s, requires |-> deps, depth |-> depth,
     parent_id |-> opt, branch_base |-> opt, implement_branch_sha |-> opt]
MCSpecs ==
    {MCSpec(0, "", <<>>, 0, Unset), MCSpec(1, "x", <<"x">>, 1, "x"),
     MCSpec(2, "x", <<>>, 0, ""), [MCSpec(1, "", <<"">>, 1, Unset) EXCEPT !.parent_id = "x"]}
MCLists == {<<>>} \cup {<<s>> : s \in MCSpecs} \cup {<<s, t>> : s, t \in MCSpecs}
=============================================================================
