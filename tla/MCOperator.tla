----------------------------- MODULE MCOperator -----------------------------
\* One resource of each kind at a time, two nodes, one router; slo blocks with
\* a ceiling, without one, with the floor above the ceiling, and without the
\* queue limit that turns the planner on.
EXTENDS Operator

MCPresent == {{"cluster"}, {"pool"}, {"policy"}, {"cordons"}}

MCSlos ==
    {[perReplica |-> 2, min |-> 1, max |-> {}], [perReplica |-> 2, min |-> 1, max |-> {3}],
     [perReplica |-> 2, min |-> 2, max |-> {1}], [perReplica |-> 0, min |-> 1, max |-> {}]}
=============================================================================
