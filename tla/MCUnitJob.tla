------------------------------ MODULE MCUnitJob ------------------------------
(* Unit maps for UnitJob. *)
EXTENDS UnitJob

Agent(id, inject, session) == [id |-> id, kind |-> "agent_turn", scoped |-> TRUE, pin |-> TRUE,
                               inject |-> inject, call |-> FALSE, session |-> session]
Direct(id, call, session) == [id |-> id, kind |-> "zeus_direct", scoped |-> TRUE, pin |-> FALSE,
                              inject |-> "has", call |-> call, session |-> session]

\* Units that run, that are rejected when they run, and that no map may have.
Pool == {Agent("a", "has", "s"), Agent("b", "fetch", ""), Agent("c", "foreign", ""),
         Direct("b", TRUE, "s"), Direct("c", TRUE, ""), Direct("d", FALSE, ""),
         [Agent("a", "has", "") EXCEPT !.pin = FALSE], [Direct("", TRUE, "") EXCEPT !.scoped = FALSE],
         [Direct("e", TRUE, "") EXCEPT !.kind = "http_json"]}

SmallMaps == UNION {[1..n -> Pool] : n \in 0..3}
=============================================================================
