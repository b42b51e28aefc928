---------------------------- MODULE MCAgentTurn ----------------------------
(* Small instances of AgentTurn for TLC. *)
EXTENDS AgentTurn

\* max_rounds: unset (the default, three rounds in these instances), and one
\* round (raised to two for an insight turn, whose first round is then within
\* the last ones already).
MCMaxRounds == {0, 1}

\* force_return_rounds_left: unset (one), and a negative value.
MCLeft == {0, -1}
=============================================================================
