------------------------- MODULE MCSessionLifecycle -------------------------
(* A small instance of SessionTrace over SessionLifecycle for TLC. *)
EXTENDS SessionTrace

CONSTANTS m1, m2

\* The two modes are interchangeable.
Symmetry == Permutations(Modes)

Body(at, costs, count) == [metaAt |-> at, costs |-> costs, count |-> count]
Call(id, name, status, text, body) ==
  [id |-> id, name |-> name, status |-> {status}, text |-> text, body |-> body]

Empty == Body("none", <<>>, {})
Rows == Call("a", "find", 200, TRUE, Body("none", <<>>, {2}))
MoreRows == Call("b", "find", 201, TRUE, Body("data", <<{}, {1}>>, {}))
Steps == Call("c", "pipeline", 200, TRUE, Body("root", <<{0}>>, {3}))
Fails == Call("d", "other", 400, FALSE, Empty)
Lost == Call("", "find", 0, FALSE, Empty)
Again == Call("a", "other", 500, FALSE, Empty)

\* Calls that differ in what decides the score, one with a repeated req_id and a
\* failed one without any.
MCCallLists ==
  { <<Lost>>, <<Rows, Lost, Steps>>, <<Steps, Rows>>, <<MoreRows, Steps, Rows>>, <<Fails, Rows>>,
    <<Rows, Again>> }
=============================================================================
