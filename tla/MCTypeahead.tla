---------------------------- MODULE MCTypeahead ----------------------------
EXTENDS Typeahead, TLC

CONSTANTS c1, c2

Symmetry == Permutations(Callers)

Items == [id : Strings, name : Strings]

\* Up to three items, or up to three keys.
SmallAnswers == [items : UNION {[1..n -> Items] : n \in 0..3}, keys : {<<>>}]
                  \cup [items : {<<>>}, keys : UNION {[1..n -> Strings] : n \in 0..3}]
=============================================================================
