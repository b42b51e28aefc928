----------------------------- MODULE MCLlmRetry -----------------------------
(* Values for the constants of LlmRetry. *)
EXTENDS LlmRetry

\* No word group or one, and the pairs whose order in the classifier matters;
\* the overload words contain "capacity".
SmallTexts == {{}, {"over", "capacity"}, {"ctx", "filter"}, {"filter", "tool"}, {"quota", "rate"}}
                \cup {{w} : w \in Words \ {"capacity"}}
=============================================================================
