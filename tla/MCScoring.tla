----------------------------- MODULE MCScoring ------------------------------
(***************************************************************************)
(* Scoring with two cases of three runs each, the least with which a run   *)
(* that is not known can decide a majority. A run fails, or returns a      *)
(* right or a wrong answer with two workers that agree, differ or of which *)
(* one failed, in time or late, and reports few or many tokens or none.    *)
(***************************************************************************)
EXTENDS Scoring

MCRuns ==
    {[ok |-> TRUE, right |-> right, workers |-> <<v, w>>, tokens |-> tokens, late |-> late] :
        <<right, v, w, tokens, late>> \in
            {<<TRUE, "right", "right", 1, FALSE>>, <<TRUE, "right", "wrong", 4, FALSE>>,
             <<TRUE, "wrong", "failed", 1, FALSE>>, <<TRUE, "right", "wrong", NoTokens, FALSE>>,
             <<FALSE, "right", "wrong", 1, FALSE>>, <<FALSE, "wrong", "failed", 4, FALSE>>,
             <<FALSE, "right", "right", 2, TRUE>>}}
    \cup {[ok |-> FALSE, right |-> FALSE, workers |-> <<>>, tokens |-> NoTokens,
           late |-> FALSE]}

MCBudgets == {[tokens |-> NoTokens, wall |-> FALSE], [tokens |-> 2, wall |-> TRUE]}
=============================================================================
