------------------------------ MODULE Ensemble ------------------------------
(***************************************************************************)
(* One request under the parallel_ensemble pattern (orchestrator.py,       *)
(* answers.py): N calls of the same role, and the consolidation of what    *)
(* they return by synthesis, by majority, or by majority with a judge for  *)
(* ties, each step falling back to the next when it fails or the deadline  *)
(* has passed.                                                             *)
(*                                                                         *)
(* Abstracted: how the calls are collected (RoleSplit has one such wave):  *)
(* votes is what the successful ones say, in order, and an answer is named *)
(* by its place there. Normalization is any function on contents. Module   *)
(* Chat says when a request comes here and checks the properties.          *)
(***************************************************************************)
EXTENDS Integers, Sequences, FiniteSets

CONSTANTS Contents, \* what a call can answer
          Empty,    \* the empty answer
          Norm      \* normalize_answer

VARIABLES
    conf,    \* the configuration of the request; never changes
    late,    \* the request's deadline has passed
    pc,      \* the step of the thread that serves the request
    votes,   \* contents of the results that are ok
    asked,   \* calls of the judge role
    summary, \* vote_summary, or NoSummary
    content, \* place of the winning vote, or 0
    source   \* where the answer comes from

\* conf is a record of n, vote, normalize, synthesizer (there is one) and
\* deadline (there is one), of a configuration that config.py accepts.
Ballots == UNION {[1..n -> Contents] : n \in 0..conf.n}
NoSummary == [clusters |-> 0, winning |-> 0, judged |-> FALSE]

\* What counts as the same answer.
Same(c, d) == IF conf.normalize THEN Norm[c] = Norm[d] ELSE c = d

\* cluster_answers, _exact_clusters: places by answer, in order of appearance.
AddTo(clusters, ballots, i) ==
    IF \E b \in DOMAIN clusters : Same(ballots[clusters[b][1]], ballots[i])
    THEN [b \in DOMAIN clusters |-> IF Same(ballots[clusters[b][1]], ballots[i])
                                    THEN Append(clusters[b], i) ELSE clusters[b]]
    ELSE Append(clusters, <<i>>)
Clusters(ballots) ==
    LET after[n \in 0..Len(ballots)] ==
            IF n = 0 THEN <<>> ELSE AddTo(after[n - 1], ballots, n)
    IN  after[Len(ballots)]

\* max(clusters, key=len) is stable: the first of the largest.
Largest(clusters) == {b \in DOMAIN clusters :
                          \A d \in DOMAIN clusters : Len(clusters[d]) <= Len(clusters[b])}
BestBug(clusters) == CHOOSE b \in Largest(clusters) : \A d \in Largest(clusters) : d <= b
Best(clusters) == CHOOSE b \in Largest(clusters) : \A d \in Largest(clusters) : b <= d
-----------------------------------------------------------------------------
Start == /\ late = FALSE
         /\ pc = "workers"
         /\ votes = <<>>
         /\ asked = 0
         /\ summary = NoSummary
         /\ content = 0
         /\ source = "none"

\* _run_workers returned; without a success chat() raises an error.
Collect == /\ pc = "workers"
           /\ votes' \in Ballots
           /\ pc' = IF votes' = <<>> THEN "failed"
                    ELSE IF conf.vote = "synth" /\ conf.synthesizer /\ ~late
                    THEN "synthesize" ELSE "vote"
           /\ UNCHANGED <<conf, late, asked, summary, content, source>>

\* The synthesizer answers, or fails and leaves it to a majority.
Synthesize == /\ pc = "synthesize"
              /\ \/ pc' = "done" /\ source' = "synthesizer"
                 \/ pc' = "fallback" /\ UNCHANGED source
              /\ UNCHANGED <<conf, late, votes, asked, summary, content>>

\* The result of a vote: the first of a cluster stands for it. After a failed
\* synthesis an empty winner is replaced by the merge of all the results.
Elect(clusters, b, judged) ==
    /\ content' = clusters[b][1]
    /\ source' = IF pc = "fallback" /\ votes[clusters[b][1]] = Empty THEN "merge" ELSE "vote"
    /\ summary' = [clusters |-> Len(clusters), winning |-> Len(clusters[b]), judged |-> judged]
    /\ pc' = "done"

\* _vote_content: only a tie, and only in time, is a matter for the judge.
NeedsJudgeBug == conf.vote = "judge_tiebreak" /\ ~late
NeedsJudge == /\ conf.vote = "judge_tiebreak"
              /\ Cardinality(Largest(Clusters(votes))) > 1
              /\ ~late

Vote == /\ pc \in {"vote", "fallback"}
        /\ IF pc = "vote" /\ NeedsJudge
           THEN pc' = "judge" /\ UNCHANGED <<summary, content, source>>
           ELSE Elect(Clusters(votes), Best(Clusters(votes)), FALSE)
        /\ UNCHANGED <<conf, late, votes, asked>>

\* _judge_tiebreak: one of the tied candidates; after a failed call or an
\* invalid choice, the one a majority would take.
Judge == /\ pc = "judge"
         /\ asked' = asked + 1
         /\ \E b \in Largest(Clusters(votes)) : Elect(Clusters(votes), b, TRUE)
         /\ UNCHANGED <<conf, late, votes>>

DeadlinePasses == /\ conf.deadline
                  /\ pc \notin {"done", "failed"}
                  /\ ~late
                  /\ late' = TRUE
                  /\ UNCHANGED <<conf, pc, votes, asked, summary, content, source>>

Next == Collect \/ Synthesize \/ Vote \/ Judge \/ DeadlinePasses
-----------------------------------------------------------------------------
(* Properties.                                                             *)

\* The votes for what place i says, counted one by one instead of clustered.
VotesFor(i) == Cardinality({j \in DOMAIN votes : Same(votes[i], votes[j])})
Leading(i) == \A j \in DOMAIN votes : VotesFor(j) <= VotesFor(i)

\* Whoever decides, a judge or the count, no answer has more votes than the
\* one the request returns (_vote_content, _judge_tiebreak), and unless a
\* judge decided it is the earliest of those.
PluralityWins ==
    source = "vote" =>
        /\ Leading(content)
        /\ summary.judged \/ \A i \in DOMAIN votes : Leading(i) => content <= i

\* The vote_summary is about the very answer it comes with: the number of
\* distinct answers, the votes of the one returned, and whether the judge was
\* asked, which never happens twice or without a tie (orchestrator.py VoteSummary).
SummaryMatchesVote ==
    source = "vote" =>
        /\ summary.clusters =
               Cardinality({i \in DOMAIN votes : \A j \in 1..(i - 1) : ~Same(votes[i], votes[j])})
        /\ summary.winning = VotesFor(content)
        /\ summary.judged <=> asked = 1
        /\ asked = 1 => \E i \in DOMAIN votes : Leading(i) /\ ~Same(votes[i], votes[content])
=============================================================================
