------------------------------ MODULE Pipeline ------------------------------
(***************************************************************************)
(* One request under the sequential_dag pattern (pipeline.py, and its      *)
(* caller in orchestrator.py): seven stages in a fixed order, the solver   *)
(* called fanout times, stages that may be switched off, the deadline      *)
(* looked at between stages, and the answer picked from what there is when *)
(* the run ends. The deadline may pass at any moment, also while a stage   *)
(* makes its calls.                                                        *)
(*                                                                         *)
(* Abstracted: prompts, seeds, claims and their verification; of a stage   *)
(* call it matters only whether its output has a non-empty answer (a call  *)
(* that raises or returns an error has none), and an answer is named by    *)
(* its place in stage_results. Module Chat says when a request comes here  *)
(* and checks the properties.                                              *)
(***************************************************************************)
EXTENDS Integers, Sequences

VARIABLES
    conf,       \* the configuration of the run; never changes
    late,       \* the request's deadline has passed
    stage,      \* number of the stage the run is in
    pc,         \* "stage": in it, "boundary": after it, "merge", "done"
    calls,      \* calls the solver stage has made
    results,    \* stage_results: the stage of each call, and if it answered
    candidates, \* _solver_outputs, as places in results
    revised,    \* _reviser_answer, as a place in results; 0 for none
    warned,     \* warnings is not empty
    content,    \* the content of the DagRunResult, likewise
    outcome     \* what the caller of chat() gets

Stages == <<"planner", "solver", "verifier", "critic", "reviser", "claim_judge", "writer">>

\* conf is a record of off (the stages that are disabled or not configured,
\* never solver or writer), fanout and deadline (there is one).
Name == Stages[stage]
Enabled(s) == s \notin conf.off

\* A disabled critic force-skips the reviser, whose input it would be.
Runs(s) == Enabled(s) /\ (s = "reviser" => Enabled("critic"))

\* The places of the answers among outs[_], in order, and the first one, or 0.
Answers(outs) == {i \in 1..Len(outs) : results[outs[i]].answered}
FirstAnswer(outs) ==
    IF Answers(outs) = {} THEN 0
    ELSE outs[CHOOSE i \in Answers(outs) : \A j \in Answers(outs) : i <= j]

\* _best_available_answer.
BestAvailable(out) == IF out # 0 /\ results[out].answered THEN out ELSE FirstAnswer(candidates)
-----------------------------------------------------------------------------
Start == /\ late = FALSE
         /\ stage = 1
         /\ pc = "stage"
         /\ calls = 0
         /\ results = <<>>
         /\ candidates = <<>>
         /\ revised = 0
         /\ warned = FALSE
         /\ content = 0
         /\ outcome = "none"

\* A stage that is switched off makes no call and leaves a note for the next.
Skip == /\ pc = "stage"
        /\ ~Runs(Name)
        /\ pc' = "boundary"
        /\ UNCHANGED <<conf, late, stage, calls, results, candidates, revised, warned,
                       content, outcome>>

MoreSolvers(n) == n + 1 < conf.fanout

\* _call_stage_llm, and what the stage's function does with the output.
Call == LET place == Len(results) + 1 IN
    /\ pc = "stage"
    /\ Runs(Name)
    /\ \E answered \in BOOLEAN :
           results' = Append(results, [stage |-> Name, answered |-> answered])
    /\ calls' = IF Name = "solver" THEN calls + 1 ELSE calls
    /\ candidates' = IF Name = "solver" THEN Append(candidates, place) ELSE candidates
    /\ revised' = IF Name = "reviser" THEN place ELSE revised
    /\ pc' = IF Name = "solver" /\ MoreSolvers(calls) THEN "stage"
             ELSE IF Name = "writer" THEN "merge" ELSE "boundary"
    /\ UNCHANGED <<conf, late, stage, warned, content, outcome>>

\* _check_deadline: on to the next stage, or a warning and the best answer.
BoundaryBug ==
    /\ pc = "boundary"
    /\ IF late THEN /\ content' = BestAvailable(revised)
                    /\ pc' = "merge"
                    /\ UNCHANGED stage
               ELSE /\ stage' = stage + 1
                    /\ pc' = "stage"
                    /\ UNCHANGED content
    /\ UNCHANGED <<conf, late, calls, results, candidates, revised, warned, outcome>>

Boundary ==
    /\ pc = "boundary"
    /\ IF late
       THEN /\ warned' = TRUE
            /\ content' = BestAvailable(revised)
            /\ pc' = "merge"
            /\ UNCHANGED stage
       ELSE /\ stage' = stage + 1
            /\ pc' = "stage"
            /\ UNCHANGED <<warned, content>>
    /\ UNCHANGED <<conf, late, calls, results, candidates, revised, outcome>>

\* _run_writer_stage falls back to the best answer; chat() fails only if no
\* stage call at all left an answer.
FinalAnswerBug(writer) == IF results[writer].answered THEN writer ELSE FirstAnswer(candidates)
FinalAnswer(writer) == IF results[writer].answered THEN writer ELSE BestAvailable(revised)

Return == /\ pc = "merge"
          /\ content' = IF Name = "writer" THEN FinalAnswer(Len(results)) ELSE content
          /\ outcome' = IF \E i \in 1..Len(results) : results[i].answered
                        THEN "result" ELSE "error"
          /\ pc' = "done"
          /\ UNCHANGED <<conf, late, stage, calls, results, candidates, revised, warned>>

DeadlinePasses == /\ conf.deadline
                  /\ ~late
                  /\ late' = TRUE
                  /\ UNCHANGED <<conf, stage, pc, calls, results, candidates, revised,
                                 warned, content, outcome>>

Next == Skip \/ Call \/ Boundary \/ Return \/ DeadlinePasses
-----------------------------------------------------------------------------
\* The answer is the best there is among all outputs of the run: the writer's,
\* else the reviser's, else the first of the solvers' that is not empty.
AnswersOf(s) == {i \in 1..Len(results) : results[i] = [stage |-> s, answered |-> TRUE]}
Unwritten == AnswersOf("writer") = {}
Unrevised == Unwritten /\ AnswersOf("reviser") = {}
BestAnswerReturned ==
    pc = "done" =>
        \/ content \in AnswersOf("writer")
        \/ Unwritten /\ content \in AnswersOf("reviser")
        \/ /\ Unrevised /\ content \in AnswersOf("solver")
           /\ \A i \in AnswersOf("solver") : content <= i
        \/ Unrevised /\ AnswersOf("solver") = {} /\ content = 0

\* An answer cut short by the deadline says so, and one that is not does not:
\* there is a warning exactly if the writer was never called.
CutShortIsSaid ==
    pc = "done" => (warned <=> \A i \in 1..Len(results) : results[i].stage # "writer")
=============================================================================
