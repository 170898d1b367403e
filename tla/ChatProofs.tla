----------------------------- MODULE ChatProofs -----------------------------
(***************************************************************************)
(* An accepted configuration never leaves a request without a role it      *)
(* asks, nobody judges himself, the pipeline returns the best answer there *)
(* is and says when it was cut short, and an ensemble returns the answer   *)
(* with the most votes and counts them right: for every set of             *)
(* configurations, however many roles, stages, solvers and answers there   *)
(* are.                                                                    *)
(***************************************************************************)
EXTENDS Chat, FiniteSetTheorems, WellFoundedInduction, TLAPS

\* A set of numbers that is not empty has a least one.
LEMMA LeastExists ==
    ASSUME NEW S \in SUBSET Nat, S # {}
    PROVE  Min(S) \in S /\ \A y \in S : Min(S) <= y
<1> DEFINE R == OpToRel(<, Nat)
<1>1. IsWellFoundedOn(R, Nat)
  BY NatLessThanWellFounded
<1>2. \A x, y \in Nat : <<y, x>> \in R <=> y < x
  BY DEF OpToRel
<1> HIDE DEF R
<1>3. PICK x \in S : \A y \in S : ~ <<y, x>> \in R
  BY <1>1, WFMin
<1>4. \A y \in S : ~(y < x)
  BY <1>2, <1>3, Zenon
<1>5. \A y \in S : x <= y
  BY <1>4
<1> QED
  BY <1>5 DEF Min
-----------------------------------------------------------------------------
(* The roles.                                                              *)

\* Everything after the file has passed the validation.
AcceptedInv == phase \notin {"file", "refused"} => Accepted(cfg)

\* Workers are selected from the worker roles.
TeamInv == team \subseteq Workers(cfg)

\* Only one of the vote modes asks a judge, and only a configuration with
\* stages runs the pipeline.
NeedInv == /\ step = "judge" => cfg.vote = "judge_tiebreak"
           /\ phase = "dag" => cfg.stages # <<>>

\* The stage the pipeline is in is one of the seven; the last has no boundary.
StageInv == stage \in 1..7 /\ (at = "boundary" => stage < 7)

RolesInv == cfg \in Configs /\ AcceptedInv /\ TeamInv /\ NeedInv /\ StageInv

LEMMA WriterRuns == P!Runs(P!Stages[7])
BY DEF P!Runs, P!Enabled, P!Stages, DagConf

LEMMA SelectedAreWorkers ==
    ASSUME NEW c \in Configs, NEW selected \in Selections(c)
    PROVE  /\ selected \subseteq Workers(c)
           /\ selected # {} => Min(selected) \in Workers(c)
<1>1. Workers(c) \in SUBSET Nat
  BY ConfigsAssumption DEF Workers
<1>2. Workers(c) # {} => Min(Workers(c)) \in Workers(c)
  BY <1>1, LeastExists
<1>3. selected \subseteq Workers(c)
  <2>1. CASE c.policy = "all"
    BY <2>1 DEF Selections
  <2>2. CASE c.policy # "all"
    <3>1. PICK m \in SUBSET Workers(c) :
              selected = IF m = {} /\ Workers(c) # {} THEN {Min(Workers(c))} ELSE m
      BY <2>2 DEF Selections
    <3> QED
      BY <1>2, <3>1
  <2> QED
    BY <2>1, <2>2
<1>4. selected # {} => Min(selected) \in selected
  BY <1>1, <1>3, LeastExists
<1> QED
  BY <1>3, <1>4

LEMMA RolesInit == Init => RolesInv
BY DEF Init, RolesInv, AcceptedInv, TeamInv, NeedInv, StageInv, E!Start, P!Start

LEMMA RolesNext == RolesInv /\ [Next]_vars => RolesInv'
<1> SUFFICES ASSUME RolesInv, [Next]_vars
             PROVE  RolesInv'
  OBVIOUS
<1> USE DEF RolesInv, AcceptedInv, TeamInv, NeedInv, StageInv, ensembleVars, dagVars,
            requestVars
<1>1. CASE UNCHANGED vars
  BY <1>1 DEF vars
<1>2. CASE Load
  BY <1>2 DEF Load
<1>3. CASE Plan
  BY <1>3 DEF Plan
<1>4. CASE Choose
  BY <1>4 DEF Choose
<1>5. CASE Select
  <2>1. PICK selected \in Selections(cfg) :
            /\ team' = IF plan.pattern = "role_split" \/ selected = {} THEN selected
                       ELSE {Min(selected)}
            /\ phase' = IF selected = {} THEN "failed"
                        ELSE IF plan.pattern = "parallel_ensemble" THEN "ensemble"
                        ELSE "split"
    BY <1>5 DEF Select
  <2>2. team' \subseteq Workers(cfg)
    BY <2>1, SelectedAreWorkers
  <2> QED
    BY <1>5, <2>1, <2>2 DEF Select
<1>6. CASE SelectDag
  BY <1>6 DEF SelectDag
<1>7. CASE RunSplit
  BY <1>7 DEF RunSplit
<1>8. CASE RunEnsemble
  <2>1. step' = "judge" => step = "judge" \/ cfg.vote = "judge_tiebreak"
    BY <1>8 DEF RunEnsemble, E!Next, E!Collect, E!Synthesize, E!Vote, E!NeedsJudge, E!Elect,
                E!Judge, E!DeadlinePasses, EnsembleConf
  <2> QED
    BY <1>8, <2>1 DEF RunEnsemble
<1>9. CASE RunDag
  <2>1. stage' \in 1..7 /\ (at' = "boundary" => stage' < 7)
    <3>1. CASE P!Skip
      BY <3>1, WriterRuns DEF P!Skip, P!Name
    <3>2. CASE P!Call
      <4>1. stage' = stage
        BY <3>2 DEF P!Call
      <4>2. stage = 7 => P!Name = "writer"
        BY DEF P!Name, P!Stages
      <4> QED
        BY <3>2, <4>1, <4>2 DEF P!Call
    <3>3. CASE P!Boundary
      BY <3>3 DEF P!Boundary
    <3>4. CASE P!Return
      BY <3>4 DEF P!Return
    <3>5. CASE P!DeadlinePasses
      BY <3>5 DEF P!DeadlinePasses
    <3> QED
      BY <1>9, <3>1, <3>2, <3>3, <3>4, <3>5 DEF RunDag, P!Next
  <2> QED
    BY <1>9, <2>1 DEF RunDag
<1>10. CASE Finish
  BY <1>10 DEF Finish
<1>11. CASE DeadlinePasses
  BY <1>11 DEF DeadlinePasses
<1> QED
  BY <1>1, <1>2, <1>3, <1>4, <1>5, <1>6, <1>7, <1>8, <1>9, <1>10, <1>11 DEF Next

\* Every request is served under a configuration that was accepted, by workers
\* that are neither verifiers nor synthesizers.
THEOREM RolesInvariant == Spec => []RolesInv
BY RolesInit, RolesNext, PTL DEF Spec

\* A role that is named or flagged, in a configuration that names known roles.
LEMMA NamedOrFlaggedFinds ==
    ASSUME NEW c \in Configs, NEW name, Known(c, name), name # 0 \/ Verifiers(c) # {}
    PROVE  NamedOrFlagged(c, name) # 0
<1>1. Verifiers(c) \in SUBSET Nat /\ 0 \notin Verifiers(c)
  BY ConfigsAssumption DEF Verifiers
<1>2. Verifiers(c) # {} => First(Verifiers(c)) # 0
  BY <1>1, LeastExists DEF First
<1> QED
  BY <1>2, ConfigsAssumption DEF NamedOrFlagged, Known

\* No role passes a verdict on an answer of its own, or merges it with others
\* (_is_verifier_role, _worker_roles), whatever the configuration names.
THEOREM WorkersNeitherCheckNorMergeCorrect == Spec => []WorkersNeitherCheckNorMerge
<1>1. RolesInv => WorkersNeitherCheckNorMerge
  <2> SUFFICES ASSUME RolesInv
               PROVE  WorkersNeitherCheckNorMerge
    OBVIOUS
  <2>1. cfg \in Configs /\ team \subseteq Workers(cfg) /\ DOMAIN cfg.roles = 1..Len(cfg.roles)
    BY ConfigsAssumption DEF RolesInv, TeamInv
  <2>2. 0 \notin team
    BY <2>1 DEF Workers
  <2>3. /\ First(Verifiers(cfg)) \in Verifiers(cfg) \cup {0}
        /\ First(Synthesizers(cfg)) \in Synthesizers(cfg) \cup {0}
    <3>1. Verifiers(cfg) \in SUBSET Nat /\ Synthesizers(cfg) \in SUBSET Nat
      BY <2>1 DEF Verifiers, Synthesizers
    <3> QED
      BY <3>1, LeastExists DEF First
  <2>4. SelectVerifier(cfg) \in Verifiers(cfg) \cup {0, cfg.verifyRole}
    BY <2>3 DEF SelectVerifier, NamedOrFlagged
  <2>5. /\ Workers(cfg) \cap Verifiers(cfg) = {}
        /\ Workers(cfg) \cap Synthesizers(cfg) = {}
        /\ cfg.verifyRole \notin Workers(cfg)
    BY DEF Workers, IsVerifier, Verifiers, Synthesizers
  <2> QED
    BY <2>1, <2>2, <2>3, <2>4, <2>5 DEF WorkersNeitherCheckNorMerge
<1> QED
  BY <1>1, RolesInvariant, PTL

\* A configuration that was accepted never leaves a request without the judge,
\* the verifier or the stage role it is about to ask (validate_config).
THEOREM RolesAreThereCorrect == Spec => []RolesAreThere
<1>1. RolesInv => RolesAreThere
  <2> SUFFICES ASSUME RolesInv
               PROVE  RolesAreThere
    OBVIOUS
  <2>1. cfg \in Configs
    BY DEF RolesInv
  <2>2. phase = "ensemble" /\ step = "judge" => SelectJudge(cfg) # 0
    BY <2>1, NamedOrFlaggedFinds
       DEF RolesInv, AcceptedInv, NeedInv, Accepted, JudgeAccepted, SelectJudge
  <2>3. phase = "split" /\ cfg.verify => SelectVerifier(cfg) # 0
    BY <2>1, NamedOrFlaggedFinds
       DEF RolesInv, AcceptedInv, Accepted, VerifierAccepted, SelectVerifier
  <2>4. ASSUME phase = "dag", P!Runs(P!Name)
        PROVE  P!Name \in Configured(cfg) /\ Entry(cfg, P!Name).role \in DOMAIN cfg.roles
    <3>1. DagAccepted(cfg) /\ cfg.stages # <<>>
      BY <2>4 DEF RolesInv, AcceptedInv, NeedInv, Accepted
    <3>2. P!Name \in {"planner", "solver", "verifier", "critic", "reviser", "claim_judge",
                      "writer"}
      BY DEF RolesInv, StageInv, P!Name, P!Stages
    <3>3. P!Name \in Configured(cfg)
      BY <2>4, <3>1, <3>2 DEF P!Runs, P!Enabled, DagConf, Enabled, DagAccepted
    <3>4. PICK i \in DOMAIN cfg.stages : cfg.stages[i].name = P!Name
      BY <3>3 DEF Configured
    <3>5. \E i_1 \in DOMAIN cfg.stages : Entry(cfg, P!Name) = cfg.stages[i_1]
      BY <3>4 DEF Entry
    <3> QED
      BY <3>1, <3>3, <3>5 DEF DagAccepted
  <2> QED
    BY <2>2, <2>3, <2>4 DEF RolesAreThere
<1> QED
  BY <1>1, RolesInvariant, PTL
-----------------------------------------------------------------------------
(* The pipeline.                                                           *)

Places == 1..Len(results)
Names == {"planner", "solver", "verifier", "critic", "reviser", "claim_judge", "writer"}

PipelineType ==
    /\ at \in {"stage", "boundary", "merge", "done"}
    /\ results \in Seq([stage : Names, answered : BOOLEAN])
    /\ candidates \in Seq(Nat)
    /\ revised \in Nat
    /\ warned \in BOOLEAN

\* Every output is of a stage the run has come to, and of the one it is in only
\* if that is the solver, which may have another call to make.
OrderInv == \A i \in Places : \E k \in 1..stage :
                /\ results[i].stage = P!Stages[k]
                /\ at = "stage" /\ k = stage => k = 2

\* _solver_outputs are the solver's outputs, in order.
CandidatesInv ==
    /\ \A k \in 1..Len(candidates) :
           candidates[k] \in Places /\ results[candidates[k]].stage = "solver"
    /\ \A i \in Places : results[i].stage = "solver" =>
           \E k \in 1..Len(candidates) : candidates[k] = i
    /\ \A j, k \in 1..Len(candidates) : j <= k => candidates[j] <= candidates[k]

\* _reviser_answer is the reviser's output, and 0 stands for none.
RevisedInv == /\ revised \in Places \cup {0}
              /\ \A i \in Places : results[i].stage = "reviser" <=> i = revised

\* The writer's output is the last, and only then is the run over without a
\* warning; a run that was cut short has picked its answer.
WriterInv ==
    /\ \A i \in Places : results[i].stage = "writer" =>
           i = Len(results) /\ stage = 7 /\ at \in {"merge", "done"}
    /\ stage = 7 /\ at \in {"merge", "done"} =>
           Len(results) \in Places /\ results[Len(results)].stage = "writer"
    /\ at = "merge" /\ stage < 7 => answer = P!BestAvailable(revised)
    /\ warned <=> at \in {"merge", "done"} /\ stage < 7

OutputsInv == /\ PipelineType /\ OrderInv /\ CandidatesInv /\ RevisedInv /\ WriterInv
              /\ BestAnswerReturned
-----------------------------------------------------------------------------
LEMMA StageNames ==
    \A k \in 1..7 : /\ P!Stages[k] \in Names
                    /\ P!Stages[k] = "solver" <=> k = 2
                    /\ P!Stages[k] = "reviser" <=> k = 5
                    /\ P!Stages[k] = "writer" <=> k = 7
<1>1. /\ P!Stages[1] = "planner" /\ P!Stages[2] = "solver" /\ P!Stages[3] = "verifier"
      /\ P!Stages[4] = "critic" /\ P!Stages[5] = "reviser" /\ P!Stages[6] = "claim_judge"
      /\ P!Stages[7] = "writer"
  BY DEF P!Stages
<1>2. \A k \in 1..7 : k \in {1, 2, 3, 4, 5, 6, 7}
  OBVIOUS
<1> QED
  BY <1>1, <1>2 DEF Names

LEMMA AnswersOfStage ==
    ASSUME PipelineType, NEW s \in Names
    PROVE  P!AnswersOf(s) = {i \in Places : results[i].stage = s /\ results[i].answered}
<1>1. ASSUME NEW i \in Places
      PROVE  results[i] = [stage |-> s, answered |-> TRUE]
             <=> results[i].stage = s /\ results[i].answered
  <2> DEFINE Outputs == [stage : Names, answered : BOOLEAN]
  <2>0. results[i] \in Outputs
    <3> HIDE DEF Outputs
    <3>1. results \in Seq(Outputs)
      BY DEF PipelineType, Outputs
    <3> QED
      BY <3>1 DEF Places
  <2>1. results[i] \in [stage : Names, answered : BOOLEAN]
    BY <2>0
  <2>2. results[i] = [stage |-> results[i].stage, answered |-> results[i].answered]
    BY <2>1
  <2>3. results[i].answered \in BOOLEAN
    BY <2>1
  <2>4. CASE results[i].answered = TRUE
    <3>1. results[i] = [stage |-> results[i].stage, answered |-> TRUE]
      BY <2>2, <2>4
    <3>2. results[i] = [stage |-> s, answered |-> TRUE] => results[i].stage = s
      OBVIOUS
    <3>3. results[i].stage = s => results[i] = [stage |-> s, answered |-> TRUE]
      BY <3>1, Zenon
    <3> QED
      BY <3>2, <3>3, <2>4, Zenon
  <2>5. CASE results[i].answered = FALSE
    BY <2>2, <2>5
  <2> QED
    BY <2>3, <2>4, <2>5
<1> QED
  BY <1>1 DEF P!AnswersOf, Places

\* The first answer of the solvers, if there is one (_first_candidate).
LEMMA FirstAnswerIsFirst ==
    ASSUME PipelineType, CandidatesInv
    PROVE  \/ /\ P!FirstAnswer(candidates) \in P!AnswersOf("solver")
              /\ \A i \in P!AnswersOf("solver") : P!FirstAnswer(candidates) <= i
           \/ P!AnswersOf("solver") = {} /\ P!FirstAnswer(candidates) = 0
<1> DEFINE A == P!Answers(candidates)
           m == CHOOSE i \in A : \A j \in A : i <= j
<1>1. A = {k \in 1..Len(candidates) : results[candidates[k]].answered}
  BY DEF P!Answers
<1>2. P!AnswersOf("solver") =
          {i \in Places : results[i].stage = "solver" /\ results[i].answered}
  BY AnswersOfStage DEF Names
<1>3. Len(candidates) \in Nat /\ candidates \in Seq(Nat)
  BY DEF PipelineType
<1>4. CASE A = {}
  <2>1. P!FirstAnswer(candidates) = 0
    BY <1>4 DEF P!FirstAnswer
  <2>2. P!AnswersOf("solver") = {}
    BY <1>1, <1>2, <1>4 DEF CandidatesInv
  <2> QED
    BY <2>1, <2>2
<1>5. CASE A # {}
  <2>1. A \in SUBSET Nat
    BY <1>1, <1>3
  <2>2. m \in A /\ \A j \in A : m <= j
    BY <1>5, <2>1, LeastExists DEF Min
  <2>3. P!FirstAnswer(candidates) = candidates[m]
    BY <1>5 DEF P!FirstAnswer
  <2> HIDE DEF A, m
  <2>4. candidates[m] \in P!AnswersOf("solver")
    BY <1>1, <1>2, <2>2 DEF CandidatesInv
  <2>5. ASSUME NEW i \in P!AnswersOf("solver")
        PROVE  candidates[m] <= i
    <3>1. PICK k \in 1..Len(candidates) : candidates[k] = i
      BY <1>2 DEF CandidatesInv
    <3>2. k \in A
      BY <1>1, <1>2, <3>1
    <3> QED
      BY <1>1, <2>2, <3>1, <3>2 DEF CandidatesInv
  <2> QED
    BY <2>3, <2>4, <2>5
<1> QED
  BY <1>4, <1>5

\* _best_available_answer is what it is called, as long as no writer answered.
LEMMA BestAvailableIsBest ==
    ASSUME PipelineType, CandidatesInv, RevisedInv, P!Unwritten,
           answer' = P!BestAvailable(revised), results' = results, at' = "done"
    PROVE  BestAnswerReturned'
<1>1. P!AnswersOf("reviser") = {i \in Places : results[i].stage = "reviser" /\ results[i].answered}
  BY AnswersOfStage DEF Names
<1>2. \A s : P!AnswersOf(s)' = P!AnswersOf(s)
  BY DEF P!AnswersOf
<1>3. CASE revised # 0 /\ results[revised].answered
  <2>1. answer' = revised
    BY <1>3 DEF P!BestAvailable
  <2>2. revised \in P!AnswersOf("reviser")
    BY <1>1, <1>3 DEF RevisedInv
  <2> QED
    BY <1>2, <2>1, <2>2 DEF BestAnswerReturned, P!BestAnswerReturned, P!Unwritten
<1>4. CASE ~(revised # 0 /\ results[revised].answered)
  <2>1. answer' = P!FirstAnswer(candidates)
    BY <1>4 DEF P!BestAvailable
  <2>2. P!AnswersOf("reviser") = {}
    BY <1>1, <1>4 DEF RevisedInv, Places
  <2> QED
    BY <1>2, <2>1, <2>2, FirstAnswerIsFirst
       DEF BestAnswerReturned, P!BestAnswerReturned, P!Unwritten, P!Unrevised
<1> QED
  BY <1>3, <1>4
-----------------------------------------------------------------------------
LEMMA PipelineInit == Init => OutputsInv
<1> SUFFICES ASSUME Init
             PROVE  OutputsInv
  OBVIOUS
<1>1. /\ results = <<>> /\ candidates = <<>> /\ revised = 0 /\ warned = FALSE
      /\ at = "stage" /\ stage = 1 /\ Places = {}
  BY DEF Init, P!Start, Places
<1>2. PipelineType
  <2>1. \A S : <<>> \in Seq(S)
    OBVIOUS
  <2> QED
    BY <1>1, <2>1 DEF PipelineType
<1>3. CandidatesInv /\ RevisedInv /\ OrderInv
  BY <1>1 DEF CandidatesInv, RevisedInv, OrderInv
<1>4. WriterInv
  BY <1>1 DEF WriterInv
<1>5. BestAnswerReturned
  BY <1>1 DEF BestAnswerReturned, P!BestAnswerReturned
<1> QED
  BY <1>2, <1>3, <1>4, <1>5 DEF OutputsInv

\* A stage makes one call: one more output.
LEMMA CallStep ==
    ASSUME RolesInv, OutputsInv, P!Call
    PROVE  OutputsInv'
<1> DEFINE n == Len(results) + 1
<1>1. PICK out \in [stage : Names, answered : BOOLEAN] :
          out.stage = P!Name /\ results' = Append(results, out)
  BY StageNames DEF P!Call, RolesInv, StageInv, P!Name
<1>2. /\ at = "stage" /\ stage \in 1..7 /\ stage' = stage
      /\ results \in Seq([stage : Names, answered : BOOLEAN])
      /\ P!Name = P!Stages[stage]
      /\ candidates \in Seq(Nat) /\ revised \in Nat
  BY DEF P!Call, RolesInv, StageInv, OutputsInv, PipelineType, P!Name
<1>3. /\ results' \in Seq([stage : Names, answered : BOOLEAN])
      /\ Len(results) \in Nat /\ Len(results') = n
      /\ \A i \in Places : results'[i] = results[i]
      /\ results'[n].stage = P!Stages[stage]
      /\ Places' = Places \cup {n} /\ n \notin Places
  BY <1>1, <1>2 DEF Places
<1>4. P!Name = "solver" <=> stage = 2
  BY <1>2, StageNames
<1>5. P!Name = "reviser" <=> stage = 5
  BY <1>2, StageNames
<1>6. P!Name = "writer" <=> stage = 7
  BY <1>2, StageNames
<1>7. /\ candidates' = IF stage = 2 THEN Append(candidates, n) ELSE candidates
      /\ revised' = IF stage = 5 THEN n ELSE revised
      /\ at' \in {"stage", "boundary", "merge"}
      /\ at' = "stage" => stage = 2
      /\ at' = "merge" <=> stage = 7
      /\ warned' = warned
  BY <1>4, <1>5, <1>6 DEF P!Call
<1>8. /\ results'[n].stage = "solver" <=> stage = 2
      /\ results'[n].stage = "reviser" <=> stage = 5
      /\ results'[n].stage = "writer" <=> stage = 7
  BY <1>2, <1>3, StageNames
<1> HIDE DEF n
<1>9. PipelineType'
  BY <1>2, <1>3, <1>7 DEF PipelineType, OutputsInv, n
<1>10. OrderInv'
  <2>1. ASSUME NEW i \in Places
        PROVE  \E k \in 1..stage : /\ results'[i].stage = P!Stages[k]
                                   /\ at' = "stage" /\ k = stage => k = 2
    <3>1. PICK k \in 1..stage : results[i].stage = P!Stages[k]
      BY DEF OutputsInv, OrderInv
    <3> QED
      BY <1>3, <1>7, <3>1
  <2>2. \E k \in 1..stage : /\ results'[n].stage = P!Stages[k]
                            /\ at' = "stage" /\ k = stage => k = 2
    BY <1>2, <1>3, <1>7
  <2> QED
    BY <1>2, <1>3, <2>1, <2>2 DEF OrderInv
<1>11. CandidatesInv'
  <2>1. CASE stage = 2
    <3>1. /\ Len(candidates') = Len(candidates) + 1 /\ candidates'[Len(candidates) + 1] = n
          /\ \A k \in 1..Len(candidates) : candidates'[k] = candidates[k]
          /\ Len(candidates) \in Nat
      BY <1>2, <1>3, <1>7, <2>1 DEF n
    <3>2. \A k \in 1..Len(candidates) : candidates[k] \in Places /\ candidates[k] <= n
      BY <1>3 DEF OutputsInv, CandidatesInv, Places, n
    <3>3. \A k \in 1..Len(candidates') :
              candidates'[k] \in Places' /\ results'[candidates'[k]].stage = "solver"
      BY <1>3, <1>8, <2>1, <3>1 DEF OutputsInv, CandidatesInv
    <3>4. \A i \in Places' : results'[i].stage = "solver" =>
              \E k \in 1..Len(candidates') : candidates'[k] = i
      BY <1>3, <3>1 DEF OutputsInv, CandidatesInv
    <3>5. \A j, k \in 1..Len(candidates') : j <= k => candidates'[j] <= candidates'[k]
      BY <1>3, <3>1, <3>2 DEF OutputsInv, CandidatesInv, n
    <3> QED
      BY <3>3, <3>4, <3>5 DEF CandidatesInv
  <2>2. CASE stage # 2
    BY <1>3, <1>7, <1>8, <2>2 DEF OutputsInv, CandidatesInv
  <2> QED
    BY <2>1, <2>2
<1>12. RevisedInv'
  <2>1. CASE stage = 5
    <3>1. \A i \in Places : results[i].stage # "reviser"
      BY <1>2, <2>1, StageNames DEF OutputsInv, OrderInv
    <3> QED
      BY <1>3, <1>7, <1>8, <2>1, <3>1 DEF RevisedInv
  <2>2. CASE stage # 5
    BY <1>3, <1>7, <1>8, <2>2 DEF OutputsInv, RevisedInv, Places, n
  <2> QED
    BY <2>1, <2>2
<1>13. WriterInv'
  <2>1. \A i \in Places : results[i].stage # "writer"
    BY <1>2 DEF OutputsInv, WriterInv
  <2>2. ~warned
    BY <1>2 DEF OutputsInv, WriterInv
  <2>3. \A i \in Places' : results'[i].stage = "writer" =>
            i = Len(results') /\ stage' = 7 /\ at' \in {"merge", "done"}
    BY <1>2, <1>3, <1>7, <1>8, <2>1
  <2>4. stage' = 7 => Len(results') \in Places' /\ results'[Len(results')].stage = "writer"
    BY <1>2, <1>3, <1>8
  <2>5. /\ ~(at' = "merge" /\ stage' < 7)
        /\ ~(at' \in {"merge", "done"} /\ stage' < 7)
    BY <1>2, <1>7
  <2> QED
    BY <1>7, <2>2, <2>3, <2>4, <2>5 DEF WriterInv
<1>14. BestAnswerReturned'
  BY <1>7 DEF BestAnswerReturned, P!BestAnswerReturned
<1> QED
  BY <1>9, <1>10, <1>11, <1>12, <1>13, <1>14 DEF OutputsInv

\* The step between two stages.
LEMMA BoundaryStep ==
    ASSUME RolesInv, OutputsInv, P!Boundary
    PROVE  OutputsInv'
<1>1. /\ at = "boundary" /\ stage \in 1..6
      /\ UNCHANGED <<results, candidates, revised>>
      /\ at' \in {"stage", "merge"}
  BY DEF P!Boundary, RolesInv, StageInv
<1>2. P!BestAvailable(revised)' = P!BestAvailable(revised)
  BY <1>1 DEF P!BestAvailable, P!FirstAnswer, P!Answers
<1>3. PipelineType' /\ CandidatesInv' /\ RevisedInv'
  BY <1>1 DEF P!Boundary, OutputsInv, PipelineType, CandidatesInv, RevisedInv, Places
<1>4. OrderInv'
  <2>1. CASE at' = "merge"
    BY <1>1, <2>1 DEF P!Boundary, OutputsInv, OrderInv, Places
  <2>2. CASE at' = "stage"
    <3>1. stage' = stage + 1
      BY <2>2 DEF P!Boundary
    <3>2. \A k \in 1..stage : k \in 1..stage' /\ k # stage'
      BY <1>1, <3>1
    <3> QED
      BY <1>1, <3>2 DEF OutputsInv, OrderInv, Places
  <2> QED
    BY <1>1, <2>1, <2>2
<1>5. WriterInv'
  <2>1. (\A i \in Places : results[i].stage # "writer") /\ ~warned
    BY <1>1 DEF OutputsInv, WriterInv
  <2> QED
    BY <1>1, <1>2, <2>1 DEF P!Boundary, OutputsInv, WriterInv, Places
<1>6. BestAnswerReturned'
  BY <1>1 DEF BestAnswerReturned, P!BestAnswerReturned
<1> QED
  BY <1>3, <1>4, <1>5, <1>6 DEF OutputsInv

LEMMA ReturnStep ==
    ASSUME RolesInv, OutputsInv, P!Return
    PROVE  OutputsInv'
<1>1. /\ at = "merge" /\ at' = "done" /\ stage \in 1..7
      /\ UNCHANGED <<stage, results, candidates, revised, warned>>
  BY DEF P!Return, RolesInv, StageInv
<1>2. PipelineType' /\ OrderInv' /\ CandidatesInv' /\ RevisedInv' /\ WriterInv'
  <2>1. PipelineType' /\ CandidatesInv' /\ RevisedInv'
    BY <1>1 DEF OutputsInv, PipelineType, CandidatesInv, RevisedInv, Places
  <2>2. OrderInv'
    BY <1>1 DEF OutputsInv, OrderInv, Places
  <2>3. WriterInv'
    BY <1>1 DEF OutputsInv, WriterInv, Places
  <2> QED
    BY <2>1, <2>2, <2>3
<1>3. P!Name = "writer" <=> stage = 7
  BY <1>1, StageNames DEF P!Name
<1>4. P!AnswersOf("writer") = {i \in Places : results[i].stage = "writer" /\ results[i].answered}
  BY AnswersOfStage DEF OutputsInv, Names
<1>5. CASE stage = 7 /\ results[Len(results)].answered
  <2>1. answer' = Len(results)
    BY <1>3, <1>5 DEF P!Return, P!FinalAnswer
  <2>2. Len(results) \in P!AnswersOf("writer")
    BY <1>1, <1>4, <1>5 DEF OutputsInv, WriterInv
  <2>3. P!AnswersOf("writer")' = P!AnswersOf("writer")
    BY <1>1 DEF P!AnswersOf
  <2>4. BestAnswerReturned'
    BY <2>1, <2>2, <2>3 DEF BestAnswerReturned, P!BestAnswerReturned
  <2> QED
    BY <1>2, <2>4 DEF OutputsInv
<1>6. CASE ~(stage = 7 /\ results[Len(results)].answered)
  <2>1. answer' = P!BestAvailable(revised)
    BY <1>1, <1>3, <1>6 DEF P!Return, P!FinalAnswer, OutputsInv, WriterInv
  <2>2. P!Unwritten
    BY <1>4, <1>6 DEF P!Unwritten, OutputsInv, WriterInv
  <2>3. BestAnswerReturned'
    BY <1>1, <2>1, <2>2, BestAvailableIsBest DEF OutputsInv
  <2> QED
    BY <1>2, <2>3 DEF OutputsInv
<1> QED
  BY <1>5, <1>6

\* The outputs do not change in any other step.
LEMMA OutputsKept ==
    ASSUME OutputsInv, UNCHANGED <<stage, results, candidates, revised, warned, answer>>,
           at' = at \/ (at = "stage" /\ at' = "boundary")
    PROVE  OutputsInv'
<1>1. P!BestAvailable(revised)' = P!BestAvailable(revised)
  BY DEF P!BestAvailable, P!FirstAnswer, P!Answers
<1>2. PipelineType' /\ CandidatesInv' /\ RevisedInv' /\ OrderInv'
  BY DEF OutputsInv, PipelineType, CandidatesInv, RevisedInv, OrderInv, Places
<1>3. WriterInv'
  BY <1>1 DEF OutputsInv, WriterInv, Places
<1>4. BestAnswerReturned'
  BY DEF OutputsInv, BestAnswerReturned, P!BestAnswerReturned, P!Unwritten, P!Unrevised,
         P!AnswersOf
<1> QED
  BY <1>2, <1>3, <1>4 DEF OutputsInv

LEMMA OutputsNext == RolesInv /\ OutputsInv /\ [Next]_vars => OutputsInv'
<1> SUFFICES ASSUME RolesInv, OutputsInv, [Next]_vars
             PROVE  OutputsInv'
  OBVIOUS
<1>1. CASE UNCHANGED dagVars
  <2>1. UNCHANGED <<stage, results, candidates, revised, warned, answer, at>>
    BY <1>1 DEF dagVars
  <2> QED
    BY <2>1, OutputsKept
<1>2. CASE RunDag
  <2>1. CASE P!Skip \/ P!DeadlinePasses
    <3>1. /\ UNCHANGED <<stage, results, candidates, revised, warned, answer>>
          /\ at' = at \/ (at = "stage" /\ at' = "boundary")
      BY <2>1 DEF P!Skip, P!DeadlinePasses
    <3> QED
      BY <3>1, OutputsKept
  <2> QED
    BY <1>2, <2>1, CallStep, BoundaryStep, ReturnStep DEF RunDag, P!Next
<1>3. CASE Next /\ ~RunDag
  BY <1>1, <1>3 DEF Next, Load, Plan, Choose, Select, SelectDag, RunSplit, RunEnsemble,
                    Finish, DeadlinePasses
<1> QED
  BY <1>1, <1>2, <1>3 DEF vars

\* What the pipeline remembers of its outputs agrees with the outputs.
THEOREM OutputsInvariant == Spec => []OutputsInv
BY PipelineInit, OutputsNext, RolesInvariant, PTL DEF Spec

\* The best answer of whatever stages ran is returned, however many solvers
\* there are and wherever the deadline cuts (_best_available_answer).
THEOREM BestAnswerCorrect == Spec => []BestAnswerReturned
<1>1. OutputsInv => BestAnswerReturned
  BY DEF OutputsInv
<1> QED
  BY <1>1, OutputsInvariant, PTL

\* A run that was cut short by the deadline says so, and no other does.
THEOREM CutShortCorrect == Spec => []CutShortIsSaid
<1>1. RolesInv /\ OutputsInv => CutShortIsSaid
  <2> SUFFICES ASSUME RolesInv, OutputsInv, at = "done"
               PROVE  warned <=> \A i \in Places : results[i].stage # "writer"
    BY DEF CutShortIsSaid, P!CutShortIsSaid, Places
  <2> QED
    BY DEF RolesInv, StageInv, OutputsInv, WriterInv
<1> QED
  BY <1>1, RolesInvariant, OutputsInvariant, PTL
-----------------------------------------------------------------------------
(* The clusters of an ensemble's answers. They are made by a recursive     *)
(* function, whose equation is proved first.                               *)

\* Steps that lead from S into S lead somewhere from e.
LEMMA RecursionExists ==
    ASSUME NEW N \in Nat, NEW S, NEW e \in S, NEW F \in [1..N -> [S -> S]]
    PROVE  \E g \in [0..N -> S] : g[0] = e /\ \A n \in 1..N : g[n] = F[n][g[n - 1]]
<1> DEFINE Good(m) == \E g \in [0..m -> S] :
                          g[0] = e /\ \A n \in 1..m : g[n] = F[n][g[n - 1]]
           Bad == {m \in 0..N : ~Good(m)}
<1>1. Good(0)
  <2> DEFINE g0 == [n \in 0..0 |-> e]
  <2>1. g0 \in [0..0 -> S] /\ g0[0] = e
    OBVIOUS
  <2>2. \A n \in 1..0 : g0[n] = F[n][g0[n - 1]]
    OBVIOUS
  <2> HIDE DEF g0
  <2> QED
    BY <2>1, <2>2
<1>2. ASSUME NEW m \in 0..N, m > 0, Good(m - 1)
      PROVE  Good(m)
  <2>1. PICK g \in [0..(m - 1) -> S] : g[0] = e /\ \A n \in 1..(m - 1) : g[n] = F[n][g[n - 1]]
    BY <1>2
  <2> DEFINE h == [n \in 0..m |-> IF n = m THEN F[m][g[m - 1]] ELSE g[n]]
  <2>2. g[m - 1] \in S /\ F[m] \in [S -> S]
    BY <1>2
  <2>3. h \in [0..m -> S]
    BY <2>2
  <2>4. h[0] = e
    BY <1>2, <2>1
  <2>5. \A n \in 1..m : h[n] = F[n][h[n - 1]]
    BY <1>2, <2>1
  <2> HIDE DEF h
  <2> QED
    BY <2>3, <2>4, <2>5
<1> HIDE DEF Good
<1>3. Bad = {}
  <2> SUFFICES ASSUME Bad # {}
               PROVE  FALSE
    OBVIOUS
  <2> DEFINE m == Min(Bad)
  <2>0. Bad \in SUBSET Nat
    OBVIOUS
  <2> HIDE DEF Bad
  <2>1. m \in Bad /\ \A k \in Bad : m <= k
    BY <2>0, LeastExists
  <2> USE DEF Bad
  <2>2. m \in 0..N /\ ~Good(m)
    BY <2>1
  <2> HIDE DEF m
  <2>3. m - 1 \in 0..N /\ m > 0
    BY <1>1, <2>2
  <2>4. Good(m - 1)
    BY <2>1, <2>3
  <2> QED
    BY <1>2, <2>2, <2>3, <2>4
<1>4. Good(N)
  BY <1>3
<1> QED
  BY <1>4 DEF Good

Lists == Seq(Seq(Nat))

\* Two places with the same answer.
Like(ballots, i, j) == E!Same(ballots[i], ballots[j])

LEMMA LikeIsEquivalence ==
    ASSUME NEW ballots
    PROVE  /\ \A i : Like(ballots, i, i)
           /\ \A i, j : Like(ballots, i, j) => Like(ballots, j, i)
           /\ \A i, j, k : Like(ballots, i, j) /\ Like(ballots, j, k) => Like(ballots, i, k)
BY DEF Like, E!Same

\* The places up to n with the answer of place i.
Alike(ballots, n, i) == {j \in 1..n : Like(ballots, i, j)}

\* s lists, in order, places up to n that have the same answer as its first one.
Listing(s, ballots, n) ==
    /\ s \in Seq(Nat)
    /\ Len(s) > 0
    /\ \A j, k \in 1..Len(s) : j < k => s[j] < s[k]
    /\ \A k \in 1..Len(s) : s[k] \in 1..n /\ Like(ballots, s[1], s[k])

\* K clusters the places up to n, in the order of the first of each cluster.
Clustering(K, ballots, n) ==
    /\ K \in Lists
    /\ \A b \in 1..Len(K) : Listing(K[b], ballots, n)
    /\ \A b, d \in 1..Len(K) : b < d => K[b][1] < K[d][1] /\ ~Like(ballots, K[b][1], K[d][1])
    /\ \A i \in 1..n : \E b \in 1..Len(K) : \E k \in 1..Len(K[b]) : K[b][k] = i

LEMMA AppendKeeps ==
    ASSUME NEW n \in Nat \ {0}, NEW ballots, NEW s, Listing(s, ballots, n - 1),
           Like(ballots, s[1], n)
    PROVE  /\ Listing(Append(s, n), ballots, n)
           /\ Append(s, n)[1] = s[1]
           /\ Len(Append(s, n)) = Len(s) + 1
           /\ Append(s, n)[Len(s) + 1] = n
           /\ \A k \in 1..Len(s) : Append(s, n)[k] = s[k]
<1> DEFINE t == Append(s, n)
<1>1. /\ t \in Seq(Nat) /\ Len(t) = Len(s) + 1 /\ t[Len(t)] = n /\ Len(s) \in Nat
      /\ \A k \in 1..Len(s) : t[k] = s[k]
      /\ Len(s) > 0
  BY DEF Listing
<1> HIDE DEF t
<1>2. t[1] = s[1]
  BY <1>1
<1>3. ASSUME NEW j \in 1..Len(t), NEW k \in 1..Len(t), j < k
      PROVE  t[j] < t[k]
  <2>1. j \in 1..Len(s) /\ t[j] = s[j] /\ s[j] \in 1..(n - 1)
    BY <1>1, <1>3 DEF Listing
  <2>2. CASE k \in 1..Len(s)
    BY <2>1, <2>2, <1>1, <1>3 DEF Listing
  <2>3. CASE k = Len(t)
    BY <2>1, <2>3, <1>1
  <2> QED
    BY <2>2, <2>3, <1>1
<1>4. ASSUME NEW k \in 1..Len(t)
      PROVE  t[k] \in 1..n /\ Like(ballots, t[1], t[k])
  <2>1. CASE k \in 1..Len(s)
    <3>1. t[k] = s[k]
      BY <2>1, <1>1
    <3>2. s[k] \in 1..(n - 1) /\ Like(ballots, s[1], s[k])
      BY <2>1 DEF Listing
    <3> QED
      BY <3>1, <3>2, <1>2
  <2>2. CASE k = Len(t)
    <3>1. t[k] = n
      BY <2>2, <1>1
    <3> QED
      BY <3>1, <1>2
  <2> QED
    BY <1>1, <2>1, <2>2
<1>5. Listing(t, ballots, n)
  BY <1>1, <1>3, <1>4 DEF Listing
<1> QED
  BY <1>1, <1>2, <1>5 DEF t

\* What a step of the clustering does to the clusters: the next place joins the
\* one cluster of its answer ...
LEMMA JoinKeeps ==
    ASSUME NEW ballots, NEW n \in Nat \ {0}, NEW K, Clustering(K, ballots, n - 1),
           NEW c \in 1..Len(K), Like(ballots, K[c][1], n)
    PROVE  Clustering(E!AddTo(K, ballots, n), ballots, n)
<1> DEFINE L == E!AddTo(K, ballots, n)
<1>1. K \in Lists /\ Len(K) \in Nat /\ DOMAIN K = 1..Len(K)
  BY DEF Clustering, Lists
<1>2. \A b \in 1..Len(K) : K[b] \in Seq(Nat) /\ Len(K[b]) \in Nat
  BY <1>1 DEF Lists
<1>3. \A b \in 1..Len(K) : b # c => ~Like(ballots, K[b][1], n)
  <2> SUFFICES ASSUME NEW b \in 1..Len(K), b # c, Like(ballots, K[b][1], n)
               PROVE  FALSE
    OBVIOUS
  <2>1. Like(ballots, K[b][1], K[c][1]) /\ Like(ballots, K[c][1], K[b][1])
    BY LikeIsEquivalence
  <2>2. b < c \/ c < b
    BY <1>1
  <2> QED
    BY <2>1, <2>2 DEF Clustering
<1>4. L = [b \in 1..Len(K) |-> IF b = c THEN Append(K[b], n) ELSE K[b]]
  <2>1. L = [b \in 1..Len(K) |-> IF Like(ballots, K[b][1], n) THEN Append(K[b], n) ELSE K[b]]
    BY <1>1 DEF E!AddTo, Like
  <2> QED
    BY <2>1, <1>3
<1> HIDE DEF L
<1>5. /\ Len(L) = Len(K) /\ DOMAIN L = 1..Len(K)
      /\ L[c] = Append(K[c], n)
      /\ \A b \in 1..Len(K) : b # c => L[b] = K[b]
  BY <1>1, <1>4
<1>6. /\ Listing(L[c], ballots, n)
      /\ L[c][1] = K[c][1]
      /\ Len(L[c]) = Len(K[c]) + 1
      /\ L[c][Len(K[c]) + 1] = n
      /\ \A k \in 1..Len(K[c]) : L[c][k] = K[c][k]
  <2>1. Listing(K[c], ballots, n - 1)
    BY DEF Clustering
  <2> QED
    BY <2>1, <1>5, AppendKeeps
<1>7. ASSUME NEW b \in 1..Len(L)
      PROVE  Listing(L[b], ballots, n) /\ L[b][1] = K[b][1]
  <2>1. CASE b = c
    BY <2>1, <1>6
  <2>2. CASE b # c
    <3>1. L[b] = K[b] /\ Listing(K[b], ballots, n - 1)
      BY <2>2, <1>5 DEF Clustering
    <3> QED
      BY <3>1 DEF Listing
  <2> QED
    BY <2>1, <2>2
<1>8. L \in Lists
  BY <1>1, <1>4, <1>5, <1>7 DEF Lists, Listing
<1>9. \A b, d \in 1..Len(L) : b < d => L[b][1] < L[d][1] /\ ~Like(ballots, L[b][1], L[d][1])
  BY <1>5, <1>7 DEF Clustering
<1>10. ASSUME NEW i \in 1..n
       PROVE  \E b \in 1..Len(L) : \E k \in 1..Len(L[b]) : L[b][k] = i
  <2>1. CASE i = n
    <3>1. Len(K[c]) + 1 \in 1..Len(L[c])
      BY <1>2, <1>6
    <3> QED
      BY <2>1, <3>1, <1>5, <1>6
  <2>2. CASE i # n
    <3>1. i \in 1..(n - 1)
      BY <2>2
    <3>2. PICK b \in 1..Len(K) : \E k \in 1..Len(K[b]) : K[b][k] = i
      BY <3>1 DEF Clustering
    <3>3. PICK k \in 1..Len(K[b]) : K[b][k] = i
      BY <3>2
    <3>4. k \in 1..Len(L[b]) /\ L[b][k] = i
      <4>1. CASE b = c
        <5>1. Len(K[c]) \in Nat /\ Len(L[c]) = Len(K[c]) + 1
          BY <1>2, <1>6
        <5>2. k \in 1..Len(K[c]) /\ L[c][k] = K[c][k]
          BY <3>3, <4>1, <1>6
        <5>3. k \in 1..Len(L[c])
          BY <5>1, <5>2
        <5> QED
          BY <5>2, <5>3, <3>3, <4>1
      <4>2. CASE b # c
        <5>1. L[b] = K[b]
          BY <4>2, <1>5
        <5> QED
          BY <5>1, <3>3
      <4> QED
        BY <4>1, <4>2
    <3> QED
      BY <3>4, <1>5
  <2> QED
    BY <2>1, <2>2
<1> QED
  BY <1>7, <1>8, <1>9, <1>10 DEF Clustering, L

\* ... or opens a new one at the end.
LEMMA OpenKeeps ==
    ASSUME NEW ballots, NEW n \in Nat \ {0}, NEW K, Clustering(K, ballots, n - 1),
           \A b \in 1..Len(K) : ~Like(ballots, K[b][1], n)
    PROVE  Clustering(E!AddTo(K, ballots, n), ballots, n)
<1> DEFINE L == E!AddTo(K, ballots, n)
<1>1. K \in Lists /\ Len(K) \in Nat /\ DOMAIN K = 1..Len(K)
  BY DEF Clustering, Lists
<1>2. L = Append(K, <<n>>)
  BY <1>1 DEF E!AddTo, Like
<1> HIDE DEF L
<1>3. <<n>> \in Seq(Nat) /\ Len(<<n>>) = 1 /\ <<n>>[1] = n
  OBVIOUS
<1>4. /\ L \in Lists /\ Len(L) = Len(K) + 1 /\ L[Len(L)] = <<n>>
      /\ \A b \in 1..Len(K) : L[b] = K[b]
  BY <1>1, <1>2, <1>3 DEF Lists
<1>5. \A b \in 1..Len(K) : Listing(K[b], ballots, n - 1) /\ K[b][1] \in 1..(n - 1)
  <2> TAKE b \in 1..Len(K)
  <2>1. Listing(K[b], ballots, n - 1)
    BY DEF Clustering
  <2>2. 1 \in 1..Len(K[b])
    BY <2>1 DEF Listing
  <2> QED
    BY <2>1, <2>2 DEF Listing
<1>6. ASSUME NEW b \in 1..Len(L)
      PROVE  Listing(L[b], ballots, n)
  <2>1. CASE b = Len(L)
    BY <2>1, <1>3, <1>4, LikeIsEquivalence DEF Listing
  <2>2. CASE b \in 1..Len(K)
    <3>1. L[b] = K[b] /\ Listing(K[b], ballots, n - 1)
      BY <2>2, <1>4, <1>5
    <3> QED
      BY <3>1 DEF Listing
  <2> QED
    BY <2>1, <2>2, <1>1, <1>4
<1>7. ASSUME NEW b \in 1..Len(L), NEW d \in 1..Len(L), b < d
      PROVE  L[b][1] < L[d][1] /\ ~Like(ballots, L[b][1], L[d][1])
  <2>1. b \in 1..Len(K)
    BY <1>1, <1>4, <1>7
  <2>2. CASE d = Len(L)
    BY <2>1, <2>2, <1>3, <1>4, <1>5
  <2>3. CASE d \in 1..Len(K)
    BY <2>1, <2>3, <1>4, <1>7 DEF Clustering
  <2> QED
    BY <2>2, <2>3, <1>1, <1>4
<1>8. ASSUME NEW i \in 1..n
      PROVE  \E b \in 1..Len(L) : \E k \in 1..Len(L[b]) : L[b][k] = i
  <2>1. CASE i = n
    BY <2>1, <1>1, <1>3, <1>4
  <2>2. CASE i # n
    <3>1. i \in 1..(n - 1)
      BY <2>2
    <3>2. PICK b \in 1..Len(K) : \E k \in 1..Len(K[b]) : K[b][k] = i
      BY <3>1 DEF Clustering
    <3> QED
      BY <3>2, <1>1, <1>4
  <2> QED
    BY <2>1, <2>2
<1> QED
  BY <1>4, <1>6, <1>7, <1>8 DEF Clustering, L

\* cluster_answers clusters, however many answers there are.
LEMMA ClustersAreRight ==
    ASSUME NEW ballots, Len(ballots) \in Nat
    PROVE  Clustering(E!Clusters(ballots), ballots, Len(ballots))
<1> DEFINE N == Len(ballots)
           D(g) == [n \in 0..N |-> IF n = 0 THEN <<>> ELSE E!AddTo(g[n - 1], ballots, n)]
           after == CHOOSE g : g = D(g)
<1>1. E!Clusters(ballots) = after[N]
  BY DEF E!Clusters
<1>2. \E g : g = D(g)
  <2> DEFINE F == [n \in 1..N |-> [K \in Lists |-> E!AddTo(K, ballots, n)]]
  <2>1. ASSUME NEW n \in 1..N, NEW K \in Lists
        PROVE  E!AddTo(K, ballots, n) \in Lists
    <3>1. Append(K, <<n>>) \in Lists
      BY DEF Lists
    <3>2. [b \in DOMAIN K |-> IF E!Same(ballots[K[b][1]], ballots[n])
                              THEN Append(K[b], n) ELSE K[b]] \in Lists
      <4>1. DOMAIN K = 1..Len(K) /\ Len(K) \in Nat
        BY DEF Lists
      <4>2. \A b \in DOMAIN K : K[b] \in Seq(Nat) /\ Append(K[b], n) \in Seq(Nat)
        BY DEF Lists
      <4> QED
        BY <4>1, <4>2 DEF Lists
    <3> QED
      BY <3>1, <3>2 DEF E!AddTo
  <2>2. F \in [1..N -> [Lists -> Lists]]
    BY <2>1
  <2>3. <<>> \in Lists
    BY DEF Lists
  <2>4. PICK g \in [0..N -> Lists] : g[0] = <<>> /\ \A n \in 1..N : g[n] = F[n][g[n - 1]]
    <3> HIDE DEF F
    <3>1. N \in Nat
      OBVIOUS
    <3> HIDE DEF N
    <3> QED
      BY <2>2, <2>3, <3>1, RecursionExists
  <2>5. \A n \in 1..N : g[n - 1] \in Lists
    OBVIOUS
  <2>6. \A n \in 1..N : g[n] = E!AddTo(g[n - 1], ballots, n)
    BY <2>4, <2>5
  <2> HIDE DEF F
  <2>7. g = D(g)
    BY <2>4, <2>6
  <2> QED
    BY <2>7
<1>3. after = D(after)
  <2> HIDE DEF D
  <2> QED
    BY <1>2
<1> HIDE DEF after
<1>4. /\ after[0] = <<>>
      /\ \A n \in 1..N : after[n] = E!AddTo(after[n - 1], ballots, n)
  BY <1>3
<1>5. Clustering(<<>>, ballots, 0)
  BY DEF Clustering, Lists
<1> DEFINE Bad == {n \in 0..N : ~Clustering(after[n], ballots, n)}
<1>6. Bad = {}
  <2> SUFFICES ASSUME Bad # {}
               PROVE  FALSE
    OBVIOUS
  <2> DEFINE n == Min(Bad)
  <2>0. Bad \in SUBSET Nat
    OBVIOUS
  <2> HIDE DEF Bad
  <2>1. n \in Bad /\ \A k \in Bad : n <= k
    BY <2>0, LeastExists
  <2> USE DEF Bad
  <2>2. n \in 0..N /\ ~Clustering(after[n], ballots, n)
    BY <2>1
  <2> HIDE DEF n
  <2>3. n - 1 \in 0..N /\ n \in 1..N /\ n \in Nat \ {0}
    BY <2>2, <1>4, <1>5
  <2>4. Clustering(after[n - 1], ballots, n - 1)
    BY <2>1, <2>3
  <2> QED
    BY <2>2, <2>3, <2>4, <1>4, JoinKeeps, OpenKeeps
<1> QED
  BY <1>1, <1>6

LEMMA FirstOfCluster ==
    ASSUME NEW ballots, NEW n \in Nat, NEW K, Clustering(K, ballots, n)
    PROVE  \A b \in 1..Len(K) : /\ Listing(K[b], ballots, n)
                                /\ K[b][1] \in 1..n
                                /\ \A k \in 1..Len(K[b]) : Like(ballots, K[b][1], K[b][k])
<1> TAKE b \in 1..Len(K)
<1>1. Listing(K[b], ballots, n)
  BY DEF Clustering
<1>2. 1 \in 1..Len(K[b])
  BY <1>1 DEF Listing
<1> QED
  BY <1>1, <1>2 DEF Listing

\* The length of a cluster is the number of places with its answer, the first
\* of which is its own first one.
LEMMA ClusterCounts ==
    ASSUME NEW ballots, NEW n \in Nat, NEW K, Clustering(K, ballots, n),
           NEW b \in 1..Len(K), NEW i \in 1..n, Like(ballots, K[b][1], i)
    PROVE  /\ Len(K[b]) = Cardinality(Alike(ballots, n, i))
           /\ K[b][1] <= i
<1> DEFINE s == K[b]
           T == Alike(ballots, n, i)
<1>1. Listing(s, ballots, n) /\ s \in Seq(Nat) /\ Len(s) \in Nat
  BY DEF Clustering, Listing
<1>2. \A k \in 1..Len(s) : s[k] \in T
  BY <1>1, LikeIsEquivalence DEF Listing, Alike
<1>3. ASSUME NEW j \in T
      PROVE  \E k \in 1..Len(s) : s[k] = j
  <2>1. PICK d \in 1..Len(K) : \E k \in 1..Len(K[d]) : K[d][k] = j
    BY DEF Clustering, Alike
  <2>2. Like(ballots, K[d][1], j)
    BY <2>1 DEF Clustering, Listing
  <2>3. Like(ballots, K[d][1], K[b][1]) /\ Like(ballots, K[b][1], K[d][1])
    BY <2>2, LikeIsEquivalence DEF Alike
  <2>4. d = b
    <3>1. d \in Int /\ b \in Int
      OBVIOUS
    <3> QED
      BY <2>3, <3>1 DEF Clustering
  <2> QED
    BY <2>1, <2>4
<1> HIDE DEF s, T
<1>4. s \in Bijection(1..Len(s), T)
  <2>1. s \in [1..Len(s) -> T]
    BY <1>1, <1>2
  <2>2. \A j, k \in 1..Len(s) : s[j] = s[k] => j = k
    <3> SUFFICES ASSUME NEW j \in 1..Len(s), NEW k \in 1..Len(s), j < k
                 PROVE  s[j] # s[k]
      OBVIOUS
    <3>1. s[j] < s[k] /\ s[j] \in Nat /\ s[k] \in Nat
      BY <1>1 DEF Listing
    <3> QED
      BY <3>1
  <2> QED
    BY <2>1, <2>2, <1>3 DEF Bijection, Injection, Surjection, IsInjective
<1>5. Cardinality(T) = Len(s)
  BY <1>1, <1>4, FS_CountingElements DEF ExistsBijection
<1>6. i \in T
  BY LikeIsEquivalence DEF T, Alike
<1>7. PICK k \in 1..Len(s) : s[k] = i
  BY <1>3, <1>6
<1>8. s[1] <= i
  BY <1>1, <1>7 DEF Listing
<1> QED
  BY <1>5, <1>8 DEF s, T

\* There are as many clusters as places whose answer is not there before.
LEMMA ClustersCount ==
    ASSUME NEW ballots, NEW n \in Nat, NEW K, Clustering(K, ballots, n)
    PROVE  Len(K) = Cardinality({i \in 1..n : \A j \in 1..(i - 1) : ~Like(ballots, i, j)})
<1> DEFINE f == [b \in 1..Len(K) |-> K[b][1]]
           T == {i \in 1..n : \A j \in 1..(i - 1) : ~Like(ballots, i, j)}
<1>1. Len(K) \in Nat /\ \A b \in 1..Len(K) : K[b][1] \in 1..n
  <2>1. Len(K) \in Nat
    BY DEF Clustering, Lists
  <2> QED
    BY <2>1, FirstOfCluster
<1>2. ASSUME NEW b \in 1..Len(K)
      PROVE  f[b] \in T
  <2> SUFFICES ASSUME NEW j \in 1..(K[b][1] - 1), Like(ballots, K[b][1], j)
               PROVE  FALSE
    BY <1>1
  <2>1. j \in 1..n
    BY <1>1
  <2>2. K[b][1] <= j
    BY <2>1, ClusterCounts
  <2> QED
    BY <1>1, <2>2
<1>3. ASSUME NEW i \in T
      PROVE  \E b \in 1..Len(K) : f[b] = i
  <2>1. PICK b \in 1..Len(K) : \E k \in 1..Len(K[b]) : K[b][k] = i
    BY DEF Clustering
  <2>2. Like(ballots, K[b][1], i) /\ Like(ballots, i, K[b][1])
    BY <2>1, FirstOfCluster, LikeIsEquivalence
  <2>3. K[b][1] <= i
    BY <2>2, ClusterCounts
  <2>4. ~(K[b][1] \in 1..(i - 1))
    BY <2>2
  <2>5. K[b][1] = i
    BY <1>1, <2>3, <2>4
  <2> QED
    BY <2>5
<1>4. \A b, d \in 1..Len(K) : f[b] = f[d] => b = d
  <2> SUFFICES ASSUME NEW b \in 1..Len(K), NEW d \in 1..Len(K), b < d
               PROVE  f[b] # f[d]
    OBVIOUS
  <2>1. K[b][1] < K[d][1]
    BY DEF Clustering
  <2> QED
    BY <1>1, <2>1
<1>5. f \in Bijection(1..Len(K), T)
  <2>1. f \in [1..Len(K) -> T]
    BY <1>2
  <2> HIDE DEF f, T
  <2> QED
    BY <2>1, <1>3, <1>4 DEF Bijection, Injection, Surjection, IsInjective
<1> QED
  BY <1>1, <1>5, FS_CountingElements DEF ExistsBijection

\* Among clusters some are largest, and one of these is the first.
LEMMA BestExists ==
    ASSUME NEW ballots, NEW n \in Nat \ {0}, NEW K, Clustering(K, ballots, n)
    PROVE  /\ E!Best(K) \in E!Largest(K)
           /\ \A b \in E!Largest(K) : E!Best(K) <= b
           /\ E!Largest(K) \subseteq 1..Len(K)
<1>1. /\ Len(K) \in Nat /\ DOMAIN K = 1..Len(K)
      /\ \A b \in 1..Len(K) : Len(K[b]) \in Nat
  BY DEF Clustering, Lists
<1>2. PICK c \in 1..Len(K) : TRUE
  BY DEF Clustering
<1>3. ASSUME NEW b \in 1..Len(K)
      PROVE  Len(K[b]) <= n
  <2>1. K[b][1] \in 1..n /\ Like(ballots, K[b][1], K[b][1])
    BY FirstOfCluster, LikeIsEquivalence
  <2> DEFINE T == Alike(ballots, n, K[b][1])
  <2>2. ASSUME NEW i \in 1..n, Like(ballots, K[b][1], i)
        PROVE  Len(K[b]) = Cardinality(Alike(ballots, n, i))
    BY <2>2, ClusterCounts
  <2>3. Len(K[b]) = Cardinality(T)
    BY <2>1, <2>2
  <2>4. IsFiniteSet(1..n) /\ Cardinality(1..n) = n
    BY FS_Interval
  <2>5. Cardinality(T) <= Cardinality(1..n)
    BY <2>4, FS_Subset DEF Alike
  <2> QED
    BY <2>3, <2>4, <2>5
<1> DEFINE Short == {n - Len(K[b]) : b \in 1..Len(K)}
<1>4. Short \in SUBSET Nat /\ Short # {}
  BY <1>1, <1>2, <1>3
<1>5. Min(Short) \in Short /\ \A x \in Short : Min(Short) <= x
  BY <1>4, LeastExists
<1>6. PICK m \in 1..Len(K) : Min(Short) = n - Len(K[m])
  BY <1>5
<1>7. m \in E!Largest(K)
  <2>1. \A b \in 1..Len(K) : n - Len(K[m]) <= n - Len(K[b])
    BY <1>5, <1>6
  <2> QED
    BY <2>1, <1>1 DEF E!Largest
<1>8. E!Largest(K) \in SUBSET Nat /\ E!Largest(K) \subseteq 1..Len(K)
  BY <1>1 DEF E!Largest
<1>9. Min(E!Largest(K)) \in E!Largest(K) /\ \A b \in E!Largest(K) : Min(E!Largest(K)) <= b
  BY <1>7, <1>8, LeastExists
<1> QED
  BY <1>8, <1>9 DEF E!Best

LEMMA SameCardinality == \A S : E!Cardinality(S) = Cardinality(S)
BY DEF E!Cardinality, Cardinality

\* Who has the most votes is said by the clusters as it is by counting.
LEMMA LargestLead ==
    ASSUME NEW K, Clustering(K, votes, Len(votes)),
           DOMAIN votes = 1..Len(votes), Len(votes) \in Nat \ {0}
    PROVE  /\ \A i \in DOMAIN votes : \E b \in 1..Len(K) : Like(votes, K[b][1], i)
           /\ \A i \in DOMAIN votes, b \in 1..Len(K) : Like(votes, K[b][1], i) =>
                  /\ E!VotesFor(i) = Len(K[b])
                  /\ K[b][1] <= i
                  /\ E!Leading(i) <=> b \in E!Largest(K)
<1> DEFINE n == Len(votes)
<1>1. ASSUME NEW i \in DOMAIN votes
      PROVE  \E b \in 1..Len(K) : Like(votes, K[b][1], i)
  <2>1. PICK b \in 1..Len(K) : \E k \in 1..Len(K[b]) : K[b][k] = i
    BY DEF Clustering
  <2> QED
    BY <2>1, FirstOfCluster
<1>2. ASSUME NEW i \in DOMAIN votes, NEW b \in 1..Len(K), Like(votes, K[b][1], i)
      PROVE  E!VotesFor(i) = Len(K[b]) /\ K[b][1] <= i
  <2>1. {j \in DOMAIN votes : E!Same(votes[i], votes[j])} = Alike(votes, n, i)
    BY DEF Alike, Like
  <2>2. E!VotesFor(i) = Cardinality(Alike(votes, n, i))
    BY <2>1, SameCardinality DEF E!VotesFor
  <2>3. Len(K[b]) = Cardinality(Alike(votes, n, i)) /\ K[b][1] <= i
    BY <1>2, ClusterCounts
  <2> QED
    BY <2>2, <2>3
<1>3. DOMAIN K = 1..Len(K)
  BY DEF Clustering, Lists
<1>4. ASSUME NEW i \in DOMAIN votes, NEW b \in 1..Len(K), Like(votes, K[b][1], i)
      PROVE  E!Leading(i) <=> b \in E!Largest(K)
  <2>1. E!VotesFor(i) = Len(K[b])
    BY <1>2, <1>4
  <2>2. ASSUME E!Leading(i), NEW d \in 1..Len(K)
        PROVE  Len(K[d]) <= Len(K[b])
    <3>1. K[d][1] \in DOMAIN votes /\ Like(votes, K[d][1], K[d][1])
      BY FirstOfCluster, LikeIsEquivalence
    <3>2. E!VotesFor(K[d][1]) = Len(K[d])
      BY <1>2, <3>1
    <3> QED
      BY <2>1, <2>2, <3>1, <3>2 DEF E!Leading
  <2>3. ASSUME b \in E!Largest(K), NEW j \in DOMAIN votes
        PROVE  E!VotesFor(j) <= E!VotesFor(i)
    <3>1. PICK d \in 1..Len(K) : Like(votes, K[d][1], j)
      BY <1>1
    <3>2. E!VotesFor(j) = Len(K[d])
      BY <1>2, <3>1
    <3> QED
      BY <1>3, <2>1, <2>3, <3>2 DEF E!Largest
  <2> QED
    BY <1>3, <2>2, <2>3 DEF E!Leading, E!Largest
<1> QED
  BY <1>1, <1>2, <1>4

\* Two answers that differ lead together.
Tied == \E i, j \in DOMAIN votes :
            E!Leading(i) /\ E!Leading(j) /\ ~E!Same(votes[i], votes[j])

\* _vote_content asks the judge only then.
LEMMA SeveralLargestTie ==
    ASSUME NEW K, Clustering(K, votes, Len(votes)),
           DOMAIN votes = 1..Len(votes), Len(votes) \in Nat \ {0},
           Cardinality(E!Largest(K)) > 1
    PROVE  Tied
<1>1. E!Best(K) \in E!Largest(K) /\ E!Largest(K) \subseteq 1..Len(K)
  BY BestExists
<1>2. E!Largest(K) # {E!Best(K)}
  <2>1. Cardinality({E!Best(K)}) = 1
    BY FS_Singleton
  <2> QED
    BY <2>1
<1>3. PICK b \in E!Largest(K), d \in E!Largest(K) : b < d
  <2>1. PICK d \in E!Largest(K) : d # E!Best(K)
    BY <1>1, <1>2
  <2>2. d \in Int /\ E!Best(K) \in Int
    BY <1>1
  <2> QED
    BY <1>1, <2>1, <2>2
<1>4. ~Like(votes, K[b][1], K[d][1])
  BY <1>1, <1>3 DEF Clustering
<1>5. /\ K[b][1] \in DOMAIN votes /\ Like(votes, K[b][1], K[b][1])
      /\ K[d][1] \in DOMAIN votes /\ Like(votes, K[d][1], K[d][1])
  BY <1>1, FirstOfCluster, LikeIsEquivalence
<1>6. E!Leading(K[b][1]) /\ E!Leading(K[d][1])
  BY <1>1, <1>5, LargestLead
<1> QED
  BY <1>4, <1>5, <1>6 DEF Tied, Like
-----------------------------------------------------------------------------
(* The vote.                                                               *)

VoteType ==
    /\ DOMAIN votes = 1..Len(votes)
    /\ Len(votes) \in Nat
    /\ step \in {"workers", "synthesize", "fallback", "vote", "judge", "done", "failed"}

\* Nothing is decided and no judge was asked before the last step of the request.
UndecidedInv == /\ step # "done" => source = "none"
                /\ step \notin {"done", "failed"} => asked = 0
                /\ step \in {"fallback", "synthesize", "vote", "judge"} => Len(votes) > 0
                /\ step = "judge" => Tied

VoteInv == VoteType /\ UndecidedInv /\ PluralityWins /\ SummaryMatchesVote

LEMMA VoteInit == Init => VoteInv
BY DEF Init, E!Start, VoteInv, VoteType, UndecidedInv, PluralityWins, E!PluralityWins,
       SummaryMatchesVote, E!SummaryMatchesVote

LEMMA CountsKept ==
    ASSUME UNCHANGED <<cfg, votes>>
    PROVE  /\ \A c, d : E!Same(c, d)' <=> E!Same(c, d)
           /\ \A i : E!VotesFor(i)' = E!VotesFor(i)
           /\ \A i : E!Leading(i)' <=> E!Leading(i)
           /\ Tied' <=> Tied
<1>1. \A c, d : E!Same(c, d)' <=> E!Same(c, d)
  BY DEF E!Same, EnsembleConf
<1>2. \A i : E!VotesFor(i)' = E!VotesFor(i)
  BY <1>1 DEF E!VotesFor
<1>3. \A i : E!Leading(i)' <=> E!Leading(i)
  BY <1>2 DEF E!Leading
<1> QED
  BY <1>1, <1>2, <1>3 DEF Tied

\* The result of a vote is right, whoever decides between the largest clusters.
LEMMA ElectIsRight ==
    ASSUME VoteInv, UNCHANGED <<cfg, votes>>, Len(votes) > 0,
           NEW K, Clustering(K, votes, Len(votes)),
           NEW b \in E!Largest(K), step' = "done", winner' = K[b][1],
           summary'.clusters = Len(K), summary'.winning = Len(K[b]),
           summary'.judged <=> asked' = 1,
           asked' = 1 => Tied,
           asked' = 1 \/ b = E!Best(K)
    PROVE  VoteInv'
<1>2. /\ DOMAIN votes = 1..Len(votes) /\ Len(votes) \in Nat \ {0}
      /\ VoteType' /\ UndecidedInv'
  BY DEF VoteInv, VoteType, UndecidedInv
<1>3. b \in 1..Len(K) /\ \A d \in E!Largest(K) : E!Best(K) <= d
  BY <1>2, BestExists
<1>4. winner' \in DOMAIN votes /\ Like(votes, K[b][1], winner')
  BY <1>2, <1>3, FirstOfCluster, LikeIsEquivalence
<1>5. E!VotesFor(winner') = Len(K[b]) /\ E!Leading(winner')
  BY <1>2, <1>3, <1>4, LargestLead
<1>6. ASSUME asked' # 1, NEW i \in DOMAIN votes, E!Leading(i)
      PROVE  winner' <= i
  <2>1. PICK d \in 1..Len(K) : Like(votes, K[d][1], i)
    BY <1>2, LargestLead
  <2>2. d \in E!Largest(K) /\ K[d][1] <= i
    BY <1>2, <1>6, <2>1, LargestLead
  <2>3. b <= d
    BY <1>3, <1>6, <2>2
  <2>4. K[b][1] \in 1..Len(votes) /\ K[d][1] \in 1..Len(votes)
    BY <1>2, <1>3, FirstOfCluster
  <2>5. K[b][1] <= K[d][1]
    <3>1. CASE b = d
      BY <2>4, <3>1
    <3>2. CASE b < d
      BY <1>3, <2>4, <3>2 DEF Clustering
    <3> QED
      BY <1>3, <2>3, <3>1, <3>2
  <2> QED
    BY <2>2, <2>4, <2>5
<1>7. ASSUME asked' = 1
      PROVE  \E i \in DOMAIN votes : E!Leading(i) /\ ~E!Same(votes[i], votes[winner'])
  <2>1. PICK i \in DOMAIN votes, j \in DOMAIN votes :
            E!Leading(i) /\ E!Leading(j) /\ ~E!Same(votes[i], votes[j])
    BY <1>7 DEF Tied
  <2>2. ~(E!Same(votes[i], votes[winner']) /\ E!Same(votes[j], votes[winner']))
    BY <2>1 DEF E!Same
  <2> QED
    BY <2>1, <2>2
<1>8. Len(K) = Cardinality({i \in DOMAIN votes : \A j \in 1..(i - 1) : ~E!Same(votes[i], votes[j])})
  BY <1>2, ClustersCount DEF Like
<1>9. PluralityWins'
  BY <1>5, <1>6, CountsKept DEF PluralityWins, E!PluralityWins
<1>10. SummaryMatchesVote'
  <2>1. {i \in DOMAIN votes : \A j \in 1..(i - 1) : ~E!Same(votes[i], votes[j])}'
        = {i \in DOMAIN votes : \A j \in 1..(i - 1) : ~E!Same(votes[i], votes[j])}
    BY CountsKept
  <2>2. summary'.clusters = E!Cardinality({i \in DOMAIN votes :
            \A j \in 1..(i - 1) : ~E!Same(votes[i], votes[j])})'
    BY <1>8, <2>1, SameCardinality
  <2>3. summary'.winning = E!VotesFor(winner)'
    <3>1. E!VotesFor(winner)' = E!VotesFor(winner')
      BY CountsKept DEF E!VotesFor
    <3> QED
      BY <1>5, <3>1
  <2>4. asked' = 1 => \E i \in DOMAIN votes' :
                          E!Leading(i)' /\ ~E!Same(votes[i], votes[winner])'
    BY <1>7, CountsKept
  <2> QED
    BY <2>2, <2>3, <2>4 DEF SummaryMatchesVote, E!SummaryMatchesVote
<1> QED
  BY <1>2, <1>9, <1>10 DEF VoteInv

\* The other steps decide nothing.
LEMMA VoteKept ==
    ASSUME VoteInv, UNCHANGED <<cfg, votes, asked, summary, winner, source>>,
           step' = step \/ /\ step' \in {"fallback", "vote", "judge", "done"}
                           /\ step \in {"synthesize", "vote"}
                           /\ step' = "judge" => Tied
    PROVE  VoteInv'
<1>1. VoteType'
  BY DEF VoteInv, VoteType
<1>2. UndecidedInv'
  BY CountsKept DEF VoteInv, UndecidedInv
<1>3. PluralityWins'
  BY CountsKept DEF VoteInv, PluralityWins, E!PluralityWins
<1>4. SummaryMatchesVote'
  <2>1. {i \in DOMAIN votes : \A j \in 1..(i - 1) : ~E!Same(votes[i], votes[j])}'
        = {i \in DOMAIN votes : \A j \in 1..(i - 1) : ~E!Same(votes[i], votes[j])}
    BY CountsKept
  <2> QED
    BY <2>1, CountsKept DEF VoteInv, SummaryMatchesVote, E!SummaryMatchesVote
<1> QED
  BY <1>1, <1>2, <1>3, <1>4 DEF VoteInv

LEMMA VoteNext == VoteInv /\ [Next]_vars => VoteInv'
<1> SUFFICES ASSUME VoteInv, [Next]_vars
             PROVE  VoteInv'
  OBVIOUS
<1>1. CASE UNCHANGED <<cfg, ensembleVars>>
  BY <1>1, VoteKept DEF ensembleVars
<1>2. CASE RunEnsemble
  <2>1. cfg' = cfg /\ E!Next
    BY <1>2 DEF RunEnsemble
  <2>2. CASE E!Collect
    <3>1. PICK m \in 0..EnsembleConf.n : votes' \in [1..m -> Contents]
      BY <2>2 DEF E!Collect, E!Ballots
    <3>2. DOMAIN votes' = 1..Len(votes') /\ Len(votes') \in Nat
      BY <3>1
    <3>3. Len(votes') > 0 <=> votes' # <<>>
      BY <3>1, <3>2
    <3>4. step' \in {"failed", "synthesize", "vote"} /\ (votes' = <<>> => step' = "failed")
      BY <2>2 DEF E!Collect
    <3>5. source' = "none" /\ asked' = 0
      BY <2>2 DEF E!Collect, VoteInv, UndecidedInv
    <3> QED
      BY <3>2, <3>3, <3>4, <3>5
         DEF VoteInv, VoteType, UndecidedInv, PluralityWins, E!PluralityWins,
             SummaryMatchesVote, E!SummaryMatchesVote
  <2>3. CASE E!Synthesize
    <3>1. CASE step' = "fallback" /\ UNCHANGED source
      BY <2>1, <2>3, <3>1, VoteKept DEF E!Synthesize
    <3>2. CASE step' = "done" /\ source' = "synthesizer"
      BY <2>1, <2>3, <3>2
         DEF E!Synthesize, VoteInv, VoteType, UndecidedInv, PluralityWins, E!PluralityWins,
             SummaryMatchesVote, E!SummaryMatchesVote
    <3> QED
      BY <2>3, <3>1, <3>2 DEF E!Synthesize
  <2>4. CASE E!Vote \/ E!Judge
    <3> DEFINE K == E!Clusters(votes)
    <3>0. UNCHANGED <<cfg, votes>> /\ step \in {"vote", "fallback", "judge"}
      BY <2>1, <2>4 DEF E!Vote, E!Judge
    <3>1. /\ UNCHANGED <<cfg, votes>> /\ asked = 0
          /\ Len(votes) \in Nat \ {0} /\ DOMAIN votes = 1..Len(votes)
      BY <3>0 DEF VoteInv, VoteType, UndecidedInv
    <3>2. Clustering(K, votes, Len(votes))
      BY <3>1, ClustersAreRight
    <3>3. E!Best(K) \in E!Largest(K)
      BY <3>1, <3>2, BestExists
    <3> HIDE DEF K
    <3>4. CASE E!Vote /\ step = "vote" /\ E!NeedsJudge
      <4>0. Cardinality(E!Largest(K)) > 1
        BY <3>4, SameCardinality DEF E!NeedsJudge, K
      <4>1. Tied
        BY <3>1, <3>2, <4>0, SeveralLargestTie
      <4> QED
        BY <2>1, <3>4, <4>1, VoteKept DEF E!Vote
    <3>5. CASE E!Vote /\ ~(step = "vote" /\ E!NeedsJudge)
      <4>1. /\ step' = "done" /\ winner' = K[E!Best(K)][1] /\ asked' = 0
            /\ summary' = [clusters |-> Len(K), winning |-> Len(K[E!Best(K)]), judged |-> FALSE]
        BY <3>1, <3>5 DEF E!Vote, E!Elect, K
      <4> QED
        BY <3>1, <3>2, <3>3, <4>1, ElectIsRight
    <3>6. CASE E!Judge
      <4>1. PICK b \in E!Largest(K) :
                /\ step' = "done" /\ winner' = K[b][1]
                /\ summary' = [clusters |-> Len(K), winning |-> Len(K[b]), judged |-> TRUE]
        BY <3>6 DEF E!Judge, E!Elect, K
      <4>2. asked' = 1 /\ Tied
        BY <3>1, <3>6 DEF E!Judge, VoteInv, UndecidedInv
      <4> QED
        BY <3>1, <3>2, <4>1, <4>2, ElectIsRight
    <3> QED
      BY <2>4, <3>4, <3>5, <3>6
  <2>5. CASE E!DeadlinePasses
    BY <2>1, <2>5, VoteKept DEF E!DeadlinePasses
  <2> QED
    BY <2>1, <2>2, <2>3, <2>4, <2>5 DEF E!Next
<1>3. CASE Next /\ ~RunEnsemble
  <2>1. UNCHANGED <<cfg, ensembleVars>>
    BY <1>3 DEF Next, Load, Plan, Choose, Select, SelectDag, RunSplit, RunDag, Finish,
                DeadlinePasses
  <2> QED
    BY <1>1, <2>1
<1> QED
  BY <1>1, <1>2, <1>3 DEF vars

\* What a request under parallel_ensemble decides agrees with the votes it has.
THEOREM VotesInvariant == Spec => []VoteInv
BY VoteInit, VoteNext, PTL DEF Spec

\* Whoever decides, no answer has more votes than the one returned, and without
\* a judge it is the earliest of those (_vote_content, _judge_tiebreak).
THEOREM PluralityCorrect == Spec => []PluralityWins
<1>1. VoteInv => PluralityWins
  BY DEF VoteInv
<1> QED
  BY <1>1, VotesInvariant, PTL

\* The vote_summary is about the answer it comes with, and the judge is asked
\* at most once and only for a tie (VoteSummary), however many answers there are.
THEOREM SummaryCorrect == Spec => []SummaryMatchesVote
<1>1. VoteInv => SummaryMatchesVote
  BY DEF VoteInv
<1> QED
  BY <1>1, VotesInvariant, PTL
=============================================================================
