-------------------------------- MODULE Chat --------------------------------
(***************************************************************************)
(* A configuration and a request under it, from the file to the answer     *)
(* (config.py validate_config, coordinator.py plan, orchestrator.py chat): *)
(* the configuration is refused or accepted; the coordinator chooses a     *)
(* pattern by rule, heuristic, meta call or default; roles are selected;   *)
(* and the pattern runs. What validation promises of the names in a        *)
(* configuration is used much later, where the roles are looked up.        *)
(*                                                                         *)
(* parallel_ensemble and sequential_dag run as modules Ensemble and        *)
(* Pipeline describe. direct and role_split take one step here that says   *)
(* which roles succeeded; module RoleSplit has their waves.                *)
(*                                                                         *)
(* Abstracted: role names are places in roles (0 is none, a place past the *)
(* end an unknown name); checks of a single value (a model is known, a     *)
(* number in range) are one flag, sound. The text of the request decides   *)
(* freely which rule, heuristic and keyword it matches.                    *)
(***************************************************************************)
EXTENDS Integers, Sequences, FiniteSetsExt

CONSTANTS Configs,  \* configurations to start from, valid or not
          Contents, \* what a call can answer
          Empty,    \* the empty answer
          Norm      \* normalize_answer

ASSUME ContentsAssumption == Empty \in Contents /\ Contents \subseteq DOMAIN Norm
ASSUME ConfigsAssumption ==
    \A c \in Configs : /\ DOMAIN c.roles = 1..Len(c.roles) /\ Len(c.roles) \in Nat
                       /\ DOMAIN c.stages = 1..Len(c.stages) /\ Len(c.stages) \in Nat

VARIABLES
    cfg,     \* the configuration; never changes
    phase,   \* how far it and the request under it have come
    plan,    \* the coordinator's Plan: the pattern and what chose it
    team,    \* places of the roles selected as workers
    replied, \* those of them whose result is ok (direct and role_split)
    late,    \* the request's deadline has passed
    \* the ensemble, see module Ensemble
    step, votes, asked, summary, winner, source,
    \* the pipeline, see module Pipeline
    stage, at, calls, results, candidates, revised, warned, answer, outcome

ensembleVars == <<step, votes, asked, summary, winner, source>>
dagVars == <<stage, at, calls, results, candidates, revised, warned, answer, outcome>>
requestVars == <<plan, team, replied>>
vars == <<cfg, phase, requestVars, late, ensembleVars, dagVars>>

Patterns == {"direct", "role_split", "parallel_ensemble", "sequential_dag"}
NoPlan == [pattern |-> "none", source |-> "none"]
By(source_, pattern) == [pattern |-> pattern, source |-> source_]
-----------------------------------------------------------------------------
(* The roles of a configuration c.                                         *)

Known(c, role) == role \in 0..Len(c.roles)
Synthesizers(c) == {r \in DOMAIN c.roles : c.roles[r].synthesizer}
Verifiers(c) == {r \in DOMAIN c.roles : c.roles[r].verifier}
First(roles) == IF roles = {} THEN 0 ELSE Min(roles)

\* _is_verifier_role: by its flag, or because coordinator.verify names it.
IsVerifierBug(c, role) == c.roles[role].verifier
IsVerifier(c, role) == c.roles[role].verifier \/ c.verifyRole = role
Workers(c) == {r \in DOMAIN c.roles : ~c.roles[r].synthesizer /\ ~IsVerifier(c, r)}

\* A role asked for by name, or else the first one flagged as a verifier.
NamedOrFlagged(c, name) ==
    IF name = 0 THEN First(Verifiers(c)) ELSE IF name \in DOMAIN c.roles THEN name ELSE 0
SelectVerifier(c) == IF c.verify THEN NamedOrFlagged(c, c.verifyRole) ELSE 0
SelectJudge(c) == NamedOrFlagged(c, c.judgeRole)

\* _select_worker_roles: all, or those the text asks for, or the first one.
Selections(c) ==
    IF c.policy = "all" THEN {Workers(c)}
    ELSE LET matched == {m \in SUBSET Workers(c) :
                             \A r \in Workers(c) : c.roles[r].always => r \in m}
         IN  {IF m = {} /\ Workers(c) # {} THEN {Min(Workers(c))} ELSE m : m \in matched}
-----------------------------------------------------------------------------
(* validate_config: what is asked of c as a whole.                         *)

Entry(c, s) == c.stages[CHOOSE i \in DOMAIN c.stages : c.stages[i].name = s]
Configured(c) == {c.stages[i].name : i \in DOMAIN c.stages}

DagAccepted(c) ==
    /\ Cardinality(Configured(c)) = Len(c.stages)
    /\ \A i \in DOMAIN c.stages : LET s == c.stages[i] IN
           /\ s.role \in DOMAIN c.roles
           /\ s.fanout >= 1
           /\ s.name # "solver" => s.fanout = 1
           /\ s.name \in {"solver", "writer"} => s.enabled
    /\ c.stages # <<>> => {"solver", "writer"} \subseteq Configured(c)
    /\ c.tools => /\ c.default # "sequential_dag"
                  /\ \A i \in DOMAIN c.rules : c.rules[i] # "sequential_dag"

VerifierAcceptedBug(c) == Known(c, c.verifyRole)
VerifierAccepted(c) == /\ Known(c, c.verifyRole)
                       /\ c.verify => c.verifyRole # 0 \/ Verifiers(c) # {}

JudgeAccepted(c) == /\ Known(c, c.judgeRole)
                    /\ c.vote = "judge_tiebreak" => c.judgeRole # 0 \/ Verifiers(c) # {}

Accepted(c) == /\ c.sound
               /\ c.roles # <<>>
               /\ VerifierAccepted(c)
               /\ JudgeAccepted(c)
               /\ DagAccepted(c)
-----------------------------------------------------------------------------
(* What the two patterns see of the configuration.                         *)

EnsembleConf == [n |-> cfg.n, vote |-> cfg.vote, normalize |-> cfg.normalize,
                 synthesizer |-> Synthesizers(cfg) # {}, deadline |-> cfg.deadline]
E == INSTANCE Ensemble WITH conf <- EnsembleConf, pc <- step, content <- winner

\* A stage without an entry is one that is switched off.
Enabled(s) == s \in Configured(cfg) /\ Entry(cfg, s).enabled
DagConf == [off |-> {s \in {"planner", "verifier", "critic", "reviser", "claim_judge"} : ~Enabled(s)},
            fanout |-> IF "solver" \in Configured(cfg) THEN Entry(cfg, "solver").fanout ELSE 1,
            deadline |-> cfg.deadline]
P == INSTANCE Pipeline WITH conf <- DagConf, pc <- at, content <- answer
-----------------------------------------------------------------------------
Init == /\ cfg \in Configs
        /\ phase = "file"
        /\ plan = NoPlan
        /\ team = {}
        /\ replied = {}
        /\ E!Start
        /\ P!Start

Load == /\ phase = "file"
        /\ phase' = IF Accepted(cfg) THEN "plan" ELSE "refused"
        /\ UNCHANGED <<cfg, requestVars, late, ensembleVars, dagVars>>

\* Coordinator.plan: rules, then heuristics; without a coordinator role_split.
Plan == /\ phase = "plan"
        /\ \/ ~cfg.coordinator /\ plan' = By("none", "role_split")
           \/ /\ cfg.coordinator
              /\ \/ \E i \in DOMAIN cfg.rules : plan' = By("rule", cfg.rules[i])
                 \/ \E p \in Patterns \ {"sequential_dag"} : plan' = By("heuristic", p)
        /\ phase' = "select"
        /\ UNCHANGED <<cfg, team, replied, late, ensembleVars, dagVars>>

\* No rule and no heuristic: the meta call, which may choose any supported
\* pattern, fail or answer something else; and then the default.
Choose == /\ phase = "plan"
          /\ cfg.coordinator
          /\ \/ cfg.meta /\ \E p \in Patterns : plan' = By("meta", p)
             \/ plan' = By("default", cfg.default)
          /\ phase' = "select"
          /\ UNCHANGED <<cfg, team, replied, late, ensembleVars, dagVars>>

\* role_split takes all roles selected, direct and an ensemble the first one.
Select == /\ phase = "select"
          /\ plan.pattern # "sequential_dag"
          /\ \E selected \in Selections(cfg) :
                 /\ team' = IF plan.pattern = "role_split" \/ selected = {} THEN selected
                            ELSE {Min(selected)}
                 /\ phase' = IF selected = {} THEN "failed"
                             ELSE IF plan.pattern = "parallel_ensemble" THEN "ensemble"
                             ELSE "split"
          /\ UNCHANGED <<cfg, plan, replied, late, ensembleVars, dagVars>>

SelectDag == /\ phase = "select"
             /\ plan.pattern = "sequential_dag"
             /\ phase' = IF cfg.stages = <<>> THEN "failed" ELSE "dag"
             /\ UNCHANGED <<cfg, requestVars, late, ensembleVars, dagVars>>

RunSplit == /\ phase = "split"
            /\ replied' \in SUBSET team
            /\ phase' = IF replied' = {} THEN "failed" ELSE "answered"
            /\ UNCHANGED <<cfg, plan, team, late, ensembleVars, dagVars>>

RunEnsemble == /\ phase = "ensemble"
               /\ UNCHANGED <<cfg, phase, requestVars, dagVars>>
               /\ E!Next

RunDag == /\ phase = "dag"
          /\ UNCHANGED <<cfg, phase, requestVars, ensembleVars>>
          /\ P!Next

\* The end of chat(): an error if no call of the pattern was ok.
Finish == /\ \/ phase = "ensemble" /\ step \in {"done", "failed"}
             \/ phase = "dag" /\ at = "done"
          /\ phase' = IF step = "failed" \/ outcome = "error"
                      THEN "failed" ELSE "answered"
          /\ UNCHANGED <<cfg, requestVars, late, ensembleVars, dagVars>>

\* While a pattern runs, its module says how the deadline passes.
DeadlinePasses == /\ cfg.deadline
                  /\ phase \in {"plan", "select", "split"}
                  /\ ~late
                  /\ late' = TRUE
                  /\ UNCHANGED <<cfg, phase, requestVars, ensembleVars, dagVars>>

Next == Load \/ Plan \/ Choose \/ Select \/ SelectDag \/ RunSplit \/ RunEnsemble
        \/ RunDag \/ Finish \/ DeadlinePasses

Spec == Init /\ [][Next]_vars
-----------------------------------------------------------------------------
(* Properties.                                                             *)

\* A configuration that was accepted never leaves a request without the role
\* it is about to ask: the judge of a tie, the verifier of a wave, the role of
\* the stage the pipeline is in (validate_config against the _select functions).
RolesAreThere ==
    /\ phase = "ensemble" /\ step = "judge" => SelectJudge(cfg) # 0
    /\ phase = "split" /\ plan.pattern = "role_split" /\ cfg.verify => SelectVerifier(cfg) # 0
    /\ phase = "dag" /\ P!Runs(P!Name) =>
           P!Name \in Configured(cfg) /\ Entry(cfg, P!Name).role \in DOMAIN cfg.roles

\* No role passes a verdict on an answer of its own, or merges it with others,
\* whether the verifier is flagged, named, or both (_worker_roles).
WorkersNeitherCheckNorMerge ==
    SelectVerifier(cfg) \notin team /\ First(Synthesizers(cfg)) \notin team

\* Module Ensemble's: the answer has the most votes, the earliest of those.
PluralityWins == E!PluralityWins

\* Module Ensemble's: the vote_summary is about the answer it comes with.
SummaryMatchesVote == E!SummaryMatchesVote

\* Module Pipeline's: the best answer of whatever stages ran is returned.
BestAnswerReturned == P!BestAnswerReturned

\* Module Pipeline's: a run that was cut short says so, and no other does.
CutShortIsSaid == P!CutShortIsSaid
=============================================================================
