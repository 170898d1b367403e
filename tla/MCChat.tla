------------------------------- MODULE MCChat -------------------------------
(***************************************************************************)
(* Chat on three families of configurations: ballots of four answers under *)
(* every vote mode; every choice of disabled stages with one or two        *)
(* solvers; and every way to name a verifier, a judge and stage roles,     *)
(* right or wrong, under each pattern.                                     *)
(***************************************************************************)
EXTENDS Chat

\* "a" and "A." are one answer; so are "" and the prefix "answer:" alone.
MCContents == {"a", "A.", "b", "", "answer:"}
MCNorm == [c \in MCContents |-> CASE c = "A." -> "a" [] c = "answer:" -> "" [] OTHER -> c]

Role(synthesizer, verifier, always) ==
    [synthesizer |-> synthesizer, verifier |-> verifier, always |-> always]
Worker == Role(FALSE, FALSE, FALSE)
Merger == Role(TRUE, FALSE, FALSE)
Checker == Role(FALSE, TRUE, FALSE)

Base == [sound |-> TRUE, roles |-> <<Worker, Checker>>, policy |-> "all",
         coordinator |-> TRUE, meta |-> FALSE, default |-> "role_split", rules |-> <<>>,
         n |-> 1, vote |-> "synth", normalize |-> TRUE, judgeRole |-> 0,
         verify |-> FALSE, verifyRole |-> 0, stages |-> <<>>, tools |-> FALSE,
         deadline |-> FALSE]

EnsembleConfigs ==
    {[Base EXCEPT !.default = "parallel_ensemble", !.n = 4, !.vote = v, !.normalize = m,
                  !.roles = r, !.deadline = d] :
         v \in {"synth", "majority", "judge_tiebreak"}, m \in BOOLEAN, d \in BOOLEAN,
         r \in {<<Worker, Checker>>, <<Worker, Checker, Merger>>}}

Stage(name, enabled, fanout, role) ==
    [name |-> name, enabled |-> enabled, fanout |-> fanout, role |-> role]
AllStages == <<"planner", "solver", "verifier", "critic", "reviser", "claim_judge", "writer">>
DagConfigs ==
    {[Base EXCEPT !.rules = <<"sequential_dag">>, !.deadline = d,
                  !.stages = [i \in 1..7 |-> Stage(AllStages[i], AllStages[i] \notin off,
                                              IF AllStages[i] = "solver" THEN f ELSE 1, 1)]] :
         off \in SUBSET {"planner", "verifier", "critic", "reviser", "claim_judge"},
         f \in 1..2, d \in BOOLEAN}

\* Stage lists: none, a complete one, and one for each way to be refused.
StageLists ==
    LET pair(s, w) == <<s, w>>  writer == Stage("writer", TRUE, 1, 1) IN
    {<<>>, <<writer>>,
     pair(Stage("solver", TRUE, 1, 1), writer), pair(Stage("solver", TRUE, 1, 3), writer),
     pair(Stage("solver", TRUE, 0, 1), writer), pair(Stage("solver", FALSE, 1, 1), writer),
     pair(Stage("solver", TRUE, 1, 1), Stage("writer", TRUE, 2, 1)),
     <<writer, Stage("solver", TRUE, 1, 1), writer>>}

NameConfigs ==
    {[Base EXCEPT !.roles = r, !.policy = p, !.coordinator = c, !.vote = v, !.verify = f,
                  !.verifyRole = i, !.judgeRole = j] :
         r \in {<<Worker>>, <<Worker, Worker>>, <<Checker, Worker>>,
                <<Worker, Role(FALSE, FALSE, TRUE), Merger>>, <<Checker, Merger>>, <<>>},
         p \in {"all", "keyword"}, c \in BOOLEAN, v \in {"majority", "judge_tiebreak"},
         f \in BOOLEAN, i \in 0..3, j \in 0..3}
ChoiceConfigs ==
    {[Base EXCEPT !.stages = s, !.default = p, !.rules = r, !.tools = t, !.meta = m, !.sound = o] :
         s \in StageLists, p \in {"direct", "sequential_dag"},
         r \in {<<>>, <<"role_split", "sequential_dag">>}, t \in BOOLEAN, m \in BOOLEAN,
         o \in BOOLEAN}

MCConfigs == EnsembleConfigs \cup DagConfigs \cup NameConfigs \cup ChoiceConfigs
=============================================================================
