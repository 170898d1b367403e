------------------------------ MODULE Scoring -------------------------------
(***************************************************************************)
(* What the evaluation scripts make of one condition's runs: the row of a  *)
(* run and its budget (_run_case), the summary of the rows and its view    *)
(* without the runs over budget (_summarize), the budget a later           *)
(* experiment takes from them (make_budget_manifest.py), and which tasks   *)
(* count as damaged or repaired by the synthesizer (analyze_results.py).   *)
(*                                                                         *)
(* Abstracted: graders (an answer is right or not), the second condition,  *)
(* error bars, percentiles, latencies (late says that the wall-clock       *)
(* budget was exceeded); all cases are of one family and the coefficient   *)
(* of the budget is 1, its default. Accuracies are in units of 0.0001.     *)
(***************************************************************************)
EXTENDS Integers, Sequences, FiniteSets

CONSTANTS N,       \* number of cases
          Repeats, \* runs of each case
          Runs,    \* what a call of chat() may come to, see Run
          Budgets  \* budgets of an experiment, see Budget

NoTokens == -1 \* usage, or a budget, that is not there

\* ok: chat() returned; right: its answer is; workers: of each worker, whether
\* its own answer is right, or that it failed; tokens: the reported total.
Run == [ok : BOOLEAN, right : BOOLEAN, workers : Seq({"right", "wrong", "failed"}),
        tokens : Nat \cup {NoTokens}, late : BOOLEAN]

\* tokens: the token budget; wall: there is a wall-clock budget.
Budget == [tokens : Nat \cup {NoTokens}, wall : BOOLEAN]

ASSUME CasesAssumption == N \in Nat \ {0} /\ Repeats \in Nat \ {0}
ASSUME RunsAssumption ==
    /\ Runs \subseteq Run
    /\ \A r \in Runs : \/ r.ok /\ \E w \in DOMAIN r.workers : r.workers[w] # "failed"
                       \/ ~r.ok /\ ~r.right /\ r.workers = <<>> /\ r.tokens = NoTokens
ASSUME BudgetsAssumption == Budgets \subseteq Budget

VARIABLES budget, \* the budget of the experiment
          rows    \* results so far, in the order of the runs

scoringVars == <<budget, rows>>

\* Python's round(), of a quotient (a tie, which is up to the floating point there,
\* goes up) and of half an integer.
Rounded(p, q) == (2 * p + q) \div (2 * q)
HalfEven(x) == IF x % 4 = 1 THEN (x - 1) \div 2 ELSE (x + 1) \div 2
-----------------------------------------------------------------------------
\* _run_case: a run is over budget also if its use cannot be told, and counts
\* as wrong then.
Exceeded(run, b) ==
    \/ b.tokens # NoTokens /\ (run.tokens = NoTokens \/ run.tokens > b.tokens)
    \/ b.wall /\ run.late

PassedBug(run, b) == run.right
Passed(run, b) == run.right /\ ~Exceeded(run, b)

Row(case, run, b) == [case |-> case, passed |-> Passed(run, b), tokens |-> run.tokens,
                      exceeded |-> Exceeded(run, b), workers |-> run.workers]

\* One pass over all cases after the other.
Case(k) == 1 + ((k - 1) % N)

NoRows == /\ budget \in Budgets
          /\ rows = <<>>

RunCase == /\ Len(rows) < N * Repeats
           /\ \E run \in Runs :
                  rows' = Append(rows, Row(Case(Len(rows) + 1), run, budget))
           /\ UNCHANGED budget

ScoringSpec == NoRows /\ [][RunCase]_scoringVars
-----------------------------------------------------------------------------
\* _task_scores and _condition_summary over the rows I: the mean, over the
\* tasks, of the share of a task's rows that passed.
TasksOf(R, I) == {R[i].case : i \in I}
RowsOf(R, I, task) == {i \in I : R[i].case = task}
PassedAmong(R, I) == {i \in I : R[i].passed}
Share(part, I) == Rounded(10000 * Cardinality(part), Cardinality(I))
TaskScore(R, I, task) == Share(PassedAmong(R, RowsOf(R, I, task)), RowsOf(R, I, task))

AccuracyBug(R, I) == IF I = {} THEN 0 ELSE Share(PassedAmong(R, I), I)
Scores(R, I) == [task \in 1..N |-> IF task \in TasksOf(R, I) THEN TaskScore(R, I, task) ELSE 0]
Total(scores) ==
    LET sum[n \in 0..N] == IF n = 0 THEN 0 ELSE sum[n - 1] + scores[n]
    IN  sum[N]
Accuracy(R, I) ==
    IF I = {} THEN 0
    ELSE Rounded(Total(Scores(R, I)), Cardinality(TasksOf(R, I)))

\* budget_filtered: the summary of the rows that are not over budget.
WithinBudget(R) == {i \in DOMAIN R : ~R[i].exceeded}

\* make_budget_manifest.py: the median of the tokens the rows I report.
Reported(R) == {i \in DOMAIN R : R[i].tokens # NoTokens}
Ranked(R, I, k) ==
    CHOOSE t \in {R[i].tokens : i \in I} :
        /\ Cardinality({i \in I : R[i].tokens < t}) < k
        /\ Cardinality({i \in I : R[i].tokens <= t}) >= k

UpperRank(n) == n \div 2 + 1
TokenBudgetBug(R) ==
    LET I == Reported(R)
        sum[k \in 0..Len(R)] ==
            IF k = 0 THEN 0 ELSE sum[k - 1] + (IF k \in I THEN R[k].tokens ELSE 0)
    IN  IF I = {} THEN NoTokens ELSE Rounded(sum[Len(R)], Cardinality(I))
TokenBudget(R) == LET I == Reported(R)  n == Cardinality(I) IN
    IF I = {} THEN NoTokens
    ELSE HalfEven(Ranked(R, I, (n + 1) \div 2) + Ranked(R, I, UpperRank(n)))

\* analyze_results.py: a row whose workers' outputs are there is known, and
\* the oracle is right on it if one of the workers is.
Known(R, I) == {i \in I : R[i].workers # <<>>}
OracleRightBug(row) == \A w \in DOMAIN row.workers : row.workers[w] = "right"
OracleRight(row) == \E w \in DOMAIN row.workers : row.workers[w] = "right"

\* Majority over the repeats, of the rows I with the property S.
Mostly(S, I) == 2 * Cardinality(S) >= Cardinality(I)

OracleTask(R, task) == LET I == Known(R, RowsOf(R, DOMAIN R, task)) IN
    Mostly({i \in I : OracleRight(R[i])}, I)
FinalTask(R, task) == LET I == RowsOf(R, DOMAIN R, task) IN Mostly(PassedAmong(R, I), I)
Judged(R) == {task \in TasksOf(R, DOMAIN R) : Known(R, RowsOf(R, DOMAIN R, task)) # {}}

Damaged(R) == {task \in Judged(R) : OracleTask(R, task) /\ ~FinalTask(R, task)}
Repaired(R) == {task \in Judged(R) : ~OracleTask(R, task) /\ FinalTask(R, task)}
-----------------------------------------------------------------------------
\* A run over budget counts as wrong, so leaving such runs out can only help:
\* budget_filtered is never below the accuracy it is compared with.
FilteredIsNotWorse == Accuracy(rows, WithinBudget(rows)) >= Accuracy(rows, DOMAIN rows)

\* A task weighs the same however often it was run: running one again with the
\* same outcomes changes no accuracy, with and without the runs over budget.
\* The rows of Again are R's, and those of the task a second time.
Twice(R, task) == ((DOMAIN R) \X {1}) \cup (RowsOf(R, DOMAIN R, task) \X {2})
Again(R, task) == [i \in Twice(R, task) |-> R[i[1]]]
TasksWeighTheSame ==
    \A task \in 1..N : LET R == Again(rows, task) IN
        /\ Accuracy(R, DOMAIN R) = Accuracy(rows, DOMAIN rows)
        /\ Accuracy(R, WithinBudget(R)) = Accuracy(rows, WithinBudget(rows))

\* The budget taken from a baseline is neither too small nor too large for it:
\* of the runs that reported their tokens, at least half stay within it and at
\* least half use it up. (A run that reported none is over any budget.)
BudgetFitsBaseline ==
    LET b == TokenBudget(rows)  I == Reported(rows) IN
        I # {} => /\ Mostly({i \in I : rows[i].tokens <= b}, I)
                  /\ Mostly({i \in I : rows[i].tokens >= b}, I)

\* Damage and repair are what the words say: some run of a repaired task passed
\* while every worker was wrong, and some run of a damaged one did not (it was
\* wrong, or over budget) while a worker was right, if none of its rows is
\* unknown.
DamageAndRepairAreReal ==
    /\ \A task \in Repaired(rows) : \E i \in RowsOf(rows, DOMAIN rows, task) :
           rows[i].passed /\ "right" \notin {rows[i].workers[w] : w \in DOMAIN rows[i].workers}
    /\ \A task \in Damaged(rows) : LET I == RowsOf(rows, DOMAIN rows, task) IN
           Known(rows, I) = I => \E i \in I :
               ~rows[i].passed /\ "right" \in {rows[i].workers[w] : w \in DOMAIN rows[i].workers}

\* The warning of analyze_results.py about rows without workers' outputs: "those
\* rows excluded from oracle upper bound and synthesizer damage/repair rate".
\* Without them the tasks that count as damaged and repaired would be the same.
ExcludedRowsDoNotCount ==
    LET known == [i \in Known(rows, DOMAIN rows) |-> rows[i]]
    IN  Damaged(known) = Damaged(rows) /\ Repaired(known) = Repaired(rows)
=============================================================================
