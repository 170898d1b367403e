# Thug-Fugu: TLA+ models and proofs

This directory models `fugu_local` (`src/fugu_local/`), a gateway that answers one
chat request with several local LLM calls, and the scripts that evaluate it
(`scripts/`). The modules are plain TLA+; TLC checks them on small instances and
TLAPS proves the safety properties and refinements for every value of the constants.
Read section 1 for the system, 2 for what each module stands for, 3 for the
runs, 4 for the proofs, 5 for what the models show of the code besides, and 6 and 7
for what is missing.

## 1. The system

| Component (file) | State | Operations | Talks to |
|---|---|---|---|
| Model router (`routing.py`) | per pool member `busy`, `failures`, `consecutive_successes`, `health_state`, `cooldown_until`; `_round_robin_index`; one lock | `chat`, `stream_chat`, `record_probe_result`, `health_snapshot` | called by worker threads, handler threads and the health monitor; calls backends |
| Health monitor (`health.py`) | `_thread`, `_stop_event`, `_next_probe_at`, `_lifecycle_lock` | `start`, `stop`, `poll_once`, the thread `_run` | writes router state |
| HTTP server (`server.py`) | semaphore of slots, queue of tickets | `do_POST`, `do_GET`, `acquire_request_slot`, `release_request_slot`, SSE writers | starts and stops the monitor, calls the orchestrator, one thread per request |
| Orchestrator (`orchestrator.py`) | no shared mutable state but routers and monitor; per request: worker results, verification attempts, deadline | `chat` with the patterns `direct`, `role_split`, `parallel_ensemble`, `sequential_dag`; `chat_with_backend_tools`; `prepare_streaming_response` | thread pools of role calls; routers |
| DAG pipeline (`pipeline.py`, `stages.py`) | `stage_results`, `_solver_outputs`, `_reviser_answer`, `warnings` | `run` | stage callback of the orchestrator |
| Answer clustering (`answers.py`) | none | `cluster_answers`, `majority_vote`, `normalize_answer` | ensemble |
| Coordinator (`coordinator.py`) | none | `plan` by rules, heuristics or a meta call | one router |
| Configuration (`config.py`) | none | `validate_config` and parsing | everything: names accepted here are looked up later |
| Tools (`tools.py`) | none; one thread per tool call | `parse_tool_calls`, `execute_tool_calls` | server, backend tool round |
| Backends (`backends.py`) | one connection and one generator per call | `chat`, `stream_chat`, probes | Ollama, OpenAI-compatible servers; pulled by the router |
| Evaluation (`scripts/evaluate_orchestration.py`) | a bundle directory: copies of inputs, manifest, rerun script, rows, summary | run, rerun | reads configurations and cases several times; one orchestrator per condition |
| Scoring (`evaluate_orchestration.py`, `make_budget_manifest.py`, `analyze_results.py`) | rows | accuracies, budgets, damage and repair | the rows of a bundle |
| Verifiers, seeds, consult, MCP, CLI, plans, other scripts | none | pure functions, start-up, offline tools | |

What is hard in it, and the properties that make each part correct:

- *Router.* Caller threads and probes interleave between short critical
  sections. Counters must balance however an attempt ends (answer, error,
  failover, abandoned stream); the state that routing sorts by must agree with
  the counters; each member is tried at most once; no failover once output has
  been seen; a recovered member must come back.
- *Monitor.* `stop` gives up the lock while it joins, and the join can time out;
  `start` may be called meanwhile. Never two threads, never overlapping probes, no
  lost stop.
- *Server.* Every way out of `do_POST` gives its slot back once; the ticket count
  follows the waiting threads although tickets are anonymous; waiting ends. A client
  may stall while its handler holds a slot, for ever: the socket has no time-out.
- *role_split.* Calls outlive the wave that started them; a deadline may
  pass anywhere. A late call must not change a result that is there, a verdict must be
  reported for the results it is about, the limit on parallel calls must hold, the
  retry loop must end.
- *Ensemble.* Consolidation falls back twice; whoever decides, the answer has most
  votes and the summary agrees with it.
- *Handler.* Planning, streaming, fallback, tool round and two SSE writers, each of
  which may fail, and a client that may leave or stall. The client must receive one
  well-formed reply and never the beginning of a second; workers must not run twice;
  tools are executed by the server or proposed to the client, not both; token usage
  that backends report in parts must be added up for the same calls in every part.
- *DAG.* Stages fail one by one or are switched off, the deadline cuts
  between stages; the best answer so far is returned and a cut is announced.
- *Configuration.* A name or flag that validation accepts is used much later, under a
  pattern chosen by a rule, a model or a default. The role looked up then must be
  there, and neither verifier nor synthesizer may be a worker.
- *Backends.* A stream stops at any line, with or without an end marker, or breaks
  off after output was passed on. Text and usage must arrive once, and after output
  no break may be a connection error, which the handler would take for the client's.
- *Evaluation.* A run dies at any step, in the middle of a write included; originals
  are edited between two of its reads. What a bundle shows must be complete and
  recorded, and a rerun must evaluate the same inputs.
- *Scoring.* Repeats, failed rows, rows over budget and rows without worker outputs
  enter different numbers with different weights.

`PROJECT.json` lists these hazards with the source line where each bites. Five of them
have no property: that `least_busy` decides on counts that may be stale
(`routing.py:211`), which is a preference only; that `max_parallel_workers` bounds one
request and not the server (`orchestrator.py:1052`); that any stage answer makes a
pipeline run a success (`orchestrator.py:299`); what a meta call may choose
(`coordinator.py:176`); and that a configuration edited between two reads of one run is
recorded with another hash than the one that was run (`evaluate_orchestration.py:505`).
The last three are described in section 5.

## 2. Modules

| Module | Models | Role |
|---|---|---|
| `Failover` | what a router promises each caller | abstract specification |
| `Router`, `MCRouter`, `RouterProofs` | `ModelRouter` | refines `Failover` |
| `HealthMonitor`, `MCHealthMonitor`, `HealthMonitorProofs` | `HealthMonitor` | |
| `Admission`, `MCAdmission`, `AdmissionProofs` | `FuguLocalHTTPServer` slots and queue, `do_POST` | |
| `Reply` | what the client of one request may receive | abstract specification |
| `Handler`, `MCHandler`, `HandlerProofs` | the body of `do_POST`, the SSE writers, `prepare_streaming_response`, `chat_with_backend_tools`, the dispatch of `chat` | refines `Reply` |
| `Backend` | what the router and the handler rely on in one backend call | abstract specification |
| `Adapter`, `MCAdapter`, `AdapterProofs` | `chat` and `stream_chat` of the three backends | refines `Backend` |
| `RoleSplit`, `MCRoleSplit`, `RoleSplitProofs` | `_run_role_split` and the calls below it | |
| `Chat`, `MCChat`, `ChatProofs` | `validate_config`, `Coordinator.plan`, the selection of roles, `chat` | composes `Ensemble` and `Pipeline` |
| `Ensemble` | `_run_parallel_ensemble`, `_vote_content`, clustering | instantiated by `Chat` |
| `Pipeline` | `_PipelineRun` and `_run_sequential_dag` | instantiated by `Chat` |
| `Evaluation`, `MCEvaluation`, `EvaluationProofs` | `main` and `_prepare_bundle` of `evaluate_orchestration.py` | |
| `Scoring`, `MCScoring`, `EvaluationProofs` | `_run_case`, `_summarize`, `make_budget_manifest.py`, `analyze_results.py` | |

A definition whose name ends in `Bug` is not part of a specification: it is the
mistake a plausible edit of the next definition would make, and put in its place
it violates a property (the pairs are the `mutants` of `PROJECT.json`). The
`MC...` modules say which instance is checked and why it is large enough.

### Correspondence with the code

*Router.* A caller's `pc` is the next critical section or call it makes: `Begin`
is `_attempt_order`, `Acquire` `_acquire`, `Succeed`/`Fail` the backend's outcome
with `_record_success`/`_record_failure`, `Release` `_release`; `Emit` and `Close`
are a chunk handed to the consumer and the consumer closing the generator, after
which nothing is recorded. `chat` is a `stream_chat` that emits nothing.
`ProbeGood`/`ProbeBad` are `record_probe_result`. Time is reduced to
`cooling[m]`, which `CooldownEnds` may clear at any moment. Counters saturate at the
largest value the code compares them with. That pool members have different keys
(`record_probe_result` looks members up by key) is part of the configuration.

*HealthMonitor.* `StartLock`, `StartProbe`, `StartSpawn` are `start` (which keeps the
lock while it probes each target once), `StopLock`, `StopJoin`, `StopForget` are
`stop` (two separate sections with an unlocked, bounded join between),
`MonitorLoop`, `MonitorNext`, `MonitorProbed` the loop of `_run`. A monitor thread
object can be new again only if nobody refers to it.

*Admission.* `Arrive` is the non-blocking acquire, `Enqueue` `put_nowait`,
`Grant`/`TimeOut` the timed acquire, `Dequeue` its `finally` clause, `Serve` the
body of `do_POST` with any outcome, `Release` the outer `finally`. `Stall` and `Resume`
are the client's: while it stalls, neither `Serve` (which reads its body and writes its
response) nor the refusal goes on. A client that sends its next request before the old
handler has released its slot is another thread.

*Handler.* `pc` is the next step of the handler thread. `Read` is the body with its
validation; `Prepare`, `PrepareDirect`, `PrepareSplit` are `_prepare_stream` and the two
functions it calls; `First` is the `next(prepared_stream.chunks)` with its two
`except` clauses, `Stream` the loop of the direct writer, one chunk a step;
`Chunk`, `WorkerUsage`, `StreamEnds`, `StreamBreaks` are what the generator
`_stream_with_aggregated_usage` may do; `Chat` is `chat`; `Tools`, `Propose`,
`Resynthesize` are `chat_with_backend_tools` between its model calls. `todo` holds the
events the code will write next, one `wfile.write` each: `WriteEvent`, or, when the client
has gone, `WriteLost` (the kernel takes the bytes) or `WriteRaises`. `ClientStalls` lets a
client stop sending and reading, and go on; `Read` and `WriteEvent` wait for it. `Fail` is
an except clause whose message quotes backends' errors: if that cannot be encoded,
`_write_json` raises again and there is no response. A usage is the set of its fields
(`Usages` says which sets backends report): `Aggregate` is `_aggregate_usage`, field by
field, and `counted` a ghost that says whose calls it adds up. A configured fact that the
code reads only once is chosen where it is read. The model name a request sends, which is
echoed in every document and event, is taken to be encodable.

*RoleSplit.* `Submit` creates an executor and its futures; `StartTask`/`FinishTask`
are pool threads running `_run_role`; `Collect`, `AllCollected`, `GiveUp` are the
`as_completed` loop and its timeout; `Check`, `Verify`, `Decide` the rest of the
loop body; `Compose`, `Synthesize` the answer, with the error rule of `chat`.
`task[w]` keeps the calls of every wave, so stragglers stay visible.

*Ensemble.* `Collect` chooses any list of answers; `Clusters` folds them
into clusters as the dictionaries of `cluster_answers` and `_exact_clusters` do;
`Vote` is `_vote_content` and `Judge` `_judge_tiebreak`, whose failures end in
the winner a majority would give. Normalization is a constant function.

*Pipeline.* `Skip` and `Call` are the stage functions, `Boundary` the deadline check
between them, `Return` the writer's fallback and `chat`'s error rule. Stage output
is reduced to whether it has a non-empty answer.

*Chat.* A behaviour is one configuration and one request under it. `Load` is
`validate_config`, whose checks of one value are the flag `sound` and whose checks
of entries against each other are `VerifierAccepted`, `JudgeAccepted` and
`DagAccepted`. `Plan` and `Choose` are `Coordinator.plan`: a rule or a heuristic,
then the meta call (any pattern the reply names), then the default. `Select` and
`SelectDag` are `_select_worker_roles` and the refusals of an empty selection or an
empty stage list. `RunEnsemble` and `RunDag` are the steps of the two modules, which see
the configuration through `EnsembleConf` and `DagConf`; `RunSplit` is `direct` and
`role_split` in one step, whose waves are module `RoleSplit`; `Finish` is the error
rule at the end of `chat`.

*Adapter.* `Chat`, `Answer`, `ChatFails` are `chat` over `_post_json`. `Stream` makes
the generator; `Ask` and `Close` are its consumer, the router, pulling or
dropping it; `Open` is `urlopen`, `Hear`, `IgnoreLine`, `BadLine`, `DoneLine` one
line of `_post_stream_lines` and what the adapter makes of it, `EndOfFile` and
`BreakOff` the connection; `EchoGive` the echo backend. `Chunk` is what is passed on of
a line: Ollama's stream makes every reason to be done a "stop". `heard` and `given` are
ghosts: how often each kind of information came in and went out.

*Evaluation.* An evaluator's `pc` names the file it writes next or the read it makes
next. `Start` with `Preferred` is the choice of inputs by `--rerun-manifest`
(`_prefer_matching_source`), with `Options` the `--budget-manifest` of a first run, which
the recorded command does not have (`RecordedOptions`), `LoadCases` the first read of the cases, `Prepare` the
refusal of a directory in use, `Copy` the copy under `inputs/` with `_sanitize_config`,
`HashConfig` `_sha256` of the file itself, `WriteManifest`, `WriteScript`,
`WriteResults`, `WriteCsv`, `WriteSummary` the outputs in their order, `RunCondition`
the third read of a configuration and all its cases. `Crash` may strike at any step and
leave the file being written torn; `Edit` changes or removes an original. `calm` is a
ghost: which inputs nobody edited while the run into a bundle read them.

*Scoring.* `NoRows` is the start of a condition, `RunCase` appends one row (`_run_case`)
after any outcome of `chat`. The numbers are operators over the rows so far: `Scores`
are `_task_scores`, `Accuracy` is the mean of `_condition_summary`, both rounded to four
places (`Rounded`; a tie goes up in the model and as floating point has it in the code),
`WithinBudget` the rows of `budget_filtered`, `TokenBudget` the median of
`make_budget_manifest.py` with Python's rounding, `OracleTask`, `FinalTask`, `Damaged`
and `Repaired` the matrices of `analyze_results.py`.

## 3. Runs

| Run | Instance | Shows |
|---|---|---|
| `router` | 2 members, 2 callers, round robin, cooldown, probes, thresholds 1 and 2 | types; the router refines `Failover`; busy counts, state/counter agreement, every call returns, recovered members are healthy again |
| `admission` | 5 threads, 2 slots, 1 queue place, stalling clients | slots and tickets balance, every request leaves whose client does not stall for ever |
| `health_monitor` | 2 callers, 2 targets, 3 thread objects | one thread, disjoint probes, stops take effect, every target is probed |
| `handler` | every request, 3 chunks, encodable texts, 3 sets of usage fields | one well-formed reply (`Reply`), workers run once, tools act on one side, usage counts the workers, the handler ends unless its client stalls for ever |
| `handler_json` | same, with texts that cannot be encoded | *violation:* a JSON response is sent after the headers of a stream |
| `role_split` | 3 roles, 2 pool threads, 1 retry | parallel limit, results that late calls do not change, verdicts about the results they come with, termination |
| `role_split_kept` | same | *violation:* a retry wave cut off by the deadline discards earlier successes and fails the request |
| `chat` | three families of configurations, see below | accepted names suffice; verifier and synthesizer are no workers; most votes win and the summary agrees; best answer and announced cut of a pipeline |
| `adapter` | streams of up to 4 lines; echo in 2 or 3 pieces | text and usage arrive once, finish reasons as each adapter passes them on; the adapters refine `Backend` |
| `evaluation` | 1 evaluator, 2 bundles, 2 conditions, 2 versions of each file, 1 edit, with and without budgets, crashes anywhere | bundles are complete, rows recorded, reruns take the same inputs and no budgets, records kept |
| `scoring` | 2 cases of 3 runs, 8 outcomes of a run, with and without budgets | filtered accuracy is not worse, tasks weigh the same, the budget fits its baseline, damage and repair are real |
| `scoring_excluded` | same | *violation:* rows reported as excluded from the damage rate make damage |

The bounds. Two callers suffice for races between critical sections, since each
property relates one member's counters to the calls on it; two members are a first and
a last to fail, and the thresholds keep every state apart. A pool without probes, the
`least_busy` policy and longer orders are not checked but proved: every safety property
and the refinement hold for all pools (section 4). In `Admission` five threads fill slots and queue, overflow
them and leave one in between. In `HealthMonitor` a start can meet a stop at each of
its steps and a third thread object would be needed for an orphan. In `Handler` three
chunks (`MaxChunks`) let a finish reason or usage come first, between or last; what the
client saw is a set of kinds and the last one, so that more chunks add no states but
longer paths. `handler` leaves out unencodable answers, since with them the code violates
`Reply`, as `handler_json` shows. The three sets of usage fields are all of them, prompt and
completion, and the total alone: two backends may have nothing in common. In `RoleSplit`
one call is always queued behind two; one retry distinguishes a first, a last and
an only wave; all configurations are initial states.

`chat` starts from ballots of up to four answers out of five contents, two of which are the
same answer to the clustering and two of which are empty to it, under every vote mode
(four votes allow a clear majority, a tie of pairs and a tie of single votes); from
every set of switched-off stages with one or two solvers; and from every way to
flag or name verifier and judge, and to write a list of stages, right or wrong, under each
pattern, with tools and a meta call on or off. In `adapter` four lines (`MaxLines`) hold
a text, an early finish reason, a usage and an end in any order. In `evaluation` two
bundles make one the rerun of the other, two conditions make a first and a last, one of the
two versions holds a literal key, and one edit (`MaxEdits`) can fall between any two
reads; an evaluator may run, die and run again without bound. In `scoring` three runs are
the least with which rows that are not known can decide a majority. What these bounds
cannot show for larger values is proved where a theorem exists (section 4).

The violated properties are statements of the repository's own documents, quoted
in the `findings` of `PROJECT.json` with the code that differs.

### Fairness

Weak fairness is assumed of threads that only compute or whose blocking calls have
timeouts: caller threads (every backend call has `timeout_seconds`), the handler
threads, the monitor thread, the thread that serves a request, and time (a
deadline, a cooldown or a probe interval ends). The socket to a client has no timeout
(`server.py:264` and 408-418): a step that reads from or writes to it is enabled, and so
assumed to come, only while the client does not stall. Nothing is assumed of clients
themselves, neither that they go on once they stall nor that they leave;
`EveryRequestLeaves` and `HandlerEnds` therefore have the premise that the request's own
client does not stall for ever, and the first shows that others who do keep nobody
waiting longer than the queue's timeout. Nothing is assumed either of who
wins a lock or a slot, of the callers of `start` and `stop`, nor of worker
calls of a request that has a deadline: `RequestEnds` shows that the deadline alone
ends the request. `RecoveredMemberHealthy` supposes in its premise that failures
stop, and of the monitor only that it keeps probing, which is `EveryTargetProbed`.
`Chat`, `Adapter`, `Evaluation` and `Scoring` state no fairness and no liveness: an
evaluation run may well stop anywhere, and a stream is pulled only if its consumer wants
more.

## 4. Proofs

All theorems are about the specifications above for any number of threads,
members, roles, stages, lines, bundles and conditions, from the named assumptions on
constants only (finite sets, positive thresholds and limits: what the constructors and
`config.py` enforce). Every safety property and every refinement of section 3's passing
runs is a theorem; what is only model-checked is named at the end.

- `RouterProofs`. `TypeCorrect` needs one conjunct more than the types,
  `TriedInv`: a call that holds a member has a position in its order, one that is
  about to acquire has a position left. `HealthStateCorrect` follows by cases on
  the member that moves. `BusyCorrect` shows that each step adds or removes one
  call in the set that `busy` counts. `RouterImplementsFailover` maps every step to
  a step of `Failover` or a stutter; its key lemma, `UntriedFacts`, is that an
  order is a permutation: positions left are members left. It also needs
  `EmittedCorrect`: failover only without output. `CallsAdvanceCorrect` counts the
  steps a call has left, three for each member it has not tried;
  `RecoveryAdvancesCorrect` the good probes a member is short of.
- `HealthMonitorProofs`. The invariant is types, `NoOrphan` and `LockInv`: a caller inside
  the locked part of `start` holds the lock, and while it probes or is about to make a
  thread, no thread lives. `ProbesDisjoint` then follows: the probes of `start` and of a
  thread exclude each other, and there is one thread at most. `SignalKept` is what
  `StopTakesEffect` rests on: a thread some `stop` still refers to is dead or signalled,
  because `start` clears the event only when no thread lives; then each of its steps
  brings its end nearer (`StopAdvancesCorrect`).
- `AdmissionProofs`. `free` and `queued` equal cardinalities; the lemma `OneMoves` says
  how one thread's step changes the number of threads in a set of steps, and every
  action is an instance of it. `AdmissionTypeCorrect` then bounds the counters. The
  queue may be on or off.
- `RoleSplitProofs`. `IInv` adds where the loop stands (`LoopInv`), that uncollected
  roles belong to the current wave (`CollectInv`), that a collected result is the end
  of its call (`ResultsInv`, from which `ResultsOfThisWave` follows step by step: a call
  that ends is one whose result is not taken from it any more, or not yet), that a wave is only followed by
  another when all of its calls have ended (`WaveInv`, which makes
  `ParallelLimitCorrect` true: a straggler needs a passed deadline, and then there is
  no further wave while it runs), the pool bound of each wave (`PoolInv`), and the
  relation of attempts, verdict and warning (`AttemptInv`). Two more theorems are about
  progress: `NoWaitInVainCorrect`, that a request which collects waits for something
  that can still come, and `RequestAdvancesCorrect`, that its steps are bounded by
  `(1 + MaxRetries) * Turn + 3 + |Roles|`, where `Turn` is what one wave takes.
- `HandlerProofs`. `IInv` relates the handler's place to what it has run, counted,
  executed and still has to write: nothing is to be written before a response begins
  (`EarlyInv`), workers and tools ran only on the ways that allow no second time
  (`OnceInv`, `SideInv`), a usage that is there has the fields all reporters share and
  counts the workers (`UsageInv`), and what is still to be written ends with a document or
  `[DONE]` (`EndInv`; for texts that can be encoded, as an error that cannot be has no
  document). The refinement of `Reply` needs `PathInv` besides: read as a path, the
  events still to be written lead from the one the client received last to where
  the handler stands (`Leads`), each event being allowed by `Reply` after the one
  before. Its assumption that texts can be encoded is necessary, as `handler_json` shows.
  `HandlerAdvancesCorrect` bounds the handler's steps by `26 + 5 * MaxChunks`.
- `AdapterProofs`. `FreshInv`: until the response is open nothing was heard or given,
  so that only then a connection error can leave the adapter; `SawInv`: `saw_finish` is
  what it says; `LastInv`: the chunk that ends a generator has a reason to finish, no
  line is read after it, and Ollama's done line is such a chunk.
- `ChatProofs`. `RolesInv`: a request is served under an accepted configuration, by roles
  out of `Workers`, which are neither flagged nor named as verifier or synthesizer;
  what the judge's and the stages' steps imply of the configuration then gives
  `RolesAreThere`. `OutputsInv` relates the pipeline's variables to the list
  of stage outputs: they come in the order of the stages, `candidates` are the solvers'
  answers, `revised` the reviser's, and the writer is called at most once and last.
  `VoteInv` is about the ensemble: nothing is decided before the last step and the judge
  is only asked in a tie; `PluralityWins` and `SummaryMatchesVote` are conjuncts of it.
  Both count votes one by one, where the code counts clusters, so that the proof is about
  the fold `E!Clusters`: after each ballot every place is in the cluster whose first
  member says the same, once, in order (`ClustersAreRight`, by `JoinKeeps` and
  `OpenKeeps`), hence a cluster is as long as its answer has votes (`ClusterCounts`),
  there are as many as distinct answers (`ClustersCount`), the first of the largest exists
  (`BestExists`) and leads (`LargestLead`), and a tie is one (`SeveralLargestTie`).
  That sameness of answers is an equivalence is all that is used of normalization.
- `EvaluationProofs`. `IInv`: an evaluator is alone in its bundle, whose outputs are whole
  up to the step it is at and absent after it. That, with the order of the outputs,
  gives `SummaryMeansComplete`, and with the refusal of used directories
  `RecordIsKept`. `RInv`: of a calm file, everything that was read, copied, hashed or
  recorded agrees with what would be read at that place now; the rows and the
  reruns follow. `BudgetInv`: what is run from a bundle's manifest has no budgets. The
  second half is about `ScoringSpec`, whose definitions have other
  names than `Evaluation`'s. `RowsInv` says that each row is `_run_case` of some run; the
  four properties are then theorems about operators, for all such rows. Accuracies
  compare because rounding and sums are monotone (`RoundedMono`, `TotalMono`) and a
  task without rows within budget scored 0 before (`FilterRaises`). Rows of a task
  that is run again are counted in two disjoint copies (`CopiesCount`, `ShareTwice`).
  For the budget, the k-th smallest token count exists (`RankedExists`), and the two
  middle ones have half of the runs on each side, rounding included.

Two arguments recur. A recursive function (`Clusters`, `Total`) satisfies its equation
because one that does exists (`RecursionExists`, `TotalIs`). And what would be an
induction is an argument about the least counterexample (`LeastExists`), which rests on
the library's theorem that `<` is well-founded on the naturals: the library's induction
theorems themselves take an operator, which the provers cannot instantiate.

Only model-checked are the liveness properties (`CallsReturn`,
`RecoveredMemberHealthy`, `EveryRequestLeaves`, `StopTakesEffect`, `EveryTargetProbed`,
`RequestEnds`, `HandlerEnds`): fairness and `ENABLED` are beyond the prover. Of five of
them the safety half is proved, the `...Advances` theorems: a natural number, bounded by
the constants, that every step assumed fair decreases and no other step raises
(of a member's recovery: no other step than a failure of its own). What is
left to TLC there is that such a step is enabled until the end and, by fairness, taken.
The two others are TLC's alone: a request's way through `Admission` has no loop, so such a
number would only restate its order of steps, and `EveryTargetProbed` says that something
recurs. The three violations of section 3 are counterexamples of TLC.

## 5. What the models show of the code besides

The three violations of section 3 contradict a text of the repository. The following
behaviour is in the models besides; where a document could be read to say otherwise, that
is said. The properties are stated so that they hold with it.

*Server.*
- A client that sends its headers and then nothing, or stops reading, keeps its
  slot and its handler thread for as long as it stays: the slot is taken
  (`server.py:120`) before the body is read (264), and neither reading nor writing has a
  timeout. `EveryRequestLeaves` says what remains true for the others.
- Usage is added up field by field over the calls that reported any
  (`orchestrator.py:1457-1475`). Workers that report prompt and completion and a
  synthesizer that reports the total only have no field in common: the client is told
  0/0/0, and the workers' usage, which was known, is not given either, since the
  synthesizer's was seen (1486). `docs/reference/usage-accounting.md:56` calls a field unknown if any
  call lacks it; read strictly it would make every field unknown as soon as one worker
  reports no usage at all, where the code leaves that worker out of the sum.
- An error message that quotes a backend's (`orchestrator.py:304`) may hold a character that
  cannot be encoded; then the except clause raises and the connection closes without a
  response (`server.py:242`, 283, `Fail`). `AnsweredCorrect` is about encodable texts.

*Orchestrator.*
- Any stage with an answer makes a pipeline run a success (`orchestrator.py:299`), also a
  planner's plan when the deadline cuts the run before a solver: the content is then
  empty, with a warning. `BestAnswerReturned` says what is returned, empty included.
- The meta call may choose `sequential_dag` (`coordinator.py:176`), which its prompt does
  not offer (153-158) and which validation keeps away from tool calling only as a default or in a rule
  (`config.py:686-693`). A default, rule or meta choice of it with no stages
  fails the request at `orchestrator.py:860`.
- A configuration whose roles are all verifiers or synthesizers is accepted; its requests
  fail with "No worker roles are configured". `coordinator.verify.role` takes a role
  out of the workers also when verification is off. `ensemble.judge_role` may name a worker, so
  that `WorkersNeitherCheckNorMerge` does not speak of the judge.
- A deadline that passes in a retry wave leaves the previous rejection without its warning
  (`orchestrator.py:643`). The deadline is not looked at before the verifier, the
  synthesizer, the judge and the meta call; how long those may overrun it is a matter of
  their own timeouts.
- If the synthesizer of an ensemble fails and the winner of the vote is empty, the
  answer is the merge of all workers, while the vote summary is about the empty winner
  (`orchestrator.py:820`). `SummaryMatchesVote` is about answers that come from the vote.
- A synthesizer stream without any text is followed by the workers' usage, which counts
  as a first chunk (`orchestrator.py:1496`): the client gets an empty answer instead
  of the fallback.
- A stream the server closes early, without a finish reason, ends as one that says
  "stop" (`Finish`). Exceptions of the JSON parser and of `http.client` leave an adapter
  as they are, also after output; connection errors do so only before it. All callers
  catch `Exception`.
- Ollama's stream ends with "stop" whatever `done_reason` the server gave
  (`backends.py:434`), also if the answer was cut at its length; `chat` keeps the reason
  (387-393). `EverythingArrives` says so of each.

*Health monitor.* A `start` that finds a stopped thread still alive, in a long probe,
does nothing (`health.py:61`, `StartLock`): once that thread has ended there is no
monitor until the next `start`. `StopTakesEffect` is about stops only.

*Evaluation.*
- A configuration edited between two reads of one run is recorded with a hash that is not
  that of the rows; `RowsAreRecorded` holds for calm files only. All rows are kept in
  memory until the end, so that a crash loses them, and the directory it leaves is refused
  from then on, also by a rerun script, whose directory is fixed. Two evaluators
  pointed at one directory at the same moment are not kept apart (`Start` excludes it).
- A run's `--budget-manifest` (`evaluate_orchestration.py:157`) is neither in the manifest
  nor in the recorded command (513-517) nor restored from it (589-597): the `rerun.sh` of the
  budget-matched bundle of `scripts/run_phase2_comparison.sh:89` runs without budgets,
  and says nothing. The documents speak of rerunning a manifest
  (`docs/operations/evaluation-harness.md`, "Rerun from a manifest") and not of budgets.
  `RerunIsTheSame` is about cases and configurations, and says that budgets are gone.
  Budgets somebody adds to a recorded command by hand are not modelled.
- In `analyze_results.py` rows without workers' outputs, which are reported as excluded
  from the damage rate, still count in the final result it compares with: the run
  `scoring_excluded`. `DamageAndRepairAreReal` says what holds: a repaired task has a run
  that passed with no worker right; a damaged one, if none of its rows is so excluded, a
  run that did not pass, being wrong or over budget, with a worker right.
- A run that reports no tokens exceeds any token budget (`Exceeded`), and `BudgetFitsBaseline`
  counts the runs that report some.

## 6. Not modelled

Probes, payloads, headers and URLs of `backends.py` (one GET or formatting; probe
outcomes are `Router`'s `ProbeGood` and `ProbeBad`). String work: the rules of
`normalize_answer` and `extract_final_answer` (any function will do for the
properties), the parsing of stage outputs and verdicts, `verifiers.py`, the matching of
a request's text to rules and keywords. The checks of single values in `config.py` (one
flag). `seeding.py` (a hash), `consult.py` and `mcp_server.py` (wrappers around one
`chat`), `cli.py`, `runtime_profile.py` and `serverplan.py` (start-up and reports),
the generators of tasks and configurations and the load generator under `scripts/`
(sequential, no state that outlives a run), and the report tables, costs and
diversity numbers of `analyze_results.py`. The threads of `execute_tool_calls` that
outlive their timeout, and claims and mechanical checks of the pipeline, are abstracted
to the outcome of one step. There is no clock: bounds in seconds are out of scope.

## 7. What could come next

In this order:

1. `Service`: `Admission` composed with monitor start and stop (`serve_forever`,
   `server_close`) and with the worker pools of concurrent requests, which would turn the
   scope of `max_parallel_workers` into a property.
2. The threads of `execute_tool_calls` that outlive their timeout.
3. Claims and mechanical checks in `Pipeline`.
