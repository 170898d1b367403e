----------------------------- MODULE Evaluation -----------------------------
(***************************************************************************)
(* Experiment bundles of scripts/evaluate_orchestration.py: evaluators     *)
(* read a cases file and one configuration per condition, copy them into a *)
(* bundle, record their hashes in its manifest, run every condition and    *)
(* write the results; a later run takes its inputs from a manifest, which  *)
(* does not say whether the run had token and time budgets. The originals  *)
(* may be edited or removed at any time, also between two reads of one     *)
(* run, and an evaluator may die at any step, in the middle of a write     *)
(* included, with all it had in memory.                                    *)
(*                                                                         *)
(* Abstracted: what the files say (a content is a version, and whether its *)
(* credentials were replaced), hash collisions, and the runs of a          *)
(* condition's cases, which share one loaded configuration. The check of a *)
(* directory and its creation are one step: no two evaluators are pointed  *)
(* at one directory (Start), which nothing in the script enforces.         *)
(***************************************************************************)
EXTENDS Integers

CONSTANTS Evaluators, \* processes that run the script, one run at a time each
          Bundles,    \* output directories
          C,          \* number of conditions
          Versions,   \* versions of a file's text; 0 stands for no file
          Literal,    \* versions of a configuration that hold a literal api_key
          MaxEdits    \* bound on the number of edits of the originals

ASSUME ConditionsAssumption == C \in Nat \ {0}
ASSUME VersionsAssumption == Versions \subseteq Nat \ {0} /\ Literal \subseteq Versions
ASSUME EditsAssumption == MaxEdits \in Nat

Files == 0..C \* 0 is the cases file, f the configuration of condition f
Original == "original"
ASSUME BundlesAssumption == Original \notin Bundles

VARIABLES
    source,   \* source[f]: the version of the original of file f, or 0
    edits,    \* how often originals were changed
    snapshot, \* snapshot[b][f]: the copy of file f under b's inputs/
    status,   \* status[b][o]: output o of b is absent, torn or whole
    manifest, \* manifest[b]: what b's manifest.json records
    results,  \* results[b][f]: the content of file f that b's rows came from
    budgets,  \* budgets[b]: b's rows were run under a budget manifest
    job,      \* job[e]: the memory of evaluator e, see Jobs
    calm      \* calm[b][f]: f did not change while the run into b read it (ghost)

diskVars == <<snapshot, status, manifest, results, budgets>>
vars == <<source, edits, diskVars, job, calm>>

Places == Bundles \cup {Original}
Outputs == {"inputs", "manifest.json", "rerun.sh", "results.jsonl", "results.csv",
            "summary.json"}
Steps == {"idle", "cases", "prepare", "copy", "hash", "run"} \cup (Outputs \ {"inputs"})
Content == [version : Versions \cup {0}, redacted : BOOLEAN]
NoContent == [version |-> 0, redacted |-> FALSE]
Nothing == [f \in Files |-> NoContent]
InPlace == [f \in Files |-> Original]

\* pc: the step; out: the bundle it writes; from: the bundle it reruns, or
\* Original; at: the file it has come to; loc[f]: where it reads file f, the
\* original or a bundle's copy; hash[f]: the content whose hash it computed;
\* ran[f]: the content it used for its rows; budget: it was given a budget
\* manifest.
Jobs == [pc : Steps, out : Places, from : Places, at : Files, loc : [Files -> Places],
         hash : [Files -> Content], ran : [Files -> Content], budget : BOOLEAN]
Idle == [pc |-> "idle", out |-> Original, from |-> Original, at |-> 0, loc |-> InPlace,
         hash |-> Nothing, ran |-> Nothing, budget |-> FALSE]

\* What is read at a place now; version 0 is a file that is not there.
Read(place, f) == IF place = Original THEN [version |-> source[f], redacted |-> FALSE]
                                      ELSE snapshot[place][f]
ReadBy(e, f) == Read(job[e].loc[f], f)
Whole(b, o) == status[b][o] = "whole"

\* _sanitize_config: literal keys are replaced; the cases are copied as they are.
Sanitized(f, content) ==
    [content EXCEPT !.redacted = @ \/ (f # 0 /\ content.version \in Literal)]
-----------------------------------------------------------------------------
Init == /\ source \in [Files -> Versions]
        /\ edits = 0
        /\ snapshot = [b \in Bundles |-> Nothing]
        /\ status = [b \in Bundles |-> [o \in Outputs |-> "absent"]]
        /\ manifest = [b \in Bundles |->
                          [from |-> Original, loc |-> InPlace, hash |-> Nothing]]
        /\ results = [b \in Bundles |-> Nothing]
        /\ budgets = [b \in Bundles |-> FALSE]
        /\ job = [e \in Evaluators |-> Idle]
        /\ calm = [b \in Bundles |-> [f \in Files |-> FALSE]]

Goto(e, step) == job' = [job EXCEPT ![e].pc = step]
Writes(e, output) == status' = [status EXCEPT ![job[e].out][output] = "whole"]

\* _prefer_matching_source: the recorded path while its hash matches, else the
\* bundle's own copy.
PreferredBug(a, f) == IF Read(manifest[a].loc[f], f).version # 0
                      THEN manifest[a].loc[f] ELSE a
Preferred(a, f) == IF Read(manifest[a].loc[f], f) = manifest[a].hash[f]
                   THEN manifest[a].loc[f] ELSE a

\* rerun_command names the manifest and an output directory, no budgets.
RecordedOptions == {FALSE}
Options(a) == IF a = Original THEN BOOLEAN ELSE RecordedOptions

\* A run of the named files, with or without budgets, or the recorded command of
\* a bundle whose manifest can be read.
Start(e, b) ==
    /\ job[e] = Idle
    /\ \A d \in Evaluators : job[d].out # b
    /\ \E a \in Places :
           /\ a # Original => Whole(a, "manifest.json")
           /\ \E budget \in Options(a) :
                  job' = [job EXCEPT ![e] =
                     [Idle EXCEPT !.pc = "cases", !.out = b, !.from = a,
                                  !.loc = IF a = Original THEN InPlace
                                          ELSE [f \in Files |-> Preferred(a, f)],
                                  !.budget = budget]]
    /\ calm' = IF status[b]["inputs"] = "absent"
               THEN [calm EXCEPT ![b] = [f \in Files |-> TRUE]] ELSE calm
    /\ UNCHANGED <<source, edits, diskVars>>

\* main reads the cases before anything is written.
LoadCases(e) ==
    /\ job[e].pc = "cases"
    /\ ReadBy(e, 0).version # 0
    /\ job' = [job EXCEPT ![e].ran[0] = ReadBy(e, 0), ![e].pc = "prepare"]
    /\ UNCHANGED <<source, edits, diskVars, calm>>

\* _prepare_bundle refuses a directory that is not empty.
RefusesBug(b) == Whole(b, "summary.json")
Refuses(b) == status[b]["inputs"] # "absent"

Prepare(e) ==
    /\ job[e].pc = "prepare"
    /\ IF Refuses(job[e].out)
       THEN /\ job' = [job EXCEPT ![e] = Idle]
            /\ UNCHANGED status
       ELSE /\ Goto(e, "copy")
            /\ Writes(e, "inputs")
    /\ UNCHANGED <<source, edits, snapshot, manifest, results, budgets, calm>>

\* A file is copied into inputs/, a configuration without its credentials.
Copy(e) == LET f == job[e].at IN
    /\ job[e].pc = "copy"
    /\ ReadBy(e, f).version # 0
    /\ snapshot' = [snapshot EXCEPT ![job[e].out][f] = Sanitized(f, ReadBy(e, f))]
    /\ job' = [job EXCEPT ![e].at = IF f = 0 THEN 1 ELSE f,
                          ![e].pc = IF f = 0 THEN "copy" ELSE "hash"]
    /\ UNCHANGED <<source, edits, status, manifest, results, budgets, calm>>

\* _sha256 of the file itself, read again after the copy.
DigestBug(e, f) == Sanitized(f, ReadBy(e, f))
Digest(e, f) == ReadBy(e, f)

HashConfig(e) == LET f == job[e].at IN
    /\ job[e].pc = "hash"
    /\ Digest(e, f).version # 0
    /\ job' = [job EXCEPT ![e].hash[f] = Digest(e, f),
                          ![e].at = IF f < C THEN f + 1 ELSE 1,
                          ![e].pc = IF f < C THEN "copy" ELSE "manifest.json"]
    /\ UNCHANGED <<source, edits, diskVars, calm>>

\* The cases are hashed last, when the manifest is put together.
WriteManifest(e) ==
    /\ job[e].pc = "manifest.json"
    /\ Digest(e, 0).version # 0
    /\ manifest' = [manifest EXCEPT ![job[e].out] =
                       [from |-> job[e].from, loc |-> job[e].loc,
                        hash |-> [job[e].hash EXCEPT ![0] = Digest(e, 0)]]]
    /\ Writes(e, "manifest.json")
    /\ Goto(e, "rerun.sh")
    /\ UNCHANGED <<source, edits, snapshot, results, budgets, calm>>

WriteScript(e) ==
    /\ job[e].pc = "rerun.sh"
    /\ Writes(e, "rerun.sh")
    /\ Goto(e, "run")
    /\ UNCHANGED <<source, edits, snapshot, manifest, results, budgets, calm>>

\* The configuration is read once more, then all cases are run with it.
NextCondition(f) == IF f < C THEN f + 1 ELSE f

AfterRunBug == "summary.json"
AfterRun == "results.jsonl"

RunCondition(e) == LET f == job[e].at IN
    /\ job[e].pc = "run"
    /\ ReadBy(e, f).version # 0
    /\ job' = [job EXCEPT ![e].ran[f] = ReadBy(e, f),
                          ![e].at = NextCondition(f),
                          ![e].pc = IF f < C THEN "run" ELSE AfterRun]
    /\ UNCHANGED <<source, edits, diskVars, calm>>

WriteResults(e) ==
    /\ job[e].pc = "results.jsonl"
    /\ results' = [results EXCEPT ![job[e].out] = job[e].ran]
    /\ budgets' = [budgets EXCEPT ![job[e].out] = job[e].budget]
    /\ Writes(e, "results.jsonl")
    /\ Goto(e, "results.csv")
    /\ UNCHANGED <<source, edits, snapshot, manifest, calm>>

WriteCsv(e) ==
    /\ job[e].pc = "results.csv"
    /\ Writes(e, "results.csv")
    /\ Goto(e, "summary.json")
    /\ UNCHANGED <<source, edits, snapshot, manifest, results, budgets, calm>>

WriteSummary(e) ==
    /\ job[e].pc = "summary.json"
    /\ Writes(e, "summary.json")
    /\ job' = [job EXCEPT ![e] = Idle]
    /\ UNCHANGED <<source, edits, snapshot, manifest, results, budgets, calm>>

\* The process ends by an exception or is killed, and its memory is lost; what
\* it was writing is left as it was, or torn.
Crash(e) ==
    /\ job[e].pc # "idle"
    /\ job' = [job EXCEPT ![e] = Idle]
    /\ \/ UNCHANGED <<snapshot, status>>
       \/ /\ job[e].pc \in Outputs
          /\ status' = [status EXCEPT ![job[e].out][job[e].pc] = "torn"]
          /\ UNCHANGED snapshot
       \/ /\ job[e].pc = "copy"
          /\ snapshot' = [snapshot EXCEPT ![job[e].out][job[e].at] = NoContent]
          /\ UNCHANGED status
    /\ UNCHANGED <<source, edits, manifest, results, budgets, calm>>

\* Somebody edits, removes or restores an original.
Edit(f) ==
    /\ edits < MaxEdits
    /\ edits' = edits + 1
    /\ \E v \in Versions \cup {0} : /\ v # source[f]
                                    /\ source' = [source EXCEPT ![f] = v]
    /\ calm' = [b \in Bundles |-> [calm[b] EXCEPT ![f] =
                   @ /\ \A e \in Evaluators : job[e].out = b => job[e].loc[f] # Original]]
    /\ UNCHANGED <<diskVars, job>>

Evaluator(e) == \/ \E b \in Bundles : Start(e, b)
                \/ LoadCases(e) \/ Prepare(e) \/ Copy(e) \/ HashConfig(e)
                \/ WriteManifest(e) \/ WriteScript(e) \/ RunCondition(e)
                \/ WriteResults(e) \/ WriteCsv(e) \/ WriteSummary(e) \/ Crash(e)

Next == \/ \E e \in Evaluators : Evaluator(e)
        \/ \E f \in Files : Edit(f)

Spec == Init /\ [][Next]_vars
-----------------------------------------------------------------------------
Manifest == [from : Places, loc : [Files -> Places], hash : [Files -> Content]]

TypeOK == /\ source \in [Files -> Versions \cup {0}]
          /\ edits \in 0..MaxEdits
          /\ snapshot \in [Bundles -> [Files -> Content]]
          /\ status \in [Bundles -> [Outputs -> {"absent", "torn", "whole"}]]
          /\ manifest \in [Bundles -> Manifest]
          /\ results \in [Bundles -> [Files -> Content]]
          /\ budgets \in [Bundles -> BOOLEAN]
          /\ job \in [Evaluators -> Jobs]
          /\ calm \in [Bundles -> [Files -> BOOLEAN]]

\* Whatever step a run died at, a bundle that shows a summary has all the rows
\* it sums up, and one that shows rows has what is needed to run them again:
\* a manifest and a copy of every input.
SummaryMeansComplete ==
    \A b \in Bundles :
        /\ Whole(b, "summary.json") => Whole(b, "results.csv")
        /\ Whole(b, "results.csv") => Whole(b, "results.jsonl")
        /\ Whole(b, "results.jsonl") => Whole(b, "rerun.sh") /\ Whole(b, "manifest.json")
        /\ Whole(b, "manifest.json") => \A f \in Files : snapshot[b][f].version # 0

\* The rows came from the very contents whose hashes the manifest records,
\* for every input that nobody changed while the run was reading it: the five
\* or more reads of a run agree.
RowsAreRecorded ==
    \A b \in Bundles, f \in Files :
        Whole(b, "results.jsonl") /\ calm[b][f] => results[b][f] = manifest[b].hash[f]

\* The recorded command evaluates the cases and the configurations that the run
\* it repeats evaluated, whatever happened to the originals in between, and
\* loses credentials only with the original. It has no budgets: the runs are
\* alike in that only where the one repeated had none.
RerunIsTheSame ==
    \A b \in Bundles, f \in Files : LET a == manifest[b].from IN
        /\ Whole(b, "results.jsonl") /\ a # Original
        /\ Whole(a, "results.jsonl") /\ calm[a][f] /\ calm[b][f]
        => /\ results[b][f].version = results[a][f].version
           /\ results[b][f] # results[a][f] => manifest[b].loc[f] = a
           /\ ~budgets[b]

\* What a rerun relies on does not change any more once it can be relied on:
\* no later run, into whatever directory, writes over a manifest or a copy.
RecordIsKept ==
    [][\A b \in Bundles : Whole(b, "manifest.json") =>
           /\ Whole(b, "manifest.json")'
           /\ snapshot'[b] = snapshot[b] /\ manifest'[b] = manifest[b]
           /\ Whole(b, "results.jsonl") =>
                  results'[b] = results[b] /\ budgets'[b] = budgets[b]]_vars
=============================================================================
