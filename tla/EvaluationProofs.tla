-------------------------- MODULE EvaluationProofs --------------------------
(***************************************************************************)
(* Proofs about Evaluation for any number of evaluators, bundles,          *)
(* conditions, versions and edits. A step of an evaluator touches its own  *)
(* memory and the bundle it writes, which no other evaluator writes; the   *)
(* outputs of that bundle are whole up to the step the evaluator is at and *)
(* absent from there on, since it found the bundle empty.                  *)
(*                                                                         *)
(* The second half is about the rows a bundle's results consist of:        *)
(* Scoring, for any number of cases and repeats, any runs and any budgets. *)
(***************************************************************************)
EXTENDS Evaluation, Scoring, FiniteSetTheorems, WellFoundedInduction, TLAPS

Writing == {"copy", "hash", "run"} \cup (Outputs \ {"inputs"})

\* The outputs an evaluator at a step has not written yet.
Pending(step) ==
    CASE step \in {"copy", "hash", "manifest.json"} -> Outputs \ {"inputs"}
      [] step = "rerun.sh" -> {"rerun.sh", "results.jsonl", "results.csv", "summary.json"}
      [] step \in {"run", "results.jsonl"} -> {"results.jsonl", "results.csv", "summary.json"}
      [] step = "results.csv" -> {"results.csv", "summary.json"}
      [] OTHER -> {"summary.json"}

\* The files an evaluator in memory j has copied.
Copied(j) == IF j.pc = "copy" THEN {f \in Files : f < j.at}
             ELSE IF j.pc = "hash" THEN {f \in Files : f <= j.at} ELSE Files

\* An evaluator that is not idle has a bundle, and has it alone.
JobOK(e) == IF job[e].pc = "idle" THEN job[e] = Idle
            ELSE /\ job[e].out \in Bundles
                 /\ \A d \in Evaluators : d # e => job[d].out # job[e].out

\* What the disk holds of the bundle an evaluator writes; before that, it has
\* not come to a file yet.
DiskOK(e) ==
    /\ job[e].pc \in {"cases", "prepare"} => job[e].at = 0
    /\ job[e].pc \in Writing =>
           /\ \A o \in Outputs : status[job[e].out][o] =
                                  IF o \in Pending(job[e].pc) THEN "absent" ELSE "whole"
           /\ \A f \in Copied(job[e]) : snapshot[job[e].out][f].version # 0

Complete(b) ==
    /\ Whole(b, "summary.json") => Whole(b, "results.csv")
    /\ Whole(b, "results.csv") => Whole(b, "results.jsonl")
    /\ Whole(b, "results.jsonl") => Whole(b, "rerun.sh") /\ Whole(b, "manifest.json")
    /\ Whole(b, "manifest.json") => \A f \in Files : snapshot[b][f].version # 0

BundleOK(b) ==
    /\ status[b]["inputs"] = "absent" => \A o \in Outputs : status[b][o] = "absent"
    /\ Complete(b)

IInv == /\ TypeOK
        /\ \A e \in Evaluators : JobOK(e) /\ DiskOK(e)
        /\ \A b \in Bundles : BundleOK(b)

\* What an evaluator reads is a content.
LEMMA ReadType ==
    ASSUME TypeOK, NEW p \in Places, NEW f \in Files
    PROVE  Read(p, f) \in Content
  BY DEF TypeOK, Read, Content, Places

LEMMA JobParts ==
    ASSUME TypeOK, NEW e \in Evaluators
    PROVE  /\ job[e] \in Jobs /\ job[e].pc \in Steps /\ job[e].out \in Places
           /\ job[e].from \in Places /\ job[e].at \in Files
           /\ job[e].loc \in [Files -> Places]
           /\ job[e].hash \in [Files -> Content] /\ job[e].ran \in [Files -> Content]
  BY DEF TypeOK, Jobs

\* A new memory of one evaluator keeps the types.
LEMMA NewJob ==
    ASSUME TypeOK, NEW e \in Evaluators, NEW j, job' = [job EXCEPT ![e] = j],
           job'[e] \in Jobs, UNCHANGED <<source, edits, snapshot, status, manifest, results, budgets, calm>>
    PROVE  TypeOK'
  <1>1. job' \in [Evaluators -> Jobs] BY DEF TypeOK
  <1>2. QED BY <1>1 DEF TypeOK

LEMMA Became ==
    ASSUME TypeOK, NEW e \in Evaluators, NEW j, job' = [job EXCEPT ![e] = j]
    PROVE  job'[e] = j /\ \A d \in Evaluators \ {e} : job'[d] = job[d]
  BY DEF TypeOK

\* The assignments to its memory an evaluator makes.
LEMMA Assigned ==
    ASSUME NEW j \in Jobs, NEW s \in Steps, NEW a \in Files, NEW f \in Files,
           NEW h \in Content
    PROVE  /\ [j EXCEPT !.pc = s] \in Jobs
           /\ [j EXCEPT !.at = a, !.pc = s] \in Jobs
           /\ [j EXCEPT !.ran[f] = h, !.pc = s] \in Jobs
           /\ [j EXCEPT !.hash[f] = h, !.at = a, !.pc = s] \in Jobs
           /\ [j EXCEPT !.ran[f] = h, !.at = a, !.pc = s] \in Jobs
  <1>1. [j EXCEPT !.pc = s] \in Jobs /\ [j EXCEPT !.at = a, !.pc = s] \in Jobs
    BY DEF Jobs
  <1>2. [j EXCEPT !.ran[f] = h, !.pc = s] \in Jobs BY DEF Jobs
  <1>3. [j EXCEPT !.hash[f] = h, !.at = a, !.pc = s] \in Jobs BY DEF Jobs
  <1>4. [j EXCEPT !.ran[f] = h, !.at = a, !.pc = s] \in Jobs BY DEF Jobs
  <1>5. QED BY <1>1, <1>2, <1>3, <1>4

LEMMA IdleType == Idle \in Jobs /\ 1 \in Files /\ 0 \in Files
  <1>1. 0 \in Files /\ 1 \in Files BY ConditionsAssumption DEF Files
  <1>2. InPlace \in [Files -> Places] BY DEF InPlace, Places
  <1>3. Nothing \in [Files -> Content] BY DEF Nothing, NoContent, Content
  <1>4. QED BY <1>1, <1>2, <1>3 DEF Idle, Jobs, Steps, Places

\* A step of evaluator e disturbs nothing but its memory and its bundle.
LEMMA Frame ==
    ASSUME IInv, TypeOK', NEW e \in Evaluators, job[e].pc # "idle",
           NEW c \in Bundles, c = job[e].out,
           \A d \in Evaluators \ {e} : job'[d] = job[d],
           \A b \in Bundles \ {c} :
               snapshot'[b] = snapshot[b] /\ status'[b] = status[b],
           job'[e] = Idle \/ (job'[e].out = job[e].out /\ job'[e].pc # "idle"),
           DiskOK(e)', BundleOK(c)'
    PROVE  IInv'
  <1>1. JobOK(e) /\ job[e].out \in Bundles /\ Original \notin Bundles
    BY BundlesAssumption DEF IInv, JobOK
  <1>2. JobOK(e)'
    <2>1. CASE job'[e] = Idle BY <2>1 DEF JobOK, Idle
    <2>2. CASE job'[e] # Idle BY <2>2, <1>1 DEF JobOK
    <2>3. QED BY <2>1, <2>2
  <1>3. ASSUME NEW d \in Evaluators, d # e PROVE JobOK(d)' /\ DiskOK(d)'
    <2>1. JobOK(d) /\ DiskOK(d) /\ job'[d] = job[d] BY <1>3 DEF IInv
    <2>2. job[d].pc # "idle" => job[d].out # job[e].out /\ job[d].out \in Bundles
      BY <2>1, <1>3 DEF JobOK
    <2>3. JobOK(d)'
      <3>1. job'[e].out \in {job[e].out, Original} BY DEF Idle
      <3>2. QED BY <2>1, <2>2, <3>1, <1>1, <1>3 DEF JobOK
    <2>4. DiskOK(d)'
      <3>1. CASE job[d].pc \in Writing
        <4>1. job[d].pc # "idle" BY <3>1 DEF Writing, Outputs
        <4>2. QED BY <2>1, <2>2, <4>1, <3>1 DEF DiskOK, Copied
      <3>2. CASE job[d].pc \notin Writing BY <2>1, <3>2 DEF DiskOK
      <3>3. QED BY <3>1, <3>2
    <2>5. QED BY <2>3, <2>4
  <1>4. ASSUME NEW b \in Bundles, b # job[e].out PROVE BundleOK(b)'
    BY <1>4 DEF IInv, BundleOK, Complete, Whole
  <1>5. \A b \in Bundles : BundleOK(b)' BY <1>4
  <1>6. QED BY <1>2, <1>3, <1>5 DEF IInv

\* Steps that change only the evaluator's memory.
LEMMA InMemory ==
    ASSUME IInv, TypeOK', NEW e \in Evaluators, job[e].pc # "idle",
           UNCHANGED <<snapshot, status>>,
           \A d \in Evaluators \ {e} : job'[d] = job[d],
           job'[e] = Idle \/ (job'[e].out = job[e].out /\ job'[e].pc # "idle"),
           DiskOK(e)'
    PROVE  IInv'
  <1>1. PICK c \in Bundles : c = job[e].out BY DEF IInv, JobOK
  <1>2. BundleOK(c)' BY DEF IInv, BundleOK, Complete, Whole
  <1>3. QED BY <1>1, <1>2, Frame

LEMMA StartStep ==
    ASSUME IInv, NEW e \in Evaluators, NEW b \in Bundles, Start(e, b)
    PROVE  IInv'
  <1>1. PICK a \in Places, limited \in BOOLEAN :
            /\ limited \in Options(a)
            /\ a # Original => Whole(a, "manifest.json")
            /\ job' = [job EXCEPT ![e] =
                   [Idle EXCEPT !.pc = "cases", !.out = b, !.from = a,
                                !.loc = IF a = Original THEN InPlace
                                        ELSE [f \in Files |-> Preferred(a, f)],
                                !.budget = limited]]
    BY DEF Start, Options, RecordedOptions
  <1>2. job[e] = Idle /\ (\A d \in Evaluators : job[d].out # b)
    BY DEF Start
  <1>3. TypeOK'
    <2>1. (IF a = Original THEN InPlace ELSE [f \in Files |-> Preferred(a, f)])
              \in [Files -> Places]
      <3>1. CASE a = Original BY <3>1 DEF InPlace, Places
      <3>2. CASE a # Original
        <4>1. a \in Bundles BY <3>2 DEF Places
        <4>2. \A f \in Files : Preferred(a, f) \in Places
          BY <4>1 DEF IInv, TypeOK, Preferred, Manifest, Places
        <4>3. QED BY <3>2, <4>2
      <3>3. QED BY <3>1, <3>2
    <2>2. job'[e] \in Jobs
      BY <1>1, <2>1, IdleType DEF IInv, TypeOK, Jobs, Idle, Steps, Places
    <2>3. job' \in [Evaluators -> Jobs] BY <1>1, <2>2 DEF IInv, TypeOK
    <2>4. calm' \in [Bundles -> [Files -> BOOLEAN]] BY DEF Start, IInv, TypeOK
    <2>5. QED BY <2>3, <2>4 DEF Start, IInv, TypeOK, diskVars
  <1>4. job'[e].pc = "cases" /\ job'[e].out = b /\ \A d \in Evaluators \ {e} : job'[d] = job[d]
    BY <1>1 DEF IInv, TypeOK, Idle
  <1>5. UNCHANGED <<snapshot, status>> BY DEF Start, diskVars
  <1>6. JobOK(e)' /\ DiskOK(e)'
    <2>1. job'[e].at = 0 BY <1>1 DEF IInv, TypeOK, Idle
    <2>2. QED BY <2>1, <1>2, <1>4 DEF JobOK, DiskOK, Writing, Outputs
  <1>7. ASSUME NEW d \in Evaluators, d # e PROVE JobOK(d)' /\ DiskOK(d)'
    <2>1. JobOK(d)' BY <1>2, <1>4, <1>7 DEF IInv, JobOK
    <2>2. DiskOK(d)' BY <1>4, <1>5, <1>7 DEF IInv, DiskOK, Copied
    <2>3. QED BY <2>1, <2>2
  <1>8. \A c \in Bundles : BundleOK(c)' BY <1>5 DEF IInv, BundleOK, Complete, Whole
  <1>9. QED BY <1>3, <1>6, <1>7, <1>8 DEF IInv

LEMMA LoadCasesStep ==
    ASSUME IInv, NEW e \in Evaluators, LoadCases(e)
    PROVE  IInv'
  <1> DEFINE j == [job[e] EXCEPT !.ran[0] = ReadBy(e, 0), !.pc = "prepare"]
  <1>1. job[e].pc = "cases" /\ UNCHANGED <<source, edits, diskVars, calm>>
        /\ job' = [job EXCEPT ![e] = j]
    BY DEF LoadCases, IInv, TypeOK
  <1>2. j \in Jobs
    <2>1. ReadBy(e, 0) \in Content BY JobParts, ReadType, IdleType DEF IInv, ReadBy
    <2>2. QED BY <2>1, JobParts, IdleType, Assigned DEF IInv, Steps
  <1>3. j.pc = "prepare" /\ j.out = job[e].out /\ j.at = job[e].at
    BY JobParts DEF IInv, Jobs
  <1> HIDE DEF j
  <1>4. job'[e] = j /\ \A d \in Evaluators \ {e} : job'[d] = job[d]
    BY <1>1, Became DEF IInv
  <1>5. TypeOK' BY <1>1, <1>2, <1>4, NewJob DEF IInv, diskVars
  <1>6. DiskOK(e)' BY <1>1, <1>3, <1>4 DEF IInv, DiskOK, Writing, Outputs
  <1>7. QED BY <1>1, <1>3, <1>4, <1>5, <1>6, InMemory DEF diskVars

\* The directory was empty: nothing but inputs/ is there now.
LEMMA PrepareStep ==
    ASSUME IInv, NEW e \in Evaluators, Prepare(e)
    PROVE  IInv'
  <1>1. PICK c \in Bundles : c = job[e].out BY DEF Prepare, IInv, JobOK
  <1>2. job[e].pc = "prepare" /\ UNCHANGED <<source, edits, snapshot, manifest, results, budgets, calm>>
    BY DEF Prepare
  <1>3. CASE Refuses(c)
    <2>1. job' = [job EXCEPT ![e] = Idle] /\ UNCHANGED status
      BY <1>1, <1>3 DEF Prepare
    <2>2. job'[e] = Idle /\ \A d \in Evaluators \ {e} : job'[d] = job[d]
      BY <2>1, Became DEF IInv
    <2>3. TypeOK' BY <1>2, <2>1, <2>2, IdleType, NewJob DEF IInv
    <2>4. DiskOK(e)' BY <2>2 DEF DiskOK, Idle, Writing, Outputs
    <2>5. QED BY <1>2, <2>1, <2>2, <2>3, <2>4, InMemory
  <1>4. CASE ~Refuses(c)
    <2> DEFINE j == [job[e] EXCEPT !.pc = "copy"]
    <2>1. job' = [job EXCEPT ![e] = j]
          /\ status' = [status EXCEPT ![c]["inputs"] = "whole"]
      BY <1>1, <1>4 DEF Prepare, Goto, Writes
    <2>2. j \in Jobs BY JobParts, Assigned, IdleType DEF IInv, Steps
    <2>3. j.pc = "copy" /\ j.out = c /\ j.at = 0
      <3>1. job[e].at = 0 BY <1>2 DEF IInv, DiskOK
      <3>2. QED BY <1>1, <3>1, JobParts DEF IInv, Jobs
    <2> HIDE DEF j
    <2>4. job'[e] = j /\ \A d \in Evaluators \ {e} : job'[d] = job[d]
      BY <2>1, Became DEF IInv
    <2>5. TypeOK'
      <3>1. job' \in [Evaluators -> Jobs] BY <2>1, <2>2 DEF IInv, TypeOK
      <3>2. status' \in [Bundles -> [Outputs -> {"absent", "torn", "whole"}]]
        BY <2>1 DEF IInv, TypeOK
      <3>3. QED BY <1>2, <3>1, <3>2 DEF IInv, TypeOK
    <2>6. \A o \in Outputs : status'[c][o] = IF o = "inputs" THEN "whole" ELSE "absent"
      BY <1>4, <2>1 DEF Refuses, IInv, TypeOK, BundleOK, Outputs
    <2>7. DiskOK(e)'
      <3>1. Copied(job[e])' = {} BY <2>3, <2>4 DEF Copied, Files
      <3>2. QED BY <2>3, <2>4, <2>6, <3>1 DEF DiskOK, Pending, Outputs
    <2>8. BundleOK(c)' BY <2>6 DEF BundleOK, Complete, Whole, Outputs
    <2>9. \A b \in Bundles \ {c} : snapshot'[b] = snapshot[b] /\ status'[b] = status[b]
      BY <1>2, <2>1 DEF IInv, TypeOK
    <2>10. QED BY <1>1, <1>2, <2>3, <2>4, <2>5, <2>7, <2>8, <2>9, Frame
  <1>5. QED BY <1>3, <1>4

\* A file that was read was there, so its copy is one, too.
LEMMA CopyStep ==
    ASSUME IInv, NEW e \in Evaluators, Copy(e)
    PROVE  IInv'
  <1>1. PICK c \in Bundles : c = job[e].out BY DEF Copy, IInv, JobOK
  <1>2. PICK f \in Files : f = job[e].at BY JobParts DEF IInv
  <1> DEFINE j == [job[e] EXCEPT !.at = IF f = 0 THEN 1 ELSE f,
                                 !.pc = IF f = 0 THEN "copy" ELSE "hash"]
             text == Sanitized(f, ReadBy(e, f))
  <1>3. /\ job[e].pc = "copy" /\ ReadBy(e, f).version # 0
        /\ job' = [job EXCEPT ![e] = j]
        /\ snapshot' = [snapshot EXCEPT ![c][f] = text]
        /\ UNCHANGED <<source, edits, status, manifest, results, budgets, calm>>
    BY <1>1, <1>2 DEF Copy, IInv, TypeOK
  <1>4. text \in Content /\ text.version # 0
    <2>1. ReadBy(e, f) \in Content BY JobParts, ReadType DEF IInv, ReadBy
    <2>2. QED BY <1>3, <2>1 DEF Sanitized, Content
  <1>5. j \in Jobs BY JobParts, IdleType, Assigned DEF IInv, Steps
  <1>6. /\ j.out = c /\ j.pc = (IF f = 0 THEN "copy" ELSE "hash")
        /\ j.at = (IF f = 0 THEN 1 ELSE f)
    BY <1>1, JobParts DEF IInv, Jobs
  <1> HIDE DEF j, text
  <1>7. job'[e] = j /\ \A d \in Evaluators \ {e} : job'[d] = job[d]
    BY <1>3, Became DEF IInv
  <1>8. /\ \A b \in Bundles \ {c} : snapshot'[b] = snapshot[b]
        /\ \A g \in Files : snapshot'[c][g] = IF g = f THEN text ELSE snapshot[c][g]
    BY <1>3 DEF IInv, TypeOK
  <1>9. TypeOK'
    <2>1. job' \in [Evaluators -> Jobs] BY <1>3, <1>5 DEF IInv, TypeOK
    <2>2. snapshot' \in [Bundles -> [Files -> Content]] BY <1>3, <1>4 DEF IInv, TypeOK
    <2>3. QED BY <1>3, <2>1, <2>2 DEF IInv, TypeOK
  <1>10. \A o \in Outputs : status[c][o] = IF o = "inputs" THEN "whole" ELSE "absent"
    BY <1>1, <1>3 DEF IInv, DiskOK, Writing, Pending
  <1>11. DiskOK(e)'
    <2>1. \A g \in Files : g < f => snapshot[c][g].version # 0
      BY <1>1, <1>2, <1>3 DEF IInv, DiskOK, Writing, Copied
    <2>2. \A g \in Files : g <= f => snapshot'[c][g].version # 0
      BY <1>4, <1>8, <2>1 DEF Files
    <2>3. \A g \in Copied(j) : g \in Files /\ g <= f BY <1>6 DEF Copied, Files
    <2>4. QED BY <1>3, <1>6, <1>7, <1>10, <2>2, <2>3 DEF DiskOK, Pending, Outputs
  <1>12. BundleOK(c)' BY <1>3, <1>10 DEF BundleOK, Complete, Whole, Outputs
  <1>13. QED BY <1>1, <1>3, <1>6, <1>7, <1>8, <1>9, <1>11, <1>12, Frame

LEMMA HashConfigStep ==
    ASSUME IInv, NEW e \in Evaluators, HashConfig(e)
    PROVE  IInv'
  <1>1. PICK f \in Files : f = job[e].at BY JobParts DEF IInv
  <1> DEFINE j == [job[e] EXCEPT !.hash[f] = Digest(e, f),
                                 !.at = IF f < C THEN f + 1 ELSE 1,
                                 !.pc = IF f < C THEN "copy" ELSE "manifest.json"]
  <1>2. /\ job[e].pc = "hash" /\ UNCHANGED <<source, edits, diskVars, calm>>
        /\ job' = [job EXCEPT ![e] = j]
    BY <1>1 DEF HashConfig, IInv, TypeOK
  <1>3. j \in Jobs
    <2>1. Digest(e, f) \in Content BY JobParts, ReadType DEF IInv, ReadBy, Digest
    <2>2. (IF f < C THEN f + 1 ELSE 1) \in Files BY ConditionsAssumption DEF Files
    <2>3. (IF f < C THEN "copy" ELSE "manifest.json") \in Steps BY DEF Steps, Outputs
    <2>4. QED BY <2>1, <2>2, <2>3, JobParts, Assigned DEF IInv
  <1>4. /\ j.out = job[e].out /\ j.pc = (IF f < C THEN "copy" ELSE "manifest.json")
        /\ j.at = (IF f < C THEN f + 1 ELSE 1)
    BY JobParts DEF IInv, Jobs
  <1> HIDE DEF j
  <1>5. job'[e] = j /\ \A d \in Evaluators \ {e} : job'[d] = job[d]
    BY <1>2, Became DEF IInv
  <1>6. TypeOK' BY <1>2, <1>3, <1>5, NewJob DEF IInv, diskVars
  <1>7. DiskOK(e)'
    <2>1. \A g \in Files : g <= f => snapshot[job[e].out][g].version # 0
      BY <1>1, <1>2 DEF IInv, DiskOK, Writing, Copied
    <2>2. \A g \in Copied(j) : g \in Files /\ g <= f
      BY <1>4, ConditionsAssumption DEF Copied, Files
    <2>3. \A o \in Outputs : status[job[e].out][o] =
              IF o \in Outputs \ {"inputs"} THEN "absent" ELSE "whole"
      BY <1>2 DEF IInv, DiskOK, Writing, Pending
    <2>4. j.pc # "cases" /\ j.pc # "prepare" /\ Pending(j.pc) = Outputs \ {"inputs"}
      BY <1>4 DEF Pending
    <2>5. QED BY <1>2, <1>4, <1>5, <2>1, <2>2, <2>3, <2>4 DEF DiskOK, diskVars
  <1>8. j.pc # "idle" BY <1>4
  <1>9. QED BY <1>2, <1>4, <1>5, <1>6, <1>7, <1>8, InMemory DEF diskVars

LEMMA RunConditionStep ==
    ASSUME IInv, NEW e \in Evaluators, RunCondition(e)
    PROVE  IInv'
  <1>1. PICK f \in Files : f = job[e].at BY JobParts DEF IInv
  <1> DEFINE j == [job[e] EXCEPT !.ran[f] = ReadBy(e, f), !.at = NextCondition(f),
                                 !.pc = IF f < C THEN "run" ELSE AfterRun]
  <1>2. /\ job[e].pc = "run" /\ UNCHANGED <<source, edits, diskVars, calm>>
        /\ job' = [job EXCEPT ![e] = j]
    BY <1>1 DEF RunCondition, IInv, TypeOK
  <1>3. j \in Jobs
    <2>1. ReadBy(e, f) \in Content BY JobParts, ReadType DEF IInv, ReadBy
    <2>2. NextCondition(f) \in Files BY ConditionsAssumption DEF NextCondition, Files
    <2>3. (IF f < C THEN "run" ELSE AfterRun) \in Steps BY DEF Steps, Outputs, AfterRun
    <2>4. QED BY <2>1, <2>2, <2>3, JobParts, Assigned DEF IInv
  <1>4. j.out = job[e].out /\ j.pc = (IF f < C THEN "run" ELSE "results.jsonl")
    BY JobParts DEF IInv, Jobs, AfterRun
  <1> HIDE DEF j
  <1>5. job'[e] = j /\ \A d \in Evaluators \ {e} : job'[d] = job[d]
    BY <1>2, Became DEF IInv
  <1>6. TypeOK' BY <1>2, <1>3, <1>5, NewJob DEF IInv, diskVars
  <1>7. DiskOK(e)'
    <2>1. \A g \in Files : snapshot[job[e].out][g].version # 0
      BY <1>2 DEF IInv, DiskOK, Writing, Copied
    <2>2. \A o \in Outputs : status[job[e].out][o] =
              IF o \in Pending("run") THEN "absent" ELSE "whole"
      BY <1>2 DEF IInv, DiskOK, Writing
    <2>3. /\ j.pc # "cases" /\ j.pc # "prepare" /\ Copied(j) = Files
          /\ Pending(j.pc) = Pending("run")
      BY <1>4 DEF Pending, Copied
    <2>4. QED BY <1>2, <1>4, <1>5, <2>1, <2>2, <2>3 DEF DiskOK, diskVars
  <1>8. j.pc # "idle" BY <1>4
  <1>9. QED BY <1>2, <1>4, <1>5, <1>6, <1>7, <1>8, InMemory DEF diskVars
\* The four outputs after the manifest, and the manifest itself: each is written
\* when those before it are whole and those after it are absent.
LEMMA OutputStep ==
    ASSUME IInv, NEW e \in Evaluators, NEW o \in Outputs \ {"inputs"}, job[e].pc = o,
           NEW j \in Jobs, job' = [job EXCEPT ![e] = j],
           \/ o = "summary.json" /\ j = Idle
           \/ /\ j.out = job[e].out /\ j.pc \in Writing \ {"copy", "hash"}
              /\ Pending(j.pc) = Pending(o) \ {o},
           status' = [status EXCEPT ![job[e].out][o] = "whole"],
           manifest' \in [Bundles -> Manifest], results' \in [Bundles -> [Files -> Content]],
           budgets' \in [Bundles -> BOOLEAN], UNCHANGED <<source, edits, snapshot, calm>>
    PROVE  IInv'
  <1>1. PICK c \in Bundles : c = job[e].out BY DEF IInv, JobOK, Outputs
  <1>2. job'[e] = j /\ \A d \in Evaluators \ {e} : job'[d] = job[d]
    BY Became DEF IInv
  <1>3. TypeOK'
    <2>1. job' \in [Evaluators -> Jobs] BY DEF IInv, TypeOK
    <2>2. status' \in [Bundles -> [Outputs -> {"absent", "torn", "whole"}]]
      BY DEF IInv, TypeOK
    <2>3. QED BY <2>1, <2>2 DEF IInv, TypeOK
  <1>4. \A f \in Files : snapshot[c][f].version # 0
    BY <1>1 DEF IInv, DiskOK, Writing, Copied, Outputs
  <1>5. \A q \in Outputs : status[c][q] = IF q \in Pending(o) THEN "absent" ELSE "whole"
    BY <1>1 DEF IInv, DiskOK, Writing
  <1>6. /\ \A b \in Bundles \ {c} : status'[b] = status[b]
        /\ \A q \in Outputs : status'[c][q] =
               IF q \in Pending(o) \ {o} THEN "absent" ELSE "whole"
    BY <1>1, <1>5 DEF IInv, TypeOK
  <1>7. DiskOK(e)'
    <2>1. CASE j = Idle BY <1>2, <2>1 DEF DiskOK, Idle, Writing, Outputs
    <2>2. CASE j # Idle
      <3>1. Copied(j) = Files /\ j.pc # "cases" /\ j.pc # "prepare"
        BY <2>2 DEF Copied, Writing, Outputs
      <3>2. QED BY <1>1, <1>2, <1>4, <1>6, <2>2, <3>1 DEF DiskOK
    <2>3. QED BY <2>1, <2>2
  <1>8. BundleOK(c)'
    <2>1. "inputs" \notin Pending(o) BY DEF Pending, Outputs
    <2>2. Complete(c)' BY <1>4, <1>6 DEF Complete, Whole, Pending, Outputs
    <2>3. QED BY <1>6, <2>1, <2>2 DEF BundleOK, Outputs
  <1>9. job'[e] = Idle \/ (job'[e].out = job[e].out /\ job'[e].pc # "idle")
    BY <1>2 DEF Writing, Outputs
  <1>10. job[e].pc # "idle" BY DEF Outputs
  <1>11. QED BY <1>1, <1>2, <1>3, <1>6, <1>7, <1>8, <1>9, <1>10, Frame

LEMMA WriteManifestStep ==
    ASSUME IInv, NEW e \in Evaluators, WriteManifest(e)
    PROVE  IInv'
  <1> DEFINE j == [job[e] EXCEPT !.pc = "rerun.sh"]
             record == [from |-> job[e].from, loc |-> job[e].loc,
                        hash |-> [job[e].hash EXCEPT ![0] = Digest(e, 0)]]
  <1>1. /\ job[e].pc = "manifest.json" /\ job' = [job EXCEPT ![e] = j]
        /\ status' = [status EXCEPT ![job[e].out]["manifest.json"] = "whole"]
        /\ manifest' = [manifest EXCEPT ![job[e].out] = record]
        /\ UNCHANGED <<source, edits, snapshot, results, budgets, calm>>
    BY DEF WriteManifest, Goto, Writes
  <1>2. record \in Manifest
    <2>1. Digest(e, 0) \in Content BY JobParts, ReadType, IdleType DEF IInv, ReadBy, Digest
    <2>2. QED BY <2>1, JobParts, IdleType DEF IInv, Manifest
  <1>3. j \in Jobs BY JobParts, IdleType, Assigned DEF IInv, Steps, Outputs
  <1>4. j.out = job[e].out /\ j.pc = "rerun.sh" BY JobParts DEF IInv, Jobs
  <1> HIDE DEF j, record
  <1>5. manifest' \in [Bundles -> Manifest] BY <1>1, <1>2 DEF IInv, TypeOK
  <1>6. results' \in [Bundles -> [Files -> Content]] /\ budgets' \in [Bundles -> BOOLEAN]
    BY <1>1 DEF IInv, TypeOK
  <1>7. /\ "manifest.json" \in Outputs \ {"inputs"}
        /\ "rerun.sh" \in Writing \ {"copy", "hash"}
        /\ Pending("rerun.sh") = Pending("manifest.json") \ {"manifest.json"}
    BY DEF Outputs, Writing, Pending
  <1>8. QED BY <1>1, <1>3, <1>4, <1>5, <1>6, <1>7, OutputStep

LEMMA WriteOtherStep ==
    ASSUME IInv, NEW e \in Evaluators, WriteScript(e) \/ WriteResults(e) \/ WriteCsv(e)
    PROVE  IInv'
  <1> DEFINE s == IF job[e].pc = "rerun.sh" THEN "run"
                  ELSE IF job[e].pc = "results.jsonl" THEN "results.csv" ELSE "summary.json"
             j == [job[e] EXCEPT !.pc = s]
  <1>1. /\ job[e].pc \in {"rerun.sh", "results.jsonl", "results.csv"}
        /\ job' = [job EXCEPT ![e] = j]
        /\ status' = [status EXCEPT ![job[e].out][job[e].pc] = "whole"]
        /\ manifest' = manifest /\ UNCHANGED <<source, edits, snapshot, calm>>
    BY DEF WriteScript, WriteResults, WriteCsv, Goto, Writes
  <1>2. /\ manifest' \in [Bundles -> Manifest] /\ results' \in [Bundles -> [Files -> Content]]
        /\ budgets' \in [Bundles -> BOOLEAN]
    BY <1>1, JobParts DEF WriteScript, WriteResults, WriteCsv, IInv, TypeOK, Jobs
  <1>3. j \in Jobs BY JobParts, IdleType, Assigned DEF IInv, Steps, Outputs
  <1>4. j.out = job[e].out /\ j.pc = s BY JobParts DEF IInv, Jobs
  <1>5. /\ job[e].pc \in Outputs \ {"inputs"} /\ s \in Writing \ {"copy", "hash"}
        /\ Pending(s) = Pending(job[e].pc) \ {job[e].pc}
    BY <1>1 DEF Outputs, Writing, Pending
  <1> HIDE DEF j, s
  <1>6. QED BY <1>1, <1>2, <1>3, <1>4, <1>5, OutputStep

LEMMA WriteSummaryStep ==
    ASSUME IInv, NEW e \in Evaluators, WriteSummary(e)
    PROVE  IInv'
  <1>1. /\ job[e].pc = "summary.json" /\ job' = [job EXCEPT ![e] = Idle]
        /\ status' = [status EXCEPT ![job[e].out]["summary.json"] = "whole"]
        /\ UNCHANGED <<source, edits, snapshot, manifest, results, budgets, calm>>
    BY DEF WriteSummary, Writes
  <1>2. /\ manifest' \in [Bundles -> Manifest] /\ results' \in [Bundles -> [Files -> Content]]
        /\ budgets' \in [Bundles -> BOOLEAN]
    BY <1>1 DEF IInv, TypeOK
  <1>3. "summary.json" \in Outputs \ {"inputs"} BY DEF Outputs
  <1>4. QED BY <1>1, <1>2, <1>3, IdleType, OutputStep

\* Whatever the evaluator was writing is torn or still absent, and with it all
\* that comes after.
LEMMA CrashStep ==
    ASSUME IInv, NEW e \in Evaluators, Crash(e)
    PROVE  IInv'
  <1>1. /\ job[e].pc # "idle" /\ job' = [job EXCEPT ![e] = Idle]
        /\ UNCHANGED <<source, edits, manifest, results, budgets, calm>>
    BY DEF Crash
  <1>2. job'[e] = Idle /\ (\A d \in Evaluators \ {e} : job'[d] = job[d])
        /\ job' \in [Evaluators -> Jobs]
    BY <1>1, IdleType DEF IInv, TypeOK
  <1>3. PICK c \in Bundles : c = job[e].out BY <1>1 DEF IInv, JobOK
  <1>4. DiskOK(e)' BY <1>2 DEF DiskOK, Idle, Writing, Outputs
  <1>5. CASE UNCHANGED <<snapshot, status>>
    <2>1. TypeOK' BY <1>1, <1>2, <1>5 DEF IInv, TypeOK
    <2>2. QED BY <1>1, <1>2, <1>4, <1>5, <2>1, InMemory
  <1>6. CASE /\ job[e].pc \in Outputs
             /\ status' = [status EXCEPT ![job[e].out][job[e].pc] = "torn"]
             /\ UNCHANGED snapshot
    <2>1. PICK o \in Outputs : o = job[e].pc BY <1>6
    <2>2. o # "inputs" BY <2>1, JobParts DEF IInv, Steps, Outputs
    <2>3. status' \in [Bundles -> [Outputs -> {"absent", "torn", "whole"}]]
      BY <1>6, <2>1 DEF IInv, TypeOK
    <2>4. TypeOK' BY <1>1, <1>2, <1>6, <2>3 DEF IInv, TypeOK
    <2>5. \A q \in Outputs : status[c][q] = IF q \in Pending(o) THEN "absent" ELSE "whole"
      BY <1>3, <2>1, <2>2 DEF IInv, DiskOK, Writing
    <2>6. \A q \in Outputs : status'[c][q] = IF q = o THEN "torn" ELSE status[c][q]
      BY <1>3, <1>6, <2>1 DEF IInv, TypeOK
    <2>7. \A b \in Bundles \ {c} : status'[b] = status[b]
      BY <1>3, <1>6 DEF IInv, TypeOK
    <2>8. \A f \in Files : snapshot[c][f].version # 0
      BY <1>3, <2>1, <2>2 DEF IInv, DiskOK, Writing, Copied, Outputs
    <2>9. BundleOK(c)'
      <3>1. Complete(c)' BY <1>6, <2>2, <2>5, <2>6, <2>8 DEF Complete, Whole, Pending, Outputs
      <3>2. status'[c]["inputs"] # "absent" BY <2>2, <2>5, <2>6 DEF Pending, Outputs
      <3>3. QED BY <3>1, <3>2 DEF BundleOK
    <2>10. QED BY <1>1, <1>2, <1>3, <1>4, <1>6, <2>4, <2>7, <2>9, Frame
  <1>7. CASE /\ job[e].pc = "copy"
             /\ snapshot' = [snapshot EXCEPT ![job[e].out][job[e].at] = NoContent]
             /\ UNCHANGED status
    <2>1. NoContent \in Content BY DEF NoContent, Content
    <2>2. snapshot' \in [Bundles -> [Files -> Content]]
      BY <1>3, <1>7, <2>1, JobParts DEF IInv, TypeOK
    <2>3. TypeOK' BY <1>1, <1>2, <1>7, <2>2 DEF IInv, TypeOK
    <2>4. \A q \in Outputs : status[c][q] = IF q \in Pending("copy") THEN "absent" ELSE "whole"
      BY <1>3, <1>7 DEF IInv, DiskOK, Writing
    <2>5. BundleOK(c)' BY <1>7, <2>4 DEF BundleOK, Complete, Whole, Pending, Outputs
    <2>6. \A b \in Bundles \ {c} : snapshot'[b] = snapshot[b]
      BY <1>3, <1>7 DEF IInv, TypeOK
    <2>7. QED BY <1>1, <1>2, <1>3, <1>4, <1>7, <2>3, <2>5, <2>6, Frame
  <1>8. QED BY <1>5, <1>6, <1>7 DEF Crash

LEMMA EditStep ==
    ASSUME IInv, NEW f \in Files, Edit(f)
    PROVE  IInv'
  <1>1. TypeOK'
    <2>1. edits' \in 0..MaxEdits BY EditsAssumption DEF Edit, IInv, TypeOK
    <2>2. source' \in [Files -> Versions \cup {0}] BY DEF Edit, IInv, TypeOK
    <2>3. calm' \in [Bundles -> [Files -> BOOLEAN]]
      <3>1. \A b \in Bundles : [calm[b] EXCEPT ![f] = @ /\ \A e \in Evaluators :
                 job[e].out = b => job[e].loc[f] # Original] \in [Files -> BOOLEAN]
        BY DEF IInv, TypeOK
      <3>2. QED BY <3>1 DEF Edit
    <2>4. QED BY <2>1, <2>2, <2>3 DEF Edit, IInv, TypeOK, diskVars
  <1>2. QED
    BY <1>1 DEF Edit, IInv, JobOK, DiskOK, BundleOK, Complete, Whole, Copied, diskVars

\* The inductive invariant of an evaluator and the bundle it writes
\* (evaluate_orchestration.py main, _prepare_bundle and the writers).
THEOREM EvaluationInvariant == Spec => []IInv
  <1>1. Init => IInv
    <2> SUFFICES ASSUME Init PROVE IInv
      OBVIOUS
    <2>1. TypeOK
      <3>1. Nothing \in [Files -> Content] /\ InPlace \in [Files -> Places]
        BY DEF Nothing, NoContent, Content, InPlace, Places
      <3>2. [from |-> Original, loc |-> InPlace, hash |-> Nothing] \in Manifest
        BY <3>1 DEF Manifest, Places
      <3>3. QED BY <3>1, <3>2, IdleType, EditsAssumption DEF Init, TypeOK
    <2>2. \A e \in Evaluators : JobOK(e) /\ DiskOK(e)
      BY DEF Init, JobOK, DiskOK, Idle, Writing, Outputs
    <2>3. \A b \in Bundles : BundleOK(b)
      BY DEF Init, BundleOK, Complete, Whole, Outputs
    <2>4. QED BY <2>1, <2>2, <2>3 DEF IInv
  <1>2. IInv /\ [Next]_vars => IInv'
    <2> SUFFICES ASSUME IInv, [Next]_vars PROVE IInv'
      OBVIOUS
    <2>1. ASSUME NEW e \in Evaluators, Evaluator(e) PROVE IInv'
      BY <2>1, StartStep, LoadCasesStep, PrepareStep, CopyStep, HashConfigStep,
         WriteManifestStep, RunConditionStep, WriteOtherStep, WriteSummaryStep, CrashStep
      DEF Evaluator
    <2>2. ASSUME NEW f \in Files, Edit(f) PROVE IInv'
      BY <2>2, EditStep
    <2>3. CASE UNCHANGED vars
      BY <2>3 DEF vars, diskVars, IInv, TypeOK, JobOK, DiskOK, BundleOK, Complete, Whole, Copied
    <2>4. QED BY <2>1, <2>2, <2>3 DEF Next
  <1>3. QED BY <1>1, <1>2, PTL DEF Spec

\* What a bundle shows is complete, whatever step a run died at: the outputs
\* are written in the order in which they depend on each other.
THEOREM BundlesAreComplete == Spec => []SummaryMeansComplete
  <1>1. IInv => SummaryMeansComplete
    BY DEF IInv, BundleOK, Complete, SummaryMeansComplete
  <1>2. QED BY <1>1, EvaluationInvariant, PTL
-----------------------------------------------------------------------------
(* What stays once it is written.                                          *)

\* What is kept of a bundle whose manifest is written.
Stays(b) == /\ Whole(b, "manifest.json")'
            /\ snapshot'[b] = snapshot[b] /\ manifest'[b] = manifest[b]
            /\ Whole(b, "results.jsonl") =>
                   results'[b] = results[b] /\ budgets'[b] = budgets[b]

\* A step of evaluator e changes no other evaluator's memory, and on the disk
\* nothing but the bundle it writes.
LEMMA Elsewhere ==
    ASSUME IInv, NEW e \in Evaluators, Evaluator(e)
    PROVE  /\ source' = source
           /\ \A d \in Evaluators \ {e} : job'[d] = job[d]
           /\ \A b \in Bundles \ {job[e].out} :
                  /\ snapshot'[b] = snapshot[b] /\ status'[b] = status[b]
                  /\ manifest'[b] = manifest[b] /\ results'[b] = results[b]
                  /\ budgets'[b] = budgets[b]
  <1> USE DEF diskVars, IInv, TypeOK
  <1>1. ASSUME NEW b \in Bundles, Start(e, b) PROVE job' = [job EXCEPT ![e] = job'[e]]
    BY <1>1 DEF Start
  <1>2. (\E b \in Bundles : Start(e, b)) =>
            source' = source /\ job' = [job EXCEPT ![e] = job'[e]] /\ UNCHANGED diskVars
    BY <1>1 DEF Start
  <1>3. CASE LoadCases(e) \/ HashConfig(e) \/ RunCondition(e)
    BY <1>3 DEF LoadCases, HashConfig, RunCondition
  <1>4. CASE Prepare(e) BY <1>4 DEF Prepare, Goto, Writes
  <1>5. CASE Copy(e) BY <1>5 DEF Copy
  <1>6. CASE WriteManifest(e) BY <1>6 DEF WriteManifest, Goto, Writes
  <1>7. CASE WriteScript(e) \/ WriteResults(e) \/ WriteCsv(e) \/ WriteSummary(e)
    BY <1>7 DEF WriteScript, WriteResults, WriteCsv, WriteSummary, Goto, Writes
  <1>8. CASE Crash(e) BY <1>8 DEF Crash
  <1>9. QED BY <1>2, <1>3, <1>4, <1>5, <1>6, <1>7, <1>8 DEF Evaluator

\* What a step of e does to the disk.
Effect(e) ==
    \/ UNCHANGED diskVars
    \/ job[e].pc = "copy" /\ UNCHANGED <<status, manifest, results, budgets>>
    \/ \E o \in Outputs, v \in {"torn", "whole"} :
           /\ o = job[e].pc \/ (o = "inputs" /\ job[e].pc = "prepare")
           /\ status' = [status EXCEPT ![job[e].out][o] = v]
           /\ UNCHANGED snapshot
           /\ manifest' = manifest \/ o = "manifest.json"
           /\ (results' = results /\ budgets' = budgets) \/ o = "results.jsonl"

LEMMA Effects ==
    ASSUME NEW e \in Evaluators, Evaluator(e)
    PROVE  Effect(e)
  <1>1. CASE \E b \in Bundles : Start(e, b) BY <1>1 DEF Start, Effect
  <1>2. CASE LoadCases(e) \/ HashConfig(e) \/ RunCondition(e)
    BY <1>2 DEF LoadCases, HashConfig, RunCondition, Effect
  <1>3. ASSUME NEW o \in Outputs, NEW v \in {"torn", "whole"},
               o = job[e].pc \/ (o = "inputs" /\ job[e].pc = "prepare"),
               status' = [status EXCEPT ![job[e].out][o] = v],
               UNCHANGED snapshot, manifest' = manifest \/ o = "manifest.json",
               (results' = results /\ budgets' = budgets) \/ o = "results.jsonl"
        PROVE  Effect(e)
    BY <1>3 DEF Effect
  <1>4. \A o \in {"inputs", "manifest.json", "rerun.sh", "results.jsonl", "results.csv",
                  "summary.json"} : o \in Outputs
    BY DEF Outputs
  <1>5. CASE Prepare(e) /\ UNCHANGED status BY <1>5 DEF Prepare, Effect, diskVars
  <1>6. CASE Prepare(e) /\ status' # status BY <1>3, <1>4, <1>6 DEF Prepare, Writes
  <1>7. CASE Copy(e) BY <1>7 DEF Copy, Effect
  <1>8. CASE WriteManifest(e) BY <1>3, <1>4, <1>8 DEF WriteManifest, Writes
  <1>9. CASE WriteScript(e) BY <1>3, <1>4, <1>9 DEF WriteScript, Writes
  <1>10. CASE WriteResults(e) BY <1>3, <1>4, <1>10 DEF WriteResults, Writes
  <1>11. CASE WriteCsv(e) BY <1>3, <1>4, <1>11 DEF WriteCsv, Writes
  <1>12. CASE WriteSummary(e) BY <1>3, <1>4, <1>12 DEF WriteSummary, Writes
  <1>13. CASE Crash(e)
    <2>1. CASE job[e].pc \in Outputs
               /\ status' = [status EXCEPT ![job[e].out][job[e].pc] = "torn"] /\ UNCHANGED snapshot
      BY <1>3, <1>13, <2>1 DEF Crash
    <2>2. CASE UNCHANGED status BY <1>13, <2>2 DEF Crash, Effect, diskVars
    <2>3. QED BY <1>13, <2>1, <2>2 DEF Crash
  <1>14. QED BY <1>1, <1>2, <1>5, <1>6, <1>7, <1>8, <1>9, <1>10, <1>11, <1>12, <1>13 DEF Evaluator

\* Of a bundle that has its manifest, an evaluator at work in it has no inputs
\* and no manifest left to write, and of one with results no results.
LEMMA StepKeeps ==
    ASSUME IInv, NEW e \in Evaluators, Evaluator(e), NEW b \in Bundles,
           Whole(b, "manifest.json")
    PROVE  Stays(b)
  <1>1. CASE b # job[e].out BY <1>1, Elsewhere DEF Stays, Whole
  <1>2. CASE b = job[e].out
    <2>1. ASSUME NEW o \in Outputs, job[e].pc \in Writing, Whole(b, o)
          PROVE  o \notin Pending(job[e].pc)
      BY <1>2, <2>1 DEF IInv, DiskOK, Whole
    <2>2. job[e].pc # "copy" /\ job[e].pc # "manifest.json"
      BY <2>1 DEF Pending, Writing, Outputs
    <2>3. Whole(b, "results.jsonl") => job[e].pc # "results.jsonl"
      BY <2>1 DEF Pending, Writing, Outputs
    <2>4. CASE UNCHANGED diskVars BY <2>4 DEF diskVars, Stays, Whole
    <2>5. ASSUME NEW o \in Outputs, NEW v \in {"torn", "whole"},
                 o = job[e].pc \/ (o = "inputs" /\ job[e].pc = "prepare"),
                 status' = [status EXCEPT ![job[e].out][o] = v],
                 UNCHANGED snapshot,
                 manifest' = manifest \/ o = "manifest.json",
                 (results' = results /\ budgets' = budgets) \/ o = "results.jsonl"
          PROVE  Stays(b)
      <3>1. o # "manifest.json" /\ (Whole(b, "results.jsonl") => o # "results.jsonl")
        BY <2>2, <2>3, <2>5
      <3>2. status'[b]["manifest.json"] = status[b]["manifest.json"]
        BY <2>5, <3>1 DEF IInv, TypeOK, Outputs
      <3>3. QED BY <2>5, <3>1, <3>2 DEF Stays, Whole
    <2>6. QED BY <2>2, <2>4, <2>5, Effects DEF Effect
  <1>3. QED BY <1>1, <1>2

\* No later run writes over a manifest, a copy or rows once they are there.
THEOREM RecordsAreKept == Spec => RecordIsKept
  <1>1. IInv /\ [Next]_vars => \A b \in Bundles : Whole(b, "manifest.json") => Stays(b)
    <2> SUFFICES ASSUME IInv, [Next]_vars, NEW b \in Bundles, Whole(b, "manifest.json")
                 PROVE  Stays(b)
      OBVIOUS
    <2>1. CASE \E f \in Files : Edit(f) BY <2>1 DEF Edit, diskVars, Stays, Whole
    <2>2. CASE UNCHANGED vars BY <2>2 DEF vars, diskVars, Stays, Whole
    <2>3. QED BY <2>1, <2>2, StepKeeps DEF Next
  <1>2. QED BY <1>1, EvaluationInvariant, PTL DEF Spec, RecordIsKept, Stays
-----------------------------------------------------------------------------
(* What is recorded and run again. An evaluator that has read a file nobody *)
(* touched, once or several times, has what it would read now; and what a   *)
(* bundle records is what its evaluator had read.                           *)

\* Where an evaluator may read: an original, or a copy that is there to stay.
LocOK(p) == p = Original \/ Whole(p, "manifest.json")

\* The configurations whose hash, and whose rows, evaluator memory j holds.
Hashed(j) == IF j.pc \in {"cases", "prepare", "copy", "hash"}
             THEN {f \in 1..C : f < j.at} ELSE 1..C
RunWith(j) == IF j.pc = "run" THEN {f \in 1..C : f < j.at}
              ELSE IF j.pc \in {"results.jsonl", "results.csv", "summary.json"} THEN 1..C
              ELSE {}
AfterManifest == Writing \ {"copy", "hash", "manifest.json"}

\* All that memory j holds of file f, and the copy and the hash it has written,
\* agree with r, which is what it would read.
Agree(j, f, copy, hash, r) ==
    /\ f = 0 /\ j.pc # "cases" => j.ran[f] = r
    /\ f \in Hashed(j) => j.hash[f] = r
    /\ f \in RunWith(j) => j.ran[f] = r
    /\ j.pc \in Writing /\ f \in Copied(j) => copy = Sanitized(f, r)
    /\ j.pc \in AfterManifest => hash = r

\* An evaluator that repeats a bundle reads what is recorded there, or its copy.
ReadsAsBefore(e, f) == job[e].from # Original =>
    ReadBy(e, f) = manifest[job[e].from].hash[f] \/ job[e].loc[f] = job[e].from

ReadsAgree(e, f) ==
    /\ Agree(job[e], f, snapshot[job[e].out][f], manifest[job[e].out].hash[f], ReadBy(e, f))
    /\ ReadsAsBefore(e, f)

RunOK(e) == job[e].pc # "idle" =>
    /\ job[e].pc \in {"manifest.json", "rerun.sh"} => job[e].at = 1
    /\ LocOK(job[e].from) /\ \A f \in Files : LocOK(job[e].loc[f])
    /\ \A f \in Files : calm[job[e].out][f] => ReadsAgree(e, f)

\* The same of what a bundle records, and of the bundle it repeats.
Recorded(b, f) == LET m == manifest[b] IN
    /\ snapshot[b][f] = Sanitized(f, m.hash[f])
    /\ Whole(b, "results.jsonl") => results[b][f] = m.hash[f]
    /\ m.from # Original => \/ m.hash[f] = manifest[m.from].hash[f]
                            \/ m.loc[f] = m.from /\ m.hash[f] = snapshot[m.from][f]

RecordOK(b) == Whole(b, "manifest.json") =>
    /\ LocOK(manifest[b].from) /\ \A f \in Files : LocOK(manifest[b].loc[f])
    /\ \A f \in Files : calm[b][f] => Recorded(b, f)

RInv == /\ \A e \in Evaluators : RunOK(e)
        /\ \A b \in Bundles : RecordOK(b)

\* A file that may be read does not change with a step of an evaluator.
LEMMA SameRead ==
    ASSUME IInv, NEW e \in Evaluators, Evaluator(e), NEW p \in Places, LocOK(p),
           NEW f \in Files
    PROVE  LocOK(p)' /\ Read(p, f)' = Read(p, f)
  <1>1. CASE p = Original BY <1>1, Elsewhere DEF LocOK, Read
  <1>2. CASE p # Original
    <2>1. p \in Bundles /\ Whole(p, "manifest.json") BY <1>2 DEF LocOK, Places
    <2>2. QED BY <1>2, <2>1, StepKeeps DEF Stays, LocOK, Read
  <1>3. QED BY <1>1, <1>2

\* Only the start of a run into an empty bundle makes a file calm again.
LEMMA CalmKept ==
    ASSUME IInv, NEW e \in Evaluators, Evaluator(e), NEW b \in Bundles, NEW f \in Files,
           Whole(b, "manifest.json") \/ \E d \in Evaluators : job[d].out = b,
           calm'[b][f]
    PROVE  calm[b][f]
  <1>1. ASSUME NEW c \in Bundles, Start(e, c) PROVE calm'[b] = calm[b]
    <2>1. CASE b # c BY <1>1, <2>1 DEF Start, IInv, TypeOK
    <2>2. CASE b = c
      <3>1. Whole(b, "manifest.json") BY <1>1, <2>2 DEF Start
      <3>2. status[b]["inputs"] # "absent" BY <3>1 DEF IInv, BundleOK, Whole, Outputs
      <3>3. QED BY <1>1, <2>2, <3>2 DEF Start
    <2>3. QED BY <2>1, <2>2
  <1>2. CASE ~\E c \in Bundles : Start(e, c)
    BY <1>2 DEF Evaluator, LoadCases, Prepare, Copy, HashConfig, WriteManifest, WriteScript,
                RunCondition, WriteResults, WriteCsv, WriteSummary, Crash
  <1>3. QED BY <1>1, <1>2

\* The steps that make a manifest, or the rows, whole.
LEMMA NewlyWhole ==
    ASSUME IInv, NEW e \in Evaluators, Evaluator(e), NEW b \in Bundles,
           NEW o \in {"manifest.json", "results.jsonl"}, ~Whole(b, o), Whole(b, o)'
    PROVE  /\ job[e].out = b
           /\ o = "manifest.json" => WriteManifest(e)
           /\ o = "results.jsonl" => WriteResults(e)
  <1>1. /\ status[b][o] # "whole" /\ status'[b][o] = "whole" /\ status' # status
        /\ o \in Outputs
    BY DEF Whole, Outputs
  <1>2. status \in [Bundles -> [Outputs -> {"absent", "torn", "whole"}]]
    BY DEF IInv, TypeOK
  <1>3. ASSUME NEW q, NEW v, status' = [status EXCEPT ![job[e].out][q] = v]
        PROVE  job[e].out = b /\ q = o /\ v = "whole"
    BY <1>1, <1>2, <1>3
  <1>4. ASSUME NEW c \in Bundles, Start(e, c) PROVE FALSE
    BY <1>1, <1>4 DEF Start, diskVars
  <1>5. ~LoadCases(e) /\ ~Copy(e) /\ ~HashConfig(e) /\ ~RunCondition(e)
    BY <1>1 DEF LoadCases, Copy, HashConfig, RunCondition, diskVars
  <1>6. ~Prepare(e) BY <1>1, <1>3 DEF Prepare, Writes
  <1>7. ~WriteScript(e) /\ ~WriteCsv(e) /\ ~WriteSummary(e)
    BY <1>3 DEF WriteScript, WriteCsv, WriteSummary, Writes
  <1>8. ASSUME Crash(e) PROVE FALSE
    <2>1. status' = [status EXCEPT ![job[e].out][job[e].pc] = "torn"]
      BY <1>1, <1>8 DEF Crash
    <2>2. QED BY <1>1, <1>2, <2>1
  <1>9. WriteManifest(e) => o = "manifest.json" /\ job[e].out = b
    BY <1>3 DEF WriteManifest, Writes
  <1>10. WriteResults(e) => o = "results.jsonl" /\ job[e].out = b
    BY <1>3 DEF WriteResults, Writes
  <1>11. QED BY <1>4, <1>5, <1>6, <1>7, <1>8, <1>9, <1>10 DEF Evaluator

\* What other evaluators know stays right.
LEMMA OthersRun ==
    ASSUME IInv, RInv, NEW e \in Evaluators, Evaluator(e), NEW d \in Evaluators \ {e}
    PROVE  RunOK(d)'
  <1> SUFFICES ASSUME job[d].pc # "idle" PROVE RunOK(d)'
    BY Elsewhere DEF RunOK
  <1>1. job'[d] = job[d] BY Elsewhere
  <1>2. PICK c \in Bundles : c = job[d].out BY DEF IInv, JobOK
  <1>3. c # job[e].out BY <1>2 DEF IInv, JobOK
  <1>4. snapshot'[c] = snapshot[c] /\ manifest'[c] = manifest[c] BY <1>3, Elsewhere
  <1>5. LocOK(job[d].from)' /\ \A f \in Files : LocOK(job[d].loc[f])'
    BY <1>1, JobParts, SameRead DEF RInv, RunOK, IInv
  <1>6. \A f \in Files : ReadBy(d, f)' = ReadBy(d, f)
    BY <1>1, JobParts, SameRead DEF RInv, RunOK, IInv, ReadBy
  <1>7. job[d].from # Original => manifest'[job[d].from] = manifest[job[d].from]
    BY JobParts, StepKeeps DEF RInv, RunOK, IInv, LocOK, Places, Stays
  <1>8. ASSUME NEW f \in Files, calm'[c][f] PROVE ReadsAgree(d, f)'
    <2>1. ReadsAgree(d, f) BY <1>2, <1>8, CalmKept DEF RInv, RunOK
    <2>2. QED BY <1>1, <1>2, <1>4, <1>6, <1>7, <2>1 DEF ReadsAgree, ReadsAsBefore
  <1>9. QED BY <1>1, <1>2, <1>5, <1>8 DEF RInv, RunOK

\* What is recorded stays right, and is right when it is written.
LEMMA RecordStep ==
    ASSUME IInv, RInv, NEW e \in Evaluators, Evaluator(e), NEW b \in Bundles
    PROVE  RecordOK(b)'
  <1>1. CASE Whole(b, "manifest.json")
    <2>1. Stays(b) /\ RecordOK(b) BY <1>1, StepKeeps DEF RInv
    <2>2. manifest[b] \in Manifest BY DEF IInv, TypeOK
    <2>3. /\ LocOK(manifest[b].from)'
          /\ \A f \in Files : LocOK(manifest[b].loc[f])'
      BY <1>1, <2>1, <2>2, SameRead, IdleType DEF Stays, RecordOK, Manifest
    <2>4. manifest[b].from # Original =>
              /\ manifest'[manifest[b].from] = manifest[manifest[b].from]
              /\ snapshot'[manifest[b].from] = snapshot[manifest[b].from]
      BY <1>1, <2>1, <2>2, StepKeeps DEF RecordOK, Manifest, LocOK, Places, Stays
    <2>5. ASSUME NEW f \in Files, calm'[b][f] PROVE Recorded(b, f)'
      <3>1. calm[b][f] /\ Recorded(b, f) BY <1>1, <2>1, <2>5, CalmKept DEF RecordOK
      <3>2. Whole(b, "results.jsonl")' => results'[b][f] = manifest[b].hash[f]
        <4>1. CASE Whole(b, "results.jsonl") BY <2>1, <3>1, <4>1 DEF Stays, Recorded
        <4>2. CASE ~Whole(b, "results.jsonl") /\ Whole(b, "results.jsonl")'
          <5>1. job[e].out = b /\ WriteResults(e) BY <4>2, NewlyWhole
          <5>2. job[e].pc = "results.jsonl" /\ results'[b] = job[e].ran
            BY <5>1 DEF WriteResults, IInv, TypeOK
          <5>3. Agree(job[e], f, snapshot[b][f], manifest[b].hash[f], ReadBy(e, f))
            BY <3>1, <5>1, <5>2 DEF RInv, RunOK, ReadsAgree
          <5>4. job[e].ran[f] = ReadBy(e, f)
            BY <5>2, <5>3 DEF Agree, RunWith, Files
          <5>5. manifest[b].hash[f] = ReadBy(e, f)
            BY <5>2, <5>3 DEF Agree, AfterManifest, Writing, Outputs
          <5>6. QED BY <5>2, <5>4, <5>5
        <4>3. QED BY <4>1, <4>2
      <3>3. QED BY <2>1, <2>4, <3>1, <3>2 DEF Stays, Recorded
    <2>6. QED BY <2>1, <2>3, <2>5 DEF Stays, RecordOK
  <1>2. CASE ~Whole(b, "manifest.json") /\ Whole(b, "manifest.json")'
    <2>1. job[e].out = b /\ WriteManifest(e) BY <1>2, NewlyWhole
    <2>2. /\ job[e].pc = "manifest.json" /\ snapshot' = snapshot /\ calm' = calm
          /\ manifest'[b] = [from |-> job[e].from, loc |-> job[e].loc,
                             hash |-> [job[e].hash EXCEPT ![0] = ReadBy(e, 0)]]
      BY <2>1 DEF WriteManifest, IInv, TypeOK, Digest
    <2>3. /\ LocOK(job[e].from) /\ \A f \in Files : LocOK(job[e].loc[f])
      BY <2>2 DEF RInv, RunOK
    <2>4. LocOK(manifest[b].from)' /\ \A f \in Files : LocOK(manifest[b].loc[f])'
      <3>1. \A p \in Places : LocOK(p) => LocOK(p)' BY SameRead, IdleType
      <3>2. QED BY <2>2, <2>3, <3>1, JobParts DEF IInv, LocOK, Whole
    <2>5. job[e].from # Original => manifest'[job[e].from] = manifest[job[e].from]
      BY <2>3, JobParts, StepKeeps DEF IInv, LocOK, Places, Stays
    <2>6. ~Whole(b, "results.jsonl")'
      <3>1. "results.jsonl" \in Pending("manifest.json") /\ "results.jsonl" \in Outputs
        BY DEF Pending, Outputs
      <3>2. status[b]["results.jsonl"] = "absent"
        BY <2>1, <2>2, <3>1 DEF IInv, DiskOK, Writing, Outputs
      <3>3. QED BY <3>2, <2>1, <2>2, NewlyWhole DEF Whole, WriteResults
    <2>7. ASSUME NEW f \in Files, calm'[b][f] PROVE Recorded(b, f)'
      <3>1. /\ Agree(job[e], f, snapshot[b][f], manifest[b].hash[f], ReadBy(e, f))
            /\ ReadsAsBefore(e, f)
        BY <2>1, <2>2, <2>7 DEF RInv, RunOK, ReadsAgree
      <3>2. manifest'[b].hash[f] = ReadBy(e, f)
        <4>1. job[e].hash \in [Files -> Content] BY JobParts DEF IInv
        <4>2. f # 0 => f \in Hashed(job[e]) BY <2>2 DEF Hashed, Files
        <4>3. QED BY <2>2, <3>1, <4>1, <4>2 DEF Agree
      <3>3. snapshot[b][f] = Sanitized(f, ReadBy(e, f))
        BY <2>2, <3>1 DEF Agree, Writing, Copied, Outputs
      <3>4. job[e].loc[f] # Original => ReadBy(e, f) = snapshot[job[e].loc[f]][f]
        BY DEF ReadBy, Read
      <3>5. QED BY <2>2, <2>5, <2>6, <3>1, <3>2, <3>3, <3>4 DEF Recorded, ReadsAsBefore
    <2>8. QED BY <2>2, <2>4, <2>7 DEF RecordOK
  <1>3. QED BY <1>1, <1>2 DEF RecordOK

\* What an evaluator knows stays right if each assignment it makes to its
\* memory j, and to its bundle, is what it reads.
LEMMA OwnRun ==
    ASSUME IInv, RInv, NEW e \in Evaluators, Evaluator(e), job[e].pc # "idle",
           NEW j, job' = [job EXCEPT ![e] = j],
           j.loc = job[e].loc, j.from = job[e].from, j.out = job[e].out,
           j.pc \in {"manifest.json", "rerun.sh"} => j.at = 1,
           \A f \in Files :
               Agree(job[e], f, snapshot[job[e].out][f], manifest[job[e].out].hash[f],
                     ReadBy(e, f))
               => Agree(j, f, snapshot'[job[e].out][f], manifest'[job[e].out].hash[f],
                        ReadBy(e, f))
    PROVE  RunOK(e)'
  <1>1. job'[e] = j BY Became DEF IInv
  <1>2. PICK c \in Bundles : c = job[e].out BY DEF IInv, JobOK
  <1>3. LocOK(job[e].from)' /\ \A f \in Files : LocOK(job[e].loc[f])'
    <2>1. \A p \in Places : LocOK(p) => LocOK(p)' BY SameRead, IdleType
    <2>2. LocOK(job[e].from) /\ \A f \in Files : LocOK(job[e].loc[f]) BY DEF RInv, RunOK
    <2>3. QED BY <1>1, <2>1, <2>2, JobParts DEF IInv, LocOK, Whole
  <1>4. \A f \in Files : ReadBy(e, f)' = ReadBy(e, f)
    <2> SUFFICES ASSUME NEW f \in Files PROVE ReadBy(e, f)' = ReadBy(e, f)
      OBVIOUS
    <2>1. PICK p \in Places : p = job[e].loc[f] BY JobParts DEF IInv
    <2>2. LocOK(p) BY <2>1 DEF RInv, RunOK
    <2>3. Read(p, f)' = Read(p, f) BY <2>2, SameRead
    <2>4. job'[e].loc[f] = p BY <1>1, <2>1
    <2>5. QED BY <2>1, <2>3, <2>4 DEF ReadBy, Read
  <1>5. job[e].from # Original => manifest'[job[e].from] = manifest[job[e].from]
    BY JobParts, StepKeeps DEF RInv, RunOK, IInv, LocOK, Places, Stays
  <1>6. ASSUME NEW f \in Files, calm'[c][f] PROVE ReadsAgree(e, f)'
    <2>1. ReadsAgree(e, f) BY <1>2, <1>6, CalmKept DEF RInv, RunOK
    <2>2. QED BY <1>1, <1>4, <1>5, <2>1 DEF ReadsAgree, ReadsAsBefore
  <1>7. QED BY <1>1, <1>2, <1>3, <1>6 DEF RunOK

\* At its start an evaluator knows only where to read: at the originals, or for
\* a rerun where the recorded content is, or else at the copy.
LEMMA StartKnows ==
    ASSUME IInv, RInv, NEW e \in Evaluators, NEW b \in Bundles, Start(e, b)
    PROVE  RunOK(e)'
  <1>1. PICK a \in Places, limited \in BOOLEAN :
            /\ limited \in Options(a)
            /\ a # Original => Whole(a, "manifest.json")
            /\ job' = [job EXCEPT ![e] =
                   [Idle EXCEPT !.pc = "cases", !.out = b, !.from = a,
                                !.loc = IF a = Original THEN InPlace
                                        ELSE [f \in Files |-> Preferred(a, f)],
                                !.budget = limited]]
    BY DEF Start, Options, RecordedOptions
  <1>2. UNCHANGED <<source, snapshot, status, manifest>> BY DEF Start, diskVars
  <1>3. /\ job'[e].pc = "cases" /\ job'[e].from = a /\ job'[e].at = 0
        /\ job'[e].loc = IF a = Original THEN InPlace ELSE [f \in Files |-> Preferred(a, f)]
    BY <1>1 DEF IInv, TypeOK, Idle
  <1>4. LocOK(a) BY <1>1 DEF LocOK
  <1>5. ASSUME NEW f \in Files PROVE LocOK(job'[e].loc[f]) /\ ReadsAsBefore(e, f)'
    <2>1. CASE a = Original BY <1>3, <2>1 DEF InPlace, LocOK, ReadsAsBefore
    <2>2. CASE a # Original
      <3>1. job'[e].loc[f] = Preferred(a, f) BY <1>3, <2>2
      <3>2. LocOK(manifest[a].loc[f]) BY <1>1, <2>2 DEF RInv, RecordOK, Places
      <3>3. \A p : Read(p, f)' = Read(p, f) BY <1>2 DEF Read
      <3>4. CASE Read(manifest[a].loc[f], f) = manifest[a].hash[f]
        <4>1. job'[e].loc[f] = manifest[a].loc[f] BY <3>1, <3>4 DEF Preferred
        <4>2. ReadBy(e, f)' = Read(manifest[a].loc[f], f)
          BY <1>2, <4>1 DEF ReadBy, Read
        <4>3. QED BY <1>2, <1>3, <3>2, <3>4, <4>1, <4>2 DEF ReadsAsBefore
      <3>5. CASE Read(manifest[a].loc[f], f) # manifest[a].hash[f]
        <4>1. job'[e].loc[f] = a BY <3>1, <3>5 DEF Preferred
        <4>2. QED BY <1>3, <1>4, <4>1 DEF ReadsAsBefore
      <3>6. QED BY <3>4, <3>5
    <2>3. QED BY <2>1, <2>2
  <1>6. LocOK(job[e].from)' /\ \A f \in Files : LocOK(job[e].loc[f])'
    BY <1>2, <1>3, <1>4, <1>5 DEF LocOK, Whole
  <1>7. \A f \in Files : ReadsAgree(e, f)'
    <2>1. /\ \A f \in Files : f \notin Hashed(job'[e]) /\ f \notin RunWith(job'[e])
          /\ job'[e].pc \notin Writing /\ job'[e].pc \notin AfterManifest
      BY <1>3 DEF Hashed, RunWith, Writing, AfterManifest, Outputs
    <2>2. QED BY <1>3, <1>5, <2>1 DEF ReadsAgree, Agree
  <1>8. QED BY <1>3, <1>6, <1>7 DEF RunOK

LEMMA LoadCasesKnows ==
    ASSUME IInv, RInv, NEW e \in Evaluators, LoadCases(e)
    PROVE  RunOK(e)'
  <1> DEFINE j == [job[e] EXCEPT !.ran[0] = ReadBy(e, 0), !.pc = "prepare"]
  <1>1. job[e].pc = "cases" /\ UNCHANGED diskVars /\ job' = [job EXCEPT ![e] = j]
    BY DEF LoadCases, IInv, TypeOK
  <1>2. job[e].at = 0 BY <1>1 DEF IInv, DiskOK
  <1>3. /\ j.pc = "prepare" /\ j.at = 0 /\ j.ran[0] = ReadBy(e, 0)
        /\ j.loc = job[e].loc /\ j.from = job[e].from /\ j.out = job[e].out
    BY <1>2, JobParts, IdleType DEF IInv, Jobs
  <1> HIDE DEF j
  <1>4. \A f \in Files : /\ f \notin Hashed(j) /\ f \notin RunWith(j)
                         /\ j.pc \notin Writing /\ j.pc \notin AfterManifest
    BY <1>3 DEF Hashed, RunWith, Writing, AfterManifest, Outputs
  <1>5. \A f \in Files : \A x, h : Agree(j, f, x, h, ReadBy(e, f)) BY <1>3, <1>4 DEF Agree
  <1>6. Evaluator(e) BY DEF Evaluator
  <1>7. QED BY <1>1, <1>3, <1>5, <1>6, OwnRun

LEMMA PrepareKnows ==
    ASSUME IInv, RInv, NEW e \in Evaluators, Prepare(e)
    PROVE  RunOK(e)'
  <1>1. CASE Refuses(job[e].out)
    <2>1. job' = [job EXCEPT ![e] = Idle] BY <1>1 DEF Prepare
    <2>2. job'[e].pc = "idle" BY <2>1 DEF IInv, TypeOK, Idle
    <2>3. QED BY <2>2 DEF RunOK
  <1>2. CASE ~Refuses(job[e].out)
    <2> DEFINE j == [job[e] EXCEPT !.pc = "copy"]
    <2>1. job[e].pc = "prepare" /\ job' = [job EXCEPT ![e] = j]
      BY <1>2 DEF Prepare, Goto
    <2>2. job[e].at = 0 BY <2>1 DEF IInv, DiskOK
    <2>3. /\ j.pc = "copy" /\ j.at = 0 /\ j.ran = job[e].ran
          /\ j.loc = job[e].loc /\ j.from = job[e].from /\ j.out = job[e].out
      BY <2>2, JobParts DEF IInv, Jobs
    <2> HIDE DEF j
    <2>4. \A f \in Files : /\ f \notin Hashed(j) /\ f \notin RunWith(j)
                           /\ f \notin Copied(j) /\ j.pc \notin AfterManifest
      BY <2>3 DEF Hashed, RunWith, Copied, Files, Writing, AfterManifest, Outputs
    <2>5. \A f \in Files : \A x, h, y, g, r : Agree(job[e], f, x, h, r) => Agree(j, f, y, g, r)
      BY <2>1, <2>3, <2>4 DEF Agree
    <2>6. Evaluator(e) BY DEF Evaluator
    <2>7. QED BY <2>1, <2>3, <2>5, <2>6, OwnRun
  <1>3. QED BY <1>1, <1>2

LEMMA CopyKnows ==
    ASSUME IInv, RInv, NEW e \in Evaluators, Copy(e)
    PROVE  RunOK(e)'
  <1>1. PICK c \in Bundles : c = job[e].out BY DEF Copy, IInv, JobOK
  <1>2. PICK f \in Files : f = job[e].at BY JobParts DEF IInv
  <1> DEFINE j == [job[e] EXCEPT !.at = IF f = 0 THEN 1 ELSE f,
                                 !.pc = IF f = 0 THEN "copy" ELSE "hash"]
  <1>3. /\ job[e].pc = "copy" /\ job' = [job EXCEPT ![e] = j] /\ manifest' = manifest
        /\ snapshot' = [snapshot EXCEPT ![c][f] = Sanitized(f, ReadBy(e, f))]
    BY <1>1, <1>2 DEF Copy, IInv, TypeOK
  <1>4. /\ j.pc = (IF f = 0 THEN "copy" ELSE "hash") /\ j.at = (IF f = 0 THEN 1 ELSE f)
        /\ j.loc = job[e].loc /\ j.from = job[e].from /\ j.out = job[e].out
        /\ j.ran = job[e].ran /\ j.hash = job[e].hash
    BY JobParts DEF IInv, Jobs
  <1> HIDE DEF j
  <1>5. \A g \in Files :
            snapshot'[c][g] = IF g = f THEN Sanitized(f, ReadBy(e, f)) ELSE snapshot[c][g]
    BY <1>3 DEF IInv, TypeOK
  <1>6. ASSUME NEW g \in Files, NEW x, NEW h, Agree(job[e], g, x, h, ReadBy(e, g)),
               x = snapshot[c][g]
        PROVE  Agree(j, g, snapshot'[c][g], h, ReadBy(e, g))
    <2>1. g \in Hashed(j) => g \in Hashed(job[e])
      BY <1>2, <1>3, <1>4 DEF Hashed, Files
    <2>2. g \notin RunWith(j) /\ j.pc \notin AfterManifest
      BY <1>4 DEF RunWith, AfterManifest, Writing, Outputs
    <2>3. g \in Copied(j) => g \in Copied(job[e]) \/ g = f
      BY <1>2, <1>3, <1>4 DEF Copied, Files
    <2>4. job[e].pc \in Writing /\ job[e].pc # "cases" BY <1>3 DEF Writing
    <2>5. QED BY <1>4, <1>5, <1>6, <2>1, <2>2, <2>3, <2>4 DEF Agree
  <1>7. Evaluator(e) BY DEF Evaluator
  <1>8. QED BY <1>1, <1>3, <1>4, <1>6, <1>7, OwnRun

LEMMA HashConfigKnows ==
    ASSUME IInv, RInv, NEW e \in Evaluators, HashConfig(e)
    PROVE  RunOK(e)'
  <1>1. PICK f \in Files : f = job[e].at BY JobParts DEF IInv
  <1> DEFINE j == [job[e] EXCEPT !.hash[f] = Digest(e, f),
                                 !.at = IF f < C THEN f + 1 ELSE 1,
                                 !.pc = IF f < C THEN "copy" ELSE "manifest.json"]
  <1>2. /\ job[e].pc = "hash" /\ UNCHANGED diskVars /\ job' = [job EXCEPT ![e] = j]
    BY <1>1 DEF HashConfig, IInv, TypeOK
  <1>3. /\ j.pc = (IF f < C THEN "copy" ELSE "manifest.json")
        /\ j.at = (IF f < C THEN f + 1 ELSE 1)
        /\ j.loc = job[e].loc /\ j.from = job[e].from /\ j.out = job[e].out
        /\ j.ran = job[e].ran
        /\ \A g \in Files : j.hash[g] = IF g = f THEN ReadBy(e, f) ELSE job[e].hash[g]
    BY JobParts DEF IInv, Jobs, Digest
  <1> HIDE DEF j
  <1>4. ASSUME NEW g \in Files, NEW x, NEW h, Agree(job[e], g, x, h, ReadBy(e, g))
        PROVE  Agree(j, g, x, h, ReadBy(e, g))
    <2>1. g \in Hashed(j) => g \in Hashed(job[e]) \/ g = f
      BY <1>1, <1>2, <1>3, ConditionsAssumption DEF Hashed, Files
    <2>2. g \notin RunWith(j) /\ j.pc \notin AfterManifest
      BY <1>3 DEF RunWith, AfterManifest, Writing, Outputs
    <2>3. g \in Copied(j) => g \in Copied(job[e])
      BY <1>1, <1>2, <1>3, ConditionsAssumption DEF Copied, Files
    <2>4. job[e].pc \in Writing /\ job[e].pc # "cases" BY <1>2 DEF Writing
    <2>5. QED BY <1>3, <1>4, <2>1, <2>2, <2>3, <2>4 DEF Agree
  <1>5. Evaluator(e) BY DEF Evaluator
  <1>6. QED BY <1>2, <1>3, <1>4, <1>5, OwnRun DEF diskVars

LEMMA RunConditionKnows ==
    ASSUME IInv, RInv, NEW e \in Evaluators, RunCondition(e)
    PROVE  RunOK(e)'
  <1>1. PICK f \in Files : f = job[e].at BY JobParts DEF IInv
  <1> DEFINE j == [job[e] EXCEPT !.ran[f] = ReadBy(e, f), !.at = NextCondition(f),
                                 !.pc = IF f < C THEN "run" ELSE AfterRun]
  <1>2. /\ job[e].pc = "run" /\ UNCHANGED diskVars /\ job' = [job EXCEPT ![e] = j]
    BY <1>1 DEF RunCondition, IInv, TypeOK
  <1>3. /\ j.pc = (IF f < C THEN "run" ELSE "results.jsonl")
        /\ j.at = (IF f < C THEN f + 1 ELSE f)
        /\ j.loc = job[e].loc /\ j.from = job[e].from /\ j.out = job[e].out
        /\ j.hash = job[e].hash
        /\ \A g \in Files : j.ran[g] = IF g = f THEN ReadBy(e, f) ELSE job[e].ran[g]
    BY JobParts DEF IInv, Jobs, AfterRun, NextCondition
  <1> HIDE DEF j
  <1>4. ASSUME NEW g \in Files, NEW x, NEW h, Agree(job[e], g, x, h, ReadBy(e, g))
        PROVE  Agree(j, g, x, h, ReadBy(e, g))
    <2>1. g \in Hashed(j) => g \in Hashed(job[e]) BY <1>2, <1>3 DEF Hashed
    <2>2. g \in RunWith(j) => g \in RunWith(job[e]) \/ g = f
      BY <1>1, <1>2, <1>3, ConditionsAssumption DEF RunWith, Files
    <2>3. g \in Copied(job[e]) BY <1>2 DEF Copied
    <2>4. /\ job[e].pc \in Writing /\ job[e].pc \in AfterManifest /\ job[e].pc # "cases"
      BY <1>2 DEF Writing, AfterManifest, Outputs
    <2>5. QED BY <1>3, <1>4, <2>1, <2>2, <2>3, <2>4 DEF Agree
  <1>5. Evaluator(e) BY DEF Evaluator
  <1>6. QED BY <1>2, <1>3, <1>4, <1>5, OwnRun DEF diskVars

LEMMA WriteManifestKnows ==
    ASSUME IInv, RInv, NEW e \in Evaluators, WriteManifest(e)
    PROVE  RunOK(e)'
  <1>1. PICK c \in Bundles : c = job[e].out BY DEF WriteManifest, IInv, JobOK
  <1> DEFINE j == [job[e] EXCEPT !.pc = "rerun.sh"]
  <1>2. /\ job[e].pc = "manifest.json" /\ snapshot' = snapshot /\ job' = [job EXCEPT ![e] = j]
        /\ manifest'[c].hash = [job[e].hash EXCEPT ![0] = ReadBy(e, 0)]
    BY <1>1 DEF WriteManifest, Goto, Digest, IInv, TypeOK
  <1>3. /\ j.pc = "rerun.sh" /\ j.at = job[e].at /\ j.ran = job[e].ran /\ j.hash = job[e].hash
        /\ j.loc = job[e].loc /\ j.from = job[e].from /\ j.out = job[e].out
    BY JobParts DEF IInv, Jobs
  <1> HIDE DEF j
  <1>4. job[e].at = 1 BY <1>2 DEF RInv, RunOK
  <1>5. ASSUME NEW f \in Files, NEW x, NEW h, Agree(job[e], f, x, h, ReadBy(e, f))
        PROVE  Agree(j, f, x, manifest'[c].hash[f], ReadBy(e, f))
    <2>1. f # 0 => f \in Hashed(job[e]) BY <1>2 DEF Hashed, Files
    <2>2. f \notin RunWith(j) BY <1>3 DEF RunWith
    <2>3. job[e].pc \in Writing /\ f \in Copied(job[e]) /\ job[e].pc # "cases"
      BY <1>2 DEF Writing, Copied, Outputs
    <2>4. job[e].hash \in [Files -> Content] BY JobParts DEF IInv
    <2>5. manifest'[c].hash[f] = ReadBy(e, f) BY <1>2, <1>5, <2>1, <2>4 DEF Agree
    <2>6. f \in Hashed(j) => f \in Hashed(job[e]) BY <1>2, <1>3 DEF Hashed
    <2>7. QED BY <1>3, <1>5, <2>2, <2>3, <2>5, <2>6 DEF Agree
  <1>6. Evaluator(e) BY DEF Evaluator
  <1>7. QED BY <1>1, <1>2, <1>3, <1>4, <1>5, <1>6, OwnRun

LEMMA WriteOtherKnows ==
    ASSUME IInv, RInv, NEW e \in Evaluators, WriteScript(e) \/ WriteResults(e) \/ WriteCsv(e)
    PROVE  RunOK(e)'
  <1> DEFINE s == IF job[e].pc = "rerun.sh" THEN "run"
                  ELSE IF job[e].pc = "results.jsonl" THEN "results.csv" ELSE "summary.json"
             j == [job[e] EXCEPT !.pc = s]
  <1>1. /\ job[e].pc \in {"rerun.sh", "results.jsonl", "results.csv"}
        /\ job' = [job EXCEPT ![e] = j]
        /\ UNCHANGED <<snapshot, manifest>>
    BY DEF WriteScript, WriteResults, WriteCsv, Goto
  <1>2. /\ j.pc = s /\ j.at = job[e].at /\ j.ran = job[e].ran /\ j.hash = job[e].hash
        /\ j.loc = job[e].loc /\ j.from = job[e].from /\ j.out = job[e].out
    BY JobParts DEF IInv, Jobs
  <1>3. /\ s = "run" => job[e].pc = "rerun.sh"
        /\ s \in {"run", "results.csv", "summary.json"}
        /\ s # "run" => job[e].pc \in {"results.jsonl", "results.csv"}
    BY <1>1
  <1> HIDE DEF j, s
  <1>4. job[e].pc = "rerun.sh" => job[e].at = 1 BY DEF RInv, RunOK
  <1>5. ASSUME NEW f \in Files, NEW x, NEW h, Agree(job[e], f, x, h, ReadBy(e, f))
        PROVE  Agree(j, f, x, h, ReadBy(e, f))
    <2>1. f \in Hashed(j) => f \in Hashed(job[e]) BY <1>1, <1>2, <1>3 DEF Hashed
    <2>2. f \in RunWith(j) => f \in RunWith(job[e])
      BY <1>1, <1>2, <1>3, <1>4 DEF RunWith, Files
    <2>3. /\ job[e].pc \in Writing /\ f \in Copied(job[e]) /\ job[e].pc # "cases"
          /\ job[e].pc \in AfterManifest
      BY <1>1 DEF Writing, Copied, AfterManifest, Outputs
    <2>4. QED BY <1>2, <1>5, <2>1, <2>2, <2>3 DEF Agree
  <1>6. Evaluator(e) BY DEF Evaluator
  <1>7. QED BY <1>1, <1>2, <1>3, <1>5, <1>6, OwnRun

LEMMA EndKnows ==
    ASSUME IInv, NEW e \in Evaluators, WriteSummary(e) \/ Crash(e)
    PROVE  RunOK(e)'
  <1>1. job' = [job EXCEPT ![e] = Idle] BY DEF WriteSummary, Crash
  <1>2. job'[e].pc = "idle" BY <1>1 DEF IInv, TypeOK, Idle
  <1>3. QED BY <1>2 DEF RunOK

\* An edit disturbs only what is not calm.
LEMMA EditKnows ==
    ASSUME IInv, RInv, NEW g \in Files, Edit(g)
    PROVE  RInv'
  <1>1. /\ UNCHANGED <<snapshot, status, manifest, results, budgets, job>>
        /\ \A f \in Files : f # g => source'[f] = source[f]
    BY DEF Edit, diskVars, IInv, TypeOK
  <1>2. ASSUME NEW b \in Bundles, NEW f \in Files, calm'[b][f]
        PROVE  /\ calm[b][f]
               /\ f = g => \A e \in Evaluators : job[e].out = b => job[e].loc[f] # Original
    BY <1>2 DEF Edit, IInv, TypeOK
  <1>3. ASSUME NEW e \in Evaluators, job[e].pc # "idle" PROVE RunOK(e)'
    <2>1. PICK c \in Bundles : c = job[e].out BY <1>3 DEF IInv, JobOK
    <2>2. ASSUME NEW f \in Files, calm'[c][f] PROVE ReadsAgree(e, f)'
      <3>1. ReadsAgree(e, f) BY <1>2, <1>3, <2>1, <2>2 DEF RInv, RunOK
      <3>2. ReadBy(e, f)' = ReadBy(e, f) BY <1>1, <1>2, <2>1, <2>2 DEF ReadBy, Read
      <3>3. QED BY <1>1, <3>1, <3>2 DEF ReadsAgree, ReadsAsBefore
    <2>3. /\ job[e].pc \in {"manifest.json", "rerun.sh"} => job[e].at = 1
          /\ LocOK(job[e].from) /\ \A f \in Files : LocOK(job[e].loc[f])
      BY <1>3 DEF RInv, RunOK
    <2>4. LocOK(job[e].from)' /\ \A f \in Files : LocOK(job[e].loc[f])'
      BY <1>1, <2>3 DEF LocOK, Whole
    <2>5. QED BY <1>1, <2>1, <2>2, <2>3, <2>4 DEF RunOK
  <1>4. ASSUME NEW e \in Evaluators, job[e].pc = "idle" PROVE RunOK(e)'
    BY <1>1, <1>4 DEF RunOK
  <1>5. ASSUME NEW b \in Bundles, Whole(b, "manifest.json") PROVE RecordOK(b)'
    <2>1. /\ LocOK(manifest[b].from) /\ \A f \in Files : LocOK(manifest[b].loc[f])
          /\ \A f \in Files : calm[b][f] => Recorded(b, f)
      BY <1>5 DEF RInv, RecordOK
    <2>2. LocOK(manifest[b].from)' /\ \A f \in Files : LocOK(manifest[b].loc[f])'
      BY <1>1, <2>1 DEF LocOK, Whole
    <2>3. \A f \in Files : calm'[b][f] => Recorded(b, f)'
      BY <1>1, <1>2, <2>1 DEF Recorded, Whole
    <2>4. QED BY <2>2, <2>3 DEF RecordOK
  <1>6. ASSUME NEW b \in Bundles, ~Whole(b, "manifest.json") PROVE RecordOK(b)'
    BY <1>1, <1>6 DEF RecordOK, Whole
  <1>7. QED BY <1>3, <1>4, <1>5, <1>6 DEF RInv

\* Every evaluator knows, and every bundle records, what the files nobody
\* touched held (evaluate_orchestration.py main and _prepare_bundle).
THEOREM RecordInvariant == Spec => []RInv
  <1>1. Init => RInv
    BY DEF Init, RInv, RunOK, RecordOK, Idle, Whole, Outputs
  <1>2. IInv /\ RInv /\ [Next]_vars => RInv'
    <2> SUFFICES ASSUME IInv, RInv, [Next]_vars PROVE RInv'
      OBVIOUS
    <2>1. ASSUME NEW e \in Evaluators, Evaluator(e) PROVE RInv'
      <3>1. RunOK(e)'
        BY <2>1, StartKnows, LoadCasesKnows, PrepareKnows, CopyKnows, HashConfigKnows,
           WriteManifestKnows, WriteOtherKnows, RunConditionKnows, EndKnows DEF Evaluator
      <3>2. QED BY <2>1, <3>1, OthersRun, RecordStep DEF RInv
    <2>2. ASSUME NEW f \in Files, Edit(f) PROVE RInv'
      BY <2>2, EditKnows
    <2>3. CASE UNCHANGED vars
      BY <2>3 DEF vars, diskVars, RInv, RunOK, RecordOK, ReadsAgree, ReadsAsBefore, ReadBy, Read,
                  Recorded, LocOK, Whole
    <2>4. QED BY <2>1, <2>2, <2>3 DEF Next
  <1>3. QED BY <1>1, <1>2, EvaluationInvariant, PTL DEF Spec

\* The rows came from the contents whose hashes are recorded: five reads of a
\* file nobody touches agree.
THEOREM RowsCorrect == Spec => []RowsAreRecorded
  <1>1. IInv /\ RInv => RowsAreRecorded
    BY DEF IInv, RInv, BundleOK, Complete, RecordOK, Recorded, RowsAreRecorded
  <1>2. QED BY <1>1, EvaluationInvariant, RecordInvariant, PTL

\* Who repeats a bundle has no budgets, and the bundle says whom it repeats.
BudgetOf(e) == job[e].pc # "idle" =>
    /\ job[e].from # Original => ~job[e].budget
    /\ job[e].pc \in AfterManifest => manifest[job[e].out].from = job[e].from
BudgetIn(b) == Whole(b, "results.jsonl") /\ manifest[b].from # Original => ~budgets[b]
BudgetInv == /\ \A e \in Evaluators : BudgetOf(e)
             /\ \A b \in Bundles : BudgetIn(b)

LEMMA OwnBudget ==
    ASSUME IInv, BudgetInv, NEW e \in Evaluators, Evaluator(e)
    PROVE  BudgetOf(e)'
  <1>0. job[e] \in Jobs /\ BudgetOf(e) BY JobParts DEF IInv, BudgetInv
  <1>1. ASSUME NEW b \in Bundles, Start(e, b) PROVE BudgetOf(e)'
    <2>1. PICK a \in Places, limited \in BOOLEAN :
              /\ limited \in Options(a)
              /\ job' = [job EXCEPT ![e] =
                     [Idle EXCEPT !.pc = "cases", !.out = b, !.from = a,
                                  !.loc = IF a = Original THEN InPlace
                                          ELSE [f \in Files |-> Preferred(a, f)],
                                  !.budget = limited]]
      BY <1>1 DEF Start, Options, RecordedOptions
    <2>2. job'[e].pc = "cases" /\ job'[e].from = a /\ job'[e].budget = limited
      BY <2>1 DEF IInv, TypeOK, Idle
    <2>3. a # Original => ~limited BY <2>1 DEF Options, RecordedOptions
    <2>4. "cases" \notin AfterManifest BY DEF AfterManifest, Writing, Outputs
    <2>5. QED BY <2>2, <2>3, <2>4 DEF BudgetOf
  <1>2. ASSUME job'[e] = Idle PROVE BudgetOf(e)'
    BY <1>2 DEF BudgetOf, Idle
  <1>3. ASSUME job'[e].from = job[e].from, job'[e].out = job[e].out,
               job'[e].budget = job[e].budget, job[e].pc # "idle",
               job'[e].pc \in AfterManifest => manifest'[job[e].out].from = job[e].from
        PROVE  BudgetOf(e)'
    BY <1>0, <1>3 DEF BudgetOf
  <1>4. CASE LoadCases(e) \/ Copy(e) \/ HashConfig(e)
    <2>1. CASE LoadCases(e)
      <3>1. /\ job'[e] = [job[e] EXCEPT !.ran[0] = ReadBy(e, 0), !.pc = "prepare"]
            /\ job[e].pc = "cases"
        BY <2>1 DEF LoadCases, IInv, TypeOK
      <3>2. QED
        BY <1>0, <1>3, <3>1 DEF Jobs, AfterManifest, Writing, Outputs
    <2>2. CASE Copy(e)
      <3>1. /\ job'[e] = [job[e] EXCEPT !.at = IF job[e].at = 0 THEN 1 ELSE job[e].at,
                                        !.pc = IF job[e].at = 0 THEN "copy" ELSE "hash"]
            /\ job[e].pc = "copy"
        BY <2>2 DEF Copy, IInv, TypeOK
      <3>2. QED
        BY <1>0, <1>3, <3>1 DEF Jobs, AfterManifest, Writing, Outputs
    <2>3. CASE HashConfig(e)
      <3> DEFINE f == job[e].at
      <3>1. /\ job'[e] = [job[e] EXCEPT !.hash[f] = Digest(e, f),
                                        !.at = IF f < C THEN f + 1 ELSE 1,
                                        !.pc = IF f < C THEN "copy" ELSE "manifest.json"]
            /\ job[e].pc = "hash"
        BY <2>3 DEF HashConfig, IInv, TypeOK
      <3>2. QED
        BY <1>0, <1>3, <3>1 DEF Jobs, AfterManifest, Writing, Outputs
    <2>4. QED BY <1>4, <2>1, <2>2, <2>3
  <1>5. CASE Prepare(e) /\ job'[e] # Idle
    <2>1. job'[e] = [job[e] EXCEPT !.pc = "copy"]
      BY <1>2, <1>5 DEF Prepare, Goto, Refuses, IInv, TypeOK
    <2>2. QED
      BY <1>0, <1>3, <1>5, <2>1 DEF Prepare, Jobs, AfterManifest, Writing, Outputs
  <1>6. CASE WriteManifest(e)
    <2>1. /\ job'[e] = [job[e] EXCEPT !.pc = "rerun.sh"]
          /\ job[e].pc = "manifest.json"
      BY <1>6 DEF WriteManifest, Goto, IInv, TypeOK
    <2>2. job[e].out \in Bundles BY <2>1 DEF IInv, JobOK
    <2>3. manifest'[job[e].out].from = job[e].from
      BY <1>6, <2>2 DEF WriteManifest, IInv, TypeOK
    <2>4. QED BY <1>0, <1>3, <2>1, <2>3 DEF Jobs
  <1>7. CASE WriteScript(e) \/ RunCondition(e) \/ WriteResults(e) \/ WriteCsv(e)
    <2>1. /\ job[e].pc \in AfterManifest /\ manifest' = manifest
          /\ job'[e].from = job[e].from /\ job'[e].out = job[e].out
          /\ job'[e].budget = job[e].budget
      BY <1>0, <1>7 DEF WriteScript, RunCondition, WriteResults, WriteCsv, Goto, diskVars,
         IInv, TypeOK, Jobs, AfterManifest, Writing, Outputs
    <2>2. QED BY <1>0, <1>3, <2>1 DEF BudgetOf, AfterManifest, Writing, Outputs
  <1>8. CASE WriteSummary(e) \/ Crash(e)
    BY <1>2, <1>8 DEF WriteSummary, Crash, IInv, TypeOK
  <1>9. QED
    BY <1>1, <1>2, <1>4, <1>5, <1>6, <1>7, <1>8 DEF Evaluator

LEMMA BudgetStep ==
    ASSUME IInv, BudgetInv, NEW e \in Evaluators, Evaluator(e)
    PROVE  BudgetInv'
  <1>1. ASSUME NEW d \in Evaluators, d # e PROVE BudgetOf(d)'
    <2>1. job'[d] = job[d] /\ BudgetOf(d) BY <1>1, Elsewhere DEF BudgetInv
    <2>2. CASE job[d].pc = "idle" BY <2>1, <2>2 DEF BudgetOf
    <2>3. CASE job[d].pc # "idle"
      <3>1. job[d].out \in Bundles \ {job[e].out} BY <1>1, <2>3 DEF IInv, JobOK
      <3>2. manifest'[job[d].out] = manifest[job[d].out] BY <3>1, Elsewhere
      <3>3. QED BY <2>1, <3>2 DEF BudgetOf
    <2>4. QED BY <2>2, <2>3
  <1>2. ASSUME NEW b \in Bundles, Whole(b, "results.jsonl")' PROVE BudgetIn(b)'
    <2>1. CASE Whole(b, "results.jsonl")
      <3>1. Stays(b) BY <2>1, StepKeeps DEF IInv, BundleOK, Complete
      <3>2. QED BY <2>1, <3>1 DEF Stays, BudgetInv, BudgetIn
    <2>2. CASE ~Whole(b, "results.jsonl")
      <3>1. job[e].out = b /\ WriteResults(e) BY <1>2, <2>2, NewlyWhole
      <3>2. /\ job[e].pc = "results.jsonl" /\ manifest' = manifest
            /\ budgets'[b] = job[e].budget
        BY <3>1 DEF WriteResults, IInv, TypeOK
      <3>3. job[e].from # Original => ~job[e].budget
        BY <3>2 DEF BudgetInv, BudgetOf
      <3>4. manifest[b].from = job[e].from
        BY <3>1, <3>2 DEF BudgetInv, BudgetOf, AfterManifest, Writing, Outputs
      <3>5. QED BY <3>2, <3>3, <3>4 DEF BudgetIn
    <2>3. QED BY <2>1, <2>2
  <1>3. \A b \in Bundles : BudgetIn(b)' BY <1>2 DEF BudgetIn
  <1>4. QED BY <1>1, <1>3, OwnBudget DEF BudgetInv

LEMMA BudgetInvariant == Spec => []BudgetInv
  <1>1. Init => BudgetInv
    BY DEF Init, BudgetInv, BudgetOf, BudgetIn, Idle, Whole, Outputs
  <1>2. IInv /\ BudgetInv /\ [Next]_vars => BudgetInv'
    <2> SUFFICES ASSUME IInv, BudgetInv, [Next]_vars PROVE BudgetInv'
      OBVIOUS
    <2>1. CASE \E f \in Files : Edit(f)
      BY <2>1 DEF Edit, diskVars, BudgetInv, BudgetOf, BudgetIn, Whole
    <2>2. CASE UNCHANGED vars
      BY <2>2 DEF vars, diskVars, BudgetInv, BudgetOf, BudgetIn, Whole
    <2>3. QED BY <2>1, <2>2, BudgetStep DEF Next
  <1>3. QED BY <1>1, <1>2, EvaluationInvariant, PTL DEF Spec

\* The recorded command evaluates the contents that were evaluated before, from
\* the recorded original or from the copy, which differs by its credentials only,
\* and evaluates them without budgets.
THEOREM RerunCorrect == Spec => []RerunIsTheSame
  <1>1. IInv /\ RInv /\ BudgetInv => RerunIsTheSame
    <2> SUFFICES ASSUME IInv, RInv, BudgetInv, NEW b \in Bundles, NEW f \in Files,
                        NEW a, a = manifest[b].from, a # Original,
                        Whole(b, "results.jsonl"), Whole(a, "results.jsonl"),
                        calm[a][f], calm[b][f]
                 PROVE  /\ results[b][f].version = results[a][f].version
                        /\ results[b][f] # results[a][f] => manifest[b].loc[f] = a
                        /\ ~budgets[b]
      BY DEF RerunIsTheSame
    <2>1. a \in Bundles BY DEF IInv, TypeOK, Manifest, Places
    <2>2. Whole(a, "manifest.json") /\ Whole(b, "manifest.json")
      BY <2>1 DEF IInv, BundleOK, Complete
    <2>3. Recorded(a, f) /\ Recorded(b, f) BY <2>1, <2>2 DEF RInv, RecordOK
    <2>4. manifest[a].hash[f] \in Content BY <2>1 DEF IInv, TypeOK, Manifest
    <2>5. Sanitized(f, manifest[a].hash[f]).version = manifest[a].hash[f].version
      BY <2>4 DEF Sanitized, Content
    <2>6. ~budgets[b] BY DEF BudgetInv, BudgetIn
    <2>7. QED BY <2>3, <2>5, <2>6 DEF Recorded
  <1>2. QED BY <1>1, EvaluationInvariant, RecordInvariant, BudgetInvariant, PTL
-----------------------------------------------------------------------------
(* Scoring: numbers.                                                       *)

\* A set of numbers that is not empty has a least one.
LEMMA LeastExists ==
    ASSUME NEW S \in SUBSET Nat, S # {}
    PROVE  \E x \in S : \A y \in S : x <= y
<1> DEFINE R == OpToRel(<, Nat)
<1>1. IsWellFoundedOn(R, Nat)
  BY NatLessThanWellFounded
<1>2. \A x, y \in Nat : <<y, x>> \in R <=> y < x
  BY DEF OpToRel
<1> HIDE DEF R
<1>3. PICK x \in S : \A y \in S : ~ <<y, x>> \in R
  BY <1>1, WFMin
<1>4. \A y \in S : ~(y < x)
  BY <1>2, <1>3, Zenon
<1> QED
  BY <1>4

LEMMA TimesMono ==
    ASSUME NEW a \in Nat, NEW b \in Nat, NEW c \in Nat, a <= b
    PROVE  a * c <= b * c
<1>1. PICK d \in Nat : b = a + d
  <2>1. b - a \in Nat /\ b = a + (b - a)
    OBVIOUS
  <2> QED
    BY <2>1
<1>2. b * c = a * c + d * c /\ d * c \in Nat /\ a * c \in Nat
  BY <1>1
<1> QED
  BY <1>2

\* What the rounded quotient is.
LEMMA RoundedIs ==
    ASSUME NEW p \in Nat, NEW q \in Nat \ {0}
    PROVE  /\ Rounded(p, q) \in Nat
           /\ 2 * (q * Rounded(p, q)) <= 2 * p + q
           /\ 2 * p + q < 2 * (q * Rounded(p, q)) + 2 * q
BY DEF Rounded

\* A larger part of no more is no less.
LEMMA RoundedMono ==
    ASSUME NEW p \in Nat, NEW q \in Nat \ {0}, NEW r \in Nat, NEW s \in Nat \ {0},
           p <= r, s <= q
    PROVE  Rounded(p, q) <= Rounded(r, s)
<1> DEFINE x == Rounded(p, q)
           y == Rounded(r, s)
<1>1. /\ x \in Nat /\ y \in Nat
      /\ 2 * (q * x) <= 2 * p + q
      /\ 2 * r + s < 2 * (s * y) + 2 * s
  BY RoundedIs
<1> HIDE DEF x, y
<1> SUFFICES ASSUME y < x
             PROVE  FALSE
  BY <1>1 DEF x, y
<1>2. (y + 1) * s <= x * s
  BY <1>1, TimesMono
<1>3. 2 * (x * s) - s <= 2 * (x * q) - q
  <2>1. s * (2 * x - 1) <= q * (2 * x - 1)
    BY <1>1, TimesMono
  <2> QED
    BY <1>1, <2>1
<1>4. /\ (y + 1) * s = s * y + s /\ x * q = q * x
      /\ s * y \in Nat /\ q * x \in Nat /\ x * s \in Nat
  BY <1>1
<1> QED
  BY <1>1, <1>2, <1>3, <1>4

\* Twice as much of twice as many is the same.
LEMMA RoundedTwice ==
    ASSUME NEW p \in Nat, NEW q \in Nat \ {0}
    PROVE  Rounded(2 * p, 2 * q) = Rounded(p, q)
<1> DEFINE x == Rounded(p, q)
           y == Rounded(2 * p, 2 * q)
<1>1. /\ x \in Nat /\ y \in Nat
      /\ 2 * (q * x) <= 2 * p + q /\ 2 * p + q < 2 * (q * x) + 2 * q
      /\ 2 * ((2 * q) * y) <= 2 * (2 * p) + 2 * q
      /\ 2 * (2 * p) + 2 * q < 2 * ((2 * q) * y) + 2 * (2 * q)
  <2>1. 2 * p \in Nat /\ 2 * q \in Nat \ {0}
    OBVIOUS
  <2>2. /\ x \in Nat /\ 2 * (q * x) <= 2 * p + q /\ 2 * p + q < 2 * (q * x) + 2 * q
    BY RoundedIs
  <2>3. /\ y \in Nat /\ 2 * ((2 * q) * y) <= 2 * (2 * p) + 2 * q
        /\ 2 * (2 * p) + 2 * q < 2 * ((2 * q) * y) + 2 * (2 * q)
    BY <2>1, RoundedIs
  <2> QED
    BY <2>2, <2>3
<1> HIDE DEF x, y
<1>2. (2 * q) * y = 2 * (q * y) /\ q * y \in Nat /\ q * x \in Nat
  BY <1>1
<1>3. CASE y < x
  <2>1. (y + 1) * q <= x * q
    BY <1>1, <1>3, TimesMono
  <2>2. (y + 1) * q = q * y + q /\ x * q = q * x
    BY <1>1
  <2> QED
    BY <1>1, <1>2, <2>1, <2>2
<1>4. CASE x < y
  <2>1. (x + 1) * q <= y * q
    BY <1>1, <1>4, TimesMono
  <2>2. (x + 1) * q = q * x + q /\ y * q = q * y
    BY <1>1
  <2> QED
    BY <1>1, <1>2, <2>1, <2>2
<1> QED
  BY <1>1, <1>3, <1>4 DEF x, y

LEMMA RoundedZero == ASSUME NEW q \in Nat \ {0} PROVE Rounded(0, q) = 0
<1>1. Rounded(0, q) \in Nat /\ 2 * (q * Rounded(0, q)) <= q
  BY RoundedIs
<1>2. CASE Rounded(0, q) >= 1
  <2>1. 1 * q <= Rounded(0, q) * q
    BY <1>1, <1>2, TimesMono
  <2>2. q * Rounded(0, q) = Rounded(0, q) * q
    BY <1>1
  <2> QED
    BY <1>1, <2>1, <2>2
<1> QED
  BY <1>1, <1>2
-----------------------------------------------------------------------------
\* The sum over the tasks, by the equation of the recursive function.
LEMMA TotalIs ==
    ASSUME NEW f \in [1..N -> Nat]
    PROVE  \E s \in [0..N -> Nat] : /\ s[0] = 0
                                    /\ \A n \in 1..N : s[n] = s[n - 1] + f[n]
                                    /\ Total(f) = s[N]
<1> DEFINE D(g) == [n \in 0..N |-> IF n = 0 THEN 0 ELSE g[n - 1] + f[n]]
           sum == CHOOSE g : g = D(g)
           Good(m) == \E g \in [0..m -> Nat] : g[0] = 0 /\ \A n \in 1..m : g[n] = g[n - 1] + f[n]
           Bad == {m \in 0..N : ~Good(m)}
<1>0. N \in Nat \ {0}
  BY CasesAssumption
<1>1. Good(0)
  <2> DEFINE z == [n \in 0..0 |-> 0]
  <2>1. z \in [0..0 -> Nat] /\ z[0] = 0 /\ \A n \in 1..0 : z[n] = z[n - 1] + f[n]
    OBVIOUS
  <2> QED
    BY <2>1
<1>2. ASSUME NEW m \in 1..N, Good(m - 1)
      PROVE  Good(m)
  <2>1. PICK g \in [0..(m - 1) -> Nat] : g[0] = 0 /\ \A n \in 1..(m - 1) : g[n] = g[n - 1] + f[n]
    BY <1>2
  <2> DEFINE h == [n \in 0..m |-> IF n = m THEN g[m - 1] + f[m] ELSE g[n]]
  <2>2. g[m - 1] \in Nat /\ f[m] \in Nat
    BY <1>0
  <2>3. h \in [0..m -> Nat]
    BY <2>2
  <2>4. h[0] = 0
    BY <2>1
  <2>5. \A n \in 1..m : h[n] = h[n - 1] + f[n]
    BY <2>1
  <2> HIDE DEF h
  <2> QED
    BY <2>3, <2>4, <2>5
<1> HIDE DEF Good
<1>3. Bad = {}
  <2>1. Bad \in SUBSET Nat
    BY <1>0
  <2> SUFFICES ASSUME Bad # {}
               PROVE  FALSE
    OBVIOUS
  <2>2. PICK m \in Bad : \A k \in Bad : m <= k
    <3> HIDE DEF Bad
    <3> QED
      BY <2>1, LeastExists
  <2>3. m \in 1..N /\ m - 1 \in 0..N
    BY <1>0, <1>1, <2>2
  <2>4. Good(m - 1)
    BY <2>2, <2>3
  <2> QED
    BY <1>2, <2>2, <2>3, <2>4
<1>4. Good(N)
  BY <1>0, <1>3
<1>5. PICK g \in [0..N -> Nat] : g[0] = 0 /\ \A n \in 1..N : g[n] = g[n - 1] + f[n]
  BY <1>4 DEF Good
<1>6. g = D(g)
  BY <1>0, <1>5
<1>7. sum = D(sum)
  <2> HIDE DEF D
  <2> QED
    BY <1>6
<1>8. Total(f) = sum[N]
  BY DEF Total
<1> HIDE DEF sum
<1>9. sum[0] = 0 /\ \A n \in 1..N : sum[n] = sum[n - 1] + f[n]
  BY <1>0, <1>7
<1> DEFINE Off == {n \in 0..N : sum[n] # g[n]}
<1>10. Off = {}
  <2>1. Off \in SUBSET Nat
    BY <1>0
  <2> SUFFICES ASSUME Off # {}
               PROVE  FALSE
    OBVIOUS
  <2>2. PICK m \in Off : \A k \in Off : m <= k
    <3> HIDE DEF Off
    <3> QED
      BY <2>1, LeastExists
  <2>3. m \in 1..N /\ m - 1 \in 0..N
    BY <1>0, <1>5, <1>9, <2>2
  <2>4. sum[m - 1] = g[m - 1]
    BY <2>2, <2>3
  <2> QED
    BY <1>5, <1>9, <2>2, <2>3, <2>4
<1>11. sum[N] = g[N]
  BY <1>0, <1>10
<1> QED
  BY <1>5, <1>8, <1>11

LEMMA TotalType == ASSUME NEW f \in [1..N -> Nat] PROVE Total(f) \in Nat
BY TotalIs, CasesAssumption

\* Larger scores have a larger sum.
LEMMA TotalMono ==
    ASSUME NEW f \in [1..N -> Nat], NEW g \in [1..N -> Nat], \A n \in 1..N : f[n] <= g[n]
    PROVE  Total(f) <= Total(g)
<1>0. N \in Nat \ {0}
  BY CasesAssumption
<1>1. PICK s \in [0..N -> Nat] : /\ s[0] = 0
                                 /\ \A n \in 1..N : s[n] = s[n - 1] + f[n]
                                 /\ Total(f) = s[N]
  BY TotalIs
<1>2. PICK t \in [0..N -> Nat] : /\ t[0] = 0
                                 /\ \A n \in 1..N : t[n] = t[n - 1] + g[n]
                                 /\ Total(g) = t[N]
  BY TotalIs
<1> DEFINE Bad == {n \in 0..N : s[n] > t[n]}
<1>3. Bad = {}
  <2>1. Bad \in SUBSET Nat
    BY <1>0
  <2> SUFFICES ASSUME Bad # {}
               PROVE  FALSE
    OBVIOUS
  <2>2. PICK m \in Bad : \A k \in Bad : m <= k
    <3> HIDE DEF Bad
    <3> QED
      BY <2>1, LeastExists
  <2>3. m \in 1..N /\ m - 1 \in 0..N
    BY <1>0, <1>1, <1>2, <2>2
  <2>4. s[m - 1] <= t[m - 1]
    BY <2>2, <2>3
  <2>5. s[m] = s[m - 1] + f[m] /\ t[m] = t[m - 1] + g[m]
    BY <1>1, <1>2, <2>3
  <2>6. f[m] \in Nat /\ g[m] \in Nat /\ f[m] <= g[m]
    BY <2>3
  <2>7. s[m - 1] \in Nat /\ t[m - 1] \in Nat
    BY <2>3
  <2>8. s[m] > t[m]
    BY <2>2
  <2> HIDE DEF Bad
  <2> QED
    BY <2>4, <2>5, <2>6, <2>7, <2>8
<1>4. s[N] <= t[N]
  <2>1. N \in 0..N /\ s[N] \in Nat /\ t[N] \in Nat
    BY <1>0
  <2>2. ~(s[N] > t[N])
    BY <1>3, <2>1
  <2> QED
    BY <2>1, <2>2
<1> QED
  BY <1>1, <1>2, <1>4

LEMMA TotalZero ==
    ASSUME NEW f \in [1..N -> Nat], \A n \in 1..N : f[n] = 0
    PROVE  Total(f) = 0
<1>0. N \in Nat \ {0}
  BY CasesAssumption
<1>1. PICK s \in [0..N -> Nat] : /\ s[0] = 0
                                 /\ \A n \in 1..N : s[n] = s[n - 1] + f[n]
                                 /\ Total(f) = s[N]
  BY TotalIs
<1> DEFINE Bad == {n \in 0..N : s[n] # 0}
<1>2. Bad = {}
  <2>1. Bad \in SUBSET Nat
    BY <1>0
  <2> SUFFICES ASSUME Bad # {}
               PROVE  FALSE
    OBVIOUS
  <2>2. PICK m \in Bad : \A k \in Bad : m <= k
    <3> HIDE DEF Bad
    <3> QED
      BY <2>1, LeastExists
  <2>3. m \in 1..N /\ m - 1 \in 0..N
    BY <1>0, <1>1, <2>2
  <2>4. s[m - 1] = 0
    BY <2>2, <2>3
  <2> QED
    BY <1>1, <2>2, <2>3, <2>4
<1>3. N \in 0..N
  BY <1>0
<1>4. s[N] = 0
  BY <1>2, <1>3
<1> QED
  BY <1>1, <1>4
-----------------------------------------------------------------------------
(* Rows, and shares of them.                                               *)

\* Finitely many rows, each of a task; none that passed is over budget.
WellFormed(R) ==
    /\ IsFiniteSet(DOMAIN R)
    /\ \A i \in DOMAIN R : R[i].case \in 1..N /\ (R[i].passed => ~R[i].exceeded)

LEMMA CountIs ==
    ASSUME NEW I, IsFiniteSet(I)
    PROVE  Cardinality(I) \in Nat /\ (I # {} => Cardinality(I) \in Nat \ {0})
BY FS_CardinalityType, FS_EmptySet

LEMMA ShareIs ==
    ASSUME NEW I, IsFiniteSet(I), I # {}, NEW part \in SUBSET I
    PROVE  /\ Share(part, I) \in Nat
           /\ part = {} => Share(part, I) = 0
<1>1. Cardinality(I) \in Nat \ {0} /\ Cardinality(part) \in Nat
  BY CountIs, FS_Subset
<1>2. 10000 * Cardinality(part) \in Nat
  BY <1>1
<1>3. part = {} => 10000 * Cardinality(part) = 0
  <2>1. Cardinality({}) = 0
    BY FS_EmptySet
  <2> QED
    BY <2>1
<1>4. Share(part, I) = Rounded(10000 * Cardinality(part), Cardinality(I))
  BY DEF Share
<1>5. Rounded(10000 * Cardinality(part), Cardinality(I)) \in Nat
  <2> DEFINE p == 10000 * Cardinality(part)
             q == Cardinality(I)
  <2>1. p \in Nat /\ q \in Nat \ {0}
    BY <1>1, <1>2
  <2> HIDE DEF p, q
  <2>2. Rounded(p, q) \in Nat
    BY <2>1, RoundedIs
  <2> QED
    BY <2>2 DEF p, q
<1>6. Rounded(0, Cardinality(I)) = 0
  BY <1>1, RoundedZero
<1> QED
  BY <1>3, <1>4, <1>5, <1>6

LEMMA ShareMono ==
    ASSUME NEW I, IsFiniteSet(I), NEW J \in SUBSET I, J # {}, NEW part \in SUBSET J
    PROVE  Share(part, I) <= Share(part, J)
<1>1. /\ IsFiniteSet(J) /\ IsFiniteSet(part)
      /\ Cardinality(J) <= Cardinality(I)
  BY FS_Subset
<1>2. /\ Cardinality(I) \in Nat \ {0} /\ Cardinality(J) \in Nat \ {0}
      /\ 10000 * Cardinality(part) \in Nat
  BY <1>1, CountIs
<1> QED
  BY <1>1, <1>2, RoundedMono DEF Share

LEMMA CasesAreFinite == IsFiniteSet(1..N)
<1>1. 1 \in Int /\ N \in Int
  BY CasesAssumption
<1> QED
  BY <1>1, FS_Interval

\* The scores of the tasks, of rows that are there.
LEMMA ScoresAre ==
    ASSUME NEW R, WellFormed(R), NEW I \in SUBSET DOMAIN R
    PROVE  /\ Scores(R, I) \in [1..N -> Nat]
           /\ \A task \in 1..N : Scores(R, I)[task] =
                  IF RowsOf(R, I, task) = {} THEN 0 ELSE TaskScore(R, I, task)
           /\ TasksOf(R, I) \in SUBSET (1..N)
           /\ I # {} => Cardinality(TasksOf(R, I)) \in Nat \ {0}
<1>1. TasksOf(R, I) \in SUBSET (1..N) /\ (I # {} => TasksOf(R, I) # {})
  BY DEF TasksOf, WellFormed
<1>2. I # {} => Cardinality(TasksOf(R, I)) \in Nat \ {0}
  <2>1. IsFiniteSet(TasksOf(R, I))
    BY <1>1, CasesAreFinite, FS_Subset
  <2> QED
    BY <1>1, <2>1, CountIs
<1>3. ASSUME NEW task \in 1..N
      PROVE  /\ task \in TasksOf(R, I) <=> RowsOf(R, I, task) # {}
             /\ RowsOf(R, I, task) # {} => TaskScore(R, I, task) \in Nat
  <2>1. task \in TasksOf(R, I) <=> RowsOf(R, I, task) # {}
    BY DEF TasksOf, RowsOf
  <2>2. /\ IsFiniteSet(RowsOf(R, I, task))
        /\ PassedAmong(R, RowsOf(R, I, task)) \in SUBSET RowsOf(R, I, task)
    BY FS_Subset DEF RowsOf, PassedAmong, WellFormed
  <2> QED
    BY <2>1, <2>2, ShareIs DEF TaskScore
<1> QED
  BY <1>1, <1>2, <1>3 DEF Scores

\* Leaving out the rows over budget, none of which passed, does not lower the
\* score of any task.
LEMMA FilterRaises ==
    ASSUME NEW R, WellFormed(R), NEW task \in 1..N
    PROVE  Scores(R, DOMAIN R)[task] <= Scores(R, WithinBudget(R))[task]
<1> DEFINE I == RowsOf(R, DOMAIN R, task)
           J == RowsOf(R, WithinBudget(R), task)
           part == PassedAmong(R, J)
<1>0. WithinBudget(R) \in SUBSET DOMAIN R
  BY DEF WithinBudget
<1>1. /\ IsFiniteSet(I) /\ J \in SUBSET I /\ part \in SUBSET J
      /\ PassedAmong(R, I) = part
  BY FS_Subset DEF RowsOf, WithinBudget, PassedAmong, WellFormed
<1>2. /\ Scores(R, DOMAIN R)[task] = IF I = {} THEN 0 ELSE Share(part, I)
      /\ Scores(R, WithinBudget(R))[task] = IF J = {} THEN 0 ELSE Share(part, J)
  BY <1>0, <1>1, ScoresAre DEF TaskScore
<1> HIDE DEF I, J, part
<1>3. CASE J = {}
  <2>1. part = {}
    BY <1>1, <1>3
  <2>2. I # {} => Share(part, I) = 0
    BY <1>1, <2>1, ShareIs
  <2> QED
    BY <1>2, <1>3, <2>2
<1>4. CASE J # {}
  BY <1>1, <1>2, <1>4, ShareMono
<1> QED
  BY <1>3, <1>4

LEMMA FilteredNotWorse ==
    ASSUME NEW R, WellFormed(R)
    PROVE  Accuracy(R, WithinBudget(R)) >= Accuracy(R, DOMAIN R)
<1> DEFINE I == DOMAIN R
           J == WithinBudget(R)
           f == Scores(R, I)
           g == Scores(R, J)
<1>0. J \in SUBSET I /\ I \in SUBSET DOMAIN R
  BY DEF WithinBudget
<1>1. /\ f \in [1..N -> Nat] /\ g \in [1..N -> Nat]
      /\ \A task \in 1..N : f[task] <= g[task]
      /\ TasksOf(R, I) \in SUBSET (1..N)
      /\ I # {} => Cardinality(TasksOf(R, I)) \in Nat \ {0}
      /\ J # {} => Cardinality(TasksOf(R, J)) \in Nat \ {0}
  BY <1>0, ScoresAre, FilterRaises
<1>2. Total(f) \in Nat /\ Total(g) \in Nat /\ Total(f) <= Total(g)
  BY <1>1, TotalType, TotalMono
<1>3. CASE J = {}
  <2>1. Accuracy(R, J) = 0
    BY <1>3 DEF Accuracy
  <2>2. Accuracy(R, I) = 0
    <3>1. \A task \in 1..N : g[task] = 0
      BY <1>0, <1>3, ScoresAre DEF RowsOf
    <3>2. \A task \in 1..N : f[task] = 0
      <4> HIDE DEF f, g
      <4> TAKE task \in 1..N
      <4>1. f[task] \in Nat /\ f[task] <= g[task] /\ g[task] = 0
        BY <1>1, <3>1
      <4> QED
        BY <4>1
    <3>3. Total(f) = 0
      BY <1>1, <3>2, TotalZero
    <3>4. Accuracy(R, I) = IF I = {} THEN 0 ELSE Rounded(Total(f), Cardinality(TasksOf(R, I)))
      BY DEF Accuracy
    <3> QED
      BY <1>1, <3>3, <3>4, RoundedZero
  <2> QED
    BY <2>1, <2>2
<1>4. CASE J # {}
  <2>1. /\ Accuracy(R, I) = Rounded(Total(f), Cardinality(TasksOf(R, I)))
        /\ Accuracy(R, J) = Rounded(Total(g), Cardinality(TasksOf(R, J)))
    BY <1>0, <1>4 DEF Accuracy
  <2>2. TasksOf(R, J) \in SUBSET TasksOf(R, I)
    BY <1>0 DEF TasksOf
  <2>3. Cardinality(TasksOf(R, J)) <= Cardinality(TasksOf(R, I))
    <3>1. IsFiniteSet(TasksOf(R, I))
      BY <1>1, CasesAreFinite, FS_Subset
    <3> QED
      BY <2>2, <3>1, FS_Subset
  <2>4. Rounded(Total(f), Cardinality(TasksOf(R, I)))
        <= Rounded(Total(g), Cardinality(TasksOf(R, J)))
    BY <1>0, <1>1, <1>2, <1>4, <2>3, RoundedMono
  <2>5. Accuracy(R, I) \in Nat /\ Accuracy(R, J) \in Nat
    BY <1>0, <1>1, <1>2, <1>4, <2>1, RoundedIs
  <2> QED
    BY <2>1, <2>4, <2>5
<1> QED
  BY <1>3, <1>4
-----------------------------------------------------------------------------
(* A task that is run again.                                               *)

\* Rows once, and rows with a copy of each.
Once(S) == S \X {1}
Both(S) == (S \X {1}) \cup (S \X {2})

LEMMA CopiesCount ==
    ASSUME NEW S, IsFiniteSet(S)
    PROVE  /\ Cardinality(Once(S)) = Cardinality(S)
           /\ Cardinality(Both(S)) = 2 * Cardinality(S)
<1>1. \A c : IsFiniteSet(S \X {c}) /\ Cardinality(S \X {c}) = Cardinality(S)
  <2> TAKE c
  <2>1. IsFiniteSet({c}) /\ Cardinality({c}) = 1 /\ Cardinality(S) \in Nat
    BY FS_Singleton, FS_CardinalityType
  <2>2. IsFiniteSet(S \X {c}) /\ Cardinality(S \X {c}) = Cardinality(S) * Cardinality({c})
    BY <2>1, FS_Product
  <2> QED
    BY <2>1, <2>2
<1> DEFINE X == S \X {1}
           Y == S \X {2}
<1>2. /\ IsFiniteSet(X) /\ Cardinality(X) = Cardinality(S)
      /\ IsFiniteSet(Y) /\ Cardinality(Y) = Cardinality(S)
  BY <1>1
<1>3. X \cap Y = {}
  OBVIOUS
<1> HIDE DEF X, Y
<1>4. /\ Cardinality(X \cap Y) = 0
      /\ Cardinality(X \cup Y) = Cardinality(X) + Cardinality(Y) - Cardinality(X \cap Y)
  BY <1>2, <1>3, FS_Union, FS_EmptySet
<1>5. Cardinality(S) \in Nat
  BY FS_CardinalityType
<1>6. Cardinality(X \cup Y) = 2 * Cardinality(S)
  BY <1>2, <1>4, <1>5
<1> QED
  BY <1>2, <1>6 DEF X, Y, Once, Both

\* Twice as many of twice as many rows are the same share of them.
LEMMA ShareTwice ==
    ASSUME NEW I, IsFiniteSet(I), I # {}, NEW part \in SUBSET I
    PROVE  /\ Share(Once(part), Once(I)) = Share(part, I)
           /\ Share(Both(part), Both(I)) = Share(part, I)
<1>1. /\ Cardinality(I) \in Nat \ {0} /\ Cardinality(part) \in Nat
      /\ IsFiniteSet(part)
  BY CountIs, FS_Subset
<1>2. /\ Cardinality(Once(part)) = Cardinality(part) /\ Cardinality(Once(I)) = Cardinality(I)
      /\ Cardinality(Both(part)) = 2 * Cardinality(part)
      /\ Cardinality(Both(I)) = 2 * Cardinality(I)
  BY <1>1, CopiesCount
<1> DEFINE p == 10000 * Cardinality(part)
           q == Cardinality(I)
<1>4. p \in Nat /\ q \in Nat \ {0}
  BY <1>1
<1>5. 10000 * (2 * Cardinality(part)) = 2 * p
  BY <1>1
<1>6. Rounded(2 * p, 2 * q) = Rounded(p, q)
  <2> HIDE DEF p, q
  <2> QED
    BY <1>4, RoundedTwice
<1>7. Share(Both(part), Both(I)) = Rounded(2 * p, 2 * q)
  BY <1>2, <1>5 DEF Share
<1> QED
  BY <1>2, <1>6, <1>7 DEF Share

\* The rows I of R, as rows of Again.
Copies(R, I, task) == {i \in Twice(R, task) : i[1] \in I}

LEMMA CopiesOfRows ==
    ASSUME NEW R, NEW task, NEW I \in SUBSET DOMAIN R, NEW t
    PROVE  RowsOf(Again(R, task), Copies(R, I, task), t) =
               IF t = task THEN Both(RowsOf(R, I, t)) ELSE Once(RowsOf(R, I, t))
<1>1. \A i \in Twice(R, task) : Again(R, task)[i] = R[i[1]]
  BY DEF Again
<1>2. RowsOf(Again(R, task), Copies(R, I, task), t) =
          {i \in Twice(R, task) : i[1] \in I /\ R[i[1]].case = t}
  BY <1>1 DEF RowsOf, Copies
<1>3. CASE t = task
  BY <1>2, <1>3 DEF Twice, RowsOf, Both
<1>4. CASE t # task
  BY <1>2, <1>4 DEF Twice, RowsOf, Once
<1> QED
  BY <1>3, <1>4

LEMMA CopiesThatPassed ==
    ASSUME NEW R, NEW task, NEW J, Once(J) \in SUBSET Twice(R, task)
    PROVE  PassedAmong(Again(R, task), Once(J)) = Once(PassedAmong(R, J))
<1>1. \A i \in Twice(R, task) : Again(R, task)[i] = R[i[1]]
  BY DEF Again
<1> QED
  BY <1>1 DEF PassedAmong, Once

LEMMA BothCopiesThatPassed ==
    ASSUME NEW R, NEW task, NEW J, J \in SUBSET RowsOf(R, DOMAIN R, task)
    PROVE  PassedAmong(Again(R, task), Both(J)) = Both(PassedAmong(R, J))
<1>1. \A i \in Twice(R, task) : Again(R, task)[i] = R[i[1]]
  BY DEF Again
<1>2. Both(J) \in SUBSET Twice(R, task)
  BY DEF Twice, RowsOf, Both
<1> QED
  BY <1>1, <1>2 DEF PassedAmong, Both

\* Running a task again changes no score.
LEMMA AgainScores ==
    ASSUME NEW R, WellFormed(R), NEW task \in 1..N, NEW I \in SUBSET DOMAIN R
    PROVE  /\ Scores(Again(R, task), Copies(R, I, task)) = Scores(R, I)
           /\ TasksOf(Again(R, task), Copies(R, I, task)) = TasksOf(R, I)
<1> DEFINE A == Again(R, task)
           K == Copies(R, I, task)
<1>1. \A i \in Twice(R, task) : A[i] = R[i[1]]
  BY DEF Again
<1>2. TasksOf(A, K) = TasksOf(R, I)
  <2>1. ASSUME NEW i \in K
        PROVE  A[i].case \in TasksOf(R, I)
    BY <1>1 DEF Copies, TasksOf
  <2>2. ASSUME NEW i \in I
        PROVE  R[i].case \in TasksOf(A, K)
    <3>1. <<i, 1>> \in Twice(R, task) /\ <<i, 1>>[1] = i
      BY DEF Twice
    <3>2. <<i, 1>> \in K /\ A[<<i, 1>>] = R[i]
      BY <1>1, <3>1 DEF Copies
    <3> HIDE DEF A, K
    <3> QED
      BY <3>2 DEF TasksOf
  <2> HIDE DEF A, K
  <2>3. TasksOf(A, K) \in SUBSET TasksOf(R, I)
    BY <2>1 DEF TasksOf
  <2>4. TasksOf(R, I) \in SUBSET TasksOf(A, K)
    BY <2>2 DEF TasksOf
  <2> QED
    BY <2>3, <2>4
<1>3. ASSUME NEW t \in TasksOf(R, I)
      PROVE  TaskScore(A, K, t) = TaskScore(R, I, t)
  <2> DEFINE J == RowsOf(R, I, t)
             part == PassedAmong(R, J)
  <2>1. /\ J \in SUBSET DOMAIN R /\ J # {} /\ part \in SUBSET J /\ IsFiniteSet(J)
        /\ TaskScore(R, I, t) = Share(part, J)
    BY FS_Subset DEF RowsOf, TasksOf, PassedAmong, WellFormed, TaskScore
  <2>2. CASE t = task
    <3>1. RowsOf(A, K, t) = Both(J)
      BY <2>2, CopiesOfRows
    <3>2. J \in SUBSET RowsOf(R, DOMAIN R, task)
      BY <2>2 DEF RowsOf
    <3> HIDE DEF J, A, K
    <3>3. PassedAmong(A, Both(J)) = Both(part)
      BY <3>2, BothCopiesThatPassed DEF A
    <3> HIDE DEF part
    <3>4. TaskScore(A, K, t) = Share(Both(part), Both(J))
      BY <3>1, <3>3 DEF TaskScore
    <3> QED
      BY <2>1, <3>4, ShareTwice
  <2>3. CASE t # task
    <3>1. RowsOf(A, K, t) = Once(J)
      BY <2>3, CopiesOfRows
    <3>2. Once(J) \in SUBSET Twice(R, task)
      BY <2>1 DEF Twice, Once
    <3> HIDE DEF J, A, K
    <3>3. PassedAmong(A, Once(J)) = Once(part)
      BY <3>2, CopiesThatPassed DEF A
    <3> HIDE DEF part
    <3>4. TaskScore(A, K, t) = Share(Once(part), Once(J))
      BY <3>1, <3>3 DEF TaskScore
    <3> QED
      BY <2>1, <3>4, ShareTwice
  <2> QED
    BY <2>2, <2>3
<1> HIDE DEF A, K
<1>4. Scores(A, K) = Scores(R, I)
  BY <1>2, <1>3 DEF Scores
<1> QED
  BY <1>2, <1>4 DEF A, K

LEMMA AgainAccuracy ==
    ASSUME NEW R, WellFormed(R), NEW task \in 1..N, NEW I \in SUBSET DOMAIN R
    PROVE  Accuracy(Again(R, task), Copies(R, I, task)) = Accuracy(R, I)
<1>1. Copies(R, I, task) = {} <=> I = {}
  <2>1. ASSUME NEW i \in I
        PROVE  <<i, 1>> \in Copies(R, I, task)
    BY DEF Copies, Twice
  <2> QED
    BY <2>1 DEF Copies
<1> QED
  BY <1>1, AgainScores DEF Accuracy

LEMMA WeighTheSame ==
    ASSUME NEW R, WellFormed(R), NEW task \in 1..N
    PROVE  /\ Accuracy(Again(R, task), DOMAIN Again(R, task)) = Accuracy(R, DOMAIN R)
           /\ Accuracy(Again(R, task), WithinBudget(Again(R, task)))
                  = Accuracy(R, WithinBudget(R))
<1>1. DOMAIN Again(R, task) = Twice(R, task)
  BY DEF Again
<1>2. \A i \in Twice(R, task) : Again(R, task)[i] = R[i[1]] /\ i[1] \in DOMAIN R
  BY DEF Again, Twice, RowsOf
<1>3. Copies(R, DOMAIN R, task) = DOMAIN Again(R, task)
  BY <1>1, <1>2 DEF Copies
<1>4. Copies(R, WithinBudget(R), task) = WithinBudget(Again(R, task))
  BY <1>1, <1>2 DEF Copies, WithinBudget
<1>5. WithinBudget(R) \in SUBSET DOMAIN R
  BY DEF WithinBudget
<1> QED
  BY <1>3, <1>4, <1>5, AgainAccuracy
-----------------------------------------------------------------------------
(* The budget taken from a baseline.                                       *)

\* A finite set of numbers that is not empty has a largest one.
LEMMA MostExists ==
    ASSUME NEW S \in SUBSET Nat, IsFiniteSet(S), S # {}
    PROVE  \E x \in S : \A y \in S : y <= x
<1> DEFINE Bounded(X) == \E x \in X : \A y \in X : y <= x
           Bad == {n \in Nat : \E X \in SUBSET Nat : /\ IsFiniteSet(X) /\ X # {}
                                                     /\ Cardinality(X) = n /\ ~Bounded(X)}
<1>1. ASSUME NEW X \in SUBSET Nat, NEW x \in X, Bounded(X \ {x})
      PROVE  Bounded(X)
  <2>1. PICK m \in X \ {x} : \A y \in X \ {x} : y <= m
    BY <1>1
  <2>2. CASE m <= x
    BY <2>1, <2>2
  <2>3. CASE x <= m
    BY <2>1, <2>3
  <2> QED
    BY <2>1, <2>2, <2>3
<1>2. \A X \in SUBSET Nat : X # {} /\ ~Bounded(X) =>
          \E x \in X : X \ {x} # {} /\ ~Bounded(X \ {x})
  <2> TAKE X \in SUBSET Nat
  <2> HAVE X # {} /\ ~Bounded(X)
  <2>1. PICK x \in X : TRUE
    OBVIOUS
  <2>2. X \ {x} # {}
    BY <2>1
  <2> QED
    BY <1>1, <2>1, <2>2
<1> HIDE DEF Bounded
<1>3. Bad = {}
  <2> SUFFICES ASSUME Bad # {}
               PROVE  FALSE
    OBVIOUS
  <2>1. PICK n \in Bad : \A k \in Bad : n <= k
    <3>1. Bad \in SUBSET Nat
      OBVIOUS
    <3> HIDE DEF Bad
    <3> QED
      BY <3>1, LeastExists
  <2>2. PICK X \in SUBSET Nat : IsFiniteSet(X) /\ X # {} /\ Cardinality(X) = n /\ ~Bounded(X)
    OBVIOUS
  <2>3. PICK x \in X : X \ {x} # {} /\ ~Bounded(X \ {x})
    BY <1>2, <2>2
  <2>4. IsFiniteSet(X \ {x}) /\ Cardinality(X \ {x}) = n - 1
    BY <2>2, <2>3, FS_RemoveElement
  <2>5. n - 1 \in Nat
    BY <2>4, FS_CardinalityType
  <2>6. n - 1 \in Bad
    BY <2>3, <2>4, <2>5
  <2> QED
    BY <2>1, <2>6
<1>4. Cardinality(S) \in Nat
  BY FS_CardinalityType
<1>5. Bounded(S)
  BY <1>3, <1>4
<1> QED
  BY <1>5 DEF Bounded

\* The rows that report no more than x tokens, and those that report fewer.
Upto(R, I, x) == {i \in I : R[i].tokens <= x}
Below(R, I, x) == {i \in I : R[i].tokens < x}

\* The k-th least number of tokens is there.
LEMMA RankedExists ==
    ASSUME NEW R, NEW I \in SUBSET DOMAIN R, IsFiniteSet(I),
           \A i \in I : R[i].tokens \in Nat,
           NEW k \in 1..Cardinality(I)
    PROVE  /\ Ranked(R, I, k) \in Nat
           /\ Cardinality(Below(R, I, Ranked(R, I, k))) < k
           /\ Cardinality(Upto(R, I, Ranked(R, I, k))) >= k
<1> DEFINE V == {R[i].tokens : i \in I}
           Good == {t \in Nat : Cardinality(Upto(R, I, t)) >= k}
<1>1. \A t : Cardinality(Upto(R, I, t)) \in Nat /\ Cardinality(Below(R, I, t)) \in Nat
  BY FS_Subset, FS_CardinalityType DEF Upto, Below
<1>2. V \in SUBSET Nat /\ IsFiniteSet(V) /\ V # {}
  <2>1. IsFiniteSet(V)
    <3> DEFINE f == [i \in I |-> R[i].tokens]
    <3>1. f \in Surjection(I, V)
      BY DEF Surjection
    <3> HIDE DEF f, V
    <3> QED
      BY <3>1, FS_Surjection
  <2>2. I # {}
    BY FS_EmptySet
  <2> QED
    BY <2>1, <2>2
<1>3. PICK m \in V : \A y \in V : y <= m
  <2> HIDE DEF V
  <2> QED
    BY <1>2, MostExists
<1>4. m \in Good
  <2>1. Upto(R, I, m) = I
    BY <1>3 DEF Upto
  <2>2. Cardinality(I) >= k
    BY FS_CardinalityType
  <2> QED
    BY <1>2, <1>3, <2>1, <2>2
<1>5. PICK t \in Good : \A y \in Good : t <= y
  <2>1. Good \in SUBSET Nat /\ Good # {}
    BY <1>4
  <2> HIDE DEF Good
  <2> QED
    BY <2>1, LeastExists
<1>6. Cardinality(Below(R, I, t)) < k
  <2>1. CASE t = 0
    <3>1. Below(R, I, t) = {}
      BY <2>1 DEF Below
    <3> QED
      BY <3>1, FS_EmptySet
  <2>2. CASE t # 0
    <3>1. t - 1 \in Nat /\ t - 1 \notin Good
      BY <1>5, <2>2
    <3>2. Below(R, I, t) = Upto(R, I, t - 1)
      BY <1>5, <2>2 DEF Below, Upto
    <3>3. Cardinality(Upto(R, I, t - 1)) \in Nat /\ ~(Cardinality(Upto(R, I, t - 1)) >= k)
      BY <1>1, <3>1
    <3> QED
      BY <3>2, <3>3
  <2> QED
    BY <2>1, <2>2
<1>7. t \in V
  <2> SUFFICES ASSUME t \notin V
               PROVE  FALSE
    OBVIOUS
  <2>1. Upto(R, I, t) = Below(R, I, t)
    BY <1>5 DEF Upto, Below
  <2>2. Cardinality(Upto(R, I, t)) >= k
    BY <1>5
  <2> QED
    BY <1>1, <1>6, <2>1, <2>2
<1>8. Ranked(R, I, k) \in V /\ Cardinality(Below(R, I, Ranked(R, I, k))) < k
      /\ Cardinality(Upto(R, I, Ranked(R, I, k))) >= k
  BY <1>5, <1>6, <1>7 DEF Ranked, Upto, Below
<1> QED
  BY <1>2, <1>8

\* At least half of the rows stay within the budget, and at least half use it up.
LEMMA BudgetFits ==
    ASSUME NEW R, NEW I \in SUBSET DOMAIN R, IsFiniteSet(I), I # {}, I = Reported(R),
           \A i \in I : R[i].tokens \in Nat
    PROVE  /\ Mostly({i \in I : R[i].tokens <= TokenBudget(R)}, I)
           /\ Mostly({i \in I : R[i].tokens >= TokenBudget(R)}, I)
<1> DEFINE n == Cardinality(I)
           t == Ranked(R, I, (n + 1) \div 2)
           u == Ranked(R, I, UpperRank(n))
           b == TokenBudget(R)
           From(x) == {i \in I : R[i].tokens >= x}
<1>1. n \in Nat \ {0}
  BY CountIs
<1>2. (n + 1) \div 2 \in 1..n /\ UpperRank(n) = n \div 2 + 1 /\ UpperRank(n) \in 1..n
  BY <1>1 DEF UpperRank
<1>3. /\ t \in Nat /\ Cardinality(Below(R, I, t)) < (n + 1) \div 2
      /\ Cardinality(Upto(R, I, t)) >= (n + 1) \div 2
  BY <1>2, RankedExists
<1>4. /\ u \in Nat /\ Cardinality(Below(R, I, u)) < n \div 2 + 1
      /\ Cardinality(Upto(R, I, u)) >= n \div 2 + 1
  BY <1>2, RankedExists
<1>5. b = HalfEven(t + u)
  BY DEF TokenBudget
<1>6. ASSUME NEW X \in SUBSET I, NEW Y \in SUBSET I, X \subseteq Y
      PROVE  Cardinality(X) <= Cardinality(Y) /\ Cardinality(X) \in Nat /\ Cardinality(Y) \in Nat
  BY <1>6, FS_Subset, FS_CardinalityType
<1> HIDE DEF t, u, b
<1>7. t <= u
  <2> SUFFICES ASSUME u < t
               PROVE  FALSE
    BY <1>3, <1>4
  <2>1. /\ Upto(R, I, u) \subseteq Below(R, I, t)
        /\ Upto(R, I, u) \in SUBSET I /\ Below(R, I, t) \in SUBSET I
    BY <1>3, <1>4 DEF Upto, Below
  <2> QED
    BY <1>1, <1>3, <1>4, <1>6, <2>1
<1>8. t <= b /\ b <= u /\ b \in Nat
  BY <1>3, <1>4, <1>5, <1>7 DEF HalfEven
<1>9. 2 * Cardinality(Upto(R, I, b)) >= n
  <2>1. /\ Upto(R, I, t) \subseteq Upto(R, I, b)
        /\ Upto(R, I, t) \in SUBSET I /\ Upto(R, I, b) \in SUBSET I
    BY <1>3, <1>8 DEF Upto
  <2> QED
    BY <1>1, <1>3, <1>6, <2>1
<1>10. 2 * Cardinality(From(b)) >= n
  <2>1. From(u) \subseteq From(b) /\ From(u) \in SUBSET I /\ From(b) \in SUBSET I
    BY <1>4, <1>8
  <2>2. Below(R, I, u) \in SUBSET I /\ From(u) = I \ Below(R, I, u)
    BY <1>4 DEF Below
  <2> HIDE DEF From
  <2>3. Cardinality(From(u)) = n - Cardinality(Below(R, I, u))
    <3>1. I \cap Below(R, I, u) = Below(R, I, u)
      BY <2>2
    <3>2. Cardinality(I \ Below(R, I, u)) = Cardinality(I) - Cardinality(I \cap Below(R, I, u))
      BY FS_Difference
    <3> QED
      BY <2>2, <3>1, <3>2
  <2> QED
    BY <1>1, <1>4, <1>6, <2>1, <2>2, <2>3
<1> QED
  BY <1>9, <1>10 DEF Mostly, Upto, b
-----------------------------------------------------------------------------
(* Damage and repair.                                                      *)

LEMMA RepairIsReal ==
    ASSUME NEW R, IsFiniteSet(DOMAIN R), NEW task \in Repaired(R)
    PROVE  \E i \in RowsOf(R, DOMAIN R, task) :
               R[i].passed /\ "right" \notin {R[i].workers[w] : w \in DOMAIN R[i].workers}
<1> DEFINE I == RowsOf(R, DOMAIN R, task)
           K == Known(R, I)
           right == {i \in K : OracleRight(R[i])}
<1> SUFFICES ASSUME \A i \in I : R[i].passed => OracleRight(R[i])
             PROVE  FALSE
  BY DEF OracleRight
<1>1. /\ ~Mostly(right, K) /\ Mostly(PassedAmong(R, I), I)
  BY DEF Repaired, OracleTask, FinalTask
<1>2. PassedAmong(R, I) \subseteq right
  BY DEF PassedAmong, Known, OracleRight
<1>3. /\ IsFiniteSet(I) /\ K \in SUBSET I /\ right \in SUBSET K
  BY FS_Subset DEF RowsOf, Known
<1> HIDE DEF I, K, right
<1>4. /\ IsFiniteSet(K) /\ IsFiniteSet(right)
      /\ Cardinality(K) <= Cardinality(I)
      /\ Cardinality(PassedAmong(R, I)) <= Cardinality(right)
  BY <1>2, <1>3, FS_Subset
<1>5. /\ Cardinality(I) \in Nat /\ Cardinality(K) \in Nat /\ Cardinality(right) \in Nat
      /\ Cardinality(PassedAmong(R, I)) \in Nat
  BY <1>2, <1>3, <1>4, FS_Subset, FS_CardinalityType
<1> QED
  BY <1>1, <1>4, <1>5 DEF Mostly

LEMMA DamageIsReal ==
    ASSUME NEW R, IsFiniteSet(DOMAIN R), NEW task \in Damaged(R),
           Known(R, RowsOf(R, DOMAIN R, task)) = RowsOf(R, DOMAIN R, task)
    PROVE  \E i \in RowsOf(R, DOMAIN R, task) :
               ~R[i].passed /\ "right" \in {R[i].workers[w] : w \in DOMAIN R[i].workers}
<1> DEFINE I == RowsOf(R, DOMAIN R, task)
           right == {i \in I : OracleRight(R[i])}
<1> SUFFICES ASSUME \A i \in I : OracleRight(R[i]) => R[i].passed
             PROVE  FALSE
  BY DEF OracleRight
<1>1. Known(R, I) = I
  OBVIOUS
<1>2. Mostly(right, I) /\ ~Mostly(PassedAmong(R, I), I)
  BY <1>1 DEF Damaged, OracleTask, FinalTask
<1>3. IsFiniteSet(I) /\ PassedAmong(R, I) \in SUBSET I /\ right \subseteq PassedAmong(R, I)
  BY FS_Subset DEF RowsOf, PassedAmong
<1> HIDE DEF I, right
<1>4. /\ IsFiniteSet(PassedAmong(R, I)) /\ IsFiniteSet(right)
      /\ Cardinality(right) <= Cardinality(PassedAmong(R, I))
  BY <1>3, FS_Subset
<1>5. /\ Cardinality(I) \in Nat /\ Cardinality(right) \in Nat
      /\ Cardinality(PassedAmong(R, I)) \in Nat
  BY <1>3, <1>4, FS_CardinalityType
<1> QED
  BY <1>2, <1>4, <1>5 DEF Mostly
-----------------------------------------------------------------------------
(* The runs.                                                               *)

RowType == [case : 1..N, passed : BOOLEAN, tokens : Nat \cup {NoTokens}, exceeded : BOOLEAN,
            workers : Seq({"right", "wrong", "failed"})]

RowsInv == /\ budget \in Budgets
           /\ rows \in Seq(RowType)
           /\ \A i \in DOMAIN rows : rows[i].passed => ~rows[i].exceeded

LEMMA RowIs ==
    ASSUME NEW k \in Nat \ {0}, NEW run \in Runs, NEW b \in Budgets
    PROVE  /\ Row(Case(k), run, b) \in RowType
           /\ Row(Case(k), run, b).passed => ~Row(Case(k), run, b).exceeded
<1>1. run \in Run /\ b \in Budget
  BY RunsAssumption, BudgetsAssumption
<1>2. Case(k) \in 1..N
  BY CasesAssumption DEF Case
<1>3. Exceeded(run, b) \in BOOLEAN
  BY DEF Exceeded
<1>4. run.right \in BOOLEAN /\ run.tokens \in Nat \cup {NoTokens}
      /\ run.workers \in Seq({"right", "wrong", "failed"})
  BY <1>1 DEF Run
<1>5. Passed(run, b) \in BOOLEAN /\ (Passed(run, b) => ~Exceeded(run, b))
  BY DEF Passed
<1> QED
  BY <1>2, <1>3, <1>4, <1>5 DEF Row, RowType

LEMMA RowsInit == NoRows => RowsInv
BY DEF NoRows, RowsInv

LEMMA RowsNext == RowsInv /\ [RunCase]_scoringVars => RowsInv'
<1> SUFFICES ASSUME RowsInv, [RunCase]_scoringVars
             PROVE  RowsInv'
  OBVIOUS
<1>1. CASE UNCHANGED scoringVars
  BY <1>1 DEF scoringVars, RowsInv
<1>2. CASE RunCase
  <2>1. PICK run \in Runs : rows' = Append(rows, Row(Case(Len(rows) + 1), run, budget))
    BY <1>2 DEF RunCase
  <2> DEFINE row == Row(Case(Len(rows) + 1), run, budget)
  <2>2. Len(rows) \in Nat /\ Len(rows) + 1 \in Nat \ {0} /\ rows \in Seq(RowType)
    BY DEF RowsInv
  <2>3. row \in RowType /\ (row.passed => ~row.exceeded)
    BY <2>2, RowIs DEF RowsInv
  <2> HIDE DEF row
  <2>4. rows' = Append(rows, row)
    BY <2>1 DEF row
  <2>5. /\ rows' \in Seq(RowType)
        /\ DOMAIN rows' = 1..(Len(rows) + 1) /\ rows'[Len(rows) + 1] = row
        /\ \A i \in DOMAIN rows : rows'[i] = rows[i]
        /\ DOMAIN rows = 1..Len(rows)
    BY <2>2, <2>3, <2>4
  <2>6. \A i \in DOMAIN rows' : i \in DOMAIN rows \/ i = Len(rows) + 1
    BY <2>2, <2>5
  <2> QED
    BY <1>2, <2>3, <2>5, <2>6 DEF RunCase, RowsInv
<1> QED
  BY <1>1, <1>2

\* Every row is of a case, and none that passed is over budget.
THEOREM RowsInvariant == ScoringSpec => []RowsInv
BY RowsInit, RowsNext, PTL DEF ScoringSpec

LEMMA RowsAreWellFormed ==
    ASSUME RowsInv
    PROVE  WellFormed(rows) /\ \A i \in Reported(rows) : rows[i].tokens \in Nat
<1>1. Len(rows) \in Nat /\ DOMAIN rows = 1..Len(rows)
  BY DEF RowsInv
<1>2. IsFiniteSet(1..Len(rows))
  BY <1>1, FS_Interval
<1>3. \A i \in DOMAIN rows : rows[i] \in RowType
  BY DEF RowsInv
<1>4. \A i \in DOMAIN rows : rows[i].case \in 1..N /\ rows[i].tokens \in Nat \cup {NoTokens}
  BY <1>3 DEF RowType
<1> QED
  BY <1>1, <1>2, <1>4 DEF WellFormed, RowsInv, Reported

\* Leaving out the runs over budget never lowers the accuracy it is compared
\* with (_summarize), for any number of cases, repeats and budgets.
THEOREM FilteredIsNotWorseCorrect == ScoringSpec => []FilteredIsNotWorse
<1>1. RowsInv => FilteredIsNotWorse
  BY RowsAreWellFormed, FilteredNotWorse DEF FilteredIsNotWorse
<1> QED
  BY <1>1, RowsInvariant, PTL

\* Running a task once more with the same outcomes changes no accuracy
\* (_task_scores, _condition_summary).
THEOREM TasksWeighTheSameCorrect == ScoringSpec => []TasksWeighTheSame
<1>1. RowsInv => TasksWeighTheSame
  BY RowsAreWellFormed, WeighTheSame DEF TasksWeighTheSame
<1> QED
  BY <1>1, RowsInvariant, PTL

\* The budget taken from a baseline is its median: of the runs that reported
\* tokens, half stay within it and half use it up (make_budget_manifest.py).
THEOREM BudgetFitsBaselineCorrect == ScoringSpec => []BudgetFitsBaseline
<1>1. RowsInv => BudgetFitsBaseline
  <2> SUFFICES ASSUME RowsInv, Reported(rows) # {}
               PROVE  /\ Mostly({i \in Reported(rows) : rows[i].tokens <= TokenBudget(rows)},
                                Reported(rows))
                      /\ Mostly({i \in Reported(rows) : rows[i].tokens >= TokenBudget(rows)},
                                Reported(rows))
    BY DEF BudgetFitsBaseline
  <2>1. Reported(rows) \in SUBSET DOMAIN rows /\ IsFiniteSet(Reported(rows))
    BY RowsAreWellFormed, FS_Subset DEF Reported, WellFormed
  <2> QED
    BY <2>1, RowsAreWellFormed, BudgetFits
<1> QED
  BY <1>1, RowsInvariant, PTL

\* A repaired task passed in a run in which every worker was wrong, and a damaged
\* one all of whose rows are known did not in a run in which a worker was right
\* (analyze_results.py).
THEOREM DamageAndRepairCorrect == ScoringSpec => []DamageAndRepairAreReal
<1>1. RowsInv => DamageAndRepairAreReal
  BY RowsAreWellFormed, RepairIsReal, DamageIsReal DEF DamageAndRepairAreReal, WellFormed
<1> QED
  BY <1>1, RowsInvariant, PTL
=============================================================================
