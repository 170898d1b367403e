------------------------------ MODULE Handler -------------------------------
(***************************************************************************)
(* One chat completion request from the body that is read to the last      *)
(* byte that is written: do_POST and its two SSE writers (server.py), the  *)
(* preparation of a token stream, the choice of a pattern and the backend  *)
(* tool round (orchestrator.py), while the client may leave, or stop       *)
(* sending and reading, at any moment.                                     *)
(* What chat() does within a pattern is RoleSplit, Ensemble and Pipeline;  *)
(* here it is one step with any answer.                                    *)
(*                                                                         *)
(* A text is "text", "empty", or "odd": not encodable as UTF-8 (a backend's *)
(* JSON may hold a lone surrogate). What is configured but looked at only  *)
(* once (roles, the router's ability to stream, tool_calling.execute) is   *)
(* chosen where the code looks at it. Of a usage (TokenUsage) it is known  *)
(* which of its fields are there, and whose calls they count.              *)
(***************************************************************************)
EXTENDS Naturals, Sequences

CONSTANTS Texts,    \* the texts backends answer with
          Usages,   \* the sets of fields backends report together
          MaxChunks \* bound on the chunks of one backend stream

Fields == {"prompt", "completion", "total"}

\* Without any of the fields there is no usage (_usage_from_openai).
ASSUME UsagesAssumption == Usages \subseteq (SUBSET Fields) \ {{}}
ASSUME TextsAssumption == Texts \subseteq {"text", "empty", "odd"} /\ "text" \in Texts
ASSUME MaxChunksAssumption == MaxChunks \in Nat \ {0}

VARIABLES
    req,      \* what the request asks for; never changes
    gone,     \* the client has closed its connection
    stalled,  \* the client neither sends nor reads
    pc,       \* the step of the handler thread
    plan,     \* the last plan: its pattern, and whether a meta call made it
    workers,  \* waves of workers run for this request, verification retries aside
    reported, \* the fields all reporting workers of a prepared stream gave:
              \* one set of fields, or none if no worker reported usage
    heard,    \* the fields of the last usage of the backend's stream, if any
    usage,    \* the writer's usage: its fields; {} is None
    counted,  \* whose calls it counts
    executed, \* tool calls of the backend were executed
    left,     \* what the backend stream may still be asked for
    finished, \* finish_emitted
    todo,     \* the events that are about to be written
    last,     \* the kind of what the client received last
    seen      \* the kinds of what it received

sent == <<last, seen>>
tokens == <<reported, heard, usage, counted>>
made == <<plan, workers, tokens, executed>>
client == <<gone, stalled>>
vars == <<req, client, pc, made, left, finished, todo, sent>>

Requests == [stream : BOOLEAN,                       \* stream
             tools : {"none", "auto", "required"},   \* tools with their tool_choice;
                                                     \* "none" also without tools
             usage : BOOLEAN, progress : BOOLEAN]    \* stream_options

Patterns == {"direct", "role_split", "parallel_ensemble", "sequential_dag"}
Steps == {"read", "prepare", "direct", "split", "first", "stream", "close",
          "chat", "tools", "propose", "resynthesize", "write", "done"}
Kinds == {"headers", "progress", "role", "content", "calls", "finish", "usage",
          "error", "done", "answer", "proposal", "failure"}
Chunks == [text : Texts, finish : BOOLEAN, usage : Usages \cup {{}}]
Plans == [pattern : Patterns, meta : BOOLEAN]
NoPlan == [pattern |-> "none", meta |-> FALSE]
-----------------------------------------------------------------------------
Init == /\ req \in Requests
        /\ gone = FALSE
        /\ stalled = FALSE
        /\ pc = "read"
        /\ plan = NoPlan
        /\ workers = 0
        /\ reported = {}
        /\ heard = {}
        /\ usage = {}
        /\ counted = {}
        /\ executed = FALSE
        /\ left = MaxChunks
        /\ finished = FALSE
        /\ todo = <<>>
        /\ last = "nothing"
        /\ seen = {}

Goto(step) == pc' = step /\ UNCHANGED <<todo, finished>>

\* The response is formed and written; the except clauses of do_POST.
Write(events) == pc' = "write" /\ todo' = events /\ UNCHANGED finished
Refuse == Write(<<"failure">>)

\* An error that quotes the backends' errors may not be encodable either: then
\* the except clause raises, and the connection is closed without a response.
Fail == Refuse \/ ("odd" \in Texts /\ Goto("done"))

When(condition, events) == IF condition THEN events ELSE <<>>

\* _write_chat_completion_stream: the events are encoded after the headers went
\* out, and an encoding error is a ValueError to do_POST.
Buffered(text, progress) ==
    <<"headers">> \o
    IF text = "odd" THEN <<"failure">>
    ELSE When(progress, <<"progress">>) \o <<"role">>
         \o When(text = "calls", <<"calls">>) \o When(text = "text", <<"content">>)
         \o <<"finish">> \o When(req.usage, <<"usage">>) \o <<"done">>

\* _write_json encodes before it sends anything.
Document(text) == CASE text = "odd" -> <<"failure">>
                    [] text = "calls" -> <<"proposal">>
                    [] OTHER -> <<"answer">>

Deliver(text) == Write(IF req.stream THEN Buffered(text, FALSE) ELSE Document(text))
-----------------------------------------------------------------------------
\* The body is read and validated (413 or 400), its tool calls are executed. The
\* read waits for as long as the client neither sends nor leaves.
Read == /\ pc = "read"
        /\ ~stalled \/ gone
        /\ \/ Refuse
           \/ Goto(IF req.tools # "none" THEN "tools"
                   ELSE IF req.stream THEN "prepare" ELSE "chat")
        /\ UNCHANGED <<req, client, made, left, sent>>

\* Coordinator.plan: rules and heuristics give every plan of a request the same
\* pattern, a meta call (or the default, when it fails) may give it any.
Planned(p) == plan \in {NoPlan, p} \/ (plan.meta /\ p.meta)

Route(pattern) == CASE pattern = "direct" -> "direct"
                    [] pattern = "role_split" -> "split"
                    [] OTHER -> "chat"

\* _prepare_stream: no token stream under a deadline or with verification, or for
\* a pattern that needs all of the answers.
Prepare == /\ pc = "prepare"
           /\ \/ Goto("chat") /\ UNCHANGED plan
              \/ \E p \in Plans :
                    /\ plan' = p
                    /\ Goto(Route(p.pattern))
           /\ UNCHANGED <<req, client, workers, tokens, executed, left, sent>>

\* _prepare_direct_stream: the router streams or it does not.
PrepareDirect == /\ pc = "direct"
                 /\ Goto("first") \/ Goto("chat") \/ Refuse
                 /\ UNCHANGED <<req, client, made, left, sent>>

\* _aggregate_usage: a field is known when every usage has it, the total also
\* when both of its parts are. {} is None.
Shared(usages) == {f \in Fields : \A u \in usages : f \in u}
Aggregate(usages) ==
    IF usages = {} THEN {}
    ELSE Shared(usages) \cup (IF {"prompt", "completion"} \subseteq Shared(usages)
                              THEN {"total"} ELSE {})

\* _prepare_role_split_stream: without a synthesizer that streams nothing runs;
\* otherwise the workers run, and fail together or not. Some report their usage.
Reports == {{}} \cup {{Shared(usages)} : usages \in (SUBSET Usages) \ {{}}}

PrepareSplit == /\ pc = "split"
                /\ \/ Goto("chat") /\ UNCHANGED <<workers, reported>>
                   \/ workers' = workers + 1 /\ Fail /\ UNCHANGED reported
                   \/ workers' = workers + 1 /\ reported' \in Reports /\ Goto("first")
                /\ UNCHANGED <<req, client, plan, heard, usage, counted, executed, left, sent>>

-----------------------------------------------------------------------------
\* The backend's stream, seen through _stream_with_aggregated_usage if it is a
\* synthesis: usage is passed on together with that of the workers, and if none
\* came, that of the workers follows. The writer keeps the last that is not None.
Passed(u) == IF plan.pattern = "role_split" THEN Aggregate(reported \cup {u}) ELSE u

WorkersOrNone == IF reported = {} THEN {} ELSE {"workers"}

Hear(u, counting) == /\ usage' = IF u = {} THEN usage ELSE u
                     /\ counted' = IF u = {} THEN counted ELSE counting

Chunk(c) == /\ left > 0
            /\ c # [text |-> "empty", finish |-> FALSE, usage |-> {}]
            /\ left' = left - 1
            /\ IF c.usage = {} THEN UNCHANGED <<heard, usage, counted>>
               ELSE heard' = {c.usage} /\ Hear(Passed(c.usage), WorkersOrNone \cup {"answer"})

OwesUsageBug == FALSE
OwesUsage == heard = {} /\ usage = {} /\ Aggregate(reported) # {}

WorkerUsage == /\ OwesUsage
               /\ left' = 0
               /\ Hear(Aggregate(reported), WorkersOrNone)
               /\ UNCHANGED heard

StreamEnds == /\ ~OwesUsage
              /\ left' = 0
              /\ UNCHANGED <<heard, usage, counted>>

StreamBreaks == /\ left > 0
                /\ left' = 0
                /\ UNCHANGED <<heard, usage, counted>>

\* The loop body of the direct writer. A text that cannot be encoded is one of
\* the exceptions that end the stream with an error event.
Emit(c, before) ==
    LET text == When(c.text = "text", <<"content">>)
        finish == When(c.finish /\ ~finished, <<"finish">>)
    IN IF c.text = "odd"
       THEN /\ pc' = "close"
            /\ todo' = before \o <<"error", "done">>
            /\ UNCHANGED finished
       ELSE /\ pc' = "stream"
            /\ todo' = before \o text \o finish
            /\ finished' = (finished \/ c.finish)

UsageOnly == [text |-> "empty", finish |-> FALSE, usage |-> Aggregate(reported)]

\* The first chunk is asked for before anything is written. Without one, a
\* synthesis falls back to the merge of the workers, a direct stream to chat()
\* or, after an exception, to an error.
Opening == <<"headers">> \o When(req.progress /\ plan.pattern = "role_split", <<"progress">>)
           \o <<"role">>

FallBackBug == Goto("chat") /\ UNCHANGED <<heard, usage, counted>>
FallBack == /\ \E text \in Texts : Write(Buffered(text, req.progress))
            /\ usage' = Aggregate(reported)
            /\ counted' = WorkersOrNone
            /\ UNCHANGED heard

First == /\ pc = "first"
         /\ \/ \E c \in Chunks : Chunk(c) /\ Emit(c, Opening)
            \/ WorkerUsage /\ Emit(UsageOnly, Opening)
            \/ plan.pattern = "role_split" /\ left' = 0 /\ FallBack
            \/ plan.pattern = "direct" /\ StreamEnds /\ Goto("chat")
            \/ plan.pattern = "direct" /\ StreamBreaks /\ Refuse
         /\ UNCHANGED <<req, client, plan, workers, reported, executed, sent>>

\* ... and every further one when the events of the one before are written.
ClosingFinishBug == <<"finish">>
ClosingFinish == When(~finished, <<"finish">>)
ClosingBug == ClosingFinish \o When(req.usage, <<"usage">>)
Closing == ClosingFinish \o When(req.usage, <<"usage">>) \o <<"done">>

Stream == /\ pc = "stream"
          /\ todo = <<>>
          /\ \/ \E c \in Chunks : Chunk(c) /\ Emit(c, <<>>)
             \/ WorkerUsage /\ Emit(UsageOnly, <<>>)
             \/ StreamEnds /\ pc' = "close" /\ todo' = Closing /\ UNCHANGED finished
             \/ StreamBreaks /\ pc' = "close" /\ todo' = <<"error", "done">>
                             /\ UNCHANGED finished
          /\ UNCHANGED <<req, client, plan, workers, reported, executed, sent>>
-----------------------------------------------------------------------------
\* chat() plans anew, runs the pattern and returns or raises.
Chat == /\ pc = "chat"
        /\ \E p \in Plans :
              /\ Planned(p)
              /\ plan' = p
              /\ workers' = workers + (IF p.pattern = "role_split" THEN 1 ELSE 0)
        /\ Fail \/ \E text \in Texts : Deliver(text)
        /\ UNCHANGED <<req, client, tokens, executed, left, sent>>

\* chat_with_backend_tools: without a synthesizer it is chat() or a refusal.
Tools == /\ pc = "tools"
         /\ \/ /\ IF req.tools = "auto" THEN Goto("chat") ELSE Refuse
               /\ UNCHANGED workers
            \/ /\ workers' = workers + 1
               /\ Fail \/ Goto("propose")
         /\ UNCHANGED <<req, client, plan, tokens, executed, left, sent>>

\* The synthesizer's proposal: text, or tool calls that are handed to the client
\* or, with tool_calling.execute, executed (malformed ones are an error).
Propose == /\ pc = "propose"
           /\ \/ /\ Refuse \/ \E text \in Texts \cup {"calls"} : Deliver(text)
                 /\ UNCHANGED executed
              \/ /\ executed' = TRUE
                 /\ Goto("resynthesize")
           /\ UNCHANGED <<req, client, plan, workers, tokens, left, sent>>

\* The follow-up has the tools' results and no tools; calls are an error then.
ResynthesizedBug == \E text \in Texts \cup {"calls"} : Deliver(text)
Resynthesized == \E text \in Texts : Deliver(text)

Resynthesize == /\ pc = "resynthesize"
                /\ Refuse \/ Resynthesized
                /\ UNCHANGED <<req, client, made, left, sent>>
-----------------------------------------------------------------------------
Writing == pc \in {"stream", "close", "write"} /\ todo # <<>>

\* One write to the socket arrives, when the client reads (there is no time-out) ...
WriteEvent == /\ Writing
              /\ ~gone /\ ~stalled
              /\ last' = Head(todo)
              /\ seen' = seen \cup {Head(todo)}
              /\ todo' = Tail(todo)
              /\ UNCHANGED <<req, client, pc, made, left, finished>>

\* ... or is lost without a trace, or raises. The direct writer gives up once the
\* headers are out; otherwise do_POST tries to answer 500, and no more after that.
WriteLost == /\ Writing
             /\ gone
             /\ todo' = Tail(todo)
             /\ UNCHANGED <<req, client, pc, made, left, finished, sent>>

GivesUp == todo = <<"failure">> \/ (pc # "write" /\ Head(todo) # "headers")

WriteRaisesBug == /\ Writing
                  /\ gone
                  /\ todo' = <<"error", "done">>
                  /\ UNCHANGED <<req, client, pc, made, left, finished, sent>>
WriteRaises == /\ Writing
               /\ gone
               /\ IF GivesUp
                  THEN pc' = "done" /\ todo' = <<>> /\ UNCHANGED finished
                  ELSE Refuse
               /\ UNCHANGED <<req, client, made, left, sent>>

Finish == /\ pc \in {"close", "write"}
          /\ todo = <<>>
          /\ Goto("done")
          /\ UNCHANGED <<req, client, made, left, sent>>

ClientLeaves == /\ ~gone
                /\ pc # "done"
                /\ gone' = TRUE
                /\ UNCHANGED <<req, stalled, pc, made, left, finished, todo, sent>>

\* The client stays but stops sending and reading, and may go on later.
ClientStalls == /\ ~gone
                /\ pc # "done"
                /\ stalled' = ~stalled
                /\ UNCHANGED <<req, gone, pc, made, left, finished, todo, sent>>

Serve == \/ Read \/ Prepare \/ PrepareDirect \/ PrepareSplit \/ First \/ Stream
         \/ Chat \/ Tools \/ Propose \/ Resynthesize
         \/ WriteEvent \/ WriteLost \/ WriteRaises \/ Finish

Next == Serve \/ ClientLeaves \/ ClientStalls

Spec == Init /\ [][Next]_vars

\* The handler thread runs on unless its client stalls: every backend call and
\* every read of a backend's stream has a timeout, and writing to a client that
\* left does not block. The socket to the client has no timeout, so nothing ends
\* the wait for one that stays, and of the client nothing is assumed.
FairSpec == Spec /\ WF_vars(Serve)
-----------------------------------------------------------------------------
\* Whatever fails, and whenever, the client receives a document or a well-formed
\* stream, and never a second response after the beginning of a first.
R == INSTANCE Reply WITH finished <- "finish" \in seen
RefinesReply == R!Spec

\* A client that stays gets an answer to the end, whichever writer, fallback or
\* except clause gives it.
AnsweredOrGone == pc = "done" /\ ~gone => last \in R!Documents \cup {"done"}

\* Design notes, streaming: the fallback works "without rerunning workers"; and
\* neither the second plan nor the tool round sends them off again.
WorkersRunOnce == workers <= 1

\* A client is never handed tool calls to execute when the server has executed
\* calls for the same request: at most one side acts, and in one round only.
OneSideExecutes == executed => seen \cap {"calls", "proposal"} = {}

\* The usage chunk of a streamed synthesis, or of its fallback, counts the workers
\* in every field it gives, and gives every field that all of the workers that
\* reported, and the synthesizer if it did, have reported.
UsageCountsWorkers ==
    "usage" \in seen /\ reported # {} =>
        /\ usage # {} => "workers" \in counted
        /\ Shared(reported \cup heard) \subseteq usage

\* Every request comes to an end unless its client stalls for ever, also if the
\* client leaves in the middle.
HandlerEnds == <>[](~stalled \/ gone) => <>(pc = "done")

\* Design notes, streaming, risks: "errors after headers cannot be returned as
\* normal JSON", nor are they: after the headers only events are written.
NoDocumentAfterHeaders == "headers" \in seen => seen \cap R!Documents = {}
=============================================================================
