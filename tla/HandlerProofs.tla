--------------------------- MODULE HandlerProofs ----------------------------
(***************************************************************************)
(* What one request may lead to, whatever it asks for, whatever backends   *)
(* answer and however many chunks their streams have: workers run once,    *)
(* one side executes tools, usage counts the workers, a client that stays  *)
(* gets an answer to the end, and, as long as every text can be encoded,   *)
(* the client receives what Reply allows.                                  *)
(***************************************************************************)
EXTENDS Handler, TLAPS

\* The steps before the first byte is written.
Early == {"read", "prepare", "direct", "split", "first", "chat", "tools", "propose",
          "resynthesize"}
Ending == R!Documents \cup {"done"}
Calls == {"calls", "proposal"}

Type == /\ req \in Requests
        /\ pc \in Steps
        /\ plan \in Plans \cup {NoPlan}
        /\ workers \in Nat
        /\ todo \in Seq(Kinds)
        /\ seen \subseteq Kinds

EarlyInv == pc \in Early => /\ todo = <<>>
                            /\ last = "nothing"
                            /\ seen = {}
                            /\ ~finished

\* The plan of a stream sends it the right way, and only a prepared synthesis has
\* run the workers before chat() may.
OnceInv == /\ workers <= 1
           /\ pc \in {"read", "prepare", "direct", "split", "chat", "tools"} => workers = 0
           /\ pc = "direct" => plan.pattern = "direct"
           /\ pc = "split" => plan.pattern = "role_split"
           /\ pc = "first" => \/ plan.pattern = "direct" /\ workers = 0 /\ reported = {}
                              \/ plan.pattern = "role_split"
           /\ pc \in Early => heard = {} /\ usage = {}
           /\ pc \in Early \ {"first"} => reported = {}

\* Once the server has executed calls it writes none.
SideInv == executed => /\ pc \in {"resynthesize", "write", "done"}
                       /\ todo \in Seq(Kinds \ Calls)
                       /\ seen \cap Calls = {}

\* The writer's usage gives what all that reported have; it does from the first
\* usage on that reaches the writer, and before that none is written.
NoTokens == reported = {} /\ heard = {} /\ usage = {}
Told == Shared(reported \cup heard) \subseteq usage
Untold == reported # {} /\ ~Told
TellInv == /\ reported # {} /\ usage # {} => "workers" \in counted
           /\ heard # {} \/ usage # {} => Told
UsageInv == /\ TellInv
            /\ Untold => todo \in Seq(Kinds \ {"usage"}) /\ "usage" \notin seen

\* What is left to write ends with a document or with [DONE].
Ends(s) == Len(s) > 0 /\ s[Len(s)] \in Ending
EndInv == ~gone /\ "odd" \notin Texts =>
                   /\ pc \in {"close", "write"} => Ends(todo) \/ (todo = <<>> /\ last \in Ending)
                   /\ pc = "done" => last \in Ending

IInv == Type /\ EarlyInv /\ OnceInv /\ SideInv /\ UsageInv /\ EndInv
-----------------------------------------------------------------------------
(* Sequences of events.                                                    *)

LEMMA WhenIsSeq ==
    ASSUME NEW S, NEW condition, NEW events \in Seq(S)
    PROVE  When(condition, events) \in Seq(S)
<1>1. <<>> \in Seq(S)
  OBVIOUS
<1> QED
  BY <1>1 DEF When

LEMMA JoinIsSeq ==
    ASSUME NEW S, NEW s \in Seq(S), NEW t \in Seq(S)
    PROVE  s \o t \in Seq(S)
OBVIOUS

LEMMA JoinEnds ==
    ASSUME NEW S, NEW s \in Seq(S), NEW t \in Seq(S), Ends(t)
    PROVE  Ends(s \o t)
<1>1. Len(t) \in Nat /\ Len(t) > 0 /\ Len(s) \in Nat
  BY DEF Ends
<1>2. Len(s \o t) = Len(s) + Len(t) /\ (s \o t)[Len(s) + Len(t)] = t[Len(t)]
  BY <1>1
<1> QED
  BY <1>1, <1>2 DEF Ends

\* The kinds of events a buffered stream is made of.
LEMMA BufferedEvents ==
    ASSUME NEW S, {"headers", "failure", "progress", "role", "content", "finish", "done"} \subseteq S,
           NEW text, NEW progress,
           text = "calls" => "calls" \in S,
           req.usage => "usage" \in S
    PROVE  Buffered(text, progress) \in Seq(S) /\ Ends(Buffered(text, progress))
<1> DEFINE a == <<"headers">>
           b == When(progress, <<"progress">>)
           c == <<"role">>
           d == When(text = "calls", <<"calls">>)
           e == When(text = "text", <<"content">>)
           f == <<"finish">>
           g == When(req.usage, <<"usage">>)
           h == <<"done">>
<1>1. a \in Seq(S) /\ c \in Seq(S) /\ f \in Seq(S) /\ h \in Seq(S) /\ <<"failure">> \in Seq(S)
      /\ <<"progress">> \in Seq(S) /\ <<"content">> \in Seq(S) /\ <<>> \in Seq(S)
  OBVIOUS
<1>2. b \in Seq(S) /\ d \in Seq(S) /\ e \in Seq(S) /\ g \in Seq(S)
  BY <1>1 DEF When
<1>3. Ends(h) /\ Ends(<<"failure">>)
  BY DEF Ends, Ending, R!Documents
<1>4. Buffered(text, progress) =
          a \o (IF text = "odd" THEN <<"failure">>
                ELSE b \o c \o d \o e \o f \o g \o h)
  BY DEF Buffered
<1> HIDE DEF a, b, c, d, e, f, g, h
<1>5. b \o c \o d \o e \o f \o g \in Seq(S)
  BY <1>1, <1>2, JoinIsSeq
<1>6. b \o c \o d \o e \o f \o g \o h \in Seq(S) /\ Ends(b \o c \o d \o e \o f \o g \o h)
  BY <1>1, <1>3, <1>5, JoinIsSeq, JoinEnds
<1> QED
  BY <1>1, <1>3, <1>4, <1>6, JoinIsSeq, JoinEnds

\* A response that is delivered as a whole.
LEMMA DeliverWrites ==
    ASSUME NEW S, {"headers", "failure", "progress", "role", "content", "finish", "done",
                   "answer"} \subseteq S,
           NEW text,
           text = "calls" => Calls \subseteq S,
           req.usage => "usage" \in S,
           Deliver(text) \/ Refuse
    PROVE  todo' \in Seq(S) /\ Ends(todo') /\ pc' = "write" /\ finished' = finished
<1>1. CASE Refuse
  BY <1>1 DEF Refuse, Write, Ends, Ending, R!Documents
<1>2. CASE Deliver(text) /\ req.stream
  <2>1. Buffered(text, FALSE) \in Seq(S) /\ Ends(Buffered(text, FALSE))
    BY BufferedEvents DEF Calls
  <2> QED
    BY <1>2, <2>1 DEF Deliver, Write
<1>3. CASE Deliver(text) /\ ~req.stream
  <2>1. Document(text) \in Seq(S) /\ Ends(Document(text))
    BY DEF Document, Ends, Ending, R!Documents, Calls
  <2> QED
    BY <1>3, <2>1 DEF Deliver, Write
<1> QED
  BY <1>1, <1>2, <1>3

\* What a chunk of the backend's stream makes the direct writer write.
LEMMA EmitWrites ==
    ASSUME NEW S, {"content", "finish", "error", "done"} \subseteq S,
           NEW c, NEW before \in Seq(S), Emit(c, before)
    PROVE  /\ todo' \in Seq(S)
           /\ pc' \in {"stream", "close"}
           /\ pc' = "close" => Ends(todo')
<1>1. CASE c.text = "odd"
  <2>1. <<"error", "done">> \in Seq(S) /\ Ends(<<"error", "done">>)
    BY DEF Ends, Ending
  <2> QED
    BY <1>1, <2>1, JoinIsSeq, JoinEnds DEF Emit
<1>2. CASE c.text # "odd"
  <2> DEFINE text == When(c.text = "text", <<"content">>)
             finish == When(c.finish /\ ~finished, <<"finish">>)
  <2>1. text \in Seq(S) /\ finish \in Seq(S)
    <3>1. <<"content">> \in Seq(S) /\ <<"finish">> \in Seq(S)
      OBVIOUS
    <3> QED
      BY <3>1, WhenIsSeq
  <2>2. pc' = "stream" /\ todo' = before \o text \o finish
    BY <1>2 DEF Emit
  <2> HIDE DEF text, finish
  <2> QED
    BY <2>1, <2>2, JoinIsSeq
<1> QED
  BY <1>1, <1>2

LEMMA OpeningIsSeq ==
    ASSUME NEW S, {"headers", "progress", "role"} \subseteq S
    PROVE  Opening \in Seq(S)
<1> DEFINE p == When(req.progress /\ plan.pattern = "role_split", <<"progress">>)
<1>1. p \in Seq(S) /\ <<"headers">> \in Seq(S) /\ <<"role">> \in Seq(S)
  BY WhenIsSeq
<1> HIDE DEF p
<1>2. <<"headers">> \o p \o <<"role">> \in Seq(S)
  BY <1>1, JoinIsSeq
<1> QED
  BY <1>2 DEF Opening, p

LEMMA ClosingIsSeq ==
    ASSUME NEW S, {"finish", "done"} \subseteq S, req.usage => "usage" \in S
    PROVE  Closing \in Seq(S) /\ Ends(Closing)
<1> DEFINE u == When(req.usage, <<"usage">>)
<1>1. /\ u \in Seq(S) /\ <<"done">> \in Seq(S) /\ ClosingFinish \in Seq(S)
      /\ Ends(<<"done">>)
  BY DEF When, ClosingFinish, Ends, Ending
<1> HIDE DEF u
<1>2. ClosingFinish \o u \o <<"done">> \in Seq(S) /\ Ends(ClosingFinish \o u \o <<"done">>)
  BY <1>1, JoinIsSeq, JoinEnds
<1> QED
  BY <1>2 DEF Closing, u
-----------------------------------------------------------------------------
(* The usage that reaches the writer.                                      *)

LEMMA AggregateGivesShared ==
    ASSUME NEW usages, usages # {}
    PROVE  Shared(usages) \subseteq Aggregate(usages)
BY DEF Aggregate

LEMMA NoTokensTell ==
    ASSUME NoTokens, UNCHANGED tokens
    PROVE  TellInv' /\ ~Untold' /\ NoTokens'
BY DEF NoTokens, tokens, TellInv, Untold

\* Once the writer has been told it stays told, and a stream that ends has told it.
LEMMA StreamTells ==
    ASSUME TellInv, UNCHANGED <<plan, reported>>,
           \/ \E c : Chunk(c)
           \/ WorkerUsage \/ StreamEnds \/ StreamBreaks
    PROVE  TellInv' /\ (Untold' => Untold) /\ (StreamEnds => ~Untold')
<1>1. CASE UNCHANGED <<heard, usage, counted>> /\ (StreamEnds => ~OwesUsage)
  <2>1. Shared(reported' \cup heard') = Shared(reported \cup heard)
    BY <1>1
  <2>2. TellInv' /\ (Told' <=> Told)
    BY <1>1, <2>1 DEF TellInv, Told
  <2>3. ~OwesUsage => ~Untold
    <3> SUFFICES ASSUME heard = {}, usage = {}, Aggregate(reported) = {}, reported # {}
                 PROVE  Told
      BY DEF OwesUsage, Untold, TellInv
    <3>1. reported \cup heard = reported
      OBVIOUS
    <3> QED
      BY <3>1, AggregateGivesShared DEF Told
  <2> QED
    BY <1>1, <2>2, <2>3 DEF Untold
<1>2. ASSUME NEW u, heard' = {u}, Hear(Passed(u), WorkersOrNone \cup {"answer"})
      PROVE  TellInv' /\ Told'
  <2>1. Shared(reported \cup {u}) \subseteq Passed(u)
    <3>1. Shared(reported \cup {u}) \subseteq u
      BY DEF Shared
    <3>2. Shared(reported \cup {u}) \subseteq Aggregate(reported \cup {u})
      BY AggregateGivesShared
    <3> QED
      BY <3>1, <3>2 DEF Passed
  <2>2. Passed(u) \subseteq usage'
    BY <1>2 DEF Hear
  <2>3. Told'
    BY <1>2, <2>1, <2>2 DEF Told
  <2> QED
    BY <1>2, <2>3 DEF TellInv, Hear, WorkersOrNone
<1>3. CASE WorkerUsage
  <2>1. /\ heard = {} /\ heard' = {} /\ Aggregate(reported) # {} /\ reported # {}
        /\ usage' = Aggregate(reported) /\ counted' = WorkersOrNone
    BY <1>3 DEF WorkerUsage, OwesUsage, Hear, Aggregate
  <2>2. reported' \cup heard' = reported
    BY <2>1
  <2>3. Told'
    BY <2>1, <2>2, AggregateGivesShared DEF Told
  <2>4. ~StreamEnds
    BY <1>3 DEF StreamEnds, WorkerUsage
  <2> QED
    BY <2>1, <2>3, <2>4 DEF TellInv, WorkersOrNone, Untold
<1>4. CASE ~WorkerUsage
  <2>1. CASE StreamEnds \/ StreamBreaks
    BY <1>1, <2>1 DEF StreamEnds, StreamBreaks
  <2>2. CASE ~StreamEnds /\ \E c : Chunk(c)
    BY <1>1, <1>2, <2>2 DEF Chunk, Untold
  <2> QED
    BY <1>4, <2>1, <2>2
<1> QED
  BY <1>3, <1>4
-----------------------------------------------------------------------------
(* The inductive invariant.                                                *)

LEMMA InitEstablishes == Init => IInv
<1> SUFFICES ASSUME Init
             PROVE  IInv
  OBVIOUS
<1>1. <<>> \in Seq(Kinds)
  OBVIOUS
<1>2. Type
  BY <1>1 DEF Init, Type, Steps
<1> QED
  BY <1>1, <1>2 DEF Init, IInv, EarlyInv, OnceInv, SideInv, UsageInv, TellInv, Untold, EndInv, Early

\* Before the first byte the handler goes from one step to another ...
LEMMA EarlyGoto ==
    ASSUME IInv, pc \in Early, pc' \in Early, UNCHANGED <<req, client, todo, finished, sent>>,
           OnceInv', plan' \in Plans \cup {NoPlan}, workers' \in Nat,
           executed' => pc' = "resynthesize"
    PROVE  IInv'
<1>1. todo = <<>> /\ seen = {}
  BY DEF IInv, EarlyInv
<1>2. heard' = {} /\ usage' = {}
  BY DEF OnceInv
<1>3. Type' /\ EarlyInv' /\ EndInv'
  BY DEF IInv, Type, EarlyInv, EndInv, Early, Steps, sent, client
<1>4. SideInv' /\ UsageInv'
  <2>1. \A S : <<>> \in Seq(S)
    OBVIOUS
  <2> QED
    BY <1>1, <1>2, <2>1 DEF SideInv, UsageInv, TellInv, sent
<1> QED
  BY <1>3, <1>4 DEF IInv

\* ... until a response is formed.
LEMMA EarlyWrites ==
    ASSUME IInv, pc \in Early, pc' = "write", UNCHANGED <<req, client, sent>>,
           plan' \in Plans \cup {NoPlan}, workers' \in 0..1,
           TellInv', ~Untold',
           executed' => todo' \in Seq(Kinds \ Calls),
           todo' \in Seq(Kinds), Ends(todo')
    PROVE  IInv'
<1>1. seen = {} /\ seen' = seen
  BY DEF IInv, EarlyInv, sent
<1>2. Type' /\ EarlyInv' /\ EndInv' /\ OnceInv'
  BY DEF IInv, Type, EarlyInv, EndInv, OnceInv, Early, Steps, sent, client
<1>3. SideInv' /\ UsageInv'
  BY <1>1 DEF SideInv, UsageInv
<1> QED
  BY <1>2, <1>3 DEF IInv

\* An error that cannot be encoded ends the request without a response.
LEMMA EarlyFails ==
    ASSUME IInv, pc \in Early, Fail, ~Refuse, UNCHANGED <<req, client, sent, tokens, executed>>,
           plan' \in Plans \cup {NoPlan}, workers' \in 0..1, NoTokens
    PROVE  IInv'
<1>1. pc' = "done" /\ "odd" \in Texts /\ todo' = <<>> /\ todo = <<>> /\ seen' = {} /\ seen = {}
  BY DEF Fail, Goto, IInv, EarlyInv, sent
<1>2. \A S : <<>> \in Seq(S)
  OBVIOUS
<1>3. Type' /\ EarlyInv' /\ EndInv' /\ OnceInv'
  BY <1>1, <1>2 DEF IInv, Type, EarlyInv, EndInv, OnceInv, Early, Steps
<1>4. SideInv' /\ UsageInv'
  BY <1>1, <1>2, NoTokensTell DEF SideInv, UsageInv
<1> QED
  BY <1>3, <1>4 DEF IInv

LEMMA ReadStep == IInv /\ Read => IInv'
<1> SUFFICES ASSUME IInv, Read
             PROVE  IInv'
  OBVIOUS
<1>1. /\ pc = "read" /\ UNCHANGED <<req, client, made, left, sent>>
      /\ workers = 0 /\ plan \in Plans \cup {NoPlan} /\ NoTokens /\ ~executed
  BY DEF Read, IInv, Type, OnceInv, SideInv, Early, NoTokens
<1>2. CASE Refuse
  <2>1. todo' \in Seq(Kinds) /\ Ends(todo') /\ pc' = "write"
    BY <1>2 DEF Refuse, Write, Kinds, Ends, Ending, R!Documents
  <2> QED
    BY <1>1, <2>1, EarlyWrites, NoTokensTell DEF made, Early
<1>3. CASE pc' \in {"tools", "prepare", "chat"} /\ UNCHANGED <<todo, finished>>
  BY <1>1, <1>3, EarlyGoto, NoTokensTell DEF made, Early, OnceInv, NoTokens
<1> QED
  BY <1>2, <1>3 DEF Read, Goto

LEMMA PrepareStep == IInv /\ Prepare => IInv'
<1> SUFFICES ASSUME IInv, Prepare
             PROVE  IInv'
  OBVIOUS
<1>1. /\ pc = "prepare" /\ UNCHANGED <<req, client, workers, tokens, executed, left, sent>>
      /\ workers = 0 /\ plan \in Plans \cup {NoPlan} /\ NoTokens /\ ~executed
  BY DEF Prepare, IInv, Type, OnceInv, SideInv, Early, NoTokens
<1>2. CASE Goto("chat") /\ UNCHANGED plan
  BY <1>1, <1>2, EarlyGoto, NoTokensTell DEF Early, OnceInv, NoTokens, Goto
<1>3. CASE \E p \in Plans : plan' = p /\ Goto(Route(p.pattern))
  <2>1. PICK p \in Plans : plan' = p /\ Goto(Route(p.pattern))
    BY <1>3
  <2>2. /\ pc' \in {"direct", "split", "chat"} /\ UNCHANGED <<todo, finished>>
        /\ pc' = "direct" => p.pattern = "direct"
        /\ pc' = "split" => p.pattern = "role_split"
    BY <2>1 DEF Goto, Route
  <2> QED
    BY <1>1, <2>1, <2>2, EarlyGoto, NoTokensTell DEF Early, OnceInv, NoTokens
<1> QED
  BY <1>2, <1>3 DEF Prepare

LEMMA PrepareDirectStep == IInv /\ PrepareDirect => IInv'
<1> SUFFICES ASSUME IInv, PrepareDirect
             PROVE  IInv'
  OBVIOUS
<1>1. /\ pc = "direct" /\ UNCHANGED <<req, client, made, left, sent>>
      /\ plan.pattern = "direct"
      /\ workers = 0 /\ plan \in Plans \cup {NoPlan} /\ NoTokens /\ ~executed
  BY DEF PrepareDirect, IInv, Type, OnceInv, SideInv, Early, NoTokens
<1>2. CASE Refuse
  <2>1. todo' \in Seq(Kinds) /\ Ends(todo') /\ pc' = "write"
    BY <1>2 DEF Refuse, Write, Kinds, Ends, Ending, R!Documents
  <2> QED
    BY <1>1, <2>1, EarlyWrites, NoTokensTell DEF made, Early
<1>3. CASE pc' \in {"first", "chat"} /\ UNCHANGED <<todo, finished>>
  BY <1>1, <1>3, EarlyGoto, NoTokensTell DEF made, Early, OnceInv, NoTokens
<1> QED
  BY <1>2, <1>3 DEF PrepareDirect, Goto

LEMMA PrepareSplitStep == IInv /\ PrepareSplit => IInv'
<1> SUFFICES ASSUME IInv, PrepareSplit
             PROVE  IInv'
  OBVIOUS
<1>1. /\ pc = "split" /\ UNCHANGED <<req, client, plan, heard, usage, counted, executed, left, sent>>
      /\ plan.pattern = "role_split"
      /\ workers = 0 /\ plan \in Plans \cup {NoPlan} /\ NoTokens /\ ~executed
  BY DEF PrepareSplit, IInv, Type, OnceInv, SideInv, Early, NoTokens
<1>2. CASE Goto("chat") /\ UNCHANGED <<workers, reported>>
  BY <1>1, <1>2, EarlyGoto DEF Early, OnceInv, NoTokens, Goto
<1>3. CASE workers' = workers + 1 /\ Fail /\ UNCHANGED reported
  <2>1. UNCHANGED tokens
    BY <1>1, <1>3 DEF tokens
  <2>2. CASE Refuse
    <3>1. todo' \in Seq(Kinds) /\ Ends(todo') /\ pc' = "write"
      BY <2>2 DEF Refuse, Write, Kinds, Ends, Ending, R!Documents
    <3> QED
      BY <1>1, <1>3, <2>1, <3>1, EarlyWrites, NoTokensTell DEF Early
  <2>3. CASE ~Refuse
    BY <1>1, <1>3, <2>1, <2>3, EarlyFails DEF Early
  <2> QED
    BY <2>2, <2>3
<1>4. CASE workers' = workers + 1 /\ Goto("first")
  BY <1>1, <1>4, EarlyGoto DEF Early, OnceInv, NoTokens, Goto
<1> QED
  BY <1>2, <1>3, <1>4 DEF PrepareSplit

LEMMA ChatStep == IInv /\ Chat => IInv'
<1> SUFFICES ASSUME IInv, Chat
             PROVE  IInv'
  OBVIOUS
<1>1. /\ pc = "chat" /\ UNCHANGED <<req, client, tokens, executed, left, sent>>
      /\ workers = 0 /\ NoTokens /\ ~executed
  BY DEF Chat, IInv, OnceInv, SideInv, Early, NoTokens
<1>2. plan' \in Plans /\ workers' \in 0..1
  BY <1>1 DEF Chat
<1>3. CASE Refuse \/ \E text \in Texts : Deliver(text)
  <2>1. todo' \in Seq(Kinds) /\ Ends(todo') /\ pc' = "write"
    <3>1. CASE Refuse
      BY <3>1 DEF Refuse, Write, Kinds, Ends, Ending, R!Documents
    <3>2. ASSUME NEW text \in Texts, Deliver(text)
          PROVE  todo' \in Seq(Kinds) /\ Ends(todo') /\ pc' = "write"
      BY <3>2, DeliverWrites DEF Kinds, Calls
    <3> QED
      BY <1>3, <3>1, <3>2
  <2> QED
    BY <1>1, <1>2, <2>1, EarlyWrites, NoTokensTell DEF Early
<1>4. CASE Fail /\ ~Refuse
  BY <1>1, <1>2, <1>4, EarlyFails DEF Early
<1> QED
  BY <1>3, <1>4 DEF Chat

LEMMA ToolsStep == IInv /\ Tools => IInv'
<1> SUFFICES ASSUME IInv, Tools
             PROVE  IInv'
  OBVIOUS
<1>1. /\ pc = "tools" /\ UNCHANGED <<req, client, plan, tokens, executed, left, sent>>
      /\ workers = 0 /\ plan \in Plans \cup {NoPlan} /\ NoTokens /\ ~executed
  BY DEF Tools, IInv, Type, OnceInv, SideInv, Early, NoTokens
<1>2. CASE workers' \in 0..1 /\ Refuse
  <2>1. todo' \in Seq(Kinds) /\ Ends(todo') /\ pc' = "write"
    BY <1>2 DEF Refuse, Write, Kinds, Ends, Ending, R!Documents
  <2> QED
    BY <1>1, <1>2, <2>1, EarlyWrites, NoTokensTell DEF Early
<1>3. CASE Goto("chat") /\ UNCHANGED workers
  BY <1>1, <1>3, EarlyGoto, NoTokensTell DEF Early, OnceInv, NoTokens, Goto
<1>4. CASE Goto("propose") /\ workers' = workers + 1
  BY <1>1, <1>4, EarlyGoto, NoTokensTell DEF Early, OnceInv, NoTokens, Goto
<1>5. CASE workers' = workers + 1 /\ Fail /\ ~Refuse
  BY <1>1, <1>5, EarlyFails DEF Early
<1> QED
  BY <1>1, <1>2, <1>3, <1>4, <1>5 DEF Tools

LEMMA ProposeStep == IInv /\ Propose => IInv'
<1> SUFFICES ASSUME IInv, Propose
             PROVE  IInv'
  OBVIOUS
<1>1. /\ pc = "propose" /\ UNCHANGED <<req, client, plan, workers, tokens, left, sent>>
      /\ workers \in 0..1 /\ plan \in Plans \cup {NoPlan} /\ NoTokens /\ ~executed
  BY DEF Propose, IInv, Type, OnceInv, SideInv, Early, NoTokens
<1>2. CASE executed' = TRUE /\ Goto("resynthesize")
  BY <1>1, <1>2, EarlyGoto, NoTokensTell DEF Early, OnceInv, NoTokens, Goto
<1>3. CASE executed' = executed
  <2>1. todo' \in Seq(Kinds) /\ Ends(todo') /\ pc' = "write"
    <3>1. CASE Refuse
      BY <3>1 DEF Refuse, Write, Kinds, Ends, Ending, R!Documents
    <3>2. ASSUME NEW text, Deliver(text)
          PROVE  todo' \in Seq(Kinds) /\ Ends(todo') /\ pc' = "write"
      BY <3>2, DeliverWrites DEF Kinds, Calls
    <3> QED
      BY <1>1, <1>3, <3>1, <3>2 DEF Propose
  <2> QED
    BY <1>1, <1>3, <2>1, EarlyWrites, NoTokensTell DEF Early
<1> QED
  BY <1>2, <1>3 DEF Propose

LEMMA ResynthesizeStep == IInv /\ Resynthesize => IInv'
<1> SUFFICES ASSUME IInv, Resynthesize
             PROVE  IInv'
  OBVIOUS
<1>1. /\ pc = "resynthesize" /\ UNCHANGED <<req, client, made, left, sent>>
      /\ workers \in 0..1 /\ plan \in Plans \cup {NoPlan} /\ NoTokens
  BY DEF Resynthesize, IInv, Type, OnceInv, Early, NoTokens
<1>2. todo' \in Seq(Kinds \ Calls) /\ Ends(todo') /\ pc' = "write"
  <2>1. CASE Refuse
    BY <2>1 DEF Refuse, Write, Kinds, Calls, Ends, Ending, R!Documents
  <2>2. ASSUME NEW text \in Texts, Deliver(text)
        PROVE  todo' \in Seq(Kinds \ Calls) /\ Ends(todo') /\ pc' = "write"
    <3> DEFINE S == Kinds \ Calls
    <3>1. text # "calls"
      BY TextsAssumption
    <3>2. {"headers", "failure", "progress", "role", "content", "finish", "done", "answer",
           "usage"} \subseteq S
      BY DEF Kinds, Calls
    <3> HIDE DEF S
    <3>3. todo' \in Seq(S) /\ Ends(todo') /\ pc' = "write"
      BY <2>2, <3>1, <3>2, DeliverWrites
    <3> QED
      BY <3>3 DEF S
  <2> QED
    BY <2>1, <2>2 DEF Resynthesize, Resynthesized
<1>3. todo' \in Seq(Kinds)
  BY <1>2
<1> QED
  BY <1>1, <1>2, <1>3, EarlyWrites, NoTokensTell DEF Early, made

LEMMA FirstStep == IInv /\ First => IInv'
<1> SUFFICES ASSUME IInv, First
             PROVE  IInv'
  OBVIOUS
<1>1. /\ pc = "first" /\ UNCHANGED <<req, client, plan, workers, reported, executed, sent>>
      /\ workers \in 0..1 /\ plan \in Plans \cup {NoPlan} /\ ~executed
      /\ heard = {} /\ usage = {} /\ TellInv /\ seen = {}
      /\ \/ plan.pattern = "direct" /\ workers = 0 /\ reported = {}
         \/ plan.pattern = "role_split"
  BY DEF First, IInv, Type, OnceInv, SideInv, UsageInv, EarlyInv, Early
<1>2. ASSUME NEW c, Emit(c, Opening), TellInv'
      PROVE  IInv'
  <2> DEFINE S == Kinds \ {"usage"}
  <2>1. {"headers", "progress", "role", "content", "finish", "error", "done"} \subseteq S
    BY DEF Kinds
  <2>2. S \subseteq Kinds
    OBVIOUS
  <2> HIDE DEF S
  <2>3. /\ todo' \in Seq(S) /\ pc' \in {"stream", "close"}
        /\ pc' = "close" => Ends(todo')
    BY <1>2, <2>1, OpeningIsSeq, EmitWrites
  <2>4. todo' \in Seq(Kinds)
    BY <2>2, <2>3
  <2>5. Type' /\ EarlyInv' /\ OnceInv'
    BY <1>1, <1>2, <2>3, <2>4 DEF IInv, Type, EarlyInv, OnceInv, Early, Steps, sent, client
  <2>6. SideInv' /\ UsageInv' /\ EndInv'
    BY <1>1, <1>2, <2>3 DEF SideInv, UsageInv, EndInv, S, sent
  <2> QED
    BY <2>5, <2>6 DEF IInv
<1>3. ASSUME NEW c \in Chunks, Chunk(c), Emit(c, Opening)
      PROVE  IInv'
  <2>1. TellInv'
    BY <1>1, <1>3, StreamTells
  <2> QED
    BY <1>2, <1>3, <2>1
<1>4. CASE WorkerUsage /\ Emit(UsageOnly, Opening)
  <2>1. TellInv'
    BY <1>1, <1>4, StreamTells
  <2> QED
    BY <1>2, <1>4, <2>1
<1>5. CASE FallBack
  <2>1. PICK text \in Texts : Write(Buffered(text, req.progress))
    BY <1>5 DEF FallBack
  <2>2. /\ usage' = Aggregate(reported) /\ counted' = WorkersOrNone /\ heard' = {}
        /\ reported' = reported /\ reported' \cup heard' = reported
    BY <1>1, <1>5 DEF FallBack
  <2>3. todo' \in Seq(Kinds) /\ Ends(todo') /\ pc' = "write"
    BY <2>1, BufferedEvents DEF Write, Kinds
  <2>4. TellInv' /\ ~Untold'
    <3>1. reported # {} => Told' /\ counted' = {"workers"}
      BY <2>2, AggregateGivesShared DEF Told, WorkersOrNone
    <3>2. reported = {} => usage' = {}
      BY <2>2 DEF Aggregate
    <3> QED
      BY <2>2, <3>1, <3>2 DEF TellInv, Untold
  <2> QED
    BY <1>1, <2>3, <2>4, EarlyWrites DEF Early
<1>6. CASE plan.pattern = "direct" /\ StreamEnds /\ Goto("chat")
  BY <1>1, <1>6, EarlyGoto DEF StreamEnds, Goto, Early, OnceInv
<1>7. CASE plan.pattern = "direct" /\ StreamBreaks /\ Refuse
  <2>1. todo' \in Seq(Kinds) /\ Ends(todo') /\ pc' = "write"
    BY <1>7 DEF Refuse, Write, Kinds, Ends, Ending, R!Documents
  <2> QED
    BY <1>1, <1>7, <2>1, EarlyWrites, NoTokensTell DEF StreamBreaks, Early, NoTokens, tokens
<1> QED
  BY <1>3, <1>4, <1>5, <1>6, <1>7 DEF First

LEMMA StreamStep == IInv /\ Stream => IInv'
<1> SUFFICES ASSUME IInv, Stream
             PROVE  IInv'
  OBVIOUS
<1>1. /\ pc = "stream" /\ todo = <<>>
      /\ UNCHANGED <<req, client, plan, workers, reported, executed, sent>>
      /\ ~executed /\ TellInv
      /\ Untold => "usage" \notin seen
  BY DEF Stream, IInv, SideInv, UsageInv
<1>2. ASSUME todo' \in Seq(Kinds), pc' \in {"stream", "close"}, pc' = "close" => Ends(todo'),
             TellInv', Untold' => Untold /\ todo' \in Seq(Kinds \ {"usage"})
      PROVE  IInv'
  <2>1. Type' /\ EarlyInv' /\ OnceInv'
    BY <1>1, <1>2 DEF IInv, Type, EarlyInv, OnceInv, Early, Steps, sent, client
  <2>2. SideInv' /\ UsageInv' /\ EndInv'
    BY <1>1, <1>2 DEF SideInv, UsageInv, EndInv, sent
  <2> QED
    BY <2>1, <2>2 DEF IInv
<1>3. ASSUME NEW c, Emit(c, <<>>), (\E d : Chunk(d)) \/ WorkerUsage
      PROVE  IInv'
  <2> DEFINE S == Kinds \ {"usage"}
  <2>1. {"content", "finish", "error", "done"} \subseteq S /\ S \subseteq Kinds
    BY DEF Kinds
  <2> HIDE DEF S
  <2>2. <<>> \in Seq(S)
    OBVIOUS
  <2>3. /\ todo' \in Seq(S) /\ pc' \in {"stream", "close"}
        /\ pc' = "close" => Ends(todo')
    BY <1>3, <2>1, <2>2, EmitWrites
  <2>4. todo' \in Seq(Kinds)
    BY <2>1, <2>3
  <2> QED
    BY <1>1, <1>2, <1>3, <2>3, <2>4, StreamTells DEF S
<1>4. CASE \E c \in Chunks : Chunk(c) /\ Emit(c, <<>>)
  BY <1>3, <1>4
<1>5. CASE WorkerUsage /\ Emit(UsageOnly, <<>>)
  BY <1>3, <1>5
<1>6. CASE StreamEnds /\ pc' = "close" /\ todo' = Closing
  <2>1. todo' \in Seq(Kinds) /\ Ends(todo')
    BY <1>6, ClosingIsSeq DEF Kinds
  <2> QED
    BY <1>1, <1>2, <1>6, <2>1, StreamTells
<1>7. CASE StreamBreaks /\ pc' = "close" /\ todo' = <<"error", "done">>
  <2>1. todo' \in Seq(Kinds) /\ Ends(todo') /\ todo' \in Seq(Kinds \ {"usage"})
    BY <1>7 DEF Kinds, Ends, Ending
  <2> QED
    BY <1>1, <1>2, <1>7, <2>1, StreamTells
<1> QED
  BY <1>4, <1>5, <1>6, <1>7 DEF Stream

\* One event is written: it was about to be.
LEMMA WriteEventStep == IInv /\ WriteEvent => IInv'
<1> SUFFICES ASSUME IInv, WriteEvent
             PROVE  IInv'
  OBVIOUS
<1>1. /\ pc \in {"stream", "close", "write"} /\ todo # <<>> /\ ~gone
      /\ last' = Head(todo) /\ seen' = seen \cup {Head(todo)} /\ todo' = Tail(todo)
      /\ UNCHANGED <<req, client, pc, plan, workers, tokens, executed, finished>>
      /\ Untold' = Untold /\ TellInv' = TellInv
  BY DEF WriteEvent, Writing, made, tokens, Untold, Told, TellInv
<1>2. ASSUME NEW S, todo \in Seq(S)
      PROVE  Head(todo) \in S /\ todo' \in Seq(S)
  BY <1>1, <1>2
<1>3. todo \in Seq(Kinds)
  BY DEF IInv, Type
<1>4. Type' /\ EarlyInv' /\ OnceInv'
  BY <1>1, <1>2, <1>3 DEF IInv, Type, EarlyInv, OnceInv, Early, tokens
<1>5. SideInv'
  BY <1>1, <1>2 DEF IInv, SideInv
<1>6. UsageInv'
  BY <1>1, <1>2 DEF IInv, UsageInv
<1>7. EndInv'
  <2>1. ASSUME Ends(todo)
        PROVE  Ends(todo') \/ (todo' = <<>> /\ last' \in Ending)
    <3>1. CASE Len(todo) = 1
      BY <1>1, <1>3, <2>1, <3>1 DEF Ends
    <3>2. CASE Len(todo) # 1
      <4>1. Len(todo) \in Nat /\ Len(todo) > 1
        BY <1>3, <2>1, <3>2 DEF Ends
      <4>2. Len(Tail(todo)) = Len(todo) - 1
        BY <1>3, <4>1
      <4>3. \A i \in 1..(Len(todo) - 1) : Tail(todo)[i] = todo[i + 1]
        BY <1>3, <4>1
      <4>4. Tail(todo)[Len(todo) - 1] = todo[Len(todo)]
        BY <4>1, <4>3
      <4>5. Ends(Tail(todo))
        BY <2>1, <4>1, <4>2, <4>4 DEF Ends
      <4> QED
        BY <1>1, <4>5
    <3> QED
      BY <3>1, <3>2
  <2> QED
    BY <1>1, <2>1 DEF IInv, EndInv, client
<1> QED
  BY <1>4, <1>5, <1>6, <1>7 DEF IInv

\* The client has left: what is written is lost, or raises.
LEMMA WriteFailsStep == IInv /\ (WriteLost \/ WriteRaises) => IInv'
<1> SUFFICES ASSUME IInv, WriteLost \/ WriteRaises
             PROVE  IInv'
  OBVIOUS
<1>1. /\ pc \in {"stream", "close", "write"} /\ todo # <<>> /\ gone /\ pc' \in {pc, "write", "done"}
      /\ todo' \in {Tail(todo), <<"failure">>, <<>>}
      /\ pc' # pc => pc' \in {"write", "done"}
      /\ UNCHANGED <<req, client, plan, workers, tokens, executed, sent>>
      /\ Untold' = Untold /\ TellInv' = TellInv
  BY DEF WriteLost, WriteRaises, Writing, made, tokens, Refuse, Write, Untold, Told, TellInv
<1>2. ASSUME NEW S, todo \in Seq(S), "failure" \in S
      PROVE  todo' \in Seq(S)
  <2>1. /\ Tail(todo) \in Seq(S)
        /\ <<"failure">> \in Seq(S)
        /\ <<>> \in Seq(S)
    BY <1>1, <1>2
  <2> QED
    BY <1>1, <2>1
<1>3. todo' \in Seq(Kinds)
  BY <1>2 DEF IInv, Type, Kinds
<1>4. Type' /\ EarlyInv' /\ OnceInv' /\ EndInv'
  BY <1>1, <1>3 DEF IInv, Type, EarlyInv, OnceInv, EndInv, Early, Steps, sent, client, tokens
<1>5. SideInv'
  <2>1. "failure" \in Kinds \ Calls
    BY DEF Kinds, Calls
  <2> QED
    BY <1>1, <1>2, <2>1 DEF IInv, SideInv, sent
<1>6. UsageInv'
  <2>1. "failure" \in Kinds \ {"usage"}
    BY DEF Kinds
  <2> QED
    BY <1>1, <1>2, <2>1 DEF IInv, UsageInv, sent
<1> QED
  BY <1>4, <1>5, <1>6 DEF IInv

LEMMA NextPreserves == IInv /\ [Next]_vars => IInv'
<1> SUFFICES ASSUME IInv, [Next]_vars
             PROVE  IInv'
  OBVIOUS
<1>1. CASE UNCHANGED vars
  BY <1>1 DEF vars, made, tokens, client, sent, IInv, Type, EarlyInv, OnceInv, SideInv, UsageInv,
              TellInv, Untold, Told, EndInv
<1>2. CASE Finish
  <2>1. /\ pc \in {"close", "write"} /\ pc' = "done" /\ todo = <<>>
        /\ UNCHANGED <<req, client, plan, workers, tokens, executed, todo, last, seen, finished>>
    BY <1>2 DEF Finish, Goto, made, sent
  <2>2. ~Ends(todo)
    BY <2>1 DEF Ends
  <2>3. Type' /\ EarlyInv' /\ OnceInv' /\ SideInv'
    BY <2>1 DEF IInv, Type, EarlyInv, OnceInv, SideInv, Early, Steps, tokens
  <2>4. UsageInv' /\ EndInv'
    BY <2>1, <2>2 DEF IInv, UsageInv, TellInv, Untold, Told, EndInv, tokens, client
  <2> QED
    BY <2>3, <2>4 DEF IInv
<1>3. CASE ClientLeaves \/ ClientStalls
  <2>1. /\ gone' = gone \/ gone'
        /\ UNCHANGED <<req, pc, plan, workers, tokens, executed, todo, last, seen, finished>>
    BY <1>3 DEF ClientLeaves, ClientStalls, made, sent
  <2>2. Type' /\ EarlyInv' /\ OnceInv' /\ SideInv'
    BY <2>1 DEF IInv, Type, EarlyInv, OnceInv, SideInv, tokens
  <2>3. UsageInv' /\ EndInv'
    BY <2>1 DEF IInv, UsageInv, TellInv, Untold, Told, EndInv, tokens
  <2> QED
    BY <2>2, <2>3 DEF IInv
<1> QED
  BY <1>1, <1>2, <1>3, ReadStep, PrepareStep, PrepareDirectStep, PrepareSplitStep, FirstStep,
     StreamStep, ChatStep, ToolsStep, ProposeStep, ResynthesizeStep, WriteEventStep,
     WriteFailsStep
     DEF Next, Serve

\* Where the handler stands, what it still has to write and what it has run and
\* counted agree, for every request and every backend.
THEOREM HandlerInvariant == Spec => []IInv
BY InitEstablishes, NextPreserves, PTL DEF Spec

\* The workers of a request are sent off once, whichever of preparation, fallback,
\* second plan and tool round it goes through.
THEOREM WorkersOnceCorrect == Spec => []WorkersRunOnce
<1>1. IInv => WorkersRunOnce
  BY DEF IInv, OnceInv, WorkersRunOnce
<1> QED
  BY <1>1, HandlerInvariant, PTL

\* Tool calls are executed by the server or handed to the client, never both.
THEOREM OneSideCorrect == Spec => []OneSideExecutes
<1>1. IInv => OneSideExecutes
  BY DEF IInv, SideInv, Calls, OneSideExecutes
<1> QED
  BY <1>1, HandlerInvariant, PTL

\* A usage that was sent counts the workers in each of its fields, and has every
\* field that all who reported usage have reported, whatever backends report.
THEOREM UsageCorrect == Spec => []UsageCountsWorkers
<1>1. IInv => UsageCountsWorkers
  BY DEF IInv, UsageInv, TellInv, Untold, Told, UsageCountsWorkers
<1> QED
  BY <1>1, HandlerInvariant, PTL

\* As long as every text can be encoded, a client that stays gets an answer to the
\* end. (An error text that cannot be encoded leaves it without any response.)
THEOREM AnsweredCorrect == "odd" \notin Texts => (Spec => []AnsweredOrGone)
<1> SUFFICES ASSUME "odd" \notin Texts
             PROVE  Spec => []AnsweredOrGone
  OBVIOUS
<1>1. IInv => AnsweredOrGone
  BY DEF IInv, EndInv, Ending, AnsweredOrGone
<1> QED
  BY <1>1, HandlerInvariant, PTL
-----------------------------------------------------------------------------
(* The handler implements Reply.                                           *)

\* Reply lets b follow a, when a finish reason was received (f) or not.
Follows(a, b, f) == \/ b \in R!Documents \cup {"headers"} /\ a = "nothing"
                    \/ b = "progress" /\ a = "headers"
                    \/ b = "role" /\ a \in {"headers", "progress"}
                    \/ b = "calls" /\ a = "role"
                    \/ b = "content" /\ a \in {"role", "content", "finish"}
                    \/ b = "finish" /\ a \in {"role", "content", "calls"} /\ ~f
                    \/ b = "usage" /\ a \in {"finish", "content"} /\ f
                    \/ b = "error" /\ a \in {"role", "content", "finish"}
                    \/ b = "done" /\ a = "error"
                    \/ b = "done" /\ a \in {"finish", "content", "usage"} /\ f

\* The events s lead from a and f to b and g.
Had(f, s, k) == f \/ \E i \in 1..k : s[i] = "finish"
Leads(a, f, s, b, g) ==
    /\ s \in Seq(Kinds)
    /\ \A k \in 1..Len(s) : Follows(IF k = 1 THEN a ELSE s[k - 1], s[k], Had(f, s, k - 1))
    /\ b = IF Len(s) = 0 THEN a ELSE s[Len(s)]
    /\ g <=> Had(f, s, Len(s))

\* A stream that goes on has come to its answer, and not beyond.
Open(b, f) == b \in {"role", "content", "finish"} /\ (f => b # "role") /\ (~f => b # "finish")

PathInv ==
    ~gone =>
        /\ pc = "stream" => \E b \in Kinds : /\ Leads(last, "finish" \in seen, todo, b, finished)
                                             /\ Open(b, finished)
        /\ pc \in {"close", "write"} =>
               \E b \in Ending, g \in BOOLEAN : Leads(last, "finish" \in seen, todo, b, g)

LEMMA LeadsNowhere ==
    ASSUME NEW a, NEW f \in BOOLEAN
    PROVE  Leads(a, f, <<>>, a, f)
BY DEF Leads, Had

LEMMA LeadsOne ==
    ASSUME NEW a, NEW f \in BOOLEAN, NEW e \in Kinds, Follows(a, e, f)
    PROVE  Leads(a, f, <<e>>, e, f \/ e = "finish")
<1>1. Len(<<e>>) = 1 /\ <<e>>[1] = e /\ <<e>> \in Seq(Kinds)
  OBVIOUS
<1>2. Had(f, <<e>>, 0) <=> f
  BY DEF Had
<1>3. Had(f, <<e>>, 1) <=> (f \/ e = "finish")
  BY <1>1 DEF Had
<1>4. \A k \in 1..1 : k = 1 /\ k - 1 = 0
  OBVIOUS
<1>5. Follows(a, e, Had(f, <<e>>, 0))
  BY <1>2 DEF Follows
<1> DEFINE s == <<e>>
<1>6. /\ s \in Seq(Kinds) /\ Len(s) = 1 /\ s[1] = e /\ Follows(a, s[1], Had(f, s, 0))
      /\ Had(f, s, 1) <=> (f \/ e = "finish")
  BY <1>1, <1>3, <1>5
<1> HIDE DEF s
<1>7. Leads(a, f, s, e, f \/ e = "finish")
  BY <1>4, <1>6 DEF Leads
<1> QED
  BY <1>7 DEF s

LEMMA LeadsOn ==
    ASSUME NEW a, NEW f \in BOOLEAN, NEW s, NEW b, NEW g \in BOOLEAN, NEW t, NEW c, NEW h \in BOOLEAN,
           Leads(a, f, s, b, g), Leads(b, g, t, c, h)
    PROVE  Leads(a, f, s \o t, c, h)
<1> DEFINE m == Len(s)
           n == Len(t)
           u == s \o t
<1>1. /\ s \in Seq(Kinds) /\ t \in Seq(Kinds) /\ m \in Nat /\ n \in Nat
      /\ u \in Seq(Kinds) /\ Len(u) = m + n
      /\ \A k \in 1..m : u[k] = s[k]
      /\ \A k \in 1..n : u[m + k] = t[k]
  BY DEF Leads
<1> HIDE DEF m, n, u
<1>2. \A k \in 0..m : Had(f, u, k) <=> Had(f, s, k)
  BY <1>1 DEF Had
<1>3. g <=> Had(f, s, m)
  BY DEF Leads, m
<1>4. \A k \in 0..n : Had(f, u, m + k) <=> Had(g, t, k)
  <2> TAKE k \in 0..n
  <2>1. ASSUME Had(f, u, m + k)
        PROVE  Had(g, t, k)
    <3>1. CASE f
      BY <1>3, <3>1 DEF Had
    <3>2. CASE \E i \in 1..(m + k) : u[i] = "finish"
      <4>1. PICK i \in 1..(m + k) : u[i] = "finish"
        BY <3>2
      <4>2. CASE i <= m
        BY <1>1, <1>3, <4>1, <4>2 DEF Had
      <4>3. CASE i > m
        <5>1. i - m \in 1..k /\ m + (i - m) = i
          BY <1>1, <4>3
        <5>2. t[i - m] = "finish"
          BY <1>1, <4>1, <5>1
        <5> QED
          BY <5>1, <5>2 DEF Had
      <4> QED
        BY <1>1, <4>2, <4>3
    <3> QED
      BY <2>1, <3>1, <3>2 DEF Had
  <2>2. ASSUME Had(g, t, k)
        PROVE  Had(f, u, m + k)
    <3>1. CASE g
      <4>1. \A i \in 1..m : i \in 1..(m + k)
        BY <1>1
      <4> QED
        BY <1>1, <1>3, <3>1, <4>1 DEF Had
    <3>2. CASE \E i \in 1..k : t[i] = "finish"
      <4>1. PICK i \in 1..k : t[i] = "finish"
        BY <3>2
      <4>2. m + i \in 1..(m + k) /\ u[m + i] = "finish"
        BY <1>1, <4>1
      <4> QED
        BY <4>2 DEF Had
    <3> QED
      BY <2>2, <3>1, <3>2 DEF Had
  <2> QED
    BY <2>1, <2>2
<1>5. b = IF m = 0 THEN a ELSE s[m]
  BY DEF Leads, m
<1>6. ASSUME NEW k \in 1..(m + n)
      PROVE  Follows(IF k = 1 THEN a ELSE u[k - 1], u[k], Had(f, u, k - 1))
  <2>1. CASE k <= m
    <3>1. Follows(IF k = 1 THEN a ELSE s[k - 1], s[k], Had(f, s, k - 1))
      BY <1>1, <2>1 DEF Leads, m
    <3>2. u[k] = s[k] /\ (k # 1 => u[k - 1] = s[k - 1])
      BY <1>1, <2>1
    <3>3. Had(f, u, k - 1) <=> Had(f, s, k - 1)
      BY <1>1, <1>2, <2>1
    <3> QED
      BY <3>1, <3>2, <3>3 DEF Follows
  <2>2. CASE k > m
    <3> DEFINE j == k - m
    <3>1. j \in 1..n /\ k = m + j
      BY <1>1, <2>2
    <3> HIDE DEF j
    <3>2. Follows(IF j = 1 THEN b ELSE t[j - 1], t[j], Had(g, t, j - 1))
      BY <3>1 DEF Leads, n
    <3>3. u[k] = t[j]
      BY <1>1, <3>1
    <3>4. (IF k = 1 THEN a ELSE u[k - 1]) = (IF j = 1 THEN b ELSE t[j - 1])
      <4>1. CASE j = 1
        BY <1>1, <1>5, <3>1, <4>1
      <4>2. CASE j # 1
        <5>1. j - 1 \in 1..n /\ k - 1 = m + (j - 1) /\ k # 1
          BY <1>1, <3>1, <4>2
        <5> QED
          BY <1>1, <4>2, <5>1
      <4> QED
        BY <4>1, <4>2
    <3>5. Had(f, u, k - 1) <=> Had(g, t, j - 1)
      <4>1. j - 1 \in 0..n /\ k - 1 = m + (j - 1)
        BY <1>1, <3>1
      <4> QED
        BY <1>4, <4>1
    <3> QED
      BY <3>2, <3>3, <3>4, <3>5 DEF Follows
  <2> QED
    BY <1>1, <2>1, <2>2
<1>7. c = IF m + n = 0 THEN a ELSE u[m + n]
  <2>1. c = IF n = 0 THEN b ELSE t[n]
    BY DEF Leads, n
  <2> QED
    BY <1>1, <1>5, <2>1
<1>8. h <=> Had(f, u, m + n)
  <2>1. h <=> Had(g, t, n)
    BY DEF Leads, n
  <2>2. n \in 0..n
    BY <1>1
  <2> QED
    BY <1>4, <2>1, <2>2
<1> QED
  BY <1>1, <1>6, <1>7, <1>8 DEF Leads, u

LEMMA LeadsHead ==
    ASSUME NEW a, NEW f \in BOOLEAN, NEW s, NEW b, NEW g \in BOOLEAN,
           Leads(a, f, s, b, g), s # <<>>
    PROVE  /\ Head(s) \in Kinds
           /\ Follows(a, Head(s), f)
           /\ Leads(Head(s), f \/ Head(s) = "finish", Tail(s), b, g)
<1> DEFINE e == Head(s)
           t == Tail(s)
           n == Len(s)
           f2 == f \/ e = "finish"
<1>1. /\ s \in Seq(Kinds) /\ n \in Nat /\ n > 0 /\ e \in Kinds /\ e = s[1]
      /\ t \in Seq(Kinds) /\ Len(t) = n - 1
      /\ \A k \in 1..(n - 1) : t[k] = s[k + 1]
  BY DEF Leads
<1> HIDE DEF e, t, n
<1>2. Follows(a, e, f)
  <2>1. Follows(a, s[1], Had(f, s, 0))
    BY <1>1 DEF Leads, n
  <2>2. Had(f, s, 0) <=> f
    BY DEF Had
  <2> QED
    BY <1>1, <2>1, <2>2 DEF Follows
<1>3. \A k \in 0..(n - 1) : Had(f2, t, k) <=> Had(f, s, k + 1)
  <2> TAKE k \in 0..(n - 1)
  <2>1. ASSUME Had(f, s, k + 1)
        PROVE  Had(f2, t, k)
    <3>1. CASE f
      BY <3>1 DEF Had
    <3>2. CASE \E i \in 1..(k + 1) : s[i] = "finish"
      <4>1. PICK i \in 1..(k + 1) : s[i] = "finish"
        BY <3>2
      <4>2. CASE i = 1
        BY <1>1, <4>1, <4>2 DEF Had
      <4>3. CASE i # 1
        <5>1. i - 1 \in 1..k /\ i - 1 \in 1..(n - 1) /\ (i - 1) + 1 = i
          BY <1>1, <4>3
        <5>2. t[i - 1] = "finish"
          BY <1>1, <4>1, <5>1
        <5> QED
          BY <5>1, <5>2 DEF Had
      <4> QED
        BY <4>2, <4>3
    <3> QED
      BY <2>1, <3>1, <3>2 DEF Had
  <2>2. ASSUME Had(f2, t, k)
        PROVE  Had(f, s, k + 1)
    <3>1. CASE f
      BY <3>1 DEF Had
    <3>2. CASE e = "finish"
      <4>1. 1 \in 1..(k + 1)
        OBVIOUS
      <4> QED
        BY <1>1, <3>2, <4>1 DEF Had
    <3>3. CASE \E i \in 1..k : t[i] = "finish"
      <4>1. PICK i \in 1..k : t[i] = "finish"
        BY <3>3
      <4>2. i + 1 \in 1..(k + 1) /\ s[i + 1] = "finish"
        BY <1>1, <4>1
      <4> QED
        BY <4>2 DEF Had
    <3> QED
      BY <2>2, <3>1, <3>2, <3>3 DEF Had
  <2> QED
    BY <2>1, <2>2
<1> HIDE DEF f2
<1>4. ASSUME NEW k \in 1..(n - 1)
      PROVE  Follows(IF k = 1 THEN e ELSE t[k - 1], t[k], Had(f2, t, k - 1))
  <2>1. Follows(s[k], s[k + 1], Had(f, s, k))
    <3>1. k + 1 \in 1..n /\ k + 1 # 1 /\ (k + 1) - 1 = k
      BY <1>1
    <3> QED
      BY <3>1 DEF Leads, n
  <2>2. t[k] = s[k + 1] /\ (IF k = 1 THEN e ELSE t[k - 1]) = s[k]
    <3>1. CASE k = 1
      BY <1>1, <3>1
    <3>2. CASE k # 1
      <4>1. k - 1 \in 1..(n - 1) /\ (k - 1) + 1 = k
        BY <1>1, <3>2
      <4> QED
        BY <1>1, <3>2, <4>1
    <3> QED
      BY <3>1, <3>2
  <2>3. Had(f2, t, k - 1) <=> Had(f, s, k)
    <3>1. k - 1 \in 0..(n - 1) /\ (k - 1) + 1 = k
      BY <1>1
    <3> QED
      BY <1>3, <3>1
  <2> QED
    BY <2>1, <2>2, <2>3 DEF Follows
<1>5. b = IF n - 1 = 0 THEN e ELSE t[n - 1]
  <2>1. b = s[n]
    BY <1>1 DEF Leads, n
  <2>2. CASE n = 1
    BY <1>1, <2>1, <2>2
  <2>3. CASE n # 1
    <3>1. n - 1 \in 1..(n - 1) /\ (n - 1) + 1 = n
      BY <1>1, <2>3
    <3> QED
      BY <1>1, <2>1, <3>1
  <2> QED
    BY <2>2, <2>3
<1>6. g <=> Had(f2, t, n - 1)
  <2>1. g <=> Had(f, s, n)
    BY DEF Leads, n
  <2>2. n - 1 \in 0..(n - 1) /\ (n - 1) + 1 = n
    BY <1>1
  <2> QED
    BY <1>3, <2>1, <2>2
<1>7. Leads(e, f2, t, b, g)
  BY <1>1, <1>4, <1>5, <1>6 DEF Leads
<1> QED
  BY <1>1, <1>2, <1>7 DEF e, t, f2

LEMMA LeadsWhen ==
    ASSUME NEW a, NEW f \in BOOLEAN, NEW condition \in BOOLEAN, NEW e \in Kinds,
           condition => Follows(a, e, f)
    PROVE  Leads(a, f, When(condition, <<e>>), IF condition THEN e ELSE a,
                 f \/ (condition /\ e = "finish"))
<1>1. CASE condition
  <2>1. When(condition, <<e>>) = <<e>> /\ (IF condition THEN e ELSE a) = e
    BY <1>1 DEF When
  <2>2. Leads(a, f, <<e>>, e, f \/ e = "finish")
    BY <1>1, LeadsOne
  <2> QED
    BY <1>1, <2>1, <2>2 DEF Leads
<1>2. CASE ~condition
  <2>1. When(condition, <<e>>) = <<>> /\ (IF condition THEN e ELSE a) = a
    BY <1>2 DEF When
  <2> QED
    BY <1>2, <2>1, LeadsNowhere DEF Leads
<1> QED
  BY <1>1, <1>2
-----------------------------------------------------------------------------
(* What the handler writes leads to an end, or goes on.                    *)

LEMMA BufferedLeads ==
    ASSUME NEW text, text # "odd", NEW progress \in BOOLEAN, req.usage \in BOOLEAN
    PROVE  Leads("nothing", FALSE, Buffered(text, progress), "done", TRUE)
<1> DEFINE a == <<"headers">>
           b == When(progress, <<"progress">>)
           c == <<"role">>
           d == When(text = "calls", <<"calls">>)
           e == When(text = "text", <<"content">>)
           f == <<"finish">>
           g == When(req.usage, <<"usage">>)
           h == <<"done">>
<1>1. Leads("nothing", FALSE, a, "headers", FALSE)
  BY LeadsOne DEF Follows, Kinds
<1>2. \E x \in {"headers", "progress"} : Leads("headers", FALSE, b, x, FALSE)
  BY LeadsWhen DEF Follows, Kinds
<1>3. \A x \in {"headers", "progress"} : Leads(x, FALSE, c, "role", FALSE)
  BY LeadsOne DEF Follows, Kinds
<1>4. Leads("role", FALSE, d, IF text = "calls" THEN "calls" ELSE "role", FALSE)
  BY LeadsWhen DEF Follows, Kinds
<1>5. \E x \in {"role", "calls", "content"} :
          Leads(IF text = "calls" THEN "calls" ELSE "role", FALSE, e, x, FALSE)
  <2>1. CASE text = "text"
    BY <2>1, LeadsWhen DEF Follows, Kinds
  <2>2. CASE text # "text"
    BY <2>2, LeadsNowhere DEF When
  <2> QED
    BY <2>1, <2>2
<1>6. \A x \in {"role", "calls", "content"} : Leads(x, FALSE, f, "finish", TRUE)
  BY LeadsOne DEF Follows, Kinds
<1>7. \E x \in {"finish", "usage"} : Leads("finish", TRUE, g, x, TRUE)
  BY LeadsWhen DEF Follows, Kinds
<1>8. \A x \in {"finish", "usage"} : Leads(x, TRUE, h, "done", TRUE)
  BY LeadsOne DEF Follows, Kinds
<1>9. Buffered(text, progress) = a \o (b \o c \o d \o e \o f \o g \o h)
  BY DEF Buffered
<1> HIDE DEF a, b, c, d, e, f, g, h
<1>10. Leads("headers", FALSE, b \o c, "role", FALSE)
  BY <1>2, <1>3, LeadsOn
<1>11. Leads("headers", FALSE, b \o c \o d, IF text = "calls" THEN "calls" ELSE "role", FALSE)
  BY <1>4, <1>10, LeadsOn
<1>12. \E x \in {"role", "calls", "content"} : Leads("headers", FALSE, b \o c \o d \o e, x, FALSE)
  BY <1>5, <1>11, LeadsOn
<1>13. Leads("headers", FALSE, b \o c \o d \o e \o f, "finish", TRUE)
  BY <1>6, <1>12, LeadsOn
<1>14. \E x \in {"finish", "usage"} :
           Leads("headers", FALSE, b \o c \o d \o e \o f \o g, x, TRUE)
  BY <1>7, <1>13, LeadsOn
<1>15. Leads("headers", FALSE, b \o c \o d \o e \o f \o g \o h, "done", TRUE)
  BY <1>8, <1>14, LeadsOn
<1> QED
  BY <1>1, <1>9, <1>15, LeadsOn

LEMMA DeliverLeads ==
    ASSUME NEW text, text # "odd", req.usage \in BOOLEAN, Deliver(text) \/ Refuse
    PROVE  \E b \in Ending, g \in BOOLEAN : Leads("nothing", FALSE, todo', b, g)
<1>1. \A e \in R!Documents : Leads("nothing", FALSE, <<e>>, e, FALSE)
  BY LeadsOne DEF Follows, Kinds, R!Documents
<1>2. R!Documents \subseteq Ending /\ "done" \in Ending
  BY DEF Ending
<1>3. CASE Refuse
  <2>1. todo' = <<"failure">> /\ "failure" \in R!Documents
    BY <1>3 DEF Refuse, Write, R!Documents
  <2> QED
    BY <1>1, <1>2, <2>1
<1>4. CASE Deliver(text) /\ req.stream
  <2>1. todo' = Buffered(text, FALSE)
    BY <1>4 DEF Deliver, Write
  <2> QED
    BY <1>2, <2>1, BufferedLeads
<1>5. CASE Deliver(text) /\ ~req.stream
  <2>1. \E e \in R!Documents : todo' = <<e>>
    BY <1>5 DEF Deliver, Write, Document, R!Documents
  <2> QED
    BY <1>1, <1>2, <2>1
<1> QED
  BY <1>3, <1>4, <1>5

LEMMA OpeningLeads ==
    ASSUME req.progress \in BOOLEAN
    PROVE  Leads("nothing", FALSE, Opening, "role", FALSE)
<1> DEFINE p == When(req.progress /\ plan.pattern = "role_split", <<"progress">>)
           a == <<"headers">>
           c == <<"role">>
<1>1. Leads("nothing", FALSE, a, "headers", FALSE)
  BY LeadsOne DEF Follows, Kinds
<1>2. \E x \in {"headers", "progress"} : Leads("headers", FALSE, p, x, FALSE)
  BY LeadsWhen DEF Follows, Kinds
<1>3. \A x \in {"headers", "progress"} : Leads(x, FALSE, c, "role", FALSE)
  BY LeadsOne DEF Follows, Kinds
<1>4. Opening = a \o p \o c
  BY DEF Opening
<1> HIDE DEF a, p, c
<1>5. \E x \in {"headers", "progress"} : Leads("nothing", FALSE, a \o p, x, FALSE)
  BY <1>1, <1>2, LeadsOn
<1>6. Leads("nothing", FALSE, a \o p \o c, "role", FALSE)
  BY <1>3, <1>5, LeadsOn
<1> QED
  BY <1>4, <1>6

LEMMA EmitLeads ==
    ASSUME NEW c, c.text # "odd", c.finish \in BOOLEAN, finished \in BOOLEAN,
           NEW a, NEW f \in BOOLEAN, NEW before, NEW b,
           Leads(a, f, before, b, finished), Open(b, finished), Emit(c, before)
    PROVE  /\ pc' = "stream"
           /\ finished' \in BOOLEAN
           /\ \E x \in Kinds : Leads(a, f, todo', x, finished') /\ Open(x, finished')
<1> DEFINE text == When(c.text = "text", <<"content">>)
           finish == When(c.finish /\ ~finished, <<"finish">>)
           m == IF c.text = "text" THEN "content" ELSE b
           x == IF c.finish /\ ~finished THEN "finish" ELSE m
<1>1. pc' = "stream" /\ todo' = before \o text \o finish /\ finished' = (finished \/ c.finish)
  BY DEF Emit
<1>2. Leads(b, finished, text, m, finished)
  <2>1. Follows(b, "content", finished)
    BY DEF Follows, Open
  <2>2. CASE c.text = "text"
    <3>1. Leads(b, finished, <<"content">>, "content", finished \/ "content" = "finish")
      BY <2>1, LeadsOne DEF Kinds
    <3> QED
      BY <2>2, <3>1 DEF When
  <2>3. CASE c.text # "text"
    BY <2>3, LeadsNowhere DEF When
  <2> QED
    BY <2>2, <2>3
<1>3. m \in {"role", "content", "finish"} /\ (finished => m # "role") /\ (~finished => m # "finish")
  BY DEF Open
<1>4. Leads(m, finished, finish, x, finished')
  <2>1. CASE c.finish /\ ~finished
    <3>1. Leads(m, FALSE, <<"finish">>, "finish", TRUE)
      BY <1>3, <2>1, LeadsOne DEF Follows, Kinds
    <3> QED
      BY <1>1, <2>1, <3>1 DEF When
  <2>2. CASE ~(c.finish /\ ~finished)
    <3>1. finished' = finished
      BY <1>1, <2>2
    <3> QED
      BY <2>2, <3>1, LeadsNowhere DEF When
  <2> QED
    BY <2>1, <2>2
<1>5. Open(x, finished') /\ x \in Kinds
  BY <1>1, <1>3 DEF Open, Kinds
<1>6. finished' \in BOOLEAN
  BY <1>1
<1> HIDE DEF text, finish, m, x
<1>7. Leads(a, f, before \o text, m, finished)
  BY <1>2, LeadsOn
<1>8. Leads(a, f, before \o text \o finish, x, finished')
  BY <1>4, <1>6, <1>7, LeadsOn
<1> QED
  BY <1>1, <1>5, <1>6, <1>8

LEMMA ClosingLeads ==
    ASSUME finished \in BOOLEAN, req.usage \in BOOLEAN, NEW b, Open(b, finished)
    PROVE  Leads(b, finished, Closing, "done", TRUE)
<1> DEFINE u == When(req.usage, <<"usage">>)
           h == <<"done">>
<1>1. \E x \in {"finish", "content"} : Leads(b, finished, ClosingFinish, x, TRUE)
  <2>1. CASE finished
    <3>1. ClosingFinish = <<>> /\ b \in {"finish", "content"} /\ finished = TRUE
      BY <2>1 DEF ClosingFinish, When, Open
    <3> QED
      BY <3>1, LeadsNowhere
  <2>2. CASE ~finished
    <3>1. ClosingFinish = <<"finish">> /\ Follows(b, "finish", finished)
      BY <2>2 DEF ClosingFinish, When, Open, Follows
    <3>2. Leads(b, finished, <<"finish">>, "finish", TRUE)
      BY <2>2, <3>1, LeadsOne DEF Kinds
    <3> QED
      BY <3>1, <3>2
  <2> QED
    BY <2>1, <2>2
<1>2. \A x \in {"finish", "content"} :
          \E y \in {"finish", "content", "usage"} : Leads(x, TRUE, u, y, TRUE)
  <2> TAKE x \in {"finish", "content"}
  <2>1. Leads(x, TRUE, u, IF req.usage THEN "usage" ELSE x, TRUE)
    BY LeadsWhen DEF Follows, Kinds
  <2> QED
    BY <2>1
<1>3. \A y \in {"finish", "content", "usage"} : Leads(y, TRUE, h, "done", TRUE)
  BY LeadsOne DEF Follows, Kinds
<1>4. Closing = ClosingFinish \o u \o h
  BY DEF Closing
<1> HIDE DEF u, h
<1>5. \E y \in {"finish", "content", "usage"} : Leads(b, finished, ClosingFinish \o u, y, TRUE)
  BY <1>1, <1>2, LeadsOn
<1>6. Leads(b, finished, ClosingFinish \o u \o h, "done", TRUE)
  BY <1>3, <1>5, LeadsOn
<1> QED
  BY <1>4, <1>6

LEMMA BreakLeads ==
    ASSUME finished \in BOOLEAN, NEW b, Open(b, finished)
    PROVE  Leads(b, finished, <<"error", "done">>, "done", finished)
<1>1. Leads(b, finished, <<"error">>, "error", finished)
  BY LeadsOne DEF Follows, Open, Kinds
<1>2. Leads("error", finished, <<"done">>, "done", finished)
  BY LeadsOne DEF Follows, Kinds
<1>3. <<"error", "done">> = <<"error">> \o <<"done">>
  OBVIOUS
<1> QED
  BY <1>1, <1>2, <1>3, LeadsOn
-----------------------------------------------------------------------------
Booleans == finished \in BOOLEAN /\ req \in Requests

LEMMA PathInit == Init => PathInv /\ Booleans
BY DEF Init, PathInv, Booleans

LEMMA BooleansKept == Type /\ Booleans /\ [Next]_vars => Booleans'
<1> SUFFICES ASSUME Type, Booleans, [Next]_vars
             PROVE  Booleans'
  OBVIOUS
<1>1. req' = req
  BY DEF Next, Serve, vars, Read, Prepare, PrepareDirect, PrepareSplit, First, Stream, Chat,
         Tools, Propose, Resynthesize, WriteEvent, WriteLost, WriteRaises, Finish, ClientLeaves,
         ClientStalls
<1>2. finished' = finished \/ finished' \in BOOLEAN
  <2>1. ASSUME NEW c, NEW before, Emit(c, before)
        PROVE  finished' = finished \/ finished' \in BOOLEAN
    BY <2>1 DEF Emit
  <2>2. CASE First
    BY <2>1, <2>2 DEF First, FallBack, Write, Goto, Refuse
  <2>3. CASE Stream
    BY <2>1, <2>3 DEF Stream
  <2>4. CASE ~First /\ ~Stream
    BY <2>4 DEF Next, Serve, vars, Read, Prepare, PrepareDirect, PrepareSplit, Chat, Tools,
                Propose, Resynthesize, Resynthesized, WriteEvent, WriteLost, WriteRaises,
                Finish, ClientLeaves, ClientStalls, Deliver, Write, Refuse, Fail, Goto
  <2> QED
    BY <2>2, <2>3, <2>4
<1> QED
  BY <1>1, <1>2 DEF Booleans

\* From an early step the handler forms a response, which leads to an end ...
LEMMA ResponseLeads ==
    ASSUME "odd" \notin Texts, IInv, Booleans, pc \in Early, UNCHANGED <<client, sent>>,
           \/ Refuse
           \/ \E text \in Texts \cup {"calls"} : Deliver(text)
           \/ \E text \in Texts : Write(Buffered(text, req.progress))
    PROVE  PathInv'
<1>1. last = "nothing" /\ seen = {} /\ req.usage \in BOOLEAN /\ req.progress \in BOOLEAN
  BY DEF IInv, EarlyInv, Booleans, Requests
<1>2. pc' = "write" /\ last' = "nothing" /\ ~("finish" \in seen')
  BY <1>1 DEF Refuse, Deliver, Write, sent
<1>3. \E b \in Ending, g \in BOOLEAN : Leads("nothing", FALSE, todo', b, g)
  <2>1. CASE Refuse \/ \E text \in Texts \cup {"calls"} : Deliver(text)
    <3>1. \A text \in Texts \cup {"calls"} : text # "odd"
      OBVIOUS
    <3>2. "text" # "odd"
      OBVIOUS
    <3> QED
      BY <1>1, <2>1, <3>1, <3>2, DeliverLeads
  <2>2. CASE \E text \in Texts : Write(Buffered(text, req.progress))
    <3>1. PICK text \in Texts : todo' = Buffered(text, req.progress)
      BY <2>2 DEF Write
    <3> QED
      BY <1>1, <3>1, BufferedLeads DEF Ending
  <2> QED
    BY <2>1, <2>2
<1>4. ("finish" \in seen') = FALSE
  BY <1>2
<1> QED
  BY <1>2, <1>3, <1>4 DEF PathInv

\* ... or goes to another early step, and nothing is said yet.
LEMMA EarlyLeads ==
    ASSUME pc' \in Early \cup {"done"}
    PROVE  PathInv'
BY DEF PathInv, Early

LEMMA FirstLeads == "odd" \notin Texts /\ IInv /\ Booleans /\ First => PathInv'
<1> SUFFICES ASSUME "odd" \notin Texts, IInv, Booleans, First
             PROVE  PathInv'
  OBVIOUS
<1>1. /\ pc = "first" /\ UNCHANGED <<client, sent>>
      /\ last = "nothing" /\ seen = {} /\ ~finished
      /\ req.progress \in BOOLEAN
  BY DEF First, IInv, EarlyInv, Early, Booleans, Requests
<1>2. ASSUME NEW c, c.text # "odd", c.finish \in BOOLEAN, Emit(c, Opening)
      PROVE  PathInv'
  <2>1. finished = FALSE
    BY <1>1 DEF Booleans
  <2>2. Leads("nothing", FALSE, Opening, "role", finished) /\ Open("role", finished)
    BY <1>1, <2>1, OpeningLeads DEF Open
  <2>3. /\ pc' = "stream"
        /\ \E x \in Kinds : Leads("nothing", FALSE, todo', x, finished') /\ Open(x, finished')
    BY <1>2, <2>1, <2>2, EmitLeads
  <2>4. last' = "nothing" /\ ("finish" \in seen') = FALSE
    BY <1>1 DEF sent
  <2> QED
    BY <2>3, <2>4 DEF PathInv
<1>3. CASE \E c \in Chunks : Chunk(c) /\ Emit(c, Opening)
  <2>1. PICK c \in Chunks : Emit(c, Opening)
    BY <1>3
  <2> QED
    BY <1>2, <2>1 DEF Chunks
<1>4. CASE Emit(UsageOnly, Opening)
  BY <1>2, <1>4 DEF UsageOnly
<1>5. CASE FallBack
  BY <1>1, <1>5, ResponseLeads DEF FallBack, Early
<1>6. CASE Goto("chat")
  BY <1>6, EarlyLeads DEF Goto, Early
<1>7. CASE Refuse
  BY <1>1, <1>7, ResponseLeads DEF Early
<1> QED
  BY <1>3, <1>4, <1>5, <1>6, <1>7 DEF First

LEMMA StreamLeads == "odd" \notin Texts /\ PathInv /\ Booleans /\ Stream => PathInv'
<1> SUFFICES ASSUME "odd" \notin Texts, PathInv, Booleans, Stream, ~gone
             PROVE  PathInv'
  BY DEF PathInv, Stream, client
<1> DEFINE f == "finish" \in seen
<1>1. /\ pc = "stream" /\ todo = <<>> /\ last' = last /\ f' = f /\ f \in BOOLEAN
      /\ finished \in BOOLEAN /\ req.usage \in BOOLEAN
  BY DEF Stream, sent, Booleans, Requests
<1>2. PICK b \in Kinds : Leads(last, f, <<>>, b, finished) /\ Open(b, finished)
  BY <1>1 DEF PathInv
<1> HIDE DEF f
<1>3. ASSUME NEW c, c.text # "odd", c.finish \in BOOLEAN, Emit(c, <<>>)
      PROVE  PathInv'
  <2>1. /\ pc' = "stream"
        /\ \E x \in Kinds : Leads(last, f, todo', x, finished') /\ Open(x, finished')
    BY <1>1, <1>2, <1>3, EmitLeads
  <2> QED
    BY <1>1, <2>1 DEF PathInv, f
<1>4. ASSUME NEW t, NEW g \in BOOLEAN, pc' = "close", todo' = t, Leads(b, finished, t, "done", g)
      PROVE  PathInv'
  <2>1. todo \o t = t
    BY <1>1, <1>4 DEF Leads
  <2> DEFINE s == todo
  <2>2. f \in BOOLEAN /\ finished \in BOOLEAN /\ Leads(last, f, s, b, finished)
    BY <1>1, <1>2
  <2> HIDE DEF s
  <2>3. Leads(last, f, s \o t, "done", g)
    BY <1>4, <2>2, LeadsOn
  <2>4. Leads(last, f, todo \o t, "done", g)
    BY <2>3 DEF s
  <2>5. Leads(last, f, t, "done", g)
    BY <2>1, <2>4
  <2> QED
    BY <1>1, <1>4, <2>5 DEF PathInv, f, Ending
<1>5. CASE \E c \in Chunks : Chunk(c) /\ Emit(c, <<>>)
  <2>1. PICK c \in Chunks : Emit(c, <<>>)
    BY <1>5
  <2> QED
    BY <1>3, <2>1 DEF Chunks
<1>6. CASE Emit(UsageOnly, <<>>)
  BY <1>3, <1>6 DEF UsageOnly
<1>7. CASE pc' = "close" /\ todo' = Closing
  BY <1>1, <1>2, <1>4, <1>7, ClosingLeads
<1>8. CASE pc' = "close" /\ todo' = <<"error", "done">>
  BY <1>1, <1>2, <1>4, <1>8, BreakLeads
<1> QED
  BY <1>5, <1>6, <1>7, <1>8 DEF Stream

\* What is written next is what Reply allows next.
LEMMA WriteLeads ==
    ASSUME Type, PathInv, Booleans, WriteEvent
    PROVE  /\ Follows(last, Head(todo), "finish" \in seen)
           /\ PathInv'
<1> DEFINE f == "finish" \in seen
<1>1. /\ pc \in {"stream", "close", "write"} /\ pc' = pc /\ todo # <<>> /\ ~gone /\ gone' = gone
      /\ last' = Head(todo) /\ todo' = Tail(todo) /\ finished' = finished
      /\ f \in BOOLEAN /\ finished \in BOOLEAN
      /\ f' = (f \/ Head(todo) = "finish")
  BY DEF WriteEvent, Writing, Booleans, client
<1>2. PICK b \in Kinds \cup Ending, g \in BOOLEAN :
          /\ Leads(last, f, todo, b, g)
          /\ pc = "stream" => b \in Kinds /\ g = finished /\ Open(b, g)
          /\ pc \in {"close", "write"} => b \in Ending
  <2>1. CASE pc = "stream"
    <3>1. PICK b \in Kinds : Leads(last, f, todo, b, finished) /\ Open(b, finished)
      BY <1>1, <2>1 DEF PathInv
    <3> QED
      BY <1>1, <2>1, <3>1
  <2>2. CASE pc \in {"close", "write"}
    <3>1. PICK b \in Ending, g \in BOOLEAN : Leads(last, f, todo, b, g)
      BY <1>1, <2>2 DEF PathInv
    <3> QED
      BY <2>2, <3>1
  <2> QED
    BY <1>1, <2>1, <2>2
<1> HIDE DEF f
<1>3. /\ Follows(last, Head(todo), f)
      /\ Leads(Head(todo), f \/ Head(todo) = "finish", Tail(todo), b, g)
  BY <1>1, <1>2, LeadsHead
<1>4. Leads(last', f', todo', b, g)
  BY <1>1, <1>3
<1>5. PathInv'
  <2>1. CASE pc = "stream"
    BY <1>1, <1>2, <1>4, <2>1 DEF PathInv, f
  <2>2. CASE pc \in {"close", "write"}
    BY <1>1, <1>2, <1>4, <2>2 DEF PathInv, f
  <2> QED
    BY <1>1, <2>1, <2>2
<1> QED
  BY <1>3, <1>5 DEF f

LEMMA PathNext == "odd" \notin Texts /\ IInv /\ Booleans /\ PathInv /\ [Next]_vars => PathInv'
<1> SUFFICES ASSUME "odd" \notin Texts, IInv, Booleans, PathInv, [Next]_vars
             PROVE  PathInv'
  OBVIOUS
<1>1. CASE UNCHANGED vars
  BY <1>1 DEF vars, sent, client, PathInv
<1>2. CASE Read \/ PrepareDirect \/ PrepareSplit \/ Chat \/ Tools \/ Propose \/ Resynthesize
  <2>1. pc \in Early /\ UNCHANGED <<client, sent>>
    BY <1>2 DEF Read, PrepareDirect, PrepareSplit, Chat, Tools, Propose, Resynthesize, Early
  <2>2. \/ Refuse
        \/ \E text \in Texts \cup {"calls"} : Deliver(text)
        \/ pc' \in Early
    BY <1>2 DEF Read, PrepareDirect, PrepareSplit, Chat, Tools, Propose, Resynthesize,
                Resynthesized, Fail, Goto, Early
  <2> QED
    BY <2>1, <2>2, ResponseLeads, EarlyLeads
<1>3. CASE Prepare
  BY <1>3, EarlyLeads DEF Prepare, Goto, Route, Early
<1>4. CASE WriteLost \/ WriteRaises \/ ClientLeaves \/ ClientStalls
  BY <1>4 DEF WriteLost, WriteRaises, ClientLeaves, ClientStalls, client, sent, PathInv
<1>5. CASE Finish
  BY <1>5, EarlyLeads DEF Finish, Goto
<1>6. CASE WriteEvent
  BY <1>6, WriteLeads DEF IInv
<1> QED
  BY <1>1, <1>2, <1>3, <1>4, <1>5, <1>6, FirstLeads, StreamLeads DEF Next, Serve

LEMMA InitImplements == Init => R!Init
BY DEF Init, R!Init

LEMMA NextImplements == IInv /\ Booleans /\ PathInv /\ [Next]_vars => [R!Next]_(R!vars)
<1> SUFFICES ASSUME IInv, Booleans, PathInv, [Next]_vars
             PROVE  [R!Next]_(R!vars)
  OBVIOUS
<1>1. CASE WriteEvent
  <2> DEFINE e == Head(todo)
             f == "finish" \in seen
  <2>1. Follows(last, e, f) /\ last' = e /\ ("finish" \in seen') = (f \/ e = "finish")
    BY <1>1, WriteLeads DEF IInv, WriteEvent
  <2> HIDE DEF e
  <2>2. CASE e = "finish"
    BY <2>1, <2>2 DEF Follows, R!Documents, R!Next, R!Finish
  <2>3. CASE e # "finish"
    <3>1. ("finish" \in seen') = f
      BY <2>1, <2>3
    <3> QED
      BY <2>1, <2>3, <3>1
         DEF Follows, R!Documents, R!Next, R!Document, R!Open, R!Progress, R!Role, R!Calls,
             R!Part, R!Usage, R!Error, R!Done, R!Follow
  <2> QED
    BY <2>2, <2>3
<1>2. CASE ~WriteEvent
  <2>1. sent' = sent
    BY <1>2 DEF Next, Serve, vars, Read, Prepare, PrepareDirect, PrepareSplit, First, Stream,
                Chat, Tools, Propose, Resynthesize, WriteLost, WriteRaises, Finish,
                ClientLeaves, ClientStalls
  <2> QED
    BY <2>1 DEF sent, R!vars
<1> QED
  BY <1>1, <1>2

\* Whatever fails, and whenever, and whether the client stays or leaves: as long
\* as every text can be encoded, the client receives what Reply allows, one
\* document or one well-formed stream (do_POST and its two SSE writers).
THEOREM HandlerImplementsReply ==
    ASSUME "odd" \notin Texts
    PROVE  Spec => RefinesReply
<1>1. Init => PathInv /\ Booleans
  BY PathInit
<1>2. IInv /\ PathInv /\ Booleans /\ [Next]_vars => (PathInv /\ Booleans)'
  BY PathNext, BooleansKept DEF IInv
<1>3. Spec => [](PathInv /\ Booleans)
  BY <1>1, <1>2, HandlerInvariant, PTL DEF Spec
<1> QED
  BY <1>3, InitImplements, NextImplements, HandlerInvariant, PTL
     DEF Spec, RefinesReply, R!Spec
-----------------------------------------------------------------------------
(* Progress: the safety half of HandlerEnds. Every step of the handler     *)
(* comes nearer to the end of the request, whatever its backends and its   *)
(* client do; only a client that stalls keeps it from taking a step.       *)

\* How far the handler is from the end, apart from the chunks a backend may still
\* send, the usage that may follow them and the events that are still to be
\* written; replacing those by a failure comes nearer to the end as well.
StageLeft == CASE pc = "done" -> 0 [] pc \in {"close", "write"} -> 1 [] pc = "stream" -> 8
               [] pc \in {"chat", "resynthesize"} -> 19 [] pc = "propose" -> 20
               [] pc = "first" -> 21 [] pc \in {"direct", "split"} -> 22
               [] pc = "prepare" -> 23 [] pc = "tools" -> 24 [] pc = "read" -> 25
UsageLeft == IF usage = {} THEN 1 ELSE 0
EventsLeft == IF todo = <<"failure">> THEN 1 ELSE 2 * Len(todo)
StepsLeft == StageLeft + 5 * left + UsageLeft + EventsLeft

StepsAdvance == /\ Serve => StepsLeft' < StepsLeft
                /\ ClientLeaves \/ ClientStalls => StepsLeft' = StepsLeft

LeftInv == left \in 0..MaxChunks

LEMMA LeftInvariant == Spec => []LeftInv
<1>1. Init => LeftInv
  BY MaxChunksAssumption DEF Init, LeftInv
<1>2. LeftInv /\ [Next]_vars => LeftInv'
  <2> SUFFICES ASSUME LeftInv, [Next]_vars
               PROVE  LeftInv'
    OBVIOUS
  <2>1. CASE First \/ Stream
    <3>1. left' \in {left, 0} \/ (left > 0 /\ left' = left - 1)
      BY <2>1 DEF First, Stream, Chunk, WorkerUsage, StreamEnds, StreamBreaks
    <3> QED
      BY <3>1, MaxChunksAssumption DEF LeftInv
  <2>2. CASE UNCHANGED left
    BY <2>2 DEF LeftInv
  <2> QED
    BY <2>1, <2>2
       DEF Next, Serve, Read, Prepare, PrepareDirect, PrepareSplit, Chat, Tools, Propose,
           Resynthesize, WriteEvent, WriteLost, WriteRaises, Finish, ClientLeaves, ClientStalls,
           vars
<1> QED
  BY <1>1, <1>2, PTL DEF Spec

\* The number of events a step adds.
Short(s, n) == s \in Seq(Kinds) /\ Len(s) <= n

LEMMA ShortJoin ==
    ASSUME NEW n \in Nat, NEW m \in Nat, NEW s, NEW t, Short(s, n), Short(t, m)
    PROVE  Short(s \o t, n + m)
<1>1. s \o t \in Seq(Kinds) /\ Len(s \o t) = Len(s) + Len(t) /\ Len(s) \in Nat /\ Len(t) \in Nat
  BY DEF Short
<1> QED
  BY <1>1 DEF Short

LEMMA ShortWhen == \A condition : \A x \in Kinds : /\ Short(<<x>>, 1)
                                                   /\ Short(When(condition, <<x>>), 1)
<1> SUFFICES ASSUME NEW condition, NEW x \in Kinds
             PROVE  Short(<<x>>, 1) /\ Short(When(condition, <<x>>), 1)
  OBVIOUS
<1>1. <<x>> \in Seq(Kinds) /\ Len(<<x>>) = 1 /\ <<>> \in Seq(Kinds) /\ Len(<<>>) = 0
  OBVIOUS
<1> QED
  BY <1>1 DEF Short, When

LEMMA ShortTwo == Short(<<"error", "done">>, 2) /\ Short(<<>>, 0)
<1>1. /\ <<"error", "done">> \in Seq(Kinds) /\ Len(<<"error", "done">>) = 2
      /\ <<>> \in Seq(Kinds) /\ Len(<<>>) = 0
  BY DEF Kinds
<1> QED
  BY <1>1 DEF Short

LEMMA ShortBuffered == \A text, progress : Short(Buffered(text, progress), 8)
<1> SUFFICES ASSUME NEW text, NEW progress
             PROVE  Short(Buffered(text, progress), 8)
  OBVIOUS
<1> DEFINE b == When(progress, <<"progress">>)
           d == When(text = "calls", <<"calls">>)
           e == When(text = "text", <<"content">>)
           g == When(req.usage, <<"usage">>)
<1>1. /\ Short(<<"headers">>, 1) /\ Short(<<"failure">>, 1) /\ Short(<<"role">>, 1)
      /\ Short(<<"finish">>, 1) /\ Short(<<"done">>, 1)
      /\ Short(b, 1) /\ Short(d, 1) /\ Short(e, 1) /\ Short(g, 1)
  BY ShortWhen DEF Kinds
<1>2. Buffered(text, progress) =
          <<"headers">> \o (IF text = "odd" THEN <<"failure">>
                            ELSE b \o <<"role">> \o d \o e \o <<"finish">> \o g \o <<"done">>)
  BY DEF Buffered
<1> HIDE DEF b, d, e, g
<1>3. Short(b \o <<"role">>, 2)
  BY <1>1, ShortJoin
<1>4. Short(b \o <<"role">> \o d, 3)
  BY <1>1, <1>3, ShortJoin
<1>5. Short(b \o <<"role">> \o d \o e, 4)
  BY <1>1, <1>4, ShortJoin
<1>6. Short(b \o <<"role">> \o d \o e \o <<"finish">>, 5)
  BY <1>1, <1>5, ShortJoin
<1>7. Short(b \o <<"role">> \o d \o e \o <<"finish">> \o g, 6)
  BY <1>1, <1>6, ShortJoin
<1>8. Short(b \o <<"role">> \o d \o e \o <<"finish">> \o g \o <<"done">>, 7)
  BY <1>1, <1>7, ShortJoin
<1>9. Short(<<"headers">> \o (b \o <<"role">> \o d \o e \o <<"finish">> \o g \o <<"done">>), 8)
  BY <1>1, <1>8, ShortJoin
<1>10. Short(<<"headers">> \o <<"failure">>, 2)
  BY <1>1, ShortJoin
<1> QED
  BY <1>2, <1>9, <1>10 DEF Short

LEMMA ShortResponse ==
    ASSUME \/ Refuse
           \/ \E text : Deliver(text)
           \/ \E text, progress : Write(Buffered(text, progress))
    PROVE  Short(todo', 8) /\ pc' = "write"
<1>1. CASE Refuse
  BY <1>1, ShortWhen DEF Refuse, Write, Kinds, Short
<1>2. ASSUME NEW text, Deliver(text), ~req.stream
      PROVE  Short(todo', 8) /\ pc' = "write"
  <2>1. todo' \in {<<"failure">>, <<"proposal">>, <<"answer">>} /\ pc' = "write"
    BY <1>2 DEF Deliver, Document, Write
  <2>2. /\ Short(<<"failure">>, 1) /\ Short(<<"proposal">>, 1) /\ Short(<<"answer">>, 1)
    BY ShortWhen DEF Kinds
  <2>3. Short(todo', 1)
    BY <2>1, <2>2
  <2> QED
    BY <2>1, <2>3 DEF Short
<1>3. ASSUME NEW text, Deliver(text), req.stream
      PROVE  Short(todo', 8) /\ pc' = "write"
  BY <1>3, ShortBuffered DEF Deliver, Write
<1>4. ASSUME NEW text, NEW progress, Write(Buffered(text, progress))
      PROVE  Short(todo', 8) /\ pc' = "write"
  BY <1>4, ShortBuffered DEF Write
<1> QED
  BY <1>1, <1>2, <1>3, <1>4

LEMMA ShortEmit ==
    ASSUME NEW n \in Nat, NEW before, Short(before, n), NEW c, Emit(c, before)
    PROVE  Short(todo', n + 2) /\ pc' \in {"stream", "close"}
<1>1. CASE c.text = "odd"
  BY <1>1, ShortTwo, ShortJoin DEF Emit
<1>2. CASE c.text # "odd"
  <2> DEFINE text == When(c.text = "text", <<"content">>)
             finish == When(c.finish /\ ~finished, <<"finish">>)
  <2>1. Short(text, 1) /\ Short(finish, 1)
    BY ShortWhen DEF Kinds
  <2>2. pc' = "stream" /\ todo' = before \o text \o finish
    BY <1>2 DEF Emit
  <2> HIDE DEF text, finish
  <2>3. Short(before \o text, n + 1)
    BY <2>1, ShortJoin
  <2>4. Short(before \o text \o finish, (n + 1) + 1)
    BY <2>1, <2>3, ShortJoin
  <2> QED
    BY <2>2, <2>4
<1> QED
  BY <1>1, <1>2

LEMMA ShortOpening == Short(Opening, 3)
<1> DEFINE p == When(req.progress /\ plan.pattern = "role_split", <<"progress">>)
<1>1. Short(<<"headers">>, 1) /\ Short(p, 1) /\ Short(<<"role">>, 1)
  BY ShortWhen DEF Kinds
<1> HIDE DEF p
<1>2. Short(<<"headers">> \o p, 2)
  BY <1>1, ShortJoin
<1>3. Short(<<"headers">> \o p \o <<"role">>, 3)
  BY <1>1, <1>2, ShortJoin
<1> QED
  BY <1>3 DEF Opening, p

LEMMA ShortClosing == Short(Closing, 3)
<1> DEFINE u == When(req.usage, <<"usage">>)
<1>1. Short(ClosingFinish, 1) /\ Short(u, 1) /\ Short(<<"done">>, 1)
  BY ShortWhen DEF Kinds, ClosingFinish
<1> HIDE DEF u
<1>2. Short(ClosingFinish \o u, 2)
  BY <1>1, ShortJoin
<1>3. Short(ClosingFinish \o u \o <<"done">>, 3)
  BY <1>1, <1>2, ShortJoin
<1> QED
  BY <1>3 DEF Closing, u

LEMMA ShortLeft ==
    ASSUME NEW n \in Nat \ {0}, Short(todo', n)
    PROVE  EventsLeft' \in Nat /\ EventsLeft' <= 2 * n
<1>1. Len(todo') \in Nat /\ Len(todo') <= n
  BY DEF Short
<1> QED
  BY <1>1 DEF EventsLeft

LEMMA PartsAre ==
    ASSUME Type, LeftInv
    PROVE  /\ StageLeft \in Nat /\ StageLeft <= 25 /\ left \in Nat
           /\ UsageLeft \in Nat /\ UsageLeft <= 1
           /\ EventsLeft \in Nat /\ StepsLeft \in Nat
           /\ StepsLeft = StageLeft + 5 * left + UsageLeft + EventsLeft
<1>1. StageLeft \in Nat /\ StageLeft <= 25
  <2>1. StageLeft \in {0, 1, 8, 19, 20, 21, 22, 23, 24, 25}
    BY DEF Type, Steps, StageLeft
  <2> QED
    BY <2>1
<1>2. Len(todo) \in Nat
  BY DEF Type
<1>3. EventsLeft \in Nat
  BY <1>2 DEF EventsLeft
<1> QED
  BY <1>1, <1>3, MaxChunksAssumption DEF LeftInv, UsageLeft, StepsLeft

\* What the parts of a step add up to, for the kinds of steps below.
LEMMA Sums ==
    ASSUME NEW s \in Nat, NEW l \in Nat, NEW u \in Nat, NEW e \in Nat,
           NEW t \in Nat, NEW m \in Nat, NEW v \in Nat, NEW f \in Nat,
           \/ s = 21 /\ t <= 8 /\ f <= 10 /\ m <= l /\ v <= u
           \/ s = 21 /\ t = 1 /\ f <= 16 /\ m <= l /\ v <= 1
           \/ s = 8 /\ t <= 8 /\ f <= 4 /\ m < l /\ v <= u
           \/ s = 8 /\ t = 1 /\ f <= 6 /\ m <= l /\ v <= u
           \/ t <= s /\ f < e /\ m = l /\ v = u
    PROVE  t + 5 * m + v + f < s + 5 * l + u + e
OBVIOUS

\* The steps before the response, but those that read the backend's stream.
LEMMA EarlyAdvances ==
    ASSUME IInv, LeftInv, IInv', LeftInv',
           Read \/ Prepare \/ PrepareDirect \/ PrepareSplit \/ Chat \/ Tools \/ Propose
                \/ Resynthesize
    PROVE  StepsLeft' < StepsLeft
<1>0. /\ StageLeft' \in Nat /\ StageLeft' <= 25 /\ left' = left /\ usage' = usage
      /\ UsageLeft' = UsageLeft /\ StepsLeft' = StageLeft' + 5 * left + UsageLeft + EventsLeft'
  <2>1. left' = left /\ usage' = usage
    BY DEF Read, Prepare, PrepareDirect, PrepareSplit, Chat, Tools, Propose, Resynthesize, made,
           tokens
  <2>2. StageLeft' \in Nat /\ StageLeft' <= 25
    <3>1. StageLeft' \in {0, 1, 8, 19, 20, 21, 22, 23, 24, 25}
      BY DEF IInv, Type, Steps, StageLeft
    <3> QED
      BY <3>1
  <2> QED
    BY <2>1, <2>2 DEF UsageLeft, StepsLeft
<1>1. StageLeft >= 19 /\ StageLeft \in Nat /\ StageLeft <= 25
  <2>1. pc \in {"read", "prepare", "direct", "split", "chat", "tools", "propose", "resynthesize"}
    BY DEF Read, Prepare, PrepareDirect, PrepareSplit, Chat, Tools, Propose, Resynthesize
  <2>2. StageLeft \in {19, 20, 22, 23, 24, 25}
    BY <2>1 DEF StageLeft
  <2> QED
    BY <2>2
<1>2. CASE \E step : Goto(step)
  <2>1. todo' = todo
    BY <1>2 DEF Goto
  <2>2. EventsLeft' = EventsLeft
    BY <2>1 DEF EventsLeft
  <2>3. StageLeft' < StageLeft
    <3>1. \/ pc' = "write"
          \/ pc = "read" /\ pc' \in {"tools", "prepare", "chat"}
          \/ pc = "prepare" /\ pc' \in {"chat", "direct", "split"}
          \/ pc \in {"direct", "split"} /\ pc' \in {"first", "chat"}
          \/ pc = "tools" /\ pc' \in {"chat", "propose"}
          \/ pc = "propose" /\ pc' = "resynthesize"
          \/ pc' = "done"
      <4>1. \/ Refuse \/ \E text : Deliver(text)
            \/ pc = "read" /\ pc' \in {"tools", "prepare", "chat"}
            \/ pc = "prepare" /\ pc' \in {"chat", "direct", "split"}
            \/ pc \in {"direct", "split"} /\ pc' \in {"first", "chat"}
            \/ pc = "tools" /\ pc' \in {"chat", "propose"}
            \/ pc = "propose" /\ pc' = "resynthesize"
            \/ pc' = "done"
        BY DEF Read, Prepare, PrepareDirect, PrepareSplit, Chat, Tools, Propose, Resynthesize,
               Resynthesized, Fail, Goto, Route
      <4> QED
        BY <4>1, ShortResponse
    <3>2. (pc' = "write" => StageLeft' = 1) /\ (pc' = "done" => StageLeft' = 0)
      BY DEF StageLeft
    <3>3. /\ pc = "read" => StageLeft = 25
          /\ pc = "prepare" => StageLeft = 23
          /\ pc \in {"direct", "split"} => StageLeft = 22
          /\ pc = "tools" => StageLeft = 24
          /\ pc = "propose" => StageLeft = 20
          /\ pc' \in {"chat", "resynthesize"} => StageLeft' = 19
          /\ pc' = "propose" => StageLeft' = 20
          /\ pc' = "first" => StageLeft' = 21
          /\ pc' \in {"direct", "split"} => StageLeft' = 22
          /\ pc' = "prepare" => StageLeft' = 23
          /\ pc' = "tools" => StageLeft' = 24
      BY DEF StageLeft
    <3> QED
      BY <1>1, <3>1, <3>2, <3>3
  <2> QED
    BY <1>0, <1>1, <2>2, <2>3, PartsAre DEF IInv
<1>3. CASE Refuse \/ \E text : Deliver(text)
  <2>1. Short(todo', 8) /\ pc' = "write"
    BY <1>3, ShortResponse
  <2>2. EventsLeft' \in Nat /\ EventsLeft' <= 16 /\ StageLeft' = 1
    BY <2>1, ShortLeft DEF StageLeft
  <2> QED
    BY <1>0, <1>1, <2>2, PartsAre DEF IInv
<1> QED
  BY <1>2, <1>3
     DEF Read, Prepare, PrepareDirect, PrepareSplit, Chat, Tools, Propose, Resynthesize,
         Resynthesized, Fail

\* A chunk, or the workers' usage, is one thing less to come.
LEMMA ChunkAdvances ==
    ASSUME Type, LeftInv
    PROVE  /\ \A c : Chunk(c) => left' = left - 1 /\ left' \in Nat /\ UsageLeft' <= UsageLeft
                                 /\ UsageLeft' \in Nat /\ UsageLeft' <= 1
           /\ WorkerUsage => left' = 0 /\ UsageLeft = 1 /\ UsageLeft' = 0
           /\ StreamEnds \/ StreamBreaks => left' = 0 /\ UsageLeft' = UsageLeft
<1>1. left \in Nat
  BY MaxChunksAssumption DEF LeftInv
<1> QED
  BY <1>1 DEF Chunk, Hear, WorkerUsage, OwesUsage, StreamEnds, StreamBreaks, UsageLeft

LEMMA FirstAdvances ==
    ASSUME IInv, LeftInv, IInv', LeftInv', First
    PROVE  StepsLeft' < StepsLeft
<1>0. /\ StageLeft = 21 /\ left \in Nat /\ UsageLeft \in Nat /\ UsageLeft <= 1 /\ EventsLeft \in Nat
      /\ StepsLeft = StageLeft + 5 * left + UsageLeft + EventsLeft
      /\ left' \in Nat /\ UsageLeft' \in Nat /\ UsageLeft' <= 1
      /\ StepsLeft' = StageLeft' + 5 * left' + UsageLeft' + EventsLeft'
  <2>1. StageLeft = 21
    BY DEF First, StageLeft
  <2>2. left' \in Nat /\ UsageLeft' \in Nat /\ UsageLeft' <= 1
    BY MaxChunksAssumption DEF LeftInv, UsageLeft
  <2> QED
    BY <2>1, <2>2, PartsAre DEF IInv, StepsLeft
<1>1. ASSUME NEW c, Emit(c, Opening), Chunk(c) \/ WorkerUsage
      PROVE  StepsLeft' < StepsLeft
  <2>1. Short(todo', 5) /\ pc' \in {"stream", "close"}
    <3>1. Short(todo', 3 + 2) /\ pc' \in {"stream", "close"}
      BY <1>1, ShortOpening, ShortEmit
    <3> QED
      BY <3>1
  <2>2. EventsLeft' \in Nat /\ EventsLeft' <= 10
    BY <2>1, ShortLeft
  <2>3. StageLeft' \in Nat /\ StageLeft' <= 8
    <3>1. StageLeft' \in {1, 8}
      BY <2>1 DEF StageLeft
    <3> QED
      BY <3>1
  <2>4. left' <= left /\ UsageLeft' <= UsageLeft
    BY <1>0, <1>1, ChunkAdvances DEF IInv
  <2> QED
    BY <1>0, <2>2, <2>3, <2>4, Sums
<1>2. CASE left' = 0 /\ (FallBack \/ Refuse)
  <2>1. Short(todo', 8) /\ pc' = "write"
    BY <1>2, ShortResponse DEF FallBack
  <2>2. EventsLeft' \in Nat /\ EventsLeft' <= 16 /\ StageLeft' = 1
    BY <2>1, ShortLeft DEF StageLeft
  <2>3. left' <= left
    BY <1>0, <1>2
  <2> QED
    BY <1>0, <2>2, <2>3, Sums
<1>3. CASE StreamEnds /\ Goto("chat")
  <2>1. EventsLeft' = EventsLeft /\ StageLeft' = 19
    BY <1>3 DEF Goto, EventsLeft, StageLeft
  <2>2. left' = 0 /\ UsageLeft' = UsageLeft
    BY <1>3, ChunkAdvances DEF IInv
  <2> QED
    BY <1>0, <2>1, <2>2
<1> QED
  BY <1>1, <1>2, <1>3 DEF First, StreamBreaks

LEMMA StreamAdvances ==
    ASSUME IInv, LeftInv, IInv', LeftInv', Stream
    PROVE  StepsLeft' < StepsLeft
<1>0. /\ StageLeft = 8 /\ left \in Nat /\ UsageLeft \in Nat /\ UsageLeft <= 1 /\ EventsLeft = 0
      /\ StepsLeft = StageLeft + 5 * left + UsageLeft + EventsLeft
      /\ left' \in Nat /\ UsageLeft' \in Nat /\ UsageLeft' <= 1
      /\ StepsLeft' = StageLeft' + 5 * left' + UsageLeft' + EventsLeft'
  <2>1. StageLeft = 8
    BY DEF Stream, StageLeft
  <2>2. left' \in Nat /\ UsageLeft' \in Nat /\ UsageLeft' <= 1
    BY MaxChunksAssumption DEF LeftInv, UsageLeft
  <2>3. EventsLeft = 0
    <3>1. todo = <<>> /\ Len(<<>>) = 0 /\ <<>> # <<"failure">>
      BY DEF Stream
    <3> QED
      BY <3>1 DEF EventsLeft
  <2> QED
    BY <2>1, <2>2, <2>3, PartsAre DEF IInv, StepsLeft
<1>1. ASSUME NEW c, Emit(c, <<>>), Chunk(c)
      PROVE  StepsLeft' < StepsLeft
  <2>1. Short(todo', 2) /\ pc' \in {"stream", "close"}
    <3>1. Short(todo', 0 + 2) /\ pc' \in {"stream", "close"}
      BY <1>1, ShortTwo, ShortEmit
    <3> QED
      BY <3>1
  <2>2. EventsLeft' \in Nat /\ EventsLeft' <= 4
    BY <2>1, ShortLeft
  <2>3. StageLeft' \in Nat /\ StageLeft' <= 8
    <3>1. StageLeft' \in {1, 8}
      BY <2>1 DEF StageLeft
    <3> QED
      BY <3>1
  <2>4. left' < left /\ UsageLeft' <= UsageLeft
    BY <1>0, <1>1, ChunkAdvances DEF IInv
  <2> QED
    BY <1>0, <2>2, <2>3, <2>4, Sums
<1>2. CASE WorkerUsage /\ Emit(UsageOnly, <<>>)
  <2>1. pc' = "stream" /\ todo' = <<>>
    BY <1>2 DEF Emit, UsageOnly, When
  <2>2. EventsLeft' = 0 /\ StageLeft' = 8
    <3>1. Len(<<>>) = 0 /\ <<>> # <<"failure">>
      OBVIOUS
    <3> QED
      BY <2>1, <3>1 DEF EventsLeft, StageLeft
  <2>3. left' = 0 /\ UsageLeft = 1 /\ UsageLeft' = 0
    BY <1>2, ChunkAdvances DEF IInv
  <2> QED
    BY <1>0, <2>2, <2>3
<1>3. CASE (StreamEnds \/ StreamBreaks) /\ pc' = "close" /\ todo' \in {Closing, <<"error", "done">>}
  <2>1. Short(todo', 3)
    <3>1. CASE todo' = Closing
      BY <3>1, ShortClosing
    <3>2. CASE todo' = <<"error", "done">>
      <4>1. Short(todo', 2)
        BY <3>2, ShortTwo
      <4> QED
        BY <4>1 DEF Short
    <3> QED
      BY <1>3, <3>1, <3>2
  <2>2. EventsLeft' \in Nat /\ EventsLeft' <= 6 /\ StageLeft' = 1
    BY <1>3, <2>1, ShortLeft DEF StageLeft
  <2>3. left' <= left /\ UsageLeft' <= UsageLeft
    BY <1>0, <1>3, ChunkAdvances DEF IInv
  <2> QED
    BY <1>0, <2>2, <2>3, Sums
<1> QED
  BY <1>1, <1>2, <1>3 DEF Stream

LEMMA WriteAdvances ==
    ASSUME IInv, LeftInv, IInv', LeftInv', WriteEvent \/ WriteLost \/ WriteRaises \/ Finish
    PROVE  StepsLeft' < StepsLeft
<1>0. /\ StageLeft \in Nat /\ left \in Nat /\ UsageLeft \in Nat /\ EventsLeft \in Nat
      /\ StepsLeft = StageLeft + 5 * left + UsageLeft + EventsLeft
      /\ StepsLeft' = StageLeft' + 5 * left + UsageLeft + EventsLeft'
      /\ StageLeft' \in Nat /\ StageLeft' <= 25 /\ EventsLeft' \in Nat
  <2>1. left' = left /\ usage' = usage
    BY DEF WriteEvent, WriteLost, WriteRaises, Finish, made, tokens
  <2>2. StageLeft' \in Nat /\ StageLeft' <= 25 /\ EventsLeft' \in Nat
    <3>1. Len(todo') \in Nat
      BY DEF IInv, Type
    <3> QED
      BY <3>1 DEF IInv, Type, Steps, StageLeft, EventsLeft
  <2> QED
    BY <2>1, <2>2, PartsAre DEF IInv, UsageLeft, StepsLeft
<1>1. todo # <<>> => /\ Len(todo) \in Nat \ {0} /\ Len(Tail(todo)) = Len(todo) - 1
                     /\ EventsLeft \in {1, 2 * Len(todo)}
                     /\ EventsLeft = 1 => todo = <<"failure">>
                     /\ Len(<<"failure">>) = 1 /\ Len(<<>>) = 0
  BY DEF IInv, Type, EventsLeft
<1>2. CASE WriteEvent \/ WriteLost
  <2>1. todo # <<>> /\ todo' = Tail(todo) /\ pc' = pc
    BY <1>2 DEF WriteEvent, WriteLost, Writing
  <2>2. StageLeft' <= StageLeft
    <3>1. StageLeft' = StageLeft
      BY <2>1 DEF StageLeft
    <3> QED
      BY <1>0, <3>1
  <2>3. EventsLeft' < EventsLeft
    <3>1. Len(todo') = Len(todo) - 1
      BY <1>1, <2>1
    <3>2. EventsLeft' = 1 => Len(todo') = 1
      <4>1. todo' = <<"failure">> => Len(todo') = 1
        OBVIOUS
      <4>2. todo' # <<"failure">> => EventsLeft' = 2 * Len(todo')
        BY DEF EventsLeft
      <4> QED
        BY <1>1, <2>1, <3>1, <4>1, <4>2
    <3>3. EventsLeft' \in {1, 2 * Len(todo')}
      BY DEF EventsLeft
    <3>4. todo = <<"failure">> => EventsLeft' = 0
      <4>1. todo = <<"failure">> => todo' = <<>> /\ <<>> # <<"failure">>
        BY <2>1
      <4> QED
        BY <1>1, <2>1, <4>1 DEF EventsLeft
    <3> QED
      BY <1>1, <2>1, <3>1, <3>2, <3>3, <3>4 DEF EventsLeft
  <2> QED
    BY <1>0, <2>2, <2>3, Sums
<1>3. CASE WriteRaises /\ GivesUp
  <2>1. pc' = "done" /\ todo' = <<>> /\ pc \in {"stream", "close", "write"} /\ todo # <<>>
    BY <1>3 DEF WriteRaises, Writing
  <2>2. StageLeft' = 0 /\ StageLeft >= 1
    BY <2>1 DEF StageLeft
  <2>3. EventsLeft' = 0
    <3>1. <<>> # <<"failure">>
      OBVIOUS
    <3> QED
      BY <1>1, <2>1, <3>1 DEF EventsLeft
  <2> QED
    BY <1>0, <2>2, <2>3
<1>4. CASE WriteRaises /\ ~GivesUp
  <2>1. /\ pc' = "write" /\ todo' = <<"failure">> /\ pc \in {"stream", "close", "write"}
        /\ todo # <<>> /\ todo # <<"failure">>
    BY <1>4 DEF WriteRaises, Writing, Refuse, Write, GivesUp
  <2>2. StageLeft' = 1 /\ StageLeft >= 1
    BY <2>1 DEF StageLeft
  <2>3. EventsLeft' = 1 /\ EventsLeft >= 2
    BY <1>1, <2>1 DEF EventsLeft
  <2> QED
    BY <1>0, <2>2, <2>3
<1>5. CASE Finish
  <2>1. pc \in {"close", "write"} /\ pc' = "done" /\ todo' = todo
    BY <1>5 DEF Finish, Goto
  <2>2. StageLeft = 1 /\ StageLeft' = 0
    BY <2>1 DEF StageLeft
  <2>3. EventsLeft' = EventsLeft
    BY <2>1 DEF EventsLeft
  <2> QED
    BY <1>0, <2>2, <2>3
<1> QED
  BY <1>2, <1>3, <1>4, <1>5

\* do_POST comes to an end: it takes a number of steps that only the backend's
\* stream bounds, through every fallback, exception and lost write, whenever the
\* client leaves; none of them is taken back while a client stalls.
THEOREM HandlerAdvancesCorrect ==
    Spec => StepsLeft <= 26 + 5 * MaxChunks /\ [](StepsLeft \in Nat) /\ [][StepsAdvance]_vars
<1>1. Init => StepsLeft <= 26 + 5 * MaxChunks
  <2> SUFFICES ASSUME Init
               PROVE  StepsLeft <= 26 + 5 * MaxChunks
    OBVIOUS
  <2>1. StageLeft = 25 /\ UsageLeft = 1 /\ left = MaxChunks
    BY DEF Init, StageLeft, UsageLeft
  <2>2. EventsLeft = 0
    <3>1. todo = <<>> /\ Len(<<>>) = 0 /\ <<>> # <<"failure">>
      BY DEF Init
    <3> QED
      BY <3>1 DEF EventsLeft
  <2> QED
    BY <2>1, <2>2, MaxChunksAssumption DEF StepsLeft
<1>2. IInv /\ LeftInv => StepsLeft \in Nat
  BY PartsAre DEF IInv
<1>3. IInv /\ LeftInv /\ IInv' /\ LeftInv' /\ [Next]_vars => [StepsAdvance]_vars
  <2> SUFFICES ASSUME IInv, LeftInv, IInv', LeftInv', Serve \/ ClientLeaves \/ ClientStalls
               PROVE  StepsAdvance
    BY DEF Next
  <2>1. Serve => StepsLeft' < StepsLeft
    BY EarlyAdvances, FirstAdvances, StreamAdvances, WriteAdvances DEF Serve
  <2>2. ClientLeaves \/ ClientStalls => StepsLeft' = StepsLeft
    BY DEF ClientLeaves, ClientStalls, made, tokens, StepsLeft, StageLeft, UsageLeft, EventsLeft
  <2> QED
    BY <2>1, <2>2 DEF StepsAdvance
<1> QED
  BY <1>1, <1>2, <1>3, HandlerInvariant, LeftInvariant, PTL DEF Spec
=============================================================================
