--------------------------- MODULE AdapterProofs ----------------------------
(***************************************************************************)
(* Every stream of an adapter arrives, and every adapter keeps the         *)
(* promises of Backend, however many lines the server sends and however    *)
(* many pieces echo cuts its answer into.                                  *)
(***************************************************************************)
EXTENDS Adapter, TLAPS

\* Until the response is open nothing was heard or given: only then may a
\* connection error leave the adapter.
FreshInv == pc \in {"new", "post", "start", "open", "answered"} =>
                /\ ~saw
                /\ ~last
                /\ \A w \in Words : heard[w] = 0 /\ given[w] = 0

\* saw_finish is what it says.
SawInv == kind # "echo" => (saw <=> \E w \in Reasons : heard[w] > 0)

\* The chunk that ends a generator has a reason to finish, and no line is read
\* after it; Ollama's done line is such a chunk.
LastInv == /\ pc = "lines" => ~last
           /\ pc = "tail" => last
           /\ last => given["stop"] > 0
           /\ kind = "ollama" /\ saw => last

IInv == TypeOK /\ FreshInv /\ SawInv /\ LastInv /\ EverythingArrives
-----------------------------------------------------------------------------
\* Counting the words of one line or chunk adds one to each of them.
LEMMA CountAdds ==
    ASSUME NEW counts \in [Words -> Nat], NEW says \in SUBSET Words
    PROVE  /\ Count(counts, says) \in [Words -> Nat]
           /\ \A w \in says : Count(counts, says)[w] = counts[w] + 1
           /\ \A w \in Words \ says : Count(counts, says)[w] = counts[w]
BY DEF Count

LEMMA InitEstablishes == Init => IInv
<1> SUFFICES ASSUME Init
             PROVE  IInv
  OBVIOUS
<1>1. /\ heard \in [Words -> Nat] /\ given \in [Words -> Nat]
      /\ \A w \in Words : heard[w] = 0 /\ given[w] = 0
  BY DEF Init
<1>2. ~ \E w \in Reasons : heard[w] > 0
  BY <1>1 DEF Words, Reasons
<1>3. 0 \in 0..MaxLines
  BY LinesAssumption
<1>4. TypeOK
  BY <1>1, <1>3 DEF Init, TypeOK, Steps, Errors
<1>5. ~saw /\ ~last /\ pc = "new"
  BY DEF Init
<1> QED
  BY <1>1, <1>2, <1>4, <1>5 DEF IInv, FreshInv, SawInv, LastInv, EverythingArrives

\* A step of chat() or of the generator that hears and gives nothing.
LEMMA SilentStep ==
    ASSUME IInv,
           \/ Chat \/ ChatFails \/ Stream \/ Ask \/ Return \/ Close \/ Open
           \/ IgnoreLine \/ BadLine \/ BreakOff
           \/ \E says \in SUBSET {"text", "calls"} : Answer(says)
    PROVE  IInv'
<1> USE DEF IInv, TypeOK, FreshInv, SawInv, LastInv, EverythingArrives, Goto, Raise,
            Receive, Steps, Errors
<1>1. CASE Chat \/ Stream
  BY <1>1 DEF Chat, Stream
<1>2. CASE ChatFails
  BY <1>2 DEF ChatFails
<1>3. CASE Ask
  BY <1>3 DEF Ask
<1>4. CASE Return
  BY <1>4 DEF Return
<1>5. CASE Close
  BY <1>5 DEF Close
<1>6. CASE Open
  BY <1>6 DEF Open, Words, Reasons
<1>7. CASE IgnoreLine
  BY <1>7, LinesAssumption DEF IgnoreLine
<1>8. CASE BadLine
  BY <1>8, LinesAssumption DEF BadLine
<1>9. CASE BreakOff
  BY <1>9 DEF BreakOff, Caught
<1>10. CASE \E says \in SUBSET {"text", "calls"} : Answer(says)
  BY <1>10 DEF Answer
<1> QED
  BY <1>1, <1>2, <1>3, <1>4, <1>5, <1>6, <1>7, <1>8, <1>9, <1>10

\* The adapter hears one more line and passes on what it says.
LEMMA HearStep ==
    ASSUME IInv, NEW says \in SUBSET Words, Hear(says)
    PROVE  IInv'
<1>1. /\ pc = "lines" /\ kind # "echo" /\ kind' = kind /\ lines' \in 0..MaxLines
      /\ heard' = Count(heard, says)
      /\ saw' = (saw \/ Done(says))
      /\ error' = error
  BY LinesAssumption DEF Hear, Receive, IInv, TypeOK
<1>2. /\ heard \in [Words -> Nat] /\ given \in [Words -> Nat] /\ saw \in BOOLEAN
      /\ ~last
      /\ saw <=> \E w \in Reasons : heard[w] > 0
      /\ given["text"] = heard["text"] /\ given["usage"] = heard["usage"]
      /\ kind = "openai" => given["other"] = heard["other"] /\ given["stop"] = heard["stop"]
      /\ kind = "ollama" => given["other"] = 0 /\ given["stop"] = 0
      /\ kind \in {"openai", "ollama"}
  BY <1>1 DEF IInv, TypeOK, SawInv, LastInv, EverythingArrives, Words, Kinds
<1>3. SawInv' /\ saw' \in BOOLEAN /\ heard' \in [Words -> Nat]
  <2>1. heard' \in [Words -> Nat]
    BY <1>1, <1>2, CountAdds
  <2>2. \A w \in Reasons : heard'[w] > 0 <=> heard[w] > 0 \/ w \in says
    BY <1>1, <1>2, CountAdds DEF Words, Reasons
  <2> QED
    BY <1>1, <1>2, <2>1, <2>2 DEF SawInv, Done
<1>4. CASE says = {}
  <2>1. pc' = pc /\ last' = last /\ given' = given /\ heard' = heard
    BY <1>1, <1>2, <1>4, CountAdds DEF Hear, IsGiven, Count
  <2>2. saw' = saw
    BY <1>1, <1>2, <1>4 DEF Done
  <2> QED
    BY <1>1, <1>2, <1>3, <2>1, <2>2
       DEF IInv, TypeOK, FreshInv, LastInv, EverythingArrives
<1>5. CASE says # {}
  <2>1. /\ given' = Count(given, Chunk(says))
        /\ last' = (kind = "ollama" /\ Done(says))
        /\ pc' = "yield"
    BY <1>5 DEF Hear, IsGiven, Yield, Goto
  <2>2. /\ Chunk(says) \in SUBSET Words
        /\ "text" \in Chunk(says) <=> "text" \in says
        /\ "usage" \in Chunk(says) <=> "usage" \in says
        /\ kind = "openai" => Chunk(says) = says
        /\ kind = "ollama" => /\ "other" \notin Chunk(says)
                              /\ "stop" \in Chunk(says) <=> Done(says)
    BY DEF Chunk, Done, Words, Reasons
  <2>3. given' \in [Words -> Nat]
    BY <1>2, <2>1, <2>2, CountAdds
  <2>4. \A w \in Words : /\ given'[w] = IF w \in Chunk(says) THEN given[w] + 1 ELSE given[w]
                         /\ heard'[w] = IF w \in says THEN heard[w] + 1 ELSE heard[w]
    BY <1>1, <1>2, <2>1, <2>2, CountAdds
  <2>5. given'["text"] = heard'["text"] /\ given'["usage"] = heard'["usage"]
    BY <1>2, <2>2, <2>4 DEF Words
  <2>6. /\ given'["other"] = IF kind = "openai" THEN heard'["other"] ELSE 0
        /\ given'["stop"] = IF last' THEN 1 ELSE IF kind = "openai" THEN heard'["stop"] ELSE 0
    <3>1. CASE kind = "openai"
      BY <1>2, <2>1, <2>2, <2>4, <3>1 DEF Words, Reasons
    <3>2. CASE kind = "ollama" /\ Done(says)
      <4>1. given'["stop"] = 0 + 1 /\ given'["other"] = 0
        BY <1>2, <2>2, <2>4, <3>2 DEF Words, Reasons
      <4>2. last' /\ kind # "openai"
        BY <2>1, <3>2
      <4> QED
        BY <4>1, <4>2
    <3>3. CASE kind = "ollama" /\ ~Done(says)
      BY <1>2, <2>1, <2>2, <2>4, <3>3 DEF Words, Reasons
    <3> QED
      BY <1>2, <3>1, <3>2, <3>3
  <2>7. kind = "openai" => ~last'
    BY <2>1
  <2>8. (kind = "ollama" /\ saw' => last') /\ (last' => given'["stop"] > 0) /\ last' \in BOOLEAN
    BY <1>1, <1>2, <2>1, <2>6 DEF IInv, LastInv, Done
  <2> QED
    BY <1>1, <1>2, <1>3, <2>1, <2>3, <2>5, <2>6, <2>7, <2>8
       DEF IInv, TypeOK, FreshInv, LastInv, EverythingArrives, Steps
<1> QED
  BY <1>4, <1>5

\* The stream is over, by [DONE] or by the end of the response.
LEMMA FinishStep ==
    ASSUME IInv, DoneLine \/ EndOfFile
    PROVE  IInv'
<1>1. /\ pc = "lines" /\ kind # "echo" /\ kind' = kind /\ lines' \in 0..MaxLines
      /\ heard' = heard /\ saw' = saw /\ error' = error /\ Finish
  BY LinesAssumption DEF DoneLine, EndOfFile, Receive, IInv, TypeOK
<1>2. /\ given \in [Words -> Nat] /\ heard \in [Words -> Nat] /\ ~last
      /\ saw <=> \E w \in Reasons : heard[w] > 0
      /\ given["text"] = heard["text"] /\ given["usage"] = heard["usage"]
      /\ given["other"] = IF kind = "openai" THEN heard["other"] ELSE 0
      /\ given["stop"] = IF kind = "openai" THEN heard["stop"] ELSE 0
  BY <1>1 DEF IInv, TypeOK, SawInv, LastInv, EverythingArrives
<1>3. CASE saw
  BY <1>1, <1>2, <1>3
     DEF Finish, Goto, IInv, TypeOK, FreshInv, SawInv, LastInv, EverythingArrives, Steps
<1>4. CASE ~saw
  <2>1. given' = Count(given, {"stop"}) /\ last' = TRUE /\ pc' = "yield"
    BY <1>1, <1>4 DEF Finish, Yield, Goto
  <2>2. (\A w \in Reasons : heard[w] = 0) /\ given["stop"] = 0
    BY <1>2, <1>4 DEF Words, Reasons
  <2>3. given' \in [Words -> Nat]
    BY <1>2, <2>1, CountAdds DEF Words, Reasons
  <2>4. /\ given'["stop"] = 1 /\ given'["other"] = given["other"]
        /\ given'["text"] = heard["text"] /\ given'["usage"] = heard["usage"]
    BY <1>2, <2>1, <2>2, CountAdds DEF Words, Reasons
  <2> QED
    BY <1>1, <1>2, <2>1, <2>2, <2>3, <2>4
       DEF IInv, TypeOK, FreshInv, SawInv, LastInv, EverythingArrives, Steps
<1> QED
  BY <1>3, <1>4 DEF IInv, TypeOK

LEMMA EchoStep ==
    ASSUME IInv, EchoGive
    PROVE  IInv'
<1>1. PICK w \in {"text", "stop"} : Yield({w}, w = "stop")
  BY DEF EchoGive
<1>2. /\ kind = "echo" /\ given \in [Words -> Nat]
      /\ given' = Count(given, {w}) /\ last' = (w = "stop") /\ pc' = "yield"
      /\ UNCHANGED <<kind, saw, error, lines, heard>>
  BY <1>1 DEF EchoGive, Yield, Goto, IInv, TypeOK
<1>3. given' \in [Words -> Nat]
  BY <1>2, CountAdds DEF Words, Reasons
<1>4. last' => given'["stop"] > 0
  <2>1. CASE w = "stop"
    BY <1>2, <2>1, CountAdds DEF Words, Reasons
  <2>2. CASE w # "stop"
    BY <1>2, <2>2
  <2> QED
    BY <2>1, <2>2
<1> QED
  BY <1>2, <1>3, <1>4 DEF IInv, TypeOK, FreshInv, SawInv, LastInv, EverythingArrives, Steps

LEMMA NextPreserves == IInv /\ [Next]_vars => IInv'
<1> SUFFICES ASSUME IInv, [Next]_vars
             PROVE  IInv'
  OBVIOUS
<1>1. CASE UNCHANGED vars
  BY <1>1 DEF vars, IInv, TypeOK, FreshInv, SawInv, LastInv, EverythingArrives
<1> QED
  BY <1>1, SilentStep, HearStep, FinishStep, EchoStep DEF Next

\* What an adapter has heard, what it remembers of it and what it has given
\* agree at every step of a call.
THEOREM AdapterInvariant == Spec => []IInv
BY InitEstablishes, NextPreserves, PTL DEF Spec

\* No text and no usage is lost or given twice on its way to the consumer, and
\* the reasons to finish are those EverythingArrives says, for any number of
\* lines (the loops of stream_chat over _post_stream_lines).
THEOREM ArrivesCorrect == Spec => []EverythingArrives
<1>1. IInv => EverythingArrives
  BY DEF IInv
<1> QED
  BY <1>1, AdapterInvariant, PTL
-----------------------------------------------------------------------------
\* A chunk that is given is a Give of Backend.
LEMMA YieldGives ==
    ASSUME IInv, pc = "lines", NEW says \in SUBSET Words, says # {}, error' = error,
           NEW isLast, Yield(says, isLast)
    PROVE  B!Give(says)
<1>1. given' = Count(given, says) /\ pc' = "yield" /\ given \in [Words -> Nat]
  BY DEF Yield, Goto, IInv, TypeOK
<1>2. PICK said \in says : given'[said] > 0
  BY <1>1, CountAdds
<1>3. \E w \in Words : given'[w] > 0
  BY <1>2
<1>4. \A w \in Reasons : given'[w] > 0 <=> given[w] > 0 \/ w \in says
  BY <1>1, CountAdds DEF Words, Reasons
<1> QED
  BY <1>1, <1>3, <1>4 DEF B!Give, B!Reasons, Reasons

LEMMA InitImplements == Init => B!Init
BY DEF Init, B!Init, Words

LEMMA SilentImplements ==
    ASSUME IInv,
           \/ Chat \/ ChatFails \/ Stream \/ Ask \/ Return \/ Close \/ Open
           \/ IgnoreLine \/ BadLine \/ BreakOff
           \/ \E says \in SUBSET {"text", "calls"} : Answer(says)
    PROVE  [B!Next]_(B!vars)
<1> USE DEF Goto, Raise, B!vars, B!Next
<1>1. given' = given
  BY DEF Chat, ChatFails, Stream, Ask, Return, Close, Open, IgnoreLine, BadLine,
         BreakOff, Answer
<1>2. CASE Chat
  BY <1>1, <1>2 DEF Chat, B!Chat
<1>3. CASE Stream
  BY <1>1, <1>3 DEF Stream, B!Stream
<1>4. CASE ChatFails
  <2>1. ~ \E w \in Words : given[w] > 0
    BY <1>4 DEF ChatFails, IInv, FreshInv
  <2> QED
    BY <1>1, <1>4, <2>1 DEF ChatFails, B!Fail, Errors
<1>5. CASE Open
  <2>1. ~ \E w \in Words : given[w] > 0
    BY <1>5 DEF Open, IInv, FreshInv
  <2>2. CASE pc' = "lines"
    BY <1>1, <1>5, <2>2 DEF Open
  <2>3. CASE pc' = "failed"
    BY <1>1, <1>5, <2>1, <2>3 DEF Open, B!Fail, Errors
  <2> QED
    BY <1>5, <2>2, <2>3 DEF Open
<1>6. CASE Ask
  BY <1>1, <1>6 DEF Ask, B!Ask
<1>7. CASE Return
  <2>1. "stop" \in Reasons /\ given["stop"] > 0
    BY <1>7 DEF Return, IInv, LastInv, Reasons
  <2> QED
    BY <1>1, <1>7, <2>1 DEF Return, B!End
<1>8. CASE Close
  BY <1>1, <1>8 DEF Close, B!Close
<1>9. CASE IgnoreLine
  BY <1>1, <1>9 DEF IgnoreLine
<1>10. CASE BadLine \/ BreakOff
  BY <1>1, <1>10 DEF BadLine, BreakOff, Receive, Caught, B!Fail
<1>11. CASE \E says \in SUBSET {"text", "calls"} : Answer(says)
  <2>1. PICK says \in SUBSET {"text", "calls"} : Answer(says)
    BY <1>11
  <2>2. says # {} /\ pc = "post" /\ pc' = "answered" /\ error' = error
    BY <2>1 DEF Answer
  <2>3. B!Answer(says)
    BY <1>1, <2>2 DEF B!Answer
  <2> QED
    BY <2>3
<1> QED
  BY <1>2, <1>3, <1>4, <1>5, <1>6, <1>7, <1>8, <1>9, <1>10, <1>11

LEMMA HearImplements ==
    ASSUME IInv, NEW says \in SUBSET Words, Hear(says)
    PROVE  [B!Next]_(B!vars)
<1>1. pc = "lines" /\ error' = error
  BY DEF Hear, Receive
<1>2. CASE says = {}
  BY <1>1, <1>2 DEF Hear, IsGiven, B!vars
<1>3. CASE says # {}
  <2>1. Chunk(says) # {} /\ Chunk(says) \in SUBSET Words
    BY <1>3 DEF Chunk, Done, Words, Reasons
  <2>2. PICK chunk \in SUBSET Words, isLast \in BOOLEAN : chunk # {} /\ Yield(chunk, isLast)
    BY <1>3, <2>1 DEF Hear, IsGiven, Done
  <2>3. B!Give(chunk)
    BY <1>1, <2>2, YieldGives
  <2>4. Words = {"text", "usage"} \cup B!Reasons
    BY DEF Words, Reasons, B!Reasons
  <2>5. chunk \in SUBSET ({"text", "usage"} \cup B!Reasons)
    BY <2>2, <2>4
  <2> QED
    BY <2>3, <2>5 DEF B!Next
<1> QED
  BY <1>2, <1>3

LEMMA FinishImplements ==
    ASSUME IInv, DoneLine \/ EndOfFile
    PROVE  [B!Next]_(B!vars)
<1>1. pc = "lines" /\ kind # "echo" /\ error' = error /\ Finish
  BY DEF DoneLine, EndOfFile, Receive
<1>2. CASE saw
  <2>1. \E w \in Reasons : given[w] > 0
    <3>1. ~last /\ kind \in {"openai", "ollama"} /\ \E w \in Reasons : heard[w] > 0
      BY <1>1, <1>2 DEF IInv, TypeOK, SawInv, LastInv, Kinds
    <3>2. kind = "openai"
      BY <1>1, <1>2, <3>1 DEF IInv, LastInv
    <3> QED
      BY <1>1, <3>1, <3>2 DEF IInv, EverythingArrives, Reasons
  <2>2. pc' = "ended" /\ given' = given
    BY <1>1, <1>2 DEF Finish, Goto
  <2>3. B!End
    BY <1>1, <2>1, <2>2 DEF B!End
  <2> QED
    BY <2>3 DEF B!Next
<1>3. CASE ~saw
  <2>1. B!Give({"stop"})
    BY <1>1, <1>3, YieldGives DEF Finish, Words, Reasons
  <2> QED
    BY <2>1 DEF B!Next, B!Reasons
<1> QED
  BY <1>2, <1>3 DEF IInv, TypeOK

LEMMA EchoImplements ==
    ASSUME IInv, EchoGive
    PROVE  [B!Next]_(B!vars)
<1>1. PICK w \in {"text", "stop"} : Yield({w}, w = "stop")
  BY DEF EchoGive
<1>2. B!Give({w})
  BY <1>1, YieldGives DEF EchoGive, Words, Reasons
<1> QED
  BY <1>2 DEF B!Next, B!Reasons

LEMMA NextImplements == IInv /\ [Next]_vars => [B!Next]_(B!vars)
<1> SUFFICES ASSUME IInv, [Next]_vars
             PROVE  [B!Next]_(B!vars)
  OBVIOUS
<1>1. CASE UNCHANGED vars
  BY <1>1 DEF vars, B!vars
<1> QED
  BY <1>1, SilentImplements, HearImplements, FinishImplements, EchoImplements DEF Next

\* The adapters implement Backend: a chunk that is given says something, a
\* stream that ends has given a reason, nothing follows the end, and no
\* connection error follows a chunk, for any number of lines and pieces.
THEOREM AdapterImplementsBackend == Spec => RefinesBackend
BY InitImplements, NextImplements, AdapterInvariant, PTL DEF Spec, RefinesBackend, B!Spec
=============================================================================
