------------------------------ MODULE Adapter -------------------------------
(***************************************************************************)
(* One call of a backend adapter (backends.py): chat() of the OpenAI-      *)
(* compatible and the Ollama adapter over _post_json, and their streams    *)
(* over the lines of _post_stream_lines, which are pulled by a consumer    *)
(* that may close them at any chunk; and the echo backend. The server at   *)
(* the other end sends any lines, ends or breaks off at any point.         *)
(*                                                                         *)
(* Abstracted: payloads, headers and time (a timeout is one of the ways to *)
(* break off). A text is there or not, and of what a line says only text,  *)
(* usage and the finish reason are kept, of which "stop" is told from any  *)
(* other. The model bounds the lines heard.                                *)
(***************************************************************************)
EXTENDS Integers

CONSTANTS MaxLines,  \* bound on the lines one stream receives
          EchoPieces \* number of pieces the echo backend may cut its answer into

ASSUME LinesAssumption == MaxLines \in Nat
ASSUME PiecesAssumption == EchoPieces \subseteq Nat \ {0}

VARIABLES
    kind,  \* the adapter
    pc,    \* what the generator, or chat(), is doing
    saw,   \* saw_finish
    last,  \* the chunk given is the generator's last
    error, \* what the call failed with
    lines, \* lines received, or echo's pieces given
    heard, \* heard[w]: lines that said w (ghost)
    given  \* given[w]: chunks that said w (ghost)

vars == <<kind, pc, saw, last, error, lines, heard, given>>

Kinds == {"openai", "ollama", "echo"}
Reasons == {"stop", "other"}
Words == {"text", "usage"} \cup Reasons
Steps == {"new", "post", "start", "open", "lines", "yield", "tail", "answered",
          "ended", "failed", "closed"}
Errors == {"none", "BackendError", "connection", "other"}

Count(counts, says) == [w \in Words |-> counts[w] + IF w \in says THEN 1 ELSE 0]
-----------------------------------------------------------------------------
Init == /\ kind \in Kinds
        /\ pc = "new"
        /\ saw = FALSE
        /\ last = FALSE
        /\ error = "none"
        /\ lines = 0
        /\ heard = [w \in Words |-> 0]
        /\ given = [w \in Words |-> 0]

Goto(step) == pc' = step

Raise(e) == Goto("failed") /\ error' = e

Yield(says, isLast) ==
    /\ given' = Count(given, says)
    /\ last' = isLast
    /\ Goto("yield")

Chat == /\ pc = "new"
        /\ Goto("post")
        /\ UNCHANGED <<kind, saw, last, error, lines, heard, given>>

\* A reply needs a text or tool calls; echo always has a text.
Answer(says) == /\ pc = "post"
                /\ IF kind = "echo" THEN says = {"text"} ELSE says # {}
                /\ Goto("answered")
                /\ UNCHANGED <<kind, saw, last, error, lines, heard, given>>

\* HTTPError, URLError, a timeout, a body that is no JSON or has not the shape
\* asked for; urlopen's and read's other errors are not caught.
ChatFails == /\ pc = "post"
             /\ kind # "echo"
             /\ \E e \in Errors \ {"none"} : Raise(e)
             /\ UNCHANGED <<kind, saw, last, lines, heard, given>>
-----------------------------------------------------------------------------
\* Calling stream_chat makes a generator; nothing is sent before its first next.
Stream == /\ pc = "new"
          /\ Goto("start")
          /\ UNCHANGED <<kind, saw, last, error, lines, heard, given>>

Ask == /\ pc \in {"start", "yield"}
       /\ Goto(IF last THEN "tail"
               ELSE IF pc = "start" /\ kind # "echo" THEN "open" ELSE "lines")
       /\ UNCHANGED <<kind, saw, last, error, lines, heard, given>>

Return == /\ pc = "tail"
          /\ Goto("ended")
          /\ UNCHANGED <<kind, saw, last, error, lines, heard, given>>

\* The consumer drops the generator, which closes the connection with it.
Close == /\ pc \in {"start", "yield"}
         /\ Goto("closed")
         /\ UNCHANGED <<kind, saw, last, error, lines, heard, given>>

\* urlopen: a connection that breaks before the status line is not caught.
Open == /\ pc = "open"
        /\ \/ Goto("lines") /\ UNCHANGED error
           \/ \E e \in Errors \ {"none"} : Raise(e)
        /\ UNCHANGED <<kind, saw, last, lines, heard, given>>

Receive == /\ pc = "lines"
           /\ kind # "echo"
           /\ lines < MaxLines
           /\ lines' = lines + 1
           /\ UNCHANGED kind

\* A line that is no data: of a server-sent event.
IgnoreLine == /\ Receive
              /\ kind = "openai"
              /\ UNCHANGED <<pc, saw, last, error, heard, given>>

\* A line that is not UTF-8, not JSON or no object; or whose JSON the parser
\* gives up on in another way, such as too long a number.
BadLine == /\ Receive
           /\ \E e \in {"BackendError", "other"} : Raise(e)
           /\ UNCHANGED <<saw, last, heard, given>>

\* What is passed on of a line: Ollama's reason to be done becomes "stop"
\* whatever it was, which its chat() keeps.
Done(says) == says \cap Reasons # {}
Chunk(says) == IF kind = "ollama" /\ Done(says) THEN (says \ Reasons) \cup {"stop"} ELSE says

\* A line of the server. Ollama counts its tokens in the line that is done, with
\* which its stream is left; a line that says nothing is not passed on.
IsGivenBug(says) == says \ {"usage"} # {}
IsGiven(says) == says # {}

Hear(says) ==
    /\ Receive
    /\ ~(Reasons \subseteq says)
    /\ kind = "ollama" /\ "usage" \in says => Done(says)
    /\ heard' = Count(heard, says)
    /\ saw' = (saw \/ Done(says))
    /\ IF IsGiven(says) THEN Yield(Chunk(says), kind = "ollama" /\ Done(says))
                        ELSE UNCHANGED <<pc, last, given>>
    /\ UNCHANGED error

\* The stream is over: the consumer is told "stop" if no reason was given.
Finish == IF saw THEN Goto("ended") /\ UNCHANGED <<given, last>>
                 ELSE Yield({"stop"}, TRUE)

DoneLine == /\ Receive
            /\ kind = "openai"
            /\ Finish
            /\ UNCHANGED <<saw, error, heard>>

\* The server closes the connection, after whatever line.
EndOfFile == /\ pc = "lines"
             /\ kind # "echo"
             /\ Finish
             /\ UNCHANGED <<kind, saw, error, lines, heard>>

\* Reading fails: every OSError becomes a BackendError, what http.client raises
\* besides is passed on.
CaughtBug == "connection"
Caught == "BackendError"

BreakOff == /\ pc = "lines"
            /\ kind # "echo"
            /\ \E e \in {Caught, "other"} : Raise(e)
            /\ UNCHANGED <<kind, saw, last, lines, heard, given>>

\* Echo cuts its answer into pieces and finishes without usage.
EchoGive == /\ pc = "lines"
            /\ kind = "echo"
            /\ \/ (\E n \in EchoPieces : given["text"] < n) /\ Yield({"text"}, FALSE)
               \/ given["text"] \in EchoPieces /\ Yield({"stop"}, TRUE)
            /\ UNCHANGED <<kind, saw, error, lines, heard>>

Next == \/ Chat \/ ChatFails \/ Stream \/ Ask \/ Return \/ Close \/ Open
        \/ IgnoreLine \/ BadLine \/ DoneLine \/ EndOfFile \/ BreakOff \/ EchoGive
        \/ \E says \in SUBSET {"text", "calls"} : Answer(says)
        \/ \E says \in SUBSET Words : Hear(says)

Spec == Init /\ [][Next]_vars
-----------------------------------------------------------------------------
TypeOK == /\ kind \in Kinds
          /\ pc \in Steps
          /\ saw \in BOOLEAN
          /\ last \in BOOLEAN
          /\ error \in Errors
          /\ lines \in 0..MaxLines
          /\ heard \in [Words -> Nat]
          /\ given \in [Words -> Nat]

\* The adapters keep the promises the router and the handler rely on.
B == INSTANCE Backend WITH
         state <- CASE pc = "post" -> "posted"
                    [] pc \in {"start", "yield"} -> "asleep"
                    [] pc \in {"open", "lines", "tail"} -> "asked"
                    [] OTHER -> pc,
         emitted <- \E w \in Words : given[w] > 0,
         finished <- \E w \in Reasons : given[w] > 0
RefinesBackend == B!Spec

\* No text and no usage a server sent is lost or given twice on its way to the
\* consumer. Of an OpenAI-compatible server every finish reason is given as it
\* was, and a "stop" of the adapter's own comes last and only if there was none;
\* a stream of Ollama gives "stop" once, last, whatever reason there was.
EverythingArrives ==
    kind # "echo" /\ pc \in {"lines", "yield", "tail", "ended"} =>
        /\ given["text"] = heard["text"] /\ given["usage"] = heard["usage"]
        /\ given["other"] = IF kind = "openai" THEN heard["other"] ELSE 0
        /\ given["stop"] = IF last THEN 1 ELSE IF kind = "openai" THEN heard["stop"] ELSE 0
        /\ kind = "openai" /\ last => \A w \in Reasons : heard[w] = 0
=============================================================================
