------------------------------- MODULE Reply --------------------------------
(***************************************************************************)
(* What the client of one chat completion request may receive, without     *)
(* saying how the server gets there: either one JSON document, or one      *)
(* stream of server-sent events. A stream opens with the headers, may      *)
(* report progress, names the assistant's role once, carries parts of the  *)
(* answer, gives one finish reason at most, and ends with [DONE]: after    *)
(* the finish reason (and the usage), or after an error event. A client    *)
(* that leaves simply receives no more.                                    *)
(***************************************************************************)

VARIABLES last,    \* the kind of what the client received last
          finished \* a finish reason was received

vars == <<last, finished>>

Documents == {"answer", "proposal", "failure"}

Init == last = "nothing" /\ finished = FALSE

Document == /\ last = "nothing"
            /\ last' \in Documents
            /\ UNCHANGED finished

\* kind may follow any of the kinds in before.
Follow(kind, before) == /\ last \in before
                        /\ last' = kind
                        /\ UNCHANGED finished

Open == Follow("headers", {"nothing"})
Progress == Follow("progress", {"headers"})
Role == Follow("role", {"headers", "progress"})
Calls == Follow("calls", {"role"})

\* A backend may send text together with its finish reason or after it.
Part == Follow("content", {"role", "content", "finish"})

Finish == /\ last \in {"role", "content", "calls"}
          /\ ~finished
          /\ last' = "finish"
          /\ finished' = TRUE

Usage == finished /\ Follow("usage", {"finish", "content"})
Error == Follow("error", {"role", "content", "finish"})
Done == \/ Follow("done", {"error"})
        \/ finished /\ Follow("done", {"finish", "content", "usage"})

Next == \/ Document \/ Open \/ Progress \/ Role \/ Calls \/ Part
        \/ Finish \/ Usage \/ Error \/ Done

Spec == Init /\ [][Next]_vars
=============================================================================
