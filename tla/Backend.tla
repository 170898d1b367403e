------------------------------- MODULE Backend ------------------------------
(***************************************************************************)
(* What the router and the HTTP handler rely on when they call a backend   *)
(* (the protocols LLMBackend and StreamingLLMBackend of backends.py): one  *)
(* call is a chat that answers with something or fails, or a stream whose  *)
(* consumer asks for one chunk after the other. A chunk that is given says *)
(* something; a stream that ends by itself has given a reason to finish;   *)
(* nothing follows its end, its failure or its being closed; and once a    *)
(* chunk was given it does not fail with a connection error, which the     *)
(* handler would take for the client's own (server.py, the direct writer). *)
(***************************************************************************)
VARIABLES state,    \* of the call: "new", "posted" for an answer, "asked" for a
                    \* chunk, "asleep" between two chunks, or over
          emitted,  \* the stream has given a chunk
          finished, \* and one with a reason to finish
          error     \* what it failed with

vars == <<state, emitted, finished, error>>

Reasons == {"stop", "other"} \* to finish

Init == /\ state = "new"
        /\ emitted = FALSE
        /\ finished = FALSE
        /\ error = "none"

Chat == /\ state = "new"
        /\ state' = "posted"
        /\ UNCHANGED <<emitted, finished, error>>

Answer(says) == /\ state = "posted"
                /\ says # {}
                /\ state' = "answered"
                /\ UNCHANGED <<emitted, finished, error>>

\* The generator of a stream is made; the first request comes with its first next.
Stream == /\ state = "new"
          /\ state' = "asleep"
          /\ UNCHANGED <<emitted, finished, error>>

Ask == /\ state = "asleep"
       /\ state' = "asked"
       /\ UNCHANGED <<emitted, finished, error>>

Give(says) == /\ state = "asked"
              /\ says # {}
              /\ state' = "asleep"
              /\ emitted' = TRUE
              /\ finished' = (finished \/ says \cap Reasons # {})
              /\ UNCHANGED error

End == /\ state = "asked"
       /\ finished
       /\ state' = "ended"
       /\ UNCHANGED <<emitted, finished, error>>

Fail == /\ state \in {"posted", "asked"}
        /\ state' = "failed"
        /\ error' \in {"BackendError", "other"} \cup IF emitted THEN {} ELSE {"connection"}
        /\ UNCHANGED <<emitted, finished>>

Close == /\ state = "asleep"
         /\ state' = "closed"
         /\ UNCHANGED <<emitted, finished, error>>

Next == \/ Chat \/ Stream \/ Ask \/ End \/ Fail \/ Close
        \/ \E says \in SUBSET {"text", "calls"} : Answer(says)
        \/ \E says \in SUBSET ({"text", "usage"} \cup Reasons) : Give(says)

Spec == Init /\ [][Next]_vars
=============================================================================
