--------------------------- MODULE AnswerLifecycle ---------------------------
(***************************************************************************)
(* What the query service promises its clients about an answer, whatever   *)
(* scheduler runs Phase B and whatever fails: polling never takes anything *)
(* back, and a response never announces more than polling shows.           *)
(***************************************************************************)
CONSTANT Answers   \* answer ids

VARIABLES
    shown,  \* what GET /v1/answers/{answer_id} shows of each answer
    told    \* the phase_b_status of the response to POST /v1/queries

vars == <<shown, told>>

Statuses == {"off", "queued", "complete"}

Init ==
    /\ shown = [a \in Answers |-> "nothing"]
    /\ told = [a \in Answers |-> "nothing"]

\* The Phase A answer becomes readable.
Publish(a) ==
    /\ shown[a] = "nothing"
    /\ shown' = [shown EXCEPT ![a] = "provisional"]
    /\ UNCHANGED told

\* The verified Phase B answer takes its place.
Verify(a) ==
    /\ shown[a] = "provisional"
    /\ shown' = [shown EXCEPT ![a] = "verified"]
    /\ UNCHANGED told

\* The response is sent once, for an answer that can be polled, and says
\* "complete" only if polling already shows the verified answer.
Respond(a, s) ==
    /\ told[a] = "nothing"
    /\ shown[a] # "nothing"
    /\ s = "complete" => shown[a] = "verified"
    /\ told' = [told EXCEPT ![a] = s]
    /\ UNCHANGED shown

Next ==
    \E a \in Answers :
        \/ Publish(a)
        \/ Verify(a)
        \/ \E s \in Statuses : Respond(a, s)

Spec == Init /\ [][Next]_vars
=============================================================================
