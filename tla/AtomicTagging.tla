--------------------------- MODULE AtomicTagging ----------------------------
(***************************************************************************)
(* What POST /tag promises about one request, whatever goes wrong inside:  *)
(* it is answered at most once, and what it leaves in tag_results is       *)
(* nothing at all or exactly the results it was answered with, which       *)
(* appear all together and stay.                                           *)
(***************************************************************************)
CONSTANTS Requests, Results, NoResponse

VARIABLES
    response,  \* response[q]: the set of results the client got, or NoResponse
    stored     \* stored[q]: the results of q in tag_results

Init ==
    /\ response = [q \in Requests |-> NoResponse]
    /\ stored = [q \in Requests |-> {}]

Answer(q) ==
    /\ response[q] = NoResponse
    /\ \E results \in SUBSET Results : response' = [response EXCEPT ![q] = results]
    /\ UNCHANGED stored

Store(q) ==
    /\ response[q] # NoResponse
    /\ stored[q] = {}
    /\ stored' = [stored EXCEPT ![q] = response[q]]
    /\ UNCHANGED response

Next == \E q \in Requests : Answer(q) \/ Store(q)

Spec == Init /\ [][Next]_<<response, stored>>
=============================================================================
