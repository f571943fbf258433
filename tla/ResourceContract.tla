-------------------------- MODULE ResourceContract --------------------------
(***************************************************************************)
(* What the REST API promises of a request for a resource: it takes effect *)
(* at one instant between its arrival and its answer, or not at all.  An   *)
(* accepted PUT has replaced the resource, an accepted DELETE has removed  *)
(* it, what a read returns was there at that instant, and a request that   *)
(* is refused has changed nothing.                                         *)
(***************************************************************************)
CONSTANTS Slots

VARIABLES content,   \* the resources: [type, mesh, name, spec]
          calls,     \* per slot: the request, its state and its answer
          shared     \* others than the API write too

Same(r, q) == r.type = q.type /\ r.mesh = q.mesh /\ r.name = q.name

Arrive(slot) ==
    /\ calls[slot].state = "idle"
    /\ calls'[slot].state = "pending" /\ calls'[slot].answer = {}
    /\ UNCHANGED content

\* The request takes effect.
PutApplied(slot) ==
    LET q == calls[slot] IN
    /\ q.op = "put"
    /\ content' = {r \in content : ~Same(r, q)} \cup
                  {[type |-> q.type, mesh |-> q.mesh, name |-> q.name, spec |-> q.spec]}
    /\ calls' = [calls EXCEPT ![slot].state = "accepted"]

DeleteApplied(slot) ==
    /\ calls[slot].op = "delete"
    /\ content' = {r \in content : ~Same(r, calls[slot])}
    /\ calls' = [calls EXCEPT ![slot].state = "accepted"]

\* A read; of other reads than find and list nothing is said.
ReadDone(slot) ==
    LET q      == calls[slot]
        answer == calls'[slot].answer
    IN  /\ q.op \in {"find", "list", "other"}
        /\ q.op = "find" => answer # {} /\ answer = {r \in content : Same(r, q)}
        /\ q.op = "list" => answer \subseteq {r \in content : r.type = q.type /\ q.mesh \in {0, r.mesh}}
        /\ calls' = [calls EXCEPT ![slot].state = "accepted", ![slot].answer = answer]
        /\ UNCHANGED content

Refused(slot) ==
    /\ calls' = [calls EXCEPT ![slot].state = "refused"]
    /\ UNCHANGED content

\* The answer has been received: the slot is free, or has the next request.
Answered(slot) ==
    /\ calls[slot].state \in {"accepted", "refused"}
    /\ calls'[slot].state \in {"idle", "pending"} /\ calls'[slot].answer = {}
    /\ UNCHANGED content

Step(slot) ==
    \/ Arrive(slot) \/ Answered(slot)
    \/ /\ calls[slot].state = "pending"
       /\ PutApplied(slot) \/ DeleteApplied(slot) \/ ReadDone(slot) \/ Refused(slot)

\* Others write.
Outside == shared /\ UNCHANGED calls

Next ==
    /\ UNCHANGED shared
    /\ \/ Outside
       \/ \E slot \in Slots : /\ Step(slot)
                              /\ \A other \in Slots \ {slot} : calls'[other] = calls[other]

Init == \A slot \in Slots : calls[slot].state = "idle"

Spec == Init /\ [][Next]_<<content, calls, shared>>
=============================================================================
