--------------------------- MODULE EventContract ---------------------------
(***************************************************************************)
(* What the outbox promises its callers, without rows, leases, dispatchers *)
(* or versions: a committed event is handed to the stream, all copies of   *)
(* it with one content; it is settled only once the stream has it, and set *)
(* aside for repair only while the stream has none of it.                  *)
(***************************************************************************)
CONSTANTS Events, Contents

VARIABLES
    status,    \* "absent", "pending", "parked" or "settled", by event
    delivered  \* contents the stream ever stored, by event

contractVars == <<status, delivered>>

ContractInit == /\ status = [e \in Events |-> "absent"]
                /\ delivered = [e \in Events |-> {}]

Move(e, from, to) == status[e] = from /\ status' = [status EXCEPT ![e] = to]

Submit(e) == /\ Move(e, "absent", "pending") \/ Move(e, "absent", "parked")
             /\ UNCHANGED delivered

Deliver(e) == /\ status[e] = "pending" /\ delivered[e] = {}
              /\ \E c \in Contents : delivered' = [delivered EXCEPT ![e] = {c}]
              /\ UNCHANGED status

Settle(e) == /\ delivered[e] # {}
             /\ Move(e, "pending", "settled")
             /\ UNCHANGED delivered

Park(e) == /\ delivered[e] = {}
           /\ Move(e, "pending", "parked")
           /\ UNCHANGED delivered

Repair(e) == Move(e, "parked", "pending") /\ UNCHANGED delivered

ContractNext == \E e \in Events :
                   Submit(e) \/ Deliver(e) \/ Settle(e) \/ Park(e) \/ Repair(e)

ContractSpec == ContractInit /\ [][ContractNext]_contractVars
=============================================================================
