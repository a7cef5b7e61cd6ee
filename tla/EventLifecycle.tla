--------------------------- MODULE EventLifecycle ---------------------------
(***************************************************************************)
(* What the event pipeline promises, without Lambdas, queue or versions:   *)
(* an event is scheduled, claimed once, settled once; it is completed only *)
(* after its receiver accepted it; it is followed by next year's event at  *)
(* most once, and only when completed; deleting its user erases it.        *)
(***************************************************************************)
CONSTANT Ids

VARIABLES phase,      \* phase[e]: the status of event e
          delivered,  \* the events the receiver has accepted at least once
          followed    \* the events next year's event was created for

vars == <<phase, delivered, followed>>

Init ==
  /\ phase = [e \in Ids |-> "NONE"]
  /\ delivered = {}
  /\ followed = {}

Schedule(e) ==
  /\ phase[e] = "NONE"
  /\ phase' = [phase EXCEPT ![e] = "PENDING"]
  /\ UNCHANGED <<delivered, followed>>

\* A set of pending events is claimed at once.
Claim(S) ==
  /\ \A e \in S : phase[e] = "PENDING"
  /\ phase' = [e \in Ids |-> IF e \in S THEN "PROCESSING" ELSE phase[e]]
  /\ UNCHANGED <<delivered, followed>>

\* A late or repeated call may still be accepted after the event settled or was erased.
Deliver(e) ==
  /\ phase[e] \notin {"NONE", "PENDING"}
  /\ delivered' = delivered \cup {e}
  /\ UNCHANGED <<phase, followed>>

Complete(e) ==
  /\ phase[e] = "PROCESSING"
  /\ e \in delivered
  /\ phase' = [phase EXCEPT ![e] = "COMPLETED"]
  /\ UNCHANGED <<delivered, followed>>

Fail(e) ==
  /\ phase[e] = "PROCESSING"
  /\ phase' = [phase EXCEPT ![e] = "FAILED"]
  /\ UNCHANGED <<delivered, followed>>

Follow(e, f) ==
  /\ phase[e] = "COMPLETED"
  /\ e \notin followed
  /\ phase[f] = "NONE"
  /\ phase' = [phase EXCEPT ![f] = "PENDING"]
  /\ followed' = followed \cup {e}
  /\ UNCHANGED delivered

Erase(S) ==
  /\ \A e \in S : phase[e] # "NONE"
  /\ phase' = [e \in Ids |-> IF e \in S THEN "GONE" ELSE phase[e]]
  /\ UNCHANGED <<delivered, followed>>

Next ==
  \/ \E e \in Ids : Schedule(e) \/ Deliver(e) \/ Complete(e) \/ Fail(e)
  \/ \E e, f \in Ids : Follow(e, f)
  \/ \E S \in SUBSET Ids : Claim(S) \/ Erase(S)

Spec == Init /\ [][Next]_vars
=============================================================================
