--------------------------- MODULE BookingOutcome ---------------------------
(***************************************************************************)
(* What the booking service owes to the two parties of one booking, with   *)
(* no requests, retries or provider calls in sight: the status walks the   *)
(* state machine, the escrow pays exactly one party and only once, and the *)
(* records that say who was paid are made after that payment.              *)
(***************************************************************************)
CONSTANT Successors         \* status -> the statuses a booking may move to
VARIABLES status, paid, claims

vars == <<status, paid, claims>>

Init == status = "Absent" /\ paid = "nobody" /\ claims = {}

\* A booking is made, moves on, or (a failed creation) is withdrawn.
Move ==
  /\ \/ status = "Absent" /\ status' = "Pending"
     \/ status # "Absent" /\ status' \in Successors[status]
     \/ status # "Absent" /\ status' = "Absent"
  /\ UNCHANGED <<paid, claims>>

Pay ==
  /\ paid = "nobody"
  /\ paid' \in {"host", "tenant"}
  /\ UNCHANGED <<status, claims>>

\* The earnings ledger names the host, a confirmed refund names the tenant.
Claim ==
  /\ paid # "nobody"
  /\ claims' = claims \cup {paid}
  /\ UNCHANGED <<status, paid>>

Next == Move \/ Pay \/ Claim

Spec == Init /\ [][Next]_vars
=============================================================================
