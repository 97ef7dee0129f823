------------------------------ MODULE Calendar ------------------------------
(***************************************************************************)
(* What a property's calendar promises to guests, whoever writes to it: a  *)
(* booking takes nights that are free and moves to nights that are free,   *)
(* one booking at a time and all its nights at once, and a booking that    *)
(* has given its nights up never holds a night again.                      *)
(***************************************************************************)
CONSTANTS Guests, Ranges    \* who may hold nights, and the ranges of nights

VARIABLES
  phase,    \* "new", "holding" or "gone"
  nights    \* the nights of those that hold some

vars == <<phase, nights>>

Free(g, range) == \A h \in Guests \ {g} : nights[h] \cap range = {}

Init ==
  /\ phase = [g \in Guests |-> "new"]
  /\ nights = [g \in Guests |-> {}]

Take(g) ==
  /\ phase[g] = "new"
  /\ phase' = [phase EXCEPT ![g] = "holding"]
  /\ \E range \in Ranges : Free(g, range) /\ nights' = [nights EXCEPT ![g] = range]

Move(g) ==
  /\ phase[g] = "holding" /\ phase' = phase
  /\ \E range \in Ranges : nights' = [nights EXCEPT ![g] = range] /\ Free(g, range)

GiveUp(g) ==
  /\ phase[g] = "holding"
  /\ phase' = [phase EXCEPT ![g] = "gone"]
  /\ nights' = [nights EXCEPT ![g] = {}]

Next == \E g \in Guests : Take(g) \/ Move(g) \/ GiveUp(g)

Spec == Init /\ [][Next]_vars
=============================================================================
