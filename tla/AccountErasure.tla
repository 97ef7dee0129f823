--------------------------- MODULE AccountErasure ---------------------------
(***************************************************************************)
(* What the erasure of an account promises its user: nothing is erased     *)
(* while no deletion of theirs has outlived its cancellation window, and   *)
(* the account closes before anything else goes.  Until then it is used.   *)
(***************************************************************************)
CONSTANTS Tables, Account   \* Account: the table whose row keeps the account open

VARIABLES
  due,      \* a deletion has outlived its window, and is still on record
  held      \* the tables with data of the time the account was open

vars == <<due, held>>

Init == due = FALSE /\ Account \in held

\* A window closes, or the record of a deletion is dropped.
Record == due' \in BOOLEAN /\ UNCHANGED held

Use(table) ==
  /\ Account \in held
  /\ held' = held \cup {table}
  /\ UNCHANGED due

Erase(table) ==
  /\ due
  /\ table # Account => Account \notin held
  /\ held' = held \ {table}
  /\ UNCHANGED due

Next == Record \/ \E table \in Tables : Use(table) \/ Erase(table)

Spec == Init /\ [][Next]_vars
=============================================================================
