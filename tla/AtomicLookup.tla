----------------------------- MODULE AtomicLookup -----------------------------
(***************************************************************************)
(* A lookup without pages, cursors or duplicates: it is asked, and then it *)
(* answers in one step or fails without an answer.                         *)
(***************************************************************************)
EXTENDS LookupContract

CONSTANTS Documents, Limit

VARIABLES
  viewable,  \* the documents the user may view
  result,    \* the documents returned
  status     \* "idle", "asked", "answered" or "failed"

vars == <<viewable, result, status>>

Init == viewable = {} /\ result = {} /\ status = "idle"

Ask ==
  /\ status = "idle"
  /\ viewable' \in SUBSET Documents
  /\ status' = "asked"
  /\ UNCHANGED result

Answer ==
  /\ status = "asked"
  /\ result' \in LookupResults(viewable, Limit)
  /\ status' = "answered"
  /\ UNCHANGED viewable

Fail ==
  /\ status = "asked"
  /\ status' = "failed"
  /\ UNCHANGED <<viewable, result>>

Return ==
  /\ status \in {"answered", "failed"}
  /\ viewable' = {} /\ result' = {} /\ status' = "idle"

Next == Ask \/ Answer \/ Fail \/ Return

Spec == Init /\ [][Next]_vars
===============================================================================
