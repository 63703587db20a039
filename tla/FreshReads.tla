------------------------------ MODULE FreshReads ------------------------------
(***************************************************************************)
(* What the permission system promises its callers, with no lock, token or *)
(* transaction in sight (permissions/service.py and the freshness section  *)
(* of docs/permission-system.md):                                          *)
(*                                                                         *)
(*   - a permission change is made of one or more SpiceDB writes, each of  *)
(*     which creates a new revision of the permission graph;               *)
(*   - a change is either acknowledged or fails; a failed one may have     *)
(*     left some of its writes behind, and may even leave one later;       *)
(*   - a read answers from one revision, and that revision contains every  *)
(*     change acknowledged before the read began.                          *)
(***************************************************************************)
EXTENDS Naturals

CONSTANTS Writers, Readers

VARIABLES
  head,      \* newest revision of the permission graph
  applied,   \* applied[w]: newest revision that holds a write of w, 0 if none
  outcome,   \* outcome[w]: "open", "acked" or "failed"
  reading,   \* reading[r]: "idle", "begun", "answered" or "failed"
  due,       \* due[r]: the changes acknowledged when r began
  seen       \* seen[r]: the revision r answered from

vars == <<head, applied, outcome, reading, due, seen>>

Init ==
  /\ head = 0
  /\ applied = [w \in Writers |-> 0]
  /\ outcome = [w \in Writers |-> "open"]
  /\ reading = [r \in Readers |-> "idle"]
  /\ due = [r \in Readers |-> {}]
  /\ seen = [r \in Readers |-> 0]

NewRevision(w) ==
  /\ head' = head + 1
  /\ applied' = [applied EXCEPT ![w] = head + 1]

\* A write of w takes effect; an acknowledged change has no more of them.
Write(w) ==
  /\ outcome[w] # "acked"
  /\ NewRevision(w)
  /\ UNCHANGED <<outcome, reading, due, seen>>

\* A change fails, its last write applied or not.
Fail(w) ==
  /\ outcome[w] = "open"
  /\ outcome' = [outcome EXCEPT ![w] = "failed"]
  /\ NewRevision(w) \/ UNCHANGED <<head, applied>>
  /\ UNCHANGED <<reading, due, seen>>

Acknowledge(w) ==
  /\ outcome[w] = "open"
  /\ applied[w] # 0
  /\ outcome' = [outcome EXCEPT ![w] = "acked"]
  /\ UNCHANGED <<head, applied, reading, due, seen>>

BeginRead(r) ==
  /\ reading[r] = "idle"
  /\ reading' = [reading EXCEPT ![r] = "begun"]
  /\ due' = [due EXCEPT ![r] = {w \in Writers : outcome[w] = "acked"}]
  /\ UNCHANGED <<head, applied, outcome, seen>>

Answer(r) ==
  /\ reading[r] = "begun"
  /\ \E revision \in 0 .. head :
       /\ \A w \in due[r] : applied[w] <= revision
       /\ seen' = [seen EXCEPT ![r] = revision]
  /\ reading' = [reading EXCEPT ![r] = "answered"]
  /\ UNCHANGED <<head, applied, outcome, due>>

FailRead(r) ==
  /\ reading[r] = "begun"
  /\ reading' = [reading EXCEPT ![r] = "failed"]
  /\ UNCHANGED <<head, applied, outcome, due, seen>>

Next ==
  \/ \E w \in Writers : Write(w) \/ Fail(w) \/ Acknowledge(w)
  \/ \E r \in Readers : BeginRead(r) \/ Answer(r) \/ FailRead(r)

Spec == Init /\ [][Next]_vars
===============================================================================
