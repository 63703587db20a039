--------------------------- MODULE CheckpointProofs ---------------------------
(***************************************************************************)
(* Checkpoint, proved for any number of writers and readers and for any    *)
(* number of SpiceDB calls per change: type correctness, mutual exclusion  *)
(* at SpiceDB, the stored token never moves backwards, acknowledged        *)
(* changes are visible, the refinement of FreshReads, and that the writers *)
(* neither block one another for ever nor go round in circles.             *)
(***************************************************************************)
EXTENDS Checkpoint, TLAPS

\* The lock is held by exactly the writer inside checkpoint_scope, and a call
\* that is still in SpiceDB's hands belongs to a change that has failed.
LockInv ==
  /\ \A w \in Writers : pc[w] \in {"apply", "store"} <=> lock = w
  /\ \A w \in late : pc[w] = "failed"

\* `apply` has a call left to make until it has made them all.
CallInv ==
  \A w \in Writers :
    /\ pc[w] \in {"select", "insert", "relock"} => made[w] = 0
    /\ pc[w] = "apply" => made[w] < Calls[w]

\* Between the last call and the commit, the token in hand is at least the stored
\* one and covers every write of the change; a stored token covers every
\* acknowledged change.
TokenInv ==
  /\ row # NoRow => row <= head
  /\ \A w \in Writers :
       /\ applied[w] <= head
       /\ pc[w] = "store" =>
            /\ applied[w] # 0
            /\ token[w] = applied[w]
            /\ row # NoRow => row <= token[w]
       /\ pc[w] = "acked" =>
            /\ applied[w] # 0
            /\ row # NoRow
            /\ applied[w] <= row

\* The token a reader is pinned to covers every change due to it, and so does
\* the revision it is answered from.
ReaderInv ==
  \A r \in Readers :
    /\ read[r] = "idle" => due[r] = {}
    /\ pinned[r] <= head
    /\ read[r] = "answered" => pinned[r] <= seen[r]
    /\ \A w \in due[r] : pc[w] = "acked" /\ applied[w] <= pinned[r]

Inv == TypeOK /\ LockInv /\ CallInv /\ TokenInv /\ ReaderInv

-------------------------------------------------------------------------------
\* Inv holds initially, whether or not bootstrap has created the row.
LEMMA InitInv == Init => Inv
  BY CheckpointAssumption
  DEF Init, Inv, TypeOK, LockInv, CallInv, TokenInv, ReaderInv

\* Taking, or failing to take, the lock on the row keeps Inv.
LEMMA AcquireInv ==
  ASSUME Inv, NEW w \in Writers, Acquire(w) \/ GiveUp(w), UNCHANGED readerVars
  PROVE  Inv'
<1> USE CheckpointAssumption DEF Inv, readerVars, GoTo
<1>1. CASE SelectForUpdate(w)
  <2>1. TypeOK'
    BY <1>1 DEF SelectForUpdate, TypeOK
  <2>2. LockInv'
    BY <1>1 DEF SelectForUpdate, TypeOK, LockInv
  <2>3. CallInv'
    BY <1>1 DEF SelectForUpdate, TypeOK, CallInv
  <2>4. TokenInv' /\ ReaderInv'
    BY <1>1 DEF SelectForUpdate, TypeOK, TokenInv, ReaderInv
  <2> QED BY <2>1, <2>2, <2>3, <2>4
<1>2. CASE SelectFindsNothing(w)
  BY <1>2 DEF SelectFindsNothing, TypeOK, LockInv, CallInv, TokenInv, ReaderInv
<1>3. CASE InsertRow(w)
  <2>1. TypeOK'
    BY <1>3 DEF InsertRow, TypeOK
  <2>2. LockInv'
    BY <1>3 DEF InsertRow, TypeOK, LockInv
  <2>3. CallInv'
    BY <1>3 DEF InsertRow, TypeOK, CallInv
  <2>4. TokenInv' /\ ReaderInv'
    BY <1>3 DEF InsertRow, TypeOK, TokenInv, ReaderInv
  <2> QED BY <2>1, <2>2, <2>3, <2>4
<1>4. CASE InsertConflicts(w)
  BY <1>4 DEF InsertConflicts, TypeOK, LockInv, CallInv, TokenInv, ReaderInv
<1>5. CASE GiveUp(w)
  BY <1>5 DEF GiveUp, TypeOK, LockInv, CallInv, TokenInv, ReaderInv
<1> QED BY <1>1, <1>2, <1>3, <1>4, <1>5 DEF Acquire

\* A SpiceDB call that returns, is rejected or is lost keeps Inv.
LEMMA CallInvStep ==
  ASSUME Inv, NEW w \in Writers, Call(w), UNCHANGED readerVars
  PROVE  Inv'
<1> USE CheckpointAssumption DEF Inv, readerVars, GoTo, NewRevision, Rollback
<1>1. CASE CallReturns(w)
  <2>1. TypeOK'
    BY <1>1 DEF CallReturns, TypeOK, CallInv
  <2>2. LockInv'
    BY <1>1 DEF CallReturns, TypeOK, LockInv
  <2>3. CallInv'
    BY <1>1 DEF CallReturns, TypeOK, CallInv
  <2>4. TokenInv'
    BY <1>1 DEF CallReturns, TypeOK, TokenInv
  <2>5. ReaderInv'
    BY <1>1 DEF CallReturns, TypeOK, ReaderInv
  <2> QED BY <2>1, <2>2, <2>3, <2>4, <2>5
<1>2. CASE CallRejected(w)
  BY <1>2 DEF CallRejected, TypeOK, LockInv, CallInv, TokenInv, ReaderInv
<1>3. CASE CallTimesOut(w)
  <2>1. TypeOK'
    BY <1>3 DEF CallTimesOut, TypeOK
  <2>2. LockInv' /\ CallInv'
    BY <1>3 DEF CallTimesOut, TypeOK, LockInv, CallInv
  <2>3. TokenInv'
    BY <1>3 DEF CallTimesOut, TypeOK, TokenInv
  <2>4. ReaderInv'
    BY <1>3 DEF CallTimesOut, TypeOK, ReaderInv
  <2> QED BY <2>1, <2>2, <2>3, <2>4
<1> QED BY <1>1, <1>2, <1>3 DEF Call

\* A lost call that is applied after its change failed keeps Inv: it makes a
\* revision newer than every token in hand, and takes nothing back.
LEMMA LateInvStep ==
  ASSUME Inv, NEW w \in Writers, LateCallApplies(w), UNCHANGED readerVars
  PROVE  Inv'
<1> USE DEF Inv, readerVars, NewRevision, LateCallApplies
<1>1. TypeOK'
  BY DEF TypeOK
<1>2. LockInv' /\ CallInv'
  BY DEF TypeOK, LockInv, CallInv
<1>3. TokenInv'
  BY DEF TypeOK, TokenInv, LockInv
<1>4. ReaderInv'
  BY DEF TypeOK, ReaderInv, LockInv
<1> QED BY <1>1, <1>2, <1>3, <1>4

\* Storing the token, or failing to, keeps Inv.
LEMMA CommitInv ==
  ASSUME Inv, NEW w \in Writers, Commit(w), UNCHANGED readerVars
  PROVE  Inv'
<1> USE CheckpointAssumption DEF Inv, readerVars, GoTo, Rollback
<1>1. CASE StoreAndCommit(w)
  <2>1. TypeOK' /\ LockInv' /\ CallInv'
    BY <1>1 DEF StoreAndCommit, TypeOK, LockInv, CallInv
  <2>2. TokenInv'
    BY <1>1 DEF StoreAndCommit, TypeOK, TokenInv, LockInv
  <2>3. ReaderInv'
    BY <1>1 DEF StoreAndCommit, TypeOK, ReaderInv
  <2> QED BY <2>1, <2>2, <2>3
<1>2. CASE CommitFails(w)
  BY <1>2 DEF CommitFails, TypeOK, LockInv, CallInv, TokenInv, ReaderInv
<1>3. CASE CommitUnanswered(w)
  <2>1. TypeOK' /\ LockInv' /\ CallInv'
    BY <1>3 DEF CommitUnanswered, TypeOK, LockInv, CallInv
  <2>2. TokenInv'
    BY <1>3 DEF CommitUnanswered, TypeOK, TokenInv, LockInv
  <2>3. ReaderInv'
    BY <1>3 DEF CommitUnanswered, TypeOK, ReaderInv
  <2> QED BY <2>1, <2>2, <2>3
<1> QED BY <1>1, <1>2, <1>3 DEF Commit

\* A reader's step keeps Inv: it changes nothing a writer looks at.
LEMMA ReaderInvStep ==
  ASSUME Inv, NEW r \in Readers, ReaderStep(r)
  PROVE  Inv'
<1> USE CheckpointAssumption DEF Inv, writerVars, ReaderStep
<1>1. LockInv' /\ CallInv' /\ TokenInv'
  BY DEF LockInv, CallInv, TokenInv
<1>2. CASE ReadToken(r)
  <2>1. TypeOK'
    BY <1>2 DEF ReadToken, TypeOK, Acked
  <2>2. ReaderInv'
    BY <1>2 DEF ReadToken, TypeOK, ReaderInv, TokenInv, Acked
  <2> QED BY <1>1, <2>1, <2>2
<1>3. CASE Lookup(r)
  <2>1. PICK revision \in Consistency(pinned[r]) : seen' = [seen EXCEPT ![r] = revision]
    BY <1>3 DEF Lookup
  <2>2. revision \in Nat /\ pinned[r] <= revision
    BY <2>1 DEF Consistency, TypeOK, ReaderInv
  <2>3. TypeOK'
    BY <1>3, <2>1, <2>2 DEF Lookup, TypeOK
  <2>4. ReaderInv'
    BY <1>3, <2>1, <2>2 DEF Lookup, TypeOK, ReaderInv
  <2> QED BY <1>1, <2>3, <2>4
<1>4. CASE LookupFails(r)
  <2>1. TypeOK'
    BY <1>4 DEF LookupFails, TypeOK
  <2>2. ReaderInv'
    BY <1>4 DEF LookupFails, TypeOK, ReaderInv
  <2> QED BY <1>1, <2>1, <2>2
<1> QED BY <1>2, <1>3, <1>4

\* Inv is inductive.
LEMMA NextInv == Inv /\ [Next]_vars => Inv'
<1> SUFFICES ASSUME Inv, [Next]_vars PROVE Inv'
  OBVIOUS
<1>1. ASSUME NEW w \in Writers, WriterStep(w) PROVE Inv'
  BY <1>1, AcquireInv, CallInvStep, LateInvStep, CommitInv DEF WriterStep
<1>2. ASSUME NEW r \in Readers, ReaderStep(r) PROVE Inv'
  BY <1>2, ReaderInvStep
<1>3. CASE UNCHANGED vars
  BY <1>3 DEF vars, Inv, TypeOK, LockInv, CallInv, TokenInv, ReaderInv
<1> QED BY <1>1, <1>2, <1>3 DEF Next, Terminated

\* Inv holds in every reachable state, whatever is lost, late or rolled back.
THEOREM Invariance == Spec => []Inv
  BY InitInv, NextInv, PTL DEF Spec

-------------------------------------------------------------------------------
\* The variables keep their types, and no writer makes more SpiceDB calls than
\* its `apply` contains.
THEOREM TypeCorrect == Spec => []TypeOK
  BY Invariance, PTL DEF Inv

\* Writers reach SpiceDB one at a time, also when they race to create the row.
THEOREM MutualExclusion == Spec => []OneWriterAtSpiceDB
<1>1. Inv => OneWriterAtSpiceDB
  BY DEF Inv, LockInv, OneWriterAtSpiceDB, InsideLock
<1> QED BY <1>1, Invariance, PTL

\* No step takes the row away or moves its token backwards.
LEMMA TokenMonotoneStep ==
  ASSUME Inv, [Next]_vars
  PROVE  row # NoRow => row' # NoRow /\ row' >= row
<1>1. CASE UNCHANGED row
  BY <1>1 DEF Inv, TypeOK
<1>2. ASSUME NEW w \in Writers, pc[w] = "store", row' = token[w]
      PROVE  row # NoRow => row' # NoRow /\ row' >= row
  BY <1>2, CheckpointAssumption DEF Inv, TypeOK, TokenInv
<1>3. ASSUME NEW w \in Writers, WriterStep(w)
      PROVE  UNCHANGED row \/ (pc[w] = "store" /\ row' = token[w])
  BY <1>3
  DEF WriterStep, Acquire, GiveUp, Call, Commit, SelectForUpdate, SelectFindsNothing,
      InsertRow, InsertConflicts, CallReturns, CallRejected, CallTimesOut,
      LateCallApplies, StoreAndCommit, CommitFails, CommitUnanswered
<1>4. ASSUME NEW r \in Readers, ReaderStep(r)
      PROVE  UNCHANGED row
  BY <1>4 DEF ReaderStep, writerVars
<1> QED BY <1>1, <1>2, <1>3, <1>4 DEF Next, Terminated, vars

\* The stored ZedToken never moves backwards.
THEOREM TokenMonotone == Spec => TokenNeverMovesBack
  BY TokenMonotoneStep, Invariance, PTL DEF Spec, TokenNeverMovesBack

\* A change acknowledged before a read begins is in the revision that answers it.
THEOREM Freshness == Spec => []AckedWriteIsVisible
<1>1. Inv => AckedWriteIsVisible
  BY DEF Inv, TypeOK, ReaderInv, AckedWriteIsVisible
<1> QED BY <1>1, Invariance, PTL

-------------------------------------------------------------------------------
(* The refinement: every step of Checkpoint is a step of FreshReads, or    *)
(* changes nothing a caller can see.                                       *)

\* Nothing is acknowledged or read yet on either side.
LEMMA InitRefines == Init => Promise!Init
  BY DEF Init, Promise!Init, Outcome, Reading

\* Taking the lock is invisible to the callers; giving up is a failure.
LEMMA AcquireRefines ==
  ASSUME Inv, NEW w \in Writers, Acquire(w) \/ GiveUp(w), UNCHANGED readerVars
  PROVE  [Promise!Next]_(Promise!vars)
<1> USE DEF Inv, TypeOK, readerVars, GoTo, Outcome, Reading
<1>1. CASE Acquire(w)
  <2>1. UNCHANGED Promise!vars
    BY <1>1
    DEF Acquire, SelectForUpdate, SelectFindsNothing, InsertRow, InsertConflicts,
        Promise!vars
  <2> QED BY <2>1
<1>2. CASE GiveUp(w)
  <2>1. Promise!Fail(w)
    BY <1>2 DEF GiveUp, Promise!Fail
  <2> QED BY <2>1 DEF Promise!Next
<1> QED BY <1>1, <1>2

\* A call that returns writes; one that is rejected or lost fails the change,
\* with or without a write.
LEMMA CallRefines ==
  ASSUME Inv, NEW w \in Writers, Call(w), UNCHANGED readerVars
  PROVE  Promise!Next
<1> USE DEF Inv, TypeOK, readerVars, GoTo, NewRevision, Rollback, Outcome, Reading
<1>1. CASE CallReturns(w)
  <2>1. Promise!Write(w)
    BY <1>1 DEF CallReturns, Promise!Write, Promise!NewRevision
  <2> QED BY <2>1 DEF Promise!Next
<1>2. CASE CallRejected(w)
  <2>1. Promise!Fail(w)
    BY <1>2 DEF CallRejected, Promise!Fail
  <2> QED BY <2>1 DEF Promise!Next
<1>3. CASE CallTimesOut(w)
  <2>1. Promise!Fail(w)
    BY <1>3 DEF CallTimesOut, Promise!Fail, Promise!NewRevision
  <2> QED BY <2>1 DEF Promise!Next
<1> QED BY <1>1, <1>2, <1>3 DEF Call

\* A lost call that is applied late is a write of a failed change.
LEMMA LateRefines ==
  ASSUME Inv, NEW w \in Writers, LateCallApplies(w), UNCHANGED readerVars
  PROVE  Promise!Next
<1>1. Promise!Write(w)
  BY DEF Inv, TypeOK, LockInv, readerVars, LateCallApplies, NewRevision, Outcome, Reading,
         Promise!Write, Promise!NewRevision
<1> QED BY <1>1 DEF Promise!Next

\* Storing the token acknowledges the change, unless the commit goes wrong.
LEMMA CommitRefines ==
  ASSUME Inv, NEW w \in Writers, Commit(w), UNCHANGED readerVars
  PROVE  Promise!Next
<1> USE DEF Inv, TypeOK, readerVars, GoTo, Rollback, Outcome, Reading
<1>1. CASE StoreAndCommit(w)
  <2>1. Promise!Acknowledge(w)
    BY <1>1 DEF StoreAndCommit, TokenInv, Promise!Acknowledge
  <2> QED BY <2>1 DEF Promise!Next
<1>2. CASE CommitFails(w) \/ CommitUnanswered(w)
  <2>1. Promise!Fail(w)
    BY <1>2 DEF CommitFails, CommitUnanswered, Promise!Fail
  <2> QED BY <2>1 DEF Promise!Next
<1> QED BY <1>1, <1>2 DEF Commit

\* A reader's steps are the promise's; the revision SpiceDB answers from holds
\* every change due, because the pinned token does.
LEMMA ReaderRefines ==
  ASSUME Inv, NEW r \in Readers, ReaderStep(r)
  PROVE  Promise!Next
<1> USE DEF Inv, TypeOK, ReaderStep, writerVars, Outcome, Reading
<1>1. CASE ReadToken(r)
  <2>1. due' = [due EXCEPT ![r] = {w \in Writers : Outcome[w] = "acked"}]
    BY <1>1 DEF ReadToken, Acked
  <2>2. Promise!BeginRead(r)
    BY <1>1, <2>1 DEF ReadToken, Promise!BeginRead
  <2> QED BY <2>2 DEF Promise!Next
<1>2. CASE Lookup(r)
  <2>1. PICK revision \in Consistency(pinned[r]) : seen' = [seen EXCEPT ![r] = revision]
    BY <1>2 DEF Lookup
  <2>2. revision \in 0 .. head /\ \A w \in due[r] : applied[w] <= revision
    BY <2>1 DEF Consistency, ReaderInv
  <2>3. Promise!Answer(r)
    BY <1>2, <2>1, <2>2 DEF Lookup, Promise!Answer
  <2> QED BY <2>3 DEF Promise!Next
<1>3. CASE LookupFails(r)
  <2>1. Promise!FailRead(r)
    BY <1>3 DEF LookupFails, Promise!FailRead
  <2> QED BY <2>1 DEF Promise!Next
<1> QED BY <1>1, <1>2, <1>3

\* Checkpoint implements FreshReads.
THEOREM Refinement == Spec => KeepsPromise
<1>1. ASSUME Inv, [Next]_vars
      PROVE  [Promise!Next]_(Promise!vars)
  <2>1. ASSUME NEW w \in Writers, WriterStep(w) PROVE [Promise!Next]_(Promise!vars)
    BY <1>1, <2>1, AcquireRefines, CallRefines, LateRefines, CommitRefines DEF WriterStep
  <2>2. ASSUME NEW r \in Readers, ReaderStep(r) PROVE Promise!Next
    BY <1>1, <2>2, ReaderRefines
  <2>3. CASE UNCHANGED vars
    BY <2>3 DEF vars, Promise!vars, Outcome, Reading
  <2> QED BY <1>1, <2>1, <2>2, <2>3 DEF Next, Terminated
<1> QED BY <1>1, InitRefines, Invariance, PTL DEF Spec, KeepsPromise, Promise!Spec
-------------------------------------------------------------------------------
(* What WritesEnd rests on, up to fairness.                                *)

\* The writer has a step of its own that waits for nobody.
CanMove(w) ==
  \/ pc[w] = "select" /\ (row = NoRow \/ lock = NoOne)
  \/ pc[w] = "insert" /\ (row # NoRow \/ lock = NoOne)
  \/ pc[w] = "relock" /\ lock = NoOne
  \/ pc[w] \in {"apply", "store"}

Unfinished == {w \in Writers : pc[w] \notin {"acked", "failed"}}

\* A writer that comes back to select finds the row it met.
RelockInv == \A w \in Writers : pc[w] = "relock" => row # NoRow

\* The most steps a writer has left.
WorkLeft(w) ==
  CASE pc[w] = "select" -> Calls[w] + 4
    [] pc[w] = "insert" -> Calls[w] + 3
    [] pc[w] = "relock" -> Calls[w] + 2
    [] pc[w] = "apply" -> Calls[w] - made[w] + 1
    [] pc[w] = "store" -> 1
    [] OTHER -> 0

\* The row that made a writer lose the insert stays.
LEMMA RelockInvariance == Spec => []RelockInv
<1>1. Init => RelockInv
  BY DEF Init, RelockInv
<1>2. ASSUME Inv, RelockInv, [Next]_vars PROVE RelockInv'
  <2>1. row # NoRow => row' # NoRow
    BY <1>2, TokenMonotoneStep
  <2>2. ASSUME NEW w \in Writers, pc'[w] = "relock"
        PROVE  pc[w] = "relock" \/ row # NoRow
    <3>1. ASSUME NEW v \in Writers, WriterStep(v) PROVE pc[w] = "relock" \/ row # NoRow
      BY <1>2, <2>2, <3>1
      DEF WriterStep, Acquire, GiveUp, Call, Commit, SelectForUpdate, SelectFindsNothing,
          InsertRow, InsertConflicts, CallReturns, CallRejected, CallTimesOut, Rollback,
          LateCallApplies, StoreAndCommit, CommitFails, CommitUnanswered, GoTo, Inv, TypeOK
    <3>2. ASSUME NEW r \in Readers, ReaderStep(r) PROVE pc[w] = "relock"
      BY <2>2, <3>2 DEF ReaderStep, writerVars
    <3> QED
      BY <1>2, <2>2, <3>1, <3>2 DEF Next, Terminated, vars
  <2> QED
    BY <1>2, <2>1, <2>2 DEF RelockInv
<1> QED
  BY <1>1, <1>2, Invariance, PTL DEF Spec

\* The writers never all wait for one another: whatever failed before, on a fresh
\* database too, some unfinished writer can move, and so can the one that holds the lock.
THEOREM WritersNeverStuck ==
  Spec => [](/\ Unfinished # {} => \E w \in Unfinished : CanMove(w)
             /\ lock # NoOne => lock \in Unfinished /\ CanMove(lock))
<1>1. ASSUME Inv, RelockInv
      PROVE  /\ Unfinished # {} => \E w \in Unfinished : CanMove(w)
             /\ lock # NoOne => lock \in Unfinished /\ CanMove(lock)
  <2>1. lock # NoOne => lock \in Unfinished /\ CanMove(lock)
    BY <1>1 DEF Inv, TypeOK, LockInv, Unfinished, CanMove
  <2>2. ASSUME lock = NoOne, NEW w \in Unfinished PROVE CanMove(w)
    BY <1>1, <2>2 DEF Inv, TypeOK, RelockInv, Unfinished, CanMove
  <2> QED
    BY <2>1, <2>2
<1> QED
  BY <1>1, Invariance, RelockInvariance, PTL

\* A writer does not come back to where it was: each of its own steps takes from a
\* number of steps that no step of another, nor a late call, changes.
THEOREM WritersProgress ==
  Spec =>
    /\ [](\A w \in Writers : WorkLeft(w) \in Nat /\ (w \in Unfinished => WorkLeft(w) > 0))
    /\ [][\A w \in Writers :
            /\ WorkLeft(w)' <= WorkLeft(w)
            /\ Acquire(w) \/ Call(w) \/ Commit(w) => WorkLeft(w)' < WorkLeft(w)]_vars
<1>1. ASSUME Inv
      PROVE  \A w \in Writers : WorkLeft(w) \in Nat /\ (w \in Unfinished => WorkLeft(w) > 0)
  BY <1>1, CheckpointAssumption DEF Inv, TypeOK, CallInv, WorkLeft, Unfinished
<1>2. ASSUME Inv, NEW w \in Writers, Acquire(w) \/ GiveUp(w) \/ Call(w) \/ Commit(w)
      PROVE  /\ WorkLeft(w)' < WorkLeft(w)
             /\ \A v \in Writers \ {w} : UNCHANGED WorkLeft(v)
  <2> USE CheckpointAssumption DEF Inv, TypeOK, CallInv, GoTo, Rollback, WorkLeft
  <2>1. CASE Acquire(w)
    BY <1>2, <2>1 DEF Acquire, SelectForUpdate, SelectFindsNothing, InsertRow, InsertConflicts
  <2>2. CASE GiveUp(w)
    BY <1>2, <2>2 DEF GiveUp
  <2>3. CASE CallReturns(w)
    BY <1>2, <2>3 DEF CallReturns
  <2>4. CASE CallRejected(w) \/ CallTimesOut(w)
    BY <1>2, <2>4 DEF CallRejected, CallTimesOut
  <2>5. CASE Commit(w)
    BY <1>2, <2>5 DEF Commit, StoreAndCommit, CommitFails, CommitUnanswered
  <2> QED
    BY <1>2, <2>1, <2>2, <2>3, <2>4, <2>5 DEF Call
<1>3. ASSUME Inv' PROVE \A w \in Writers : WorkLeft(w)' \in Nat
  BY <1>3, CheckpointAssumption DEF Inv, TypeOK, CallInv, WorkLeft
<1>4. ASSUME Inv, Inv', [Next]_vars, NEW w \in Writers
      PROVE  /\ WorkLeft(w)' <= WorkLeft(w)
             /\ Acquire(w) \/ Call(w) \/ Commit(w) => WorkLeft(w)' < WorkLeft(w)
  <2>1. WorkLeft(w) \in Nat
    BY <1>1, <1>4
  <2>2. UNCHANGED <<pc, made>> => UNCHANGED WorkLeft(w)
    BY DEF WorkLeft
  <2>3. ASSUME NEW v \in Writers, WriterStep(v) PROVE WorkLeft(w)' <= WorkLeft(w)
    <3>1. CASE LateCallApplies(v)
      BY <2>1, <2>2, <3>1 DEF LateCallApplies
    <3>2. CASE Acquire(v) \/ GiveUp(v) \/ Call(v) \/ Commit(v)
      <4>1. WorkLeft(v) \in Nat /\ WorkLeft(v)' \in Nat
        BY <1>1, <1>3, <1>4
      <4> QED
        BY <1>2, <1>4, <2>1, <3>2, <4>1
    <3> QED
      BY <2>3, <3>1, <3>2 DEF WriterStep
  <2>4. UNCHANGED <<pc, made>> \/ \E v \in Writers : WriterStep(v)
    BY <1>4 DEF Next, Terminated, ReaderStep, writerVars, vars
  <2> QED
    BY <1>2, <1>4, <2>1, <2>2, <2>3, <2>4
<1>5. ASSUME Inv, Inv', [Next]_vars
      PROVE  [\A w \in Writers :
                /\ WorkLeft(w)' <= WorkLeft(w)
                /\ Acquire(w) \/ Call(w) \/ Commit(w) => WorkLeft(w)' < WorkLeft(w)]_vars
  BY <1>4, <1>5
<1> QED
  BY <1>1, <1>5, NextInv, Invariance, PTL DEF Spec
===============================================================================
