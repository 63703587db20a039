------------------------------ MODULE Checkpoint ------------------------------
(***************************************************************************)
(* The ZedToken checkpoint: PermissionService._write_and_checkpoint and    *)
(* _lock_checkpoint (permissions/service.py), checkpoint_scope             *)
(* (db/session.py) and the reads that are pinned to the stored token       *)
(* (get_checkpoint_token, SpiceDBClient._consistency).                     *)
(*                                                                         *)
(* A writer is one permission change of one HTTP request; a reader is one  *)
(* permission read of one request.  Each is a coroutine, interleaved with  *)
(* the others at every await, in any number of server processes.  SpiceDB  *)
(* and Postgres are modelled as the code uses them:                        *)
(*   - the revisions of the permission graph are numbered 1, 2, ...; a     *)
(*     ZedToken names a revision, 0 stands for NULL (no token stored yet); *)
(*   - a call to SpiceDB has a deadline, so it always ends, but one that   *)
(*     ends in an error may have been applied, or may still be applied;    *)
(*   - Postgres runs at READ COMMITTED: a select sees committed rows only, *)
(*     FOR UPDATE and a pending insert of the same key make others wait.   *)
(***************************************************************************)
EXTENDS Naturals, FiniteSets

CONSTANTS
  Writers,   \* permission changes
  Readers,   \* permission reads
  Calls,     \* Calls[w]: how many SpiceDB writes the `apply` of w makes
  NoRow,     \* the checkpoint row does not exist
  NoOne      \* nobody holds the row lock

ASSUME CheckpointAssumption ==
  /\ Calls \in [Writers -> Nat \ {0}]
  /\ NoRow \notin Nat
  /\ NoOne \notin Writers

VARIABLES
  row,       \* committed permission_checkpoint row: NoRow or its zed_token
  lock,      \* the writer whose open transaction locks (or is inserting) the row
  pc,        \* pc[w]: where the writer is in _write_and_checkpoint
  made,      \* made[w]: SpiceDB writes of w that have returned
  token,     \* token[w]: ZedToken of the last of them, 0 before the first
  head,      \* SpiceDB: newest revision
  applied,   \* SpiceDB: newest revision that holds a write of w, 0 if none
  late,      \* writers whose call missed its deadline and may yet be applied
  read,      \* read[r]: where the reader is
  pinned,    \* pinned[r]: the token the reader is pinned to, 0 for none
  seen,      \* seen[r]: the revision the reader was answered from
  due        \* history: the writers acknowledged when the reader began

writerVars == <<row, lock, pc, made, token, head, applied, late>>
readerVars == <<read, pinned, seen, due>>
vars == <<row, lock, pc, made, token, head, applied, late,
          read, pinned, seen, due>>

Init ==
  /\ row \in {NoRow, 0}       \* bootstrap.py may have created it already
  /\ lock = NoOne
  /\ pc = [w \in Writers |-> "select"]
  /\ made = [w \in Writers |-> 0]
  /\ token = [w \in Writers |-> 0]
  /\ head = 0
  /\ applied = [w \in Writers |-> 0]
  /\ late = {}
  /\ read = [r \in Readers |-> "idle"]
  /\ pinned = [r \in Readers |-> 0]
  /\ seen = [r \in Readers |-> 0]
  /\ due = [r \in Readers |-> {}]

-------------------------------------------------------------------------------
(* _lock_checkpoint: how a writer comes to hold the row.                   *)

GoTo(w, label) == pc' = [pc EXCEPT ![w] = label]

\* Mutant: a plain SELECT, without FOR UPDATE, waits for nobody.
SelectWithoutForUpdate(w) ==
  /\ pc[w] \in {"select", "relock"}
  /\ row # NoRow
  /\ lock' = w
  /\ GoTo(w, "apply")
  /\ UNCHANGED <<row, made, token, head, applied, late>>

\* The row is there: SELECT ... FOR UPDATE waits for whoever has it locked.
SelectForUpdate(w) ==
  /\ pc[w] \in {"select", "relock"}
  /\ row # NoRow
  /\ lock = NoOne
  /\ lock' = w
  /\ GoTo(w, "apply")
  /\ UNCHANGED <<row, made, token, head, applied, late>>

\* No committed row: nothing to lock, and nothing to wait for.
SelectFindsNothing(w) ==
  /\ pc[w] = "select"
  /\ row = NoRow
  /\ GoTo(w, "insert")
  /\ UNCHANGED <<row, lock, made, token, head, applied, late>>

\* INSERT ... ON CONFLICT DO NOTHING waits while another transaction is
\* inserting the same key.  If that one rolled back, this one inserts, and the
\* SELECT FOR UPDATE that follows finds its own row.
InsertRow(w) ==
  /\ pc[w] = "insert"
  /\ row = NoRow
  /\ lock = NoOne
  /\ lock' = w
  /\ GoTo(w, "apply")
  /\ UNCHANGED <<row, made, token, head, applied, late>>

\* Mutant: the loser of the insert goes on without locking the winner's row.
InsertConflictsUnlocked(w) ==
  /\ pc[w] = "insert"
  /\ row # NoRow
  /\ GoTo(w, "apply")
  /\ UNCHANGED <<row, lock, made, token, head, applied, late>>

\* A committed row is a conflict even while it is locked: do nothing, select again.
InsertConflicts(w) ==
  /\ pc[w] = "insert"
  /\ row # NoRow
  /\ GoTo(w, "relock")
  /\ UNCHANGED <<row, lock, made, token, head, applied, late>>

\* The checkpoint pool times out, or a statement fails, before the lock is held.
GiveUp(w) ==
  /\ pc[w] \in {"select", "insert", "relock"}
  /\ GoTo(w, "failed")
  /\ UNCHANGED <<row, lock, made, token, head, applied, late>>

-------------------------------------------------------------------------------
(* apply(): the SpiceDB calls made under the lock.                         *)

\* Mutant: the exception escapes without a rollback.
RollbackForgotten(w) == GoTo(w, "failed") /\ UNCHANGED lock

\* An exception leaves checkpoint_scope: rollback, the lock is released.
Rollback(w) ==
  /\ lock' = NoOne
  /\ GoTo(w, "failed")

NewRevision(w) ==
  /\ head' = head + 1
  /\ applied' = [applied EXCEPT ![w] = head + 1]

\* Mutant: a purge hands back the token of its first delete.
CallReturnsFirstToken(w) ==
  /\ pc[w] = "apply"
  /\ NewRevision(w)
  /\ token' = [token EXCEPT ![w] = IF @ = 0 THEN head + 1 ELSE @]
  /\ made' = [made EXCEPT ![w] = @ + 1]
  /\ GoTo(w, IF made[w] + 1 = Calls[w] THEN "store" ELSE "apply")
  /\ UNCHANGED <<row, lock, late>>

\* Mutant: `apply` makes its last SpiceDB call once more.
CallReturnsOnceMore(w) ==
  /\ pc[w] = "apply"
  /\ NewRevision(w)
  /\ token' = [token EXCEPT ![w] = head + 1]
  /\ made' = [made EXCEPT ![w] = @ + 1]
  /\ GoTo(w, IF made[w] = Calls[w] THEN "store" ELSE "apply")
  /\ UNCHANGED <<row, lock, late>>

CallReturns(w) ==
  /\ pc[w] = "apply"
  /\ NewRevision(w)
  /\ token' = [token EXCEPT ![w] = head + 1]
  /\ made' = [made EXCEPT ![w] = @ + 1]
  /\ GoTo(w, IF made[w] + 1 = Calls[w] THEN "store" ELSE "apply")
  /\ UNCHANGED <<row, lock, late>>

CallRejected(w) ==
  /\ pc[w] = "apply"
  /\ Rollback(w)
  /\ UNCHANGED <<row, made, token, head, applied, late>>

\* DEADLINE_EXCEEDED, or the request's task is cancelled in the middle of the
\* call: SpiceDB has applied the write, or still has it in its hands.
CallTimesOut(w) ==
  /\ pc[w] = "apply"
  /\ Rollback(w)
  /\ \/ NewRevision(w) /\ UNCHANGED late
     \/ late' = late \union {w} /\ UNCHANGED <<head, applied>>
  /\ UNCHANGED <<row, made, token>>

LateCallApplies(w) ==
  /\ w \in late
  /\ late' = late \ {w}
  /\ NewRevision(w)
  /\ UNCHANGED <<row, lock, pc, made, token>>

-------------------------------------------------------------------------------
(* checkpoint.zed_token = token; checkpoint_scope commits.                 *)

StoreAndCommit(w) ==
  /\ pc[w] = "store"
  /\ row' = token[w]
  /\ lock' = NoOne
  /\ GoTo(w, "acked")
  /\ UNCHANGED <<made, token, head, applied, late>>

CommitFails(w) ==
  /\ pc[w] = "store"
  /\ Rollback(w)
  /\ UNCHANGED <<row, made, token, head, applied, late>>

\* The connection is lost after the server committed: the writer sees an error.
CommitUnanswered(w) ==
  /\ pc[w] = "store"
  /\ row' = token[w]
  /\ Rollback(w)
  /\ UNCHANGED <<made, token, head, applied, late>>

-------------------------------------------------------------------------------
(* Reads: list_viewable_document_ids, user_can_view, list_document_access. *)

Acked == {w \in Writers : pc[w] = "acked"}

\* get_checkpoint_token: no row and a NULL token both give None.
ReadToken(r) ==
  /\ read[r] = "idle"
  /\ pinned' = [pinned EXCEPT ![r] = IF row = NoRow THEN 0 ELSE row]
  /\ due' = [due EXCEPT ![r] = Acked]
  /\ read' = [read EXCEPT ![r] = "pinned"]
  /\ UNCHANGED seen

\* Mutant: minimize_latency, any revision SpiceDB has cached.
MinimizeLatency(t) == 0 .. head

\* _consistency: the revisions SpiceDB may answer from.  at_least_as_fresh for
\* a token, fully_consistent without one.
Consistency(t) == IF t = 0 THEN {head} ELSE t .. head

Lookup(r) ==
  /\ read[r] = "pinned"
  /\ \E revision \in Consistency(pinned[r]) : seen' = [seen EXCEPT ![r] = revision]
  /\ read' = [read EXCEPT ![r] = "answered"]
  /\ UNCHANGED <<pinned, due>>

\* PermissionSystemError: the read fails closed.
LookupFails(r) ==
  /\ read[r] = "pinned"
  /\ read' = [read EXCEPT ![r] = "failed"]
  /\ UNCHANGED <<pinned, seen, due>>

-------------------------------------------------------------------------------
Acquire(w) ==
  \/ SelectForUpdate(w)
  \/ SelectFindsNothing(w)
  \/ InsertRow(w)
  \/ InsertConflicts(w)

Call(w) == CallReturns(w) \/ CallRejected(w) \/ CallTimesOut(w)

Commit(w) == StoreAndCommit(w) \/ CommitFails(w) \/ CommitUnanswered(w)

WriterStep(w) ==
  /\ Acquire(w) \/ GiveUp(w) \/ Call(w) \/ LateCallApplies(w) \/ Commit(w)
  /\ UNCHANGED readerVars

ReaderStep(r) ==
  /\ ReadToken(r) \/ Lookup(r) \/ LookupFails(r)
  /\ UNCHANGED writerVars

\* Every request is over: the system may stay as it is.
Terminated ==
  /\ \A w \in Writers : pc[w] \in {"acked", "failed"}
  /\ \A r \in Readers : read[r] \in {"answered", "failed"}
  /\ UNCHANGED vars

Next ==
  \/ \E w \in Writers : WriterStep(w)
  \/ \E r \in Readers : ReaderStep(r)
  \/ Terminated

Spec == Init /\ [][Next]_vars

\* The event loop runs every coroutine that can run; a SpiceDB call ends by its
\* deadline.  No fairness on giving up: a writer that waits is never assumed to
\* be rescued by an error, nor a lost call to be applied in the end.
Fairness ==
  /\ \A w \in Writers : WF_vars((Acquire(w) \/ Call(w) \/ Commit(w)) /\ UNCHANGED readerVars)
  /\ \A r \in Readers : WF_vars(ReaderStep(r))

FairSpec == Spec /\ Fairness

-------------------------------------------------------------------------------
(* Properties.                                                             *)

\* The values the variables take; no writer makes more SpiceDB calls than its
\* `apply` contains.
TypeOK ==
  /\ row \in {NoRow} \union Nat
  /\ lock \in {NoOne} \union Writers
  /\ pc \in [Writers -> {"select", "insert", "relock", "apply", "store", "acked", "failed"}]
  /\ made \in [Writers -> Nat]
  /\ \A w \in Writers : made[w] <= Calls[w]
  /\ token \in [Writers -> Nat]
  /\ head \in Nat
  /\ applied \in [Writers -> Nat]
  /\ late \in SUBSET Writers
  /\ read \in [Readers -> {"idle", "pinned", "answered", "failed"}]
  /\ pinned \in [Readers -> Nat]
  /\ seen \in [Readers -> Nat]
  /\ due \in [Readers -> SUBSET Writers]

InsideLock == {w \in Writers : pc[w] \in {"apply", "store"}}

\* "Writers queue on the lock before touching SpiceDB": at most one writer is
\* between taking the lock and ending its transaction, on a fresh database with
\* racing inserts too.
OneWriterAtSpiceDB == \A v, w \in InsideLock : v = w

\* "The stored token never moves backwards", and the row never disappears,
\* whatever fails and however late a lost call is applied.
TokenNeverMovesBack ==
  [][row # NoRow => row' # NoRow /\ row' >= row]_vars

\* A revoke takes effect on the next query: a reader that starts after a change
\* was acknowledged is answered from a revision that holds all of its writes,
\* the first delete of a purge included.
AckedWriteIsVisible ==
  \A r \in Readers : read[r] = "answered" =>
    \A w \in due[r] : applied[w] <= seen[r]

\* No writer waits for the lock for ever, whatever happens to those before it.
WritesEnd == \A w \in Writers : <>(pc[w] \in {"acked", "failed"})

\* What a caller sees of a writer and of a reader.
Outcome == [w \in Writers |-> IF pc[w] \in {"acked", "failed"} THEN pc[w] ELSE "open"]
Reading == [r \in Readers |-> IF read[r] = "pinned" THEN "begun" ELSE read[r]]

\* The promise to the callers, with the lock, the row and the tokens hidden.
Promise == INSTANCE FreshReads WITH outcome <- Outcome, reading <- Reading

\* Checkpoint implements FreshReads: whatever the lock, the row and the tokens
\* do, the callers see changes that are acknowledged or fail and reads that
\* contain every change acknowledged before they began.
KeepsPromise == Promise!Spec
===============================================================================
