-------------------------------- MODULE Server --------------------------------
(***************************************************************************)
(* The API process: requests over the connection pools (db/session.py,     *)
(* api/deps.py, routers/chat.py), the log row of every question            *)
(* (rag/answerer.py), its evaluation in the background                     *)
(* (evaluation/evaluator.py) and the start and shutdown of the process     *)
(* (api/main.py, observability/langfuse_client.py).                        *)
(*                                                                         *)
(* A request is a question or a permission change.  What a question reads  *)
(* is in module Retrieval, what a permission change does while it holds    *)
(* the checkpoint lock in module Checkpoint; here they are what they hold  *)
(* and wait for.                                                           *)
(***************************************************************************)
EXTENDS Naturals, FiniteSets

CONSTANTS
  Requests,        \* bound: clients, with one request and one evaluation each at a time
  PoolSize,        \* db_pool_size + db_max_overflow
  CheckpointPool,  \* CHECKPOINT_POOL_SIZE
  EvalSlots        \* EVAL_CONCURRENCY

ASSUME ServerAssumption ==
  /\ IsFiniteSet(Requests)
  /\ {PoolSize, CheckpointPool, EvalSlots} \subseteq Nat \ {0}

VARIABLES
  phase,     \* "down", "up", "stopping", "draining", "drained" or "flushed"
  langfuse,  \* _client and _disabled: "absent", "live" or "disabled"
  at,        \* at[r]: where request r is
  kind,      \* kind[r]: "chat" or "write"
  conns,     \* the requests whose session holds a connection
  rows,      \* rows[r]: rows of query_logs committed for the question
  excused,   \* excused[r]: writing its row failed
  task,      \* task[r]: the evaluation, "none", "queued", "running" or "scored"
  warned     \* shutdown logged that evaluations or spans were dropped

process == <<phase, langfuse, warned>>
requestVars == <<at, kind, conns, rows, excused>>
serverVars == <<process, requestVars, task>>

ServerInit ==
  /\ phase = "down" /\ langfuse = "absent" /\ warned = FALSE
  /\ at = [r \in Requests |-> "idle"]
  /\ kind = [r \in Requests |-> "chat"]
  /\ conns = {}
  /\ rows = [r \in Requests |-> 0]
  /\ excused = [r \in Requests |-> FALSE]
  /\ task = [r \in Requests |-> "none"]

-------------------------------------------------------------------------------
(* The pools.                                                              *)

At(places) == {r \in Requests : at[r] \in places}

GoesTo(r, place) == at' = [at EXCEPT ![r] = place]

\* A failed question's row has a session of its own.
Connected == Cardinality(conns) + Cardinality(At({"recording"}))

HasConnection == Connected < PoolSize

\* Mutant: checkpoint sessions come from the request pool.
HasCheckpointOfRequests == Connected + Cardinality(At({"wantLock", "locked"})) < PoolSize

HasCheckpointConnection == Cardinality(At({"wantLock", "locked"})) < CheckpointPool

-------------------------------------------------------------------------------
(* Requests.                                                               *)

Arrive(r) ==
  /\ phase = "up" /\ at[r] = "idle" /\ task[r] = "none"
  /\ GoesTo(r, "enter")
  /\ \E k \in {"chat", "write"} : kind' = [kind EXCEPT ![r] = k]
  /\ UNCHANGED <<process, conns, rows, excused, task>>

\* get_current_user is the first to need a connection.
Enter(r) ==
  /\ at[r] = "enter" /\ HasConnection
  /\ GoesTo(r, "entered")
  /\ conns' = conns \union {r}
  /\ UNCHANGED <<process, kind, rows, excused, task>>

Leaves(r) ==
  /\ GoesTo(r, "idle")
  /\ kind' = [kind EXCEPT ![r] = "chat"]
  /\ conns' = conns \ {r}
  /\ rows' = [rows EXCEPT ![r] = 0]
  /\ excused' = [excused EXCEPT ![r] = FALSE]
  /\ UNCHANGED <<process, task>>

\* The token is not valid, the question too long, the change not allowed.
Refuse(r) == at[r] = "entered" /\ Leaves(r)

\* pool_timeout: only where others hold all connections.
PoolTimesOut(r) ==
  \/ at[r] = "enter" /\ ~HasConnection /\ Leaves(r)
  \/ /\ \/ at[r] = "log" /\ ~HasConnection /\ GoesTo(r, "failed")
        \/ at[r] = "entered" /\ kind[r] = "write" /\ ~HasCheckpointConnection /\ GoesTo(r, "rollback")
     /\ UNCHANGED <<process, kind, conns, rows, excused, task>>

\* The permission lookup and end_transaction, which gives the connection back; a
\* failure keeps it.
LookUp(r) ==
  /\ at[r] = "entered" /\ kind[r] = "chat"
  /\ \/ GoesTo(r, "search") /\ conns' = conns \ {r}
     \/ GoesTo(r, "failed") /\ UNCHANGED conns
  /\ UNCHANGED <<process, kind, rows, excused, task>>

\* Embedding, search, reranking and the model, without a connection.
Search(r) ==
  /\ at[r] = "search"
  /\ \E place \in {"log", "failed"} : GoesTo(r, place)
  /\ UNCHANGED <<process, kind, conns, rows, excused, task>>

\* _log_query takes a connection again.  A question with passages gets its evaluation.
Log(r) ==
  /\ at[r] = "log" /\ HasConnection
  /\ conns' = conns \union {r}
  /\ \/ GoesTo(r, "answered") /\ \E t \in {"none", "queued"} : task' = [task EXCEPT ![r] = t]
     \/ GoesTo(r, "failed") /\ UNCHANGED task
  /\ UNCHANGED <<process, kind, rows, excused>>

\* checkpoint_scope, while the request holds its connection.
TakeCheckpointConnection(r) ==
  /\ at[r] = "entered" /\ kind[r] = "write" /\ HasCheckpointConnection
  /\ GoesTo(r, "wantLock")
  /\ UNCHANGED <<process, kind, conns, rows, excused, task>>

\* SELECT ... FOR UPDATE.
LockCheckpoint(r) ==
  /\ at[r] = "wantLock" /\ At({"locked"}) = {}
  /\ GoesTo(r, "locked")
  /\ UNCHANGED <<process, kind, conns, rows, excused, task>>

\* The SpiceDB write and the checkpoint's commit or rollback.
EndCheckpoint(r) ==
  /\ at[r] = "locked"
  /\ \E place \in {"answered", "rollback"} : GoesTo(r, place)
  /\ UNCHANGED <<process, kind, conns, rows, excused, task>>

\* The end of get_db_session: the row of a question is committed only now, when its
\* answer is already there.
CommitRequest(r) ==
  /\ at[r] = "answered"
  /\ IF kind[r] = "write"
     THEN UNCHANGED <<rows, excused>>
     ELSE \/ rows' = [rows EXCEPT ![r] = @ + 1] /\ UNCHANGED excused
          \/ excused' = [excused EXCEPT ![r] = TRUE] /\ UNCHANGED rows
  /\ conns' = conns \ {r}
  /\ GoesTo(r, "over")
  /\ UNCHANGED <<process, kind, task>>

\* record_failed_query takes a second connection, or times out and logs that.
RecordFailure(r) ==
  /\ at[r] = "failed"
  /\ IF HasConnection
     THEN GoesTo(r, "recording") /\ UNCHANGED excused
     ELSE GoesTo(r, "rollback") /\ excused' = [excused EXCEPT ![r] = TRUE]
  /\ UNCHANGED <<process, kind, conns, rows, task>>

\* Mutant: the row goes with the request's transaction, which rolls back.
RecordedInRequest(r) ==
  /\ at[r] = "recording"
  /\ UNCHANGED <<rows, excused>>
  /\ GoesTo(r, "rollback")
  /\ UNCHANGED <<process, kind, conns, task>>

Recorded(r) ==
  /\ at[r] = "recording"
  /\ \/ rows' = [rows EXCEPT ![r] = @ + 1] /\ UNCHANGED excused
     \/ excused' = [excused EXCEPT ![r] = TRUE] /\ UNCHANGED rows
  /\ GoesTo(r, "rollback")
  /\ UNCHANGED <<process, kind, conns, task>>

RollbackRequest(r) ==
  /\ at[r] = "rollback"
  /\ conns' = conns \ {r}
  /\ GoesTo(r, "over")
  /\ UNCHANGED <<process, kind, rows, excused, task>>

RequestOver(r) == at[r] = "over" /\ Leaves(r)

-------------------------------------------------------------------------------
(* Evaluations.                                                            *)

Evaluating == {r \in Requests : task[r] = "running"}

\* Mutant: one evaluation more than there are slots.
HasSlotMore == Cardinality(Evaluating) <= EvalSlots

HasSlot == Cardinality(Evaluating) < EvalSlots

StartEvaluation(r) ==
  /\ phase # "down" /\ task[r] = "queued" /\ HasSlot
  /\ task' = [task EXCEPT ![r] = "running"]
  /\ UNCHANGED <<process, requestVars>>

\* get_langfuse: the client there is, or a new one; a failure disables tracing.
GetLangfuse ==
  IF langfuse = "absent" THEN langfuse' \in {"live", "disabled"} ELSE UNCHANGED langfuse

\* The judge failed, or was skipped; or the scores go to the client, if there is one.
EndEvaluation(r) ==
  /\ phase # "down" /\ task[r] = "running"
  /\ \/ task' = [task EXCEPT ![r] = "none"] /\ UNCHANGED langfuse
     \/ /\ GetLangfuse
        /\ task' = [task EXCEPT ![r] = IF langfuse' = "live" THEN "scored" ELSE "none"]
  /\ UNCHANGED <<phase, warned, requestVars>>

\* The client sends what it has from time to time.
Export(r) ==
  /\ task[r] = "scored" /\ phase # "down"
  /\ task' = [task EXCEPT ![r] = "none"]
  /\ UNCHANGED <<process, requestVars>>

-------------------------------------------------------------------------------
(* The process.                                                            *)

\* lifespan up to its yield.
Start ==
  /\ phase = "down"
  /\ phase' = "up"
  /\ langfuse' \in {"live", "disabled"}
  /\ warned' = FALSE
  /\ task' = [r \in Requests |-> "none"]
  /\ UNCHANGED requestVars

Stop ==
  /\ phase = "up"
  /\ phase' = "stopping"
  /\ UNCHANGED <<langfuse, warned, requestVars, task>>

\* uvicorn lets requests end before the lifespan goes on.
Drain ==
  /\ phase = "stopping" /\ At({"idle"}) = Requests
  /\ phase' = "draining"
  /\ UNCHANGED <<langfuse, warned, requestVars, task>>

\* Mutant: a task is known only once it has a slot.
BackgroundTasksWithSlot == {r \in Requests : task[r] = "running"}

\* _background_tasks.
BackgroundTasks == {r \in Requests : task[r] \in {"queued", "running"}}

DrainEnds ==
  /\ phase = "draining" /\ BackgroundTasks = {}
  /\ phase' = "drained"
  /\ UNCHANGED <<langfuse, warned, requestVars, task>>

\* Mutant: drain_background_tasks waits for as long as it takes.
DrainWaits ==
  /\ phase = "draining" /\ BackgroundTasks = {}
  /\ phase' = "drained"
  /\ UNCHANGED <<langfuse, warned, requestVars, task>>

DrainTimesOut ==
  /\ phase = "draining" /\ BackgroundTasks # {}
  /\ phase' = "drained"
  /\ warned' = TRUE
  /\ UNCHANGED <<langfuse, requestVars, task>>

\* shutdown_langfuse: a flush that fails is logged, and the client is gone anyway.
\* Without a client there is nothing to flush.
ShutdownLangfuse ==
  /\ phase = "drained"
  /\ phase' = "flushed"
  /\ IF langfuse = "live"
     THEN /\ langfuse' = "absent"
          /\ \/ /\ task' = [r \in Requests |-> IF task[r] = "scored" THEN "none" ELSE task[r]]
                /\ UNCHANGED warned
             \/ warned' = TRUE /\ UNCHANGED task
     ELSE UNCHANGED <<langfuse, task, warned>>
  /\ UNCHANGED requestVars

\* The store and the pools are closed; tasks left over end with the loop.
Exit ==
  /\ phase = "flushed"
  /\ phase' = "down"
  /\ langfuse' = "absent"
  /\ UNCHANGED <<warned, requestVars, task>>

-------------------------------------------------------------------------------
\* Steps that wait for a connection or the lock.
Acquires(r) == Enter(r) \/ Log(r) \/ TakeCheckpointConnection(r) \/ LockCheckpoint(r)

\* Steps that end by themselves: calls have timeouts.
Proceeds(r) ==
  \/ LookUp(r) \/ Search(r) \/ EndCheckpoint(r) \/ CommitRequest(r) \/ RecordFailure(r)
  \/ Recorded(r) \/ RollbackRequest(r) \/ RequestOver(r)

RequestStep(r) == Arrive(r) \/ Refuse(r) \/ PoolTimesOut(r) \/ Acquires(r) \/ Proceeds(r)

EvaluationStep(r) == StartEvaluation(r) \/ EndEvaluation(r) \/ Export(r)

ShutdownStep == Drain \/ DrainEnds \/ DrainTimesOut \/ ShutdownLangfuse \/ Exit

ServerNext ==
  \/ Start \/ Stop \/ ShutdownStep
  \/ \E r \in Requests : RequestStep(r) \/ EvaluationStep(r)

\* Freed connections and the lock go to those who wait, first come first served.  No
\* evaluation need ever end, and no wait for a connection need time out but that of
\* record_failed_query.
ServerFairness ==
  /\ \A r \in Requests : SF_serverVars(Acquires(r)) /\ WF_serverVars(Proceeds(r))
  /\ WF_serverVars(ShutdownStep)

ServerSpec == ServerInit /\ [][ServerNext]_serverVars /\ ServerFairness

-------------------------------------------------------------------------------
(* Properties.                                                             *)

\* The values the variables take; pools and slots are not overdrawn.
ServerTypeOK ==
  /\ phase \in {"down", "up", "stopping", "draining", "drained", "flushed"}
  /\ langfuse \in {"absent", "live", "disabled"}
  /\ warned \in BOOLEAN
  /\ at \in [Requests -> {"idle", "enter", "entered", "search", "log", "failed", "recording",
                          "wantLock", "locked", "answered", "rollback", "over"}]
  /\ kind \in [Requests -> {"chat", "write"}]
  /\ conns \subseteq Requests
  /\ Connected <= PoolSize
  /\ Cardinality(At({"wantLock", "locked"})) <= CheckpointPool
  /\ rows \in [Requests -> Nat]
  /\ excused \in [Requests -> BOOLEAN]
  /\ task \in [Requests -> {"none", "queued", "running", "scored"}]
  /\ Cardinality(Evaluating) <= EvalSlots

\* Every question leaves one row, answered or failed, wherever it failed
\* (record_failed_query: "without this a failed question would leave no row at all").
\* The exceptions are a commit that fails once the answer is there and a row of
\* a failure that cannot be written.
OneRowPerQuestion ==
  \A r \in Requests :
    at[r] = "over" /\ kind[r] = "chat" => rows[r] = IF excused[r] THEN 0 ELSE 1

\* "Let in-flight evaluations push their scores before Langfuse is flushed"
\* (api/main.py): the process ends with scores that were not sent only where it has
\* said so.
ScoresLostOnlyWithWarning ==
  phase = "down" /\ (\E r \in Requests : task[r] # "none") => warned

\* No request waits for ever on others that wait on it: permission changes hold their
\* connection while they wait for a checkpoint connection and the lock, questions
\* while they record their failure.
RequestsEnd == \A r \in Requests : at[r] # "idle" ~> at[r] = "idle"

\* "Wait, bounded" (drain_background_tasks): a process told to stop does, even if an
\* evaluation never ends.
ShutdownEnds == phase = "stopping" ~> phase = "down"
===============================================================================
