----------------------------- MODULE ServerProofs -----------------------------
(***************************************************************************)
(* Server, proved for any number of requests and any sizes of the pools:   *)
(* neither pool nor the evaluation slots are overdrawn, every question     *)
(* leaves one row, scores are lost only with a warning, and requests never *)
(* all wait for one another.                                               *)
(***************************************************************************)
EXTENDS Server, FiniteSetTheorems, TLAPS

\* A question has no row before it ends, and the right number when it does.  Who is at
\* the checkpoint is a permission change.
RowInv ==
  \A r \in Requests :
    /\ at[r] \notin {"rollback", "over"} => rows[r] = 0 /\ ~excused[r]
    /\ at[r] \in {"rollback", "over"} /\ kind[r] = "chat" =>
         rows[r] = IF excused[r] THEN 0 ELSE 1
    /\ at[r] \in {"wantLock", "locked"} => kind[r] = "write"

\* Requests run only until the process drains.  While the client lives, scores are with
\* it; from each stage of the shutdown on, what is left behind has been warned of.
ExitInv ==
  /\ phase \notin {"up", "stopping"} => \A r \in Requests : at[r] = "idle"
  /\ phase \in {"up", "stopping", "draining", "drained"} =>
       /\ langfuse # "absent"
       /\ langfuse = "disabled" => \A r \in Requests : task[r] # "scored"
  /\ phase = "drained" => warned \/ \A r \in Requests : task[r] \notin {"queued", "running"}
  /\ phase \in {"flushed", "down"} => warned \/ \A r \in Requests : task[r] = "none"

Inv == ServerTypeOK /\ RowInv /\ ExitInv

-------------------------------------------------------------------------------
(* Pools and slots.                                                        *)

\* Sets of requests are finite, smaller ones are not larger, and one more request is at
\* most one more.
LEMMA Sizes ==
  /\ \A S \in SUBSET Requests : Cardinality(S) \in Nat
  /\ \A S, T \in SUBSET Requests : S \subseteq T => Cardinality(S) <= Cardinality(T)
  /\ \A S, T \in SUBSET Requests : \A r \in Requests :
       S \subseteq T \union {r} => Cardinality(S) <= Cardinality(T) + 1
<1>1. \A S \in SUBSET Requests : IsFiniteSet(S) /\ Cardinality(S) \in Nat
  BY ServerAssumption, FS_Subset, FS_CardinalityType
<1>2. \A S, T \in SUBSET Requests : S \subseteq T => Cardinality(S) <= Cardinality(T)
  BY <1>1, FS_Subset
<1>3. ASSUME NEW S \in SUBSET Requests, NEW T \in SUBSET Requests, NEW r \in Requests,
             S \subseteq T \union {r}
      PROVE  Cardinality(S) <= Cardinality(T) + 1
  <2>1. Cardinality(T \union {r}) <= Cardinality(T) + 1
    <3>1. Cardinality(T \union {r}) = IF r \in T THEN Cardinality(T) ELSE Cardinality(T) + 1
      BY <1>1, FS_AddElement
    <3> QED
      BY <1>1, <3>1
  <2>2. Cardinality(S) <= Cardinality(T \union {r})
    BY <1>2, <1>3
  <2>3. Cardinality(T \union {r}) \in Nat
    BY <1>1
  <2> QED
    BY <1>1, <2>1, <2>2, <2>3
<1> QED
  BY <1>1, <1>2, <1>3

\* Who is where after one request moved.
LEMMA Moves ==
  ASSUME ServerTypeOK, NEW r \in Requests, NEW place, GoesTo(r, place), NEW P
  PROVE  /\ At(P) \in SUBSET Requests /\ At(P)' \in SUBSET Requests
         /\ At(P)' \subseteq At(P) \union {r}
         /\ place \notin P => At(P)' \subseteq At(P)
         /\ at[r] \in P => At(P)' \subseteq At(P)
  BY DEF ServerTypeOK, At, GoesTo

\* The part of the type invariant that counts.
Sized ==
  /\ Connected <= PoolSize
  /\ Cardinality(At({"wantLock", "locked"})) <= CheckpointPool
  /\ Cardinality(Evaluating) <= EvalSlots

\* A step that takes no connection and no slot; one at the checkpoint may stay there.
LEMMA TakesNothing ==
  ASSUME ServerTypeOK, NEW r \in Requests, NEW place, GoesTo(r, place),
         place # "recording",
         place \in {"wantLock", "locked"} => at[r] \in {"wantLock", "locked"},
         conns' \subseteq conns, UNCHANGED task
  PROVE  Sized'
<1>1. At({"recording"})' \subseteq At({"recording"}) /\ At({"recording"}) \in SUBSET Requests
  BY Moves
<1>2. At({"wantLock", "locked"})' \subseteq At({"wantLock", "locked"})
      /\ At({"wantLock", "locked"}) \in SUBSET Requests
  BY Moves
<1>3. conns \in SUBSET Requests /\ Evaluating' = Evaluating
  BY DEF ServerTypeOK, Evaluating
<1>4. Cardinality(conns') <= Cardinality(conns)
      /\ Cardinality(conns') \in Nat /\ Cardinality(conns) \in Nat
  BY <1>3, Sizes
<1>5. Cardinality(At({"recording"})') <= Cardinality(At({"recording"}))
      /\ Cardinality(At({"recording"})') \in Nat /\ Cardinality(At({"recording"})) \in Nat
  BY <1>1, Sizes
<1>6. Cardinality(At({"wantLock", "locked"})') <= Cardinality(At({"wantLock", "locked"}))
      /\ Cardinality(At({"wantLock", "locked"})') \in Nat
      /\ Cardinality(At({"wantLock", "locked"})) \in Nat
  BY <1>2, Sizes
<1>7. Connected' <= Connected /\ Connected' \in Nat /\ Connected \in Nat
  BY <1>4, <1>5 DEF Connected
<1> QED
  BY <1>3, <1>6, <1>7, ServerAssumption DEF ServerTypeOK, Sized

\* A request takes a connection only where there is one.
LEMMA TakesOne ==
  ASSUME ServerTypeOK, NEW r \in Requests, NEW place, GoesTo(r, place), HasConnection,
         place \notin {"wantLock", "locked"},
         \/ conns' = conns \union {r} /\ place # "recording"
         \/ UNCHANGED conns,
         Evaluating' \subseteq Evaluating
  PROVE  Sized'
<1>1. /\ At({"recording"}) \in SUBSET Requests /\ At({"recording"})' \in SUBSET Requests
      /\ At({"recording"})' \subseteq At({"recording"}) \union {r}
      /\ place # "recording" => At({"recording"})' \subseteq At({"recording"})
  BY Moves
<1>2. /\ At({"wantLock", "locked"}) \in SUBSET Requests
      /\ At({"wantLock", "locked"})' \subseteq At({"wantLock", "locked"})
  BY Moves
<1>3. conns \in SUBSET Requests /\ conns' \in SUBSET Requests /\ Evaluating \in SUBSET Requests
  BY DEF ServerTypeOK, Evaluating
<1>4. /\ Cardinality(conns) \in Nat /\ Cardinality(conns') \in Nat
      /\ Cardinality(At({"recording"})) \in Nat /\ Cardinality(At({"recording"})') \in Nat
      /\ Cardinality(conns') <= Cardinality(conns) + 1
      /\ Cardinality(At({"recording"})') <= Cardinality(At({"recording"})) + 1
  BY <1>1, <1>3, Sizes
<1>5. Connected' <= Connected + 1 /\ Connected \in Nat /\ Connected' \in Nat
  <2>1. CASE place # "recording"
    <3>1. Cardinality(At({"recording"})') <= Cardinality(At({"recording"}))
      BY <1>1, <2>1, Sizes
    <3> QED
      BY <1>4, <3>1 DEF Connected
  <2>2. CASE UNCHANGED conns
    BY <1>4, <2>2 DEF Connected
  <2> QED
    BY <2>1, <2>2
<1>6. Connected' <= PoolSize
  BY <1>5, ServerAssumption DEF HasConnection
<1>7. /\ Cardinality(At({"wantLock", "locked"})) \in Nat
      /\ Cardinality(At({"wantLock", "locked"})') \in Nat
      /\ Cardinality(At({"wantLock", "locked"})') <= Cardinality(At({"wantLock", "locked"}))
  BY <1>2, Sizes
<1>8. /\ Cardinality(Evaluating) \in Nat /\ Cardinality(Evaluating') \in Nat
      /\ Cardinality(Evaluating') <= Cardinality(Evaluating)
  BY <1>3, Sizes
<1> QED
  BY <1>6, <1>7, <1>8, ServerAssumption DEF ServerTypeOK, Sized

\* A permission change takes a checkpoint connection only where there is one.
LEMMA TakesCheckpoint ==
  ASSUME ServerTypeOK, NEW r \in Requests, TakeCheckpointConnection(r)
  PROVE  Sized'
<1>1. GoesTo(r, "wantLock") /\ conns' = conns /\ Evaluating' = Evaluating
  BY DEF TakeCheckpointConnection, Evaluating
<1>2. /\ At({"recording"})' \subseteq At({"recording"}) /\ At({"recording"}) \in SUBSET Requests
      /\ At({"wantLock", "locked"}) \in SUBSET Requests
      /\ At({"wantLock", "locked"})' \in SUBSET Requests
      /\ At({"wantLock", "locked"})' \subseteq At({"wantLock", "locked"}) \union {r}
  BY <1>1, Moves
<1>3. conns \in SUBSET Requests
  BY DEF ServerTypeOK
<1>4. Connected' <= Connected /\ Connected \in Nat /\ Connected' \in Nat
  <2>1. /\ Cardinality(At({"recording"})') <= Cardinality(At({"recording"}))
        /\ Cardinality(At({"recording"})') \in Nat /\ Cardinality(At({"recording"})) \in Nat
    BY <1>2, Sizes
  <2>2. Cardinality(conns) \in Nat
    BY <1>3, Sizes
  <2> QED
    BY <1>1, <2>1, <2>2 DEF Connected
<1>5. /\ Cardinality(At({"wantLock", "locked"})) \in Nat
      /\ Cardinality(At({"wantLock", "locked"})') \in Nat
      /\ Cardinality(At({"wantLock", "locked"})') <= Cardinality(At({"wantLock", "locked"})) + 1
  BY <1>2, Sizes
<1>6. Cardinality(At({"wantLock", "locked"})) < CheckpointPool
  BY DEF TakeCheckpointConnection, HasCheckpointConnection
<1> QED
  BY <1>1, <1>4, <1>5, <1>6, ServerAssumption DEF ServerTypeOK, Sized

\* No step of a request overdraws anything.
LEMMA RequestsSized ==
  ASSUME ServerTypeOK, NEW r \in Requests, RequestStep(r)
  PROVE  Sized'
<1>1. CASE Leaves(r)
  BY <1>1, TakesNothing DEF Leaves, process
<1>2. CASE Arrive(r)
  BY <1>2, TakesNothing DEF Arrive
<1>3. CASE PoolTimesOut(r)
  <2>1. CASE \E place \in {"failed", "rollback"} : GoesTo(r, place) /\ UNCHANGED <<conns, task>>
    BY <2>1, TakesNothing
  <2> QED
    BY <1>1, <1>3, <2>1 DEF PoolTimesOut
<1>4. CASE LookUp(r) \/ Search(r)
  <2>1. \E place \in {"search", "failed", "log"} :
          GoesTo(r, place) /\ conns' \subseteq conns /\ UNCHANGED task
    BY <1>4 DEF LookUp, Search
  <2> QED
    BY <2>1, TakesNothing
<1>5. CASE EndCheckpoint(r) \/ CommitRequest(r) \/ Recorded(r) \/ RollbackRequest(r)
  <2>1. \E place \in {"answered", "rollback", "over"} :
          GoesTo(r, place) /\ conns' \subseteq conns /\ UNCHANGED task
    BY <1>5 DEF EndCheckpoint, CommitRequest, Recorded, RollbackRequest
  <2> QED
    BY <2>1, TakesNothing
<1>6. CASE LockCheckpoint(r)
  BY <1>6, TakesNothing DEF LockCheckpoint
<1>7. CASE Enter(r)
  BY <1>7, TakesOne DEF Enter, Evaluating
<1>8. CASE Log(r)
  <2>1. Evaluating' \subseteq Evaluating
    BY <1>8 DEF Log, Evaluating, ServerTypeOK
  <2>2. \E place \in {"answered", "failed"} : GoesTo(r, place)
    BY <1>8 DEF Log
  <2>3. HasConnection /\ conns' = conns \union {r}
    BY <1>8 DEF Log
  <2> QED
    BY <2>1, <2>2, <2>3, TakesOne
<1>9. CASE RecordFailure(r)
  <2>1. CASE HasConnection
    BY <1>9, <2>1, TakesOne DEF RecordFailure, Evaluating
  <2>2. CASE ~HasConnection
    BY <1>9, <2>2, TakesNothing DEF RecordFailure
  <2> QED
    BY <2>1, <2>2
<1> QED
  BY <1>1, <1>2, <1>3, <1>4, <1>5, <1>6, <1>7, <1>8, <1>9, TakesCheckpoint
     DEF RequestStep, Refuse, Acquires, Proceeds, RequestOver

\* Steps that leave the requests alone overdraw nothing if no evaluation begins.
LEMMA OthersSized ==
  ASSUME ServerTypeOK, UNCHANGED requestVars, Evaluating' \subseteq Evaluating
  PROVE  Sized'
<1>1. Connected' = Connected /\ At({"wantLock", "locked"})' = At({"wantLock", "locked"})
  BY DEF requestVars, Connected, At
<1>2. Evaluating \in SUBSET Requests
  BY DEF Evaluating
<1>3. /\ Cardinality(Evaluating) \in Nat /\ Cardinality(Evaluating') \in Nat
      /\ Cardinality(Evaluating') <= Cardinality(Evaluating)
  BY <1>2, Sizes
<1> QED
  BY <1>1, <1>3, ServerAssumption DEF ServerTypeOK, Sized

\* An evaluation begins only where there is a slot.
LEMMA SlotTaken ==
  ASSUME ServerTypeOK, NEW r \in Requests, StartEvaluation(r)
  PROVE  Sized'
<1>1. Connected' = Connected /\ At({"wantLock", "locked"})' = At({"wantLock", "locked"})
  BY DEF StartEvaluation, requestVars, Connected, At
<1>2. /\ Evaluating \in SUBSET Requests /\ Evaluating' \in SUBSET Requests
      /\ Evaluating' \subseteq Evaluating \union {r}
  BY DEF StartEvaluation, Evaluating, ServerTypeOK
<1>3. /\ Cardinality(Evaluating) \in Nat /\ Cardinality(Evaluating') \in Nat
      /\ Cardinality(Evaluating') <= Cardinality(Evaluating) + 1
  BY <1>2, Sizes
<1>4. Cardinality(Evaluating) < EvalSlots
  BY DEF StartEvaluation, HasSlot
<1> QED
  BY <1>1, <1>3, <1>4, ServerAssumption DEF ServerTypeOK, Sized

-------------------------------------------------------------------------------
(* Types, rows and the shutdown.                                           *)

\* The part of the type invariant that does not count.
Typed ==
  /\ phase \in {"down", "up", "stopping", "draining", "drained", "flushed"}
  /\ langfuse \in {"absent", "live", "disabled"}
  /\ warned \in BOOLEAN
  /\ at \in [Requests -> {"idle", "enter", "entered", "search", "log", "failed", "recording",
                          "wantLock", "locked", "answered", "rollback", "over"}]
  /\ kind \in [Requests -> {"chat", "write"}]
  /\ conns \subseteq Requests
  /\ rows \in [Requests -> Nat]
  /\ excused \in [Requests -> BOOLEAN]
  /\ task \in [Requests -> {"none", "queued", "running", "scored"}]

LEMMA TypeParts ==
  /\ ServerTypeOK <=> Typed /\ Sized
  /\ ServerTypeOK' <=> Typed' /\ Sized'
  BY DEF ServerTypeOK, Typed, Sized

LEMMA InitInv == ServerInit => Inv
<1> SUFFICES ASSUME ServerInit PROVE Inv
  OBVIOUS
<1>1. Typed /\ RowInv /\ ExitInv
  BY DEF ServerInit, Typed, RowInv, ExitInv
<1>2. conns = {} /\ At({"recording"}) = {} /\ At({"wantLock", "locked"}) = {} /\ Evaluating = {}
  BY DEF ServerInit, At, Evaluating
<1>3. Sized
  BY <1>2, FS_EmptySet, ServerAssumption DEF Sized, Connected
<1> QED
  BY <1>1, <1>3, TypeParts DEF Inv

\* What a step of a request does to the rest of the process: it leaves it alone, but for
\* the evaluation it asks for, and it belongs to a process that is not draining.
LEMMA RequestsExit ==
  ASSUME Inv, NEW r \in Requests, RequestStep(r)
  PROVE  ExitInv'
<1>1. UNCHANGED process
  BY DEF RequestStep, Arrive, Refuse, Leaves, PoolTimesOut, Acquires, Enter, Log,
         TakeCheckpointConnection, LockCheckpoint, Proceeds, LookUp, Search, EndCheckpoint,
         CommitRequest, RecordFailure, Recorded, RollbackRequest, RequestOver
<1>2. phase \in {"up", "stopping"}
  <2>1. phase = "up" \/ at[r] # "idle"
    BY DEF RequestStep, Arrive, Refuse, PoolTimesOut, Acquires, Enter, Log,
           TakeCheckpointConnection, LockCheckpoint, Proceeds, LookUp, Search, EndCheckpoint,
           CommitRequest, RecordFailure, Recorded, RollbackRequest, RequestOver
  <2> QED
    BY <2>1 DEF Inv, ExitInv
<1>3. UNCHANGED task \/ \E t \in {"none", "queued"} : task' = [task EXCEPT ![r] = t]
  BY DEF RequestStep, Arrive, Refuse, Leaves, PoolTimesOut, Acquires, Enter, Log,
         TakeCheckpointConnection, LockCheckpoint, Proceeds, LookUp, Search, EndCheckpoint,
         CommitRequest, RecordFailure, Recorded, RollbackRequest, RequestOver
<1>4. \A x \in Requests : task'[x] = "scored" => task[x] = "scored"
  BY <1>3, TypeParts DEF Inv, Typed
<1> QED
  BY <1>1, <1>2, <1>4 DEF Inv, ExitInv, process

\* A row more, or a row that could not be written, is of the right type.
LEMMA RowWritten ==
  ASSUME NEW r \in Requests, rows \in [Requests -> Nat], excused \in [Requests -> BOOLEAN]
  PROVE  /\ [rows EXCEPT ![r] = @ + 1] \in [Requests -> Nat]
         /\ [excused EXCEPT ![r] = TRUE] \in [Requests -> BOOLEAN]
<1>1. rows[r] + 1 \in Nat
  OBVIOUS
<1>2. [rows EXCEPT ![r] = rows[r] + 1] \in [Requests -> Nat]
  BY <1>1
<1>3. [excused EXCEPT ![r] = TRUE] \in [Requests -> BOOLEAN]
  OBVIOUS
<1> QED
  BY <1>2, <1>3

\* The steps of a request keep the types and leave the rows of a question right.
LEMMA RequestsRows ==
  ASSUME Inv, NEW r \in Requests, RequestStep(r)
  PROVE  Typed' /\ RowInv'
<1> USE TypeParts DEF Inv
<1>1. CASE Arrive(r)
  BY <1>1 DEF Arrive, GoesTo, process, Typed, RowInv
<1>2. CASE Leaves(r)
  BY <1>2 DEF Leaves, GoesTo, process, Typed, RowInv
<1>3. CASE PoolTimesOut(r)
  <2>1. CASE /\ at[r] = "log" /\ GoesTo(r, "failed")
             /\ UNCHANGED <<process, kind, conns, rows, excused, task>>
    BY <2>1 DEF GoesTo, process, Typed, RowInv
  <2>2. CASE /\ at[r] = "entered" /\ kind[r] = "write" /\ GoesTo(r, "rollback")
             /\ UNCHANGED <<process, kind, conns, rows, excused, task>>
    BY <2>2 DEF GoesTo, process, Typed, RowInv
  <2> QED
    BY <1>2, <1>3, <2>1, <2>2 DEF PoolTimesOut
<1>4. CASE Enter(r)
  BY <1>4 DEF Enter, GoesTo, process, Typed, RowInv
<1>5. CASE Log(r)
  <2>1. CASE GoesTo(r, "answered")
    BY <1>5, <2>1 DEF Log, GoesTo, process, Typed, RowInv
  <2>2. CASE GoesTo(r, "failed")
    BY <1>5, <2>2 DEF Log, GoesTo, process, Typed, RowInv
  <2> QED
    BY <1>5, <2>1, <2>2 DEF Log
<1>6. CASE TakeCheckpointConnection(r)
  BY <1>6 DEF TakeCheckpointConnection, GoesTo, process, Typed, RowInv
<1>7. CASE LockCheckpoint(r)
  BY <1>7 DEF LockCheckpoint, GoesTo, process, Typed, RowInv
<1>8. CASE LookUp(r)
  BY <1>8 DEF LookUp, GoesTo, process, Typed, RowInv
<1>9. CASE Search(r)
  BY <1>9 DEF Search, GoesTo, process, Typed, RowInv
<1>10. CASE EndCheckpoint(r)
  BY <1>10 DEF EndCheckpoint, GoesTo, process, Typed, RowInv
<1>11. CASE CommitRequest(r)
  <2>1. rows' \in [Requests -> Nat] /\ excused' \in [Requests -> BOOLEAN]
    BY <1>11, RowWritten DEF CommitRequest, Typed
  <2>2. Typed'
    BY <1>11, <2>1 DEF CommitRequest, GoesTo, process, Typed
  <2>3. RowInv'
    BY <1>11 DEF CommitRequest, GoesTo, Typed, RowInv
  <2> QED
    BY <2>2, <2>3
<1>12. CASE RecordFailure(r)
  <2>1. CASE HasConnection
    <3>1. /\ at[r] = "failed" /\ GoesTo(r, "recording")
          /\ UNCHANGED <<excused, process, kind, conns, rows, task>>
      BY <1>12, <2>1 DEF RecordFailure
    <3> QED
      BY <3>1 DEF GoesTo, process, Typed, RowInv
  <2>2. CASE ~HasConnection
    <3>1. /\ at[r] = "failed" /\ GoesTo(r, "rollback")
          /\ excused' = [excused EXCEPT ![r] = TRUE]
          /\ UNCHANGED <<process, kind, conns, rows, task>>
      BY <1>12, <2>2 DEF RecordFailure
    <3>2. Typed'
      BY <3>1 DEF GoesTo, process, Typed
    <3>3. RowInv'
      BY <3>1 DEF GoesTo, Typed, RowInv
    <3> QED
      BY <3>2, <3>3
  <2> QED
    BY <2>1, <2>2
<1>13. CASE Recorded(r)
  <2>1. rows' \in [Requests -> Nat] /\ excused' \in [Requests -> BOOLEAN]
    BY <1>13, RowWritten DEF Recorded, Typed
  <2>2. Typed'
    BY <1>13, <2>1 DEF Recorded, GoesTo, process, Typed
  <2>3. RowInv'
    BY <1>13 DEF Recorded, GoesTo, Typed, RowInv
  <2> QED
    BY <2>2, <2>3
<1>14. CASE RollbackRequest(r)
  BY <1>14 DEF RollbackRequest, GoesTo, process, Typed, RowInv
<1> QED
  BY <1>1, <1>2, <1>3, <1>4, <1>5, <1>6, <1>7, <1>8, <1>9, <1>10, <1>11, <1>12, <1>13, <1>14
     DEF RequestStep, Refuse, Acquires, Proceeds, RequestOver

\* Evaluations.
LEMMA EvaluationsInv ==
  ASSUME Inv, NEW r \in Requests, EvaluationStep(r)
  PROVE  Inv'
<1> USE TypeParts DEF Inv
<1>1. UNCHANGED requestVars
  BY DEF EvaluationStep, StartEvaluation, EndEvaluation, Export
<1>2. RowInv'
  BY <1>1 DEF requestVars, RowInv
<1>3. CASE StartEvaluation(r)
  <2>1. Typed' /\ ExitInv'
    BY <1>3 DEF StartEvaluation, process, requestVars, Typed, ExitInv
  <2> QED
    BY <1>2, <1>3, <2>1, SlotTaken
<1>4. CASE EndEvaluation(r)
  <2>1. langfuse' \in {"absent", "live", "disabled"}
        /\ (langfuse # "absent" => langfuse' = langfuse)
    BY <1>4 DEF EndEvaluation, GetLangfuse, Typed
  <2>2. \/ task' = [task EXCEPT ![r] = "none"]
        \/ task' = [task EXCEPT ![r] = "scored"] /\ langfuse' = "live"
    BY <1>4 DEF EndEvaluation
  <2>3. task[r] = "running" /\ phase # "down" /\ UNCHANGED <<phase, warned, requestVars>>
    BY <1>4 DEF EndEvaluation
  <2>4. Typed'
    BY <2>1, <2>2, <2>3 DEF requestVars, Typed
  <2>5. ExitInv'
    BY <2>1, <2>2, <2>3 DEF requestVars, Typed, ExitInv
  <2>6. Evaluating' \subseteq Evaluating
    BY <2>2 DEF Evaluating, Typed
  <2> QED
    BY <1>1, <1>2, <2>4, <2>5, <2>6, OthersSized
<1>5. CASE Export(r)
  <2>1. Typed' /\ ExitInv'
    BY <1>5 DEF Export, process, requestVars, Typed, ExitInv
  <2>2. Evaluating' \subseteq Evaluating
    BY <1>5 DEF Export, Evaluating, Typed
  <2> QED
    BY <1>1, <1>2, <2>1, <2>2, OthersSized
<1> QED
  BY <1>3, <1>4, <1>5 DEF EvaluationStep

\* The process starts, is told to stop and goes down.
LEMMA ProcessInv ==
  ASSUME Inv, Start \/ Stop \/ ShutdownStep
  PROVE  Inv'
<1> USE TypeParts DEF Inv
<1>1. UNCHANGED requestVars
  BY DEF Start, Stop, ShutdownStep, Drain, DrainEnds, DrainTimesOut, ShutdownLangfuse, Exit
<1>2. RowInv'
  BY <1>1 DEF requestVars, RowInv
<1>3. CASE Start
  <2>1. Typed' /\ ExitInv'
    BY <1>3 DEF Start, requestVars, Typed, ExitInv
  <2>2. Evaluating' \subseteq Evaluating
    BY <1>3 DEF Start, Evaluating
  <2> QED
    BY <1>1, <1>2, <2>1, <2>2, OthersSized
<1>4. CASE Stop \/ Drain \/ DrainEnds \/ DrainTimesOut \/ Exit
  <2>1. UNCHANGED task
    BY <1>4 DEF Stop, Drain, DrainEnds, DrainTimesOut, Exit
  <2>2. Typed'
    BY <1>4 DEF Stop, Drain, DrainEnds, DrainTimesOut, Exit, requestVars, Typed
  <2>3. Stop => ExitInv'
    BY DEF Stop, requestVars, ExitInv
  <2>4. Drain => ExitInv'
    BY DEF Drain, At, requestVars, ExitInv
  <2>5. DrainEnds => ExitInv'
    BY DEF DrainEnds, BackgroundTasks, requestVars, ExitInv
  <2>6. DrainTimesOut => ExitInv'
    BY DEF DrainTimesOut, requestVars, ExitInv
  <2>7. Exit => ExitInv'
    BY DEF Exit, requestVars, ExitInv
  <2>8. Evaluating' \subseteq Evaluating
    BY <2>1 DEF Evaluating
  <2> QED
    BY <1>1, <1>2, <1>4, <2>2, <2>3, <2>4, <2>5, <2>6, <2>7, <2>8, OthersSized
<1>5. CASE ShutdownLangfuse
  <2>1. \A r \in Requests : task'[r] \in {task[r], "none"}
    BY <1>5 DEF ShutdownLangfuse, Typed
  <2>2. Typed'
    BY <1>5 DEF ShutdownLangfuse, requestVars, Typed
  <2>3. ExitInv'
    <3>1. phase' = "flushed" /\ \A r \in Requests : at'[r] = "idle"
      BY <1>5 DEF ShutdownLangfuse, requestVars, ExitInv
    <3>2. warned' \/ \A r \in Requests : task'[r] = "none"
      <4>1. warned \/ \A r \in Requests : task[r] \in {"none", "scored"}
        BY <1>5 DEF ShutdownLangfuse, ExitInv, Typed
      <4>2. langfuse = "live" \/ \A r \in Requests : task[r] # "scored"
        BY <1>5 DEF ShutdownLangfuse, ExitInv, Typed
      <4> QED
        BY <1>5, <4>1, <4>2 DEF ShutdownLangfuse
    <3> QED
      BY <3>1, <3>2 DEF ExitInv
  <2>4. Evaluating' \subseteq Evaluating
    BY <2>1 DEF Evaluating
  <2> QED
    BY <1>1, <1>2, <2>2, <2>3, <2>4, OthersSized
<1> QED
  BY <1>3, <1>4, <1>5 DEF ShutdownStep

-------------------------------------------------------------------------------
\* The inductive invariant holds in every reachable state.
THEOREM Invariance == ServerSpec => []Inv
<1>1. Inv /\ [ServerNext]_serverVars => Inv'
  <2> SUFFICES ASSUME Inv, [ServerNext]_serverVars PROVE Inv'
    OBVIOUS
  <2>1. ASSUME NEW r \in Requests, RequestStep(r) PROVE Inv'
    BY <2>1, RequestsSized, RequestsRows, RequestsExit, TypeParts DEF Inv
  <2>2. ASSUME NEW r \in Requests, EvaluationStep(r) PROVE Inv'
    BY <2>2, EvaluationsInv
  <2>3. CASE Start \/ Stop \/ ShutdownStep
    BY <2>3, ProcessInv
  <2>4. CASE UNCHANGED serverVars
    BY <2>4 DEF serverVars, process, requestVars, Inv, ServerTypeOK, RowInv, ExitInv,
                Connected, At, Evaluating
  <2> QED
    BY <2>1, <2>2, <2>3, <2>4 DEF ServerNext
<1> QED
  BY <1>1, InitInv, PTL DEF ServerSpec

\* However many requests come, neither pool is overdrawn and no more evaluations run than
\* there are slots.
THEOREM LimitsHold == ServerSpec => []ServerTypeOK
<1>1. Inv => ServerTypeOK
  BY DEF Inv
<1> QED
  BY <1>1, Invariance, PTL

\* A question leaves one row, answered or failed, unless writing that row itself failed.
THEOREM EveryQuestionIsLogged == ServerSpec => []OneRowPerQuestion
<1>1. Inv => OneRowPerQuestion
  BY DEF Inv, RowInv, OneRowPerQuestion
<1> QED
  BY <1>1, Invariance, PTL

\* The process ends with scores that were not sent only where it has said so.
THEOREM NoScoreLostInSilence == ServerSpec => []ScoresLostOnlyWithWarning
<1>1. Inv => ScoresLostOnlyWithWarning
  BY DEF Inv, ExitInv, ScoresLostOnlyWithWarning
<1> QED
  BY <1>1, Invariance, PTL
-------------------------------------------------------------------------------
(* What RequestsEnd and ShutdownEnds rest on, up to fairness.              *)

\* A request that waits for its first connection, that searches, that is to log its
\* answer or that has ended holds no connection.
ConnInv ==
  \A r \in conns : at[r] \notin {"idle", "enter", "search", "log", "over"}

\* The request has a step that waits for nobody, and that is no refusal or timeout.
CanAdvance(r) ==
  \/ at[r] \in {"enter", "log"} /\ HasConnection
  \/ at[r] = "entered" /\ (kind[r] = "chat" \/ HasCheckpointConnection)
  \/ at[r] = "wantLock" /\ At({"locked"}) = {}
  \/ at[r] \in {"search", "locked", "answered", "failed", "recording", "rollback", "over"}

Busy == {r \in Requests : at[r] # "idle"}

\* The most steps a request has left.
StepsLeft(r) ==
  CASE at[r] = "enter" -> 8
    [] at[r] = "entered" -> 7
    [] at[r] = "search" -> 6
    [] at[r] = "log" -> 5
    [] at[r] \in {"wantLock", "failed"} -> 4
    [] at[r] \in {"locked", "recording"} -> 3
    [] at[r] \in {"answered", "rollback"} -> 2
    [] at[r] = "over" -> 1
    [] OTHER -> 0

\* Who holds a connection, in every reachable state.
LEMMA ConnInvariance == ServerSpec => []ConnInv
<1>1. ServerInit => ConnInv
  BY DEF ServerInit, ConnInv
<1>2. ASSUME ServerTypeOK, ConnInv, [ServerNext]_serverVars PROVE ConnInv'
  <2>1. ASSUME NEW r \in Requests, RequestStep(r) PROVE ConnInv'
    <3> USE DEF ServerTypeOK, ConnInv, GoesTo
    <3>1. CASE Arrive(r) \/ Refuse(r) \/ PoolTimesOut(r) \/ RequestOver(r)
      BY <1>2, <3>1 DEF Arrive, Refuse, PoolTimesOut, RequestOver, Leaves
    <3>2. CASE Acquires(r)
      BY <1>2, <3>2 DEF Acquires, Enter, Log, TakeCheckpointConnection, LockCheckpoint
    <3>3. CASE LookUp(r) \/ Search(r) \/ EndCheckpoint(r) \/ CommitRequest(r)
      BY <1>2, <3>3 DEF LookUp, Search, EndCheckpoint, CommitRequest
    <3>4. CASE RecordFailure(r) \/ Recorded(r) \/ RollbackRequest(r)
      BY <1>2, <3>4 DEF RecordFailure, Recorded, RollbackRequest
    <3> QED
      BY <2>1, <3>1, <3>2, <3>3, <3>4 DEF RequestStep, Proceeds
  <2>2. UNCHANGED requestVars \/ \E r \in Requests : RequestStep(r)
    BY <1>2 DEF ServerNext, serverVars, Start, Stop, ShutdownStep, Drain, DrainEnds,
       DrainTimesOut, ShutdownLangfuse, Exit, EvaluationStep, StartEvaluation,
       EndEvaluation, Export
  <2> QED
    BY <1>2, <2>1, <2>2 DEF ConnInv, requestVars
<1> QED
  BY <1>1, <1>2, LimitsHold, PTL DEF ServerSpec

\* The requests never all wait for one another, however small the pools: although
\* permission changes hold one connection while they wait for another and for the
\* lock, some request that has not ended can go on.
THEOREM RequestsNeverStuck ==
  ServerSpec => [](Busy # {} => \E r \in Busy : CanAdvance(r))
<1>1. ASSUME Inv, ConnInv, Busy # {} PROVE \E r \in Busy : CanAdvance(r)
  <2> SUFFICES ASSUME \A r \in Busy : ~CanAdvance(r) PROVE FALSE
    OBVIOUS
  <2>1. \A r \in Requests : at[r] \in {"idle", "enter", "log", "entered", "wantLock"}
    BY <1>1 DEF Inv, ServerTypeOK, Busy, CanAdvance
  <2>2. At({"locked"}) = {} /\ At({"recording"}) = {}
    BY <2>1 DEF At
  <2>3. At({"wantLock", "locked"}) = {}
    BY <2>1, <2>2 DEF At, Busy, CanAdvance
  <2>4. Cardinality({}) = 0
    BY FS_EmptySet
  <2>5. HasCheckpointConnection
    BY <2>3, <2>4, ServerAssumption DEF HasCheckpointConnection
  <2>6. \A r \in Requests : at[r] \in {"idle", "enter", "log", "entered"}
    BY <2>1, <2>3 DEF At
  <2>7. \A r \in Requests : at[r] \in {"idle", "enter", "log"} \/ kind[r] = "write"
    BY <1>1, <2>5, <2>6 DEF Inv, ServerTypeOK, Busy, CanAdvance
  <2>8. \A r \in Requests : at[r] \in {"idle", "enter", "log"}
    BY <2>5, <2>6 DEF Busy, CanAdvance
  <2>9. conns = {}
    BY <1>1, <2>8 DEF ConnInv, Inv, ServerTypeOK
  <2>10. HasConnection
    BY <2>2, <2>4, <2>9, ServerAssumption DEF HasConnection, Connected
  <2> QED
    BY <1>1, <2>8, <2>10 DEF Busy, CanAdvance
<1> QED
  BY <1>1, Invariance, ConnInvariance, PTL

\* A request does not go round in circles: every step that is its own brings it nearer
\* to its end, and the steps of the others leave it where it is.
THEOREM RequestsProgress ==
  ServerSpec =>
    [][\A r \in Requests :
         /\ at[r] # "idle" => StepsLeft(r)' <= StepsLeft(r)
         /\ Acquires(r) \/ Proceeds(r) => StepsLeft(r)' < StepsLeft(r)]_serverVars
<1>1. ASSUME ServerTypeOK, NEW r \in Requests, RequestStep(r)
      PROVE  /\ at[r] # "idle" => StepsLeft(r)' < StepsLeft(r)
             /\ \A q \in Requests \ {r} : UNCHANGED at[q]
  <2> USE DEF ServerTypeOK, GoesTo, StepsLeft
  <2>1. CASE Arrive(r) \/ Refuse(r) \/ PoolTimesOut(r) \/ RequestOver(r)
    BY <1>1, <2>1 DEF Arrive, Refuse, PoolTimesOut, RequestOver, Leaves
  <2>2. CASE Acquires(r)
    BY <1>1, <2>2 DEF Acquires, Enter, Log, TakeCheckpointConnection, LockCheckpoint
  <2>3. CASE LookUp(r) \/ Search(r) \/ EndCheckpoint(r) \/ CommitRequest(r)
    BY <1>1, <2>3 DEF LookUp, Search, EndCheckpoint, CommitRequest
  <2>4. CASE RecordFailure(r) \/ Recorded(r) \/ RollbackRequest(r)
    BY <1>1, <2>4 DEF RecordFailure, Recorded, RollbackRequest
  <2> QED
    BY <1>1, <2>1, <2>2, <2>3, <2>4 DEF RequestStep, Proceeds
<1>2. ASSUME NEW r \in Requests, Acquires(r) \/ Proceeds(r)
      PROVE  RequestStep(r) /\ at[r] # "idle"
  BY <1>2 DEF RequestStep, Acquires, Enter, Log, TakeCheckpointConnection, LockCheckpoint,
     Proceeds, LookUp, Search, EndCheckpoint, CommitRequest, RecordFailure, Recorded,
     RollbackRequest, RequestOver
<1>3. ASSUME ServerTypeOK, [ServerNext]_serverVars
      PROVE  [\A r \in Requests :
                /\ at[r] # "idle" => StepsLeft(r)' <= StepsLeft(r)
                /\ Acquires(r) \/ Proceeds(r) => StepsLeft(r)' < StepsLeft(r)]_serverVars
  <2>1. \A r \in Requests : StepsLeft(r) \in Nat /\ (UNCHANGED at[r] => UNCHANGED StepsLeft(r))
    BY DEF StepsLeft
  <2>2. \A r \in Requests : StepsLeft(r)' \in Nat
    BY DEF StepsLeft
  <2>3. UNCHANGED requestVars \/ \E q \in Requests : RequestStep(q)
    BY <1>3 DEF ServerNext, serverVars, Start, Stop, ShutdownStep, Drain, DrainEnds,
       DrainTimesOut, ShutdownLangfuse, Exit, EvaluationStep, StartEvaluation,
       EndEvaluation, Export
  <2>4. ASSUME NEW r \in Requests, at[r] # "idle" PROVE StepsLeft(r)' <= StepsLeft(r)
    <3>1. CASE UNCHANGED requestVars
      BY <2>1, <3>1 DEF requestVars
    <3>2. ASSUME NEW q \in Requests, RequestStep(q) PROVE StepsLeft(r)' <= StepsLeft(r)
      BY <1>1, <1>3, <2>1, <2>2, <2>4, <3>2
    <3> QED
      BY <2>3, <3>1, <3>2
  <2>5. ASSUME NEW r \in Requests, Acquires(r) \/ Proceeds(r)
        PROVE  StepsLeft(r)' < StepsLeft(r)
    BY <1>1, <1>2, <1>3, <2>5
  <2> QED
    BY <2>4, <2>5
<1> QED
  BY <1>3, LimitsHold, PTL DEF ServerSpec

\* The stages of the shutdown, in their order.
StagesLeft ==
  CASE phase = "stopping" -> 4
    [] phase = "draining" -> 3
    [] phase = "drained" -> 2
    [] phase = "flushed" -> 1
    [] OTHER -> 0

\* A process told to stop only goes on: no request arrives any more and no stage is gone
\* back to, and by the time the store and the pools are closed nobody holds a connection.
THEOREM ShutdownAdvances ==
  ServerSpec =>
    /\ [](phase \notin {"up", "stopping"} => Busy = {} /\ conns = {})
    /\ [][phase \notin {"down", "up"} =>
            \/ ShutdownStep /\ StagesLeft' = StagesLeft - 1 /\ UNCHANGED Busy
            \/ UNCHANGED phase /\ Busy' \subseteq Busy]_serverVars
<1>1. ASSUME Inv, ConnInv, phase \notin {"up", "stopping"}
      PROVE  Busy = {} /\ conns = {}
  BY <1>1 DEF Inv, ServerTypeOK, ExitInv, ConnInv, Busy
<1>2. ASSUME Inv, [ServerNext]_serverVars, phase \notin {"down", "up"}
      PROVE  \/ ShutdownStep /\ StagesLeft' = StagesLeft - 1 /\ UNCHANGED Busy
             \/ UNCHANGED phase /\ Busy' \subseteq Busy
  <2>1. CASE ShutdownStep
    BY <1>2, <2>1 DEF ShutdownStep, Drain, DrainEnds, DrainTimesOut, ShutdownLangfuse, Exit,
       StagesLeft, Busy, requestVars
  <2>2. ASSUME NEW r \in Requests, RequestStep(r)
        PROVE  UNCHANGED phase /\ Busy' \subseteq Busy
    <3>1. at[r] # "idle"
      BY <1>2, <2>2 DEF RequestStep, Arrive, Refuse, PoolTimesOut, Acquires, Enter, Log,
         TakeCheckpointConnection, LockCheckpoint, Proceeds, LookUp, Search, EndCheckpoint,
         CommitRequest, RecordFailure, Recorded, RollbackRequest, RequestOver
    <3>2. \E place : GoesTo(r, place)
      BY <2>2 DEF RequestStep, Arrive, Refuse, PoolTimesOut, Acquires, Enter, Log, Leaves,
         TakeCheckpointConnection, LockCheckpoint, Proceeds, LookUp, Search, EndCheckpoint,
         CommitRequest, RecordFailure, Recorded, RollbackRequest, RequestOver
    <3>3. UNCHANGED phase
      BY <2>2 DEF RequestStep, Arrive, Refuse, PoolTimesOut, Acquires, Enter, Log, Leaves,
         TakeCheckpointConnection, LockCheckpoint, Proceeds, LookUp, Search, EndCheckpoint,
         CommitRequest, RecordFailure, Recorded, RollbackRequest, RequestOver, process
    <3> QED
      BY <1>2, <3>1, <3>2, <3>3 DEF Inv, ServerTypeOK, GoesTo, Busy
  <2>3. ASSUME NEW r \in Requests, EvaluationStep(r) PROVE UNCHANGED phase /\ UNCHANGED Busy
    BY <2>3 DEF EvaluationStep, StartEvaluation, EndEvaluation, Export, requestVars, process, Busy
  <2>4. CASE UNCHANGED serverVars
    BY <2>4 DEF serverVars, process, requestVars, Busy
  <2> QED
    BY <1>2, <2>1, <2>2, <2>3, <2>4 DEF ServerNext, Start, Stop
<1> QED
  BY <1>1, <1>2, Invariance, ConnInvariance, PTL DEF ServerSpec
===============================================================================
