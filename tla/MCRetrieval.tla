------------------------------ MODULE MCRetrieval ------------------------------
(***************************************************************************)
(* Instances of Retrieval for TLC.                                         *)
(***************************************************************************)
EXTENDS Retrieval, TLC

CONSTANTS d1, d2, x1, x2, x3

MCChunks == Documents \X {1}

\* A user who reaches x1 by three paths, x2 by one, x3 not yet.
ManyPaths ==
  [member |-> {d1},
   owner |-> (x1 :> {d1} @@ x2 :> {d1} @@ x3 :> {d2}),
   shared |-> (x1 :> {d1} @@ x2 :> {} @@ x3 :> {}),
   viewer |-> {x1}]

\* A user who may view everything.
Everything ==
  [member |-> {d1, d2},
   owner |-> (x1 :> {d1} @@ x2 :> {d1} @@ x3 :> {d2}),
   shared |-> [x \in Documents |-> {}],
   viewer |-> {}]

MCInitialGraphs == {ManyPaths, Everything}
===============================================================================
