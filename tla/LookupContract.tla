---------------------------- MODULE LookupContract ----------------------------
(***************************************************************************)
(* What a lookup of the documents a user may view answers with             *)
(* (permissions/client.py, lookup_viewable_documents): all of them, or as  *)
(* many as the limit allows.  Retrieval takes its lookups from here in one *)
(* step; LookupPaging shows that reading them page by page comes to this.  *)
(***************************************************************************)
EXTENDS Naturals, FiniteSets

LookupResults(viewable, limit) ==
  {S \in SUBSET viewable :
     IF Cardinality(viewable) < limit THEN S = viewable ELSE Cardinality(S) = limit}
===============================================================================
