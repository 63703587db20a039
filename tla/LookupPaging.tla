----------------------------- MODULE LookupPaging -----------------------------
(***************************************************************************)
(* The lookup of the documents a user may view (permissions/client.py,     *)
(* lookup_viewable_documents).                                             *)
(*                                                                         *)
(* SpiceDB streams a page of results per call, and a document once for     *)
(* every path that grants it.  The client asks for page after page with    *)
(* the cursor of the last result, drops what it has seen and stops at the  *)
(* limit.  All pages of a lookup are of one revision, the cursor's.        *)
(***************************************************************************)
EXTENDS LookupContract, Sequences

CONSTANTS
  Documents,
  Limit,       \* limit: distinct documents the caller wants at most
  MaxPage,     \* SPICEDB_MAX_PAGE_SIZE
  MaxResults   \* bound: results SpiceDB has for the user

ASSUME LookupPagingAssumption ==
  /\ IsFiniteSet(Documents)
  /\ {Limit, MaxPage} \subseteq Nat \ {0}
  /\ MaxResults \in Nat

VARIABLES
  results,      \* SpiceDB: its results, a document once per path, in its order
  cursor,       \* results before the page that is read; 0 is no cursor
  received,     \* results of this page so far
  firstSize,    \* SpiceDB: the page size of the first call
  documentIds,  \* document_ids, in order; `seen` is their set
  lookup        \* "idle", "send", "stream", "done", "refused" or "failed"

pagingVars == <<results, cursor, received, firstSize, documentIds, lookup>>

PagingInit ==
  /\ results = <<>>
  /\ cursor = 0
  /\ received = 0
  /\ firstSize = 0
  /\ documentIds = <<>>
  /\ lookup = "idle"

-------------------------------------------------------------------------------
SetOf(s) == {s[i] : i \in 1 .. Len(s)}

\* Mutant: the last page asks only for what is missing.
PageSizeOfTheRest ==
  IF MaxPage < Limit - Len(documentIds) THEN MaxPage ELSE Limit - Len(documentIds)

PageSize == IF MaxPage < Limit THEN MaxPage ELSE Limit

StartLookup ==
  /\ lookup = "idle"
  /\ \E n \in 0 .. MaxResults : results' \in [1 .. n -> Documents]
  /\ lookup' = "send"
  /\ UNCHANGED <<cursor, received, firstSize, documentIds>>

\* SpiceDB refuses a follow-up whose page size is not the first one's.
SendPage ==
  /\ lookup = "send"
  /\ IF cursor = 0
     THEN firstSize' = PageSize /\ lookup' = "stream"
     ELSE /\ lookup' = IF PageSize = firstSize THEN "stream" ELSE "refused"
          /\ UNCHANGED firstSize
  /\ received' = 0
  /\ UNCHANGED <<results, cursor, documentIds>>

StreamEnds == received = PageSize \/ cursor + received = Len(results)

\* Mutant: the documents of the last page beyond the limit are kept.
AddedPastLimit(x) == IF x \notin SetOf(documentIds) THEN Append(documentIds, x) ELSE documentIds

\* Only distinct documents count, and no more than the limit.
Added(x) ==
  IF x \notin SetOf(documentIds) /\ Len(documentIds) < Limit
  THEN Append(documentIds, x)
  ELSE documentIds

ReceiveResult ==
  /\ lookup = "stream"
  /\ ~StreamEnds
  /\ received' = received + 1
  /\ documentIds' = Added(results[cursor + received + 1])
  /\ UNCHANGED <<results, cursor, firstSize, lookup>>

\* Mutant: the next page is asked for with the cursor of this one.
CursorOfThisPage == cursor

NextCursor == cursor + received

\* A short page is the last one; the loop ends at the limit as well.
EndPage ==
  /\ lookup = "stream"
  /\ StreamEnds
  /\ IF received < PageSize
     THEN lookup' = "done" /\ UNCHANGED cursor
     ELSE /\ cursor' = NextCursor
          /\ lookup' = IF Len(documentIds) < Limit THEN "send" ELSE "done"
  /\ UNCHANGED <<results, received, firstSize, documentIds>>

\* An RPC error: the caller gets no documents at all.
LookupFails ==
  /\ lookup \in {"send", "stream"}
  /\ lookup' = "failed"
  /\ UNCHANGED <<results, cursor, received, firstSize, documentIds>>

LookupReturns ==
  /\ lookup \in {"done", "refused", "failed"}
  /\ results' = <<>> /\ cursor' = 0 /\ received' = 0 /\ firstSize' = 0 /\ documentIds' = <<>>
  /\ lookup' = "idle"

PagingStep == SendPage \/ ReceiveResult \/ EndPage

PagingNext == StartLookup \/ PagingStep \/ LookupFails \/ LookupReturns

\* SpiceDB answers, with an error after the timeout if with nothing else.
PagingFairness == WF_pagingVars(PagingStep)

PagingSpec == PagingInit /\ [][PagingNext]_pagingVars /\ PagingFairness

-------------------------------------------------------------------------------
(* Properties.                                                             *)

\* The values the variables take; the loop never holds more documents than the limit.
PagingTypeOK ==
  /\ results \in Seq(Documents)
  /\ cursor \in 0 .. Len(results)
  /\ received \in 0 .. PageSize
  /\ lookup = "stream" => cursor + received <= Len(results)
  /\ firstSize \in Nat
  /\ documentIds \in Seq(Documents)
  /\ Len(documentIds) <= Limit
  /\ lookup \in {"idle", "send", "stream", "done", "refused", "failed"}

\* A refused page has no counterpart: a user with more documents than a page holds
\* would never be answered.
Status ==
  CASE lookup = "idle" -> "idle"
    [] lookup \in {"send", "stream"} -> "asked"
    [] lookup = "done" -> "answered"
    [] OTHER -> lookup

Atomic ==
  INSTANCE AtomicLookup WITH
    viewable <- SetOf(results),
    result <- IF lookup = "done" THEN SetOf(documentIds) ELSE {},
    status <- Status

\* Reading page by page comes to the lookup of AtomicLookup: whatever the number of
\* paths, pages and documents, the caller gets every document the user may view, or
\* exactly as many as the limit allows, or an error.
PagingIsAtomic == Atomic!Spec

\* A lookup comes to an end, whatever cursor SpiceDB returns with its last page.
LookupEnds == lookup \in {"send", "stream"} ~> lookup \in {"done", "failed"}
===============================================================================
