-------------------------------- MODULE MCParts --------------------------------
(***************************************************************************)
(* The parts that stand alone, each on its own instance: chunking, the     *)
(* paged lookup, the way from candidates to citations, the login throttle  *)
(* and the console.  They share no state, so a behaviour is one of them    *)
(* and the others stay as they start.                                      *)
(***************************************************************************)
EXTENDS Chunker, LookupPaging, Passages, LoginThrottle, Console

VARIABLE part

Init ==
  /\ ChunkInit /\ PagingInit /\ PassagesInit /\ ThrottleInit /\ ConsoleInit
  /\ part \in {"chunks", "lookup", "passages", "logins", "console"}

Next ==
  \/ /\ part = "chunks" /\ ChunkNext
     /\ UNCHANGED <<part, pagingVars, passagesVars, throttleVars, consoleVars>>
  \/ /\ part = "lookup" /\ PagingNext
     /\ UNCHANGED <<part, chunkVars, passagesVars, throttleVars, consoleVars>>
  \/ /\ part = "passages" /\ PassagesNext
     /\ UNCHANGED <<part, chunkVars, pagingVars, throttleVars, consoleVars>>
  \/ /\ part = "logins" /\ ThrottleNext
     /\ UNCHANGED <<part, chunkVars, pagingVars, passagesVars, consoleVars>>
  \/ /\ part = "console" /\ ConsoleNext
     /\ UNCHANGED <<part, chunkVars, pagingVars, passagesVars, throttleVars>>

\* The other parts take none of the lookup's steps, so its fairness asks nothing of them.
Spec ==
  /\ Init
  /\ [][Next]_<<part, chunkVars, pagingVars, passagesVars, throttleVars, consoleVars>>
  /\ PagingFairness
===============================================================================
