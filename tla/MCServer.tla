------------------------------- MODULE MCServer -------------------------------
(***************************************************************************)
(* Three clients on a pool of three connections, two for checkpoints and   *)
(* one evaluation slot: any of them may be exhausted, and three failed     *)
(* questions may each hold a connection and wait for another.              *)
(***************************************************************************)
EXTENDS Server
===============================================================================
