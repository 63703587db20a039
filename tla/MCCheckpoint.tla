---------------------------- MODULE MCCheckpoint ----------------------------
(* Three permission changes, one of them a purge of two SpiceDB deletes, and *)
(* one read that may start and end anywhere among them.                      *)
EXTENDS Checkpoint

CONSTANTS grant, revoke, purge, chat

MCWriters == {grant, revoke, purge}
MCReaders == {chat}
MCCalls == [w \in MCWriters |-> IF w = purge THEN 2 ELSE 1]
===============================================================================
