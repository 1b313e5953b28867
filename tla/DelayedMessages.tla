-------------------------- MODULE DelayedMessages --------------------------
(***************************************************************************)
(* What the two delayed queues share: a plan is found by its stream and    *)
(* message ID, and scheduling another message under that ID replaces it.   *)
(* Messages are told apart, so a version is one call of Schedule.          *)
(***************************************************************************)
EXTENDS Naturals

CONSTANTS Versions,  \* messages given to Schedule, each once
          Ids,       \* stream and message ID: task IDs, or members in Redis
          IdOf,      \* IdOf[v]
          None

ASSUME IdOfVersion == IdOf \in [Versions -> Ids]
ASSUME NoneIsFresh == None \notin Versions \cup Ids
=============================================================================
