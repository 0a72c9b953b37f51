---------------------------- MODULE CommandQueue ----------------------------
(***************************************************************************)
(* What the command output ring promises to the rest of the driver: a      *)
(* bounded queue.  A command the driver hands over is queued behind the    *)
(* earlier ones, the controller takes the commands in that order, and the  *)
(* queue is emptied as a whole when the rings are set up anew.             *)
(* CommandRings implements it with a ring of slots and two cursors.        *)
(***************************************************************************)
EXTENDS Naturals, Sequences

CONSTANTS
  Command,    \* the commands that can be queued
  Capacity    \* how many commands can wait at once

VARIABLE queue

QueueInit == queue = << >>

(* The driver queues c; a full queue refuses it. *)
Submit(c) == Len(queue) < Capacity /\ queue' = Append(queue, c)

(* The controller takes the oldest command. *)
Take == queue # << >> /\ queue' = Tail(queue)

(* Ring setup, or a controller reset, forgets what still waits. *)
Flush == queue' = << >>

QueueNext == Take \/ Flush \/ \E c \in Command : Submit(c)

QueueSpec == QueueInit /\ [][QueueNext]_queue
=============================================================================
