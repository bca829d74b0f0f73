---------------------------- MODULE RuntimeStore ----------------------------
(* What the runtime promises to the processes that run its commands: one        *)
(* command at a time, each applied whole at one point between its start and its *)
(* answer; a process that dies loses at most the command it was running, and    *)
(* what was answered stays. The id of a request once accepted is never accepted *)
(* again. The one thing not promised is that the state survives every death: it *)
(* may become unreadable, and is then refused for ever rather than replaced.     *)
EXTENDS RuntimeLog

VARIABLES
  store,      \* dispatch records and mailbox
  reserved,   \* the request ids that cannot be queued any more
  job,        \* the command that runs, and whether it has been applied
  lost        \* the state cannot be read any more

NoJob == [cmd |-> Capture, compact |-> FALSE, running |-> FALSE, applied |-> FALSE]

StoreInit == store = EmptyStore /\ reserved = {} /\ job = NoJob /\ lost = FALSE

Start(c, compact) ==
  /\ ~job.running /\ ~lost
  /\ Accepts(store, reserved, c)
  /\ job' = [cmd |-> c, compact |-> compact, running |-> TRUE, applied |-> FALSE]
  /\ UNCHANGED <<store, reserved, lost>>

(* The id of a request is spent before the request is there.                    *)
Reserve ==
  /\ job.running /\ ~job.applied
  /\ reserved' = reserved \cup Reserves(job.cmd)
  /\ UNCHANGED <<store, job, lost>>

Apply ==
  /\ job.running /\ ~job.applied /\ Reserves(job.cmd) \subseteq reserved
  /\ store' = ResultOf(store, job.cmd, job.compact)
  /\ job' = [job EXCEPT !.applied = TRUE]
  /\ UNCHANGED <<reserved, lost>>

Answer ==
  /\ job.applied
  /\ job' = NoJob
  /\ UNCHANGED <<store, reserved, lost>>

Die ==
  /\ job.running
  /\ job' = NoJob
  /\ UNCHANGED <<store, reserved, lost>>

Lose ==
  /\ job.running
  /\ job' = NoJob
  /\ lost' = TRUE
  /\ store' = EmptyStore /\ reserved' = {}

StoreNext ==
  \/ \E c \in Command, compact \in BOOLEAN : Start(c, compact)
  \/ Reserve \/ Apply \/ Answer \/ Die \/ Lose

StoreSpec == StoreInit /\ [][StoreNext]_<<store, reserved, job, lost>>
=============================================================================
