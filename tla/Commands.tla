------------------------------ MODULE Commands ------------------------------
(***************************************************************************)
(* `xr execution --resume` and `--cancel` (src/src/commands/execution.ts)  *)
(* beside startup recovery and the calls of other processes.               *)
(*                                                                         *)
(* Each is a process that opens the same database, reads, and writes later *)
(* without a lease: one step reads (or inserts the cancellation) and one   *)
(* writes, and in between a person may be asked.  A command that dies just *)
(* does not take its second step.                                          *)
(***************************************************************************)
EXTENDS Recovery

VARIABLES
  cmd,      \* the command between its two steps, or None
  asked,    \* history: runs whose cancellation has reached the database
  requeued  \* history: runs a command has queued again

commands == <<cmd, asked, requeued>>
cvars == <<rvars, commands>>

Command == [op : {"cancel"}, run : Runs] \cup [op : {"resume"}, run : Runs, rec : Record]

CommandTypeOK ==
  /\ RecoveryTypeOK
  /\ cmd \in Command \cup {None}
  /\ asked \subseteq Runs /\ requeued \subseteq Runs
  /\ \A r \in Runs : durableCancel[r] => r \in asked

CInit == RInit /\ cmd = None /\ asked = {} /\ requeued = {}

-----------------------------------------------------------------------------
\* The command starts: when processes run one at a time, after the others.
Begin ==
  /\ cmd = None /\ Incident(FALSE)
  /\ Concurrent \/ (rpc = "off" /\ \A r \in Runs : ~Live(r))

\* --cancel: an execution that is known is cancelled durably ...
CancelCommand(r) ==
  /\ disk[r] # None /\ Begin
  /\ durableCancel' = [durableCancel EXCEPT ![r] = TRUE]
  /\ asked' = asked \cup {r}
  /\ cmd' = [op |-> "cancel", run |-> r]
  /\ UNCHANGED <<control, disk, checkpoint, slot, accepted, effect, recovery, requeued>>

\* ... and the same command acknowledges every cancellation of it.
Acknowledge ==
  /\ cmd # None /\ cmd.op = "cancel"
  /\ durableCancel' = [durableCancel EXCEPT ![cmd.run] = FALSE]
  /\ cmd' = None
  /\ UNCHANGED <<control, disk, checkpoint, slot, accepted, effect, history, recovery,
                 asked, requeued>>

\* --resume: classify() without the audit and authority hooks; if it asks for
\* approval, the person says yes.
ResumeCommand(r) ==
  /\ disk[r] # None /\ Classify(r, disk[r], checkpoint[r], TRUE) # "blocked"
  /\ Begin
  /\ cmd' = [op |-> "resume", run |-> r, rec |-> disk[r]]
  /\ UNCHANGED <<control, durable, accepted, effect, recovery, asked, requeued>>

\* The record that was read is saved as queued, whatever its state and whatever
\* has been written since; the table is not asked.
Requeue ==
  /\ cmd # None /\ cmd.op = "resume"
  /\ disk' = [disk EXCEPT ![cmd.run] =
                [cmd.rec EXCEPT !.state = "queued", !.outcome = "none", !.unknown = FALSE]]
  /\ requeued' = requeued \cup {cmd.run}
  /\ cmd' = None
  /\ UNCHANGED <<control, checkpoint, durableCancel, slot, accepted, effect, history,
                 recovery, asked>>

CNext ==
  \/ /\ RNext /\ (Concurrent \/ cmd = None)
     /\ asked' = asked \cup {r \in Runs : durableCancel'[r]}
     /\ UNCHANGED <<cmd, requeued>>
  \/ \E r \in Runs : CancelCommand(r) \/ ResumeCommand(r)
  \/ Acknowledge \/ Requeue

CSpec == CInit /\ [][CNext]_cvars /\ Fairness

-----------------------------------------------------------------------------
\* A reported success stays in the database beside recovering processes and
\* commands, however old what they have read is, unless the person asked for that
\* very run again (service.ts:1393).
SuccessKept ==
  \A r \in Runs : Returned(r) /\ mem[r].outcome = "succeeded" =>
    \/ disk[r] # None /\ disk[r].outcome = "succeeded"
    \/ r \in requeued

\* "Cancellation requested ... (durable - survives restart)" (execution.ts:146):
\* what was cancelled is not resumed by itself.  The command breaks it, for itself
\* and for every earlier cancellation: recovery honors only the unacknowledged.
CancelSurvives == [][\A r \in resumed' \ resumed : r \notin asked \ requeued]_cvars
=============================================================================
