------------------------------ MODULE Consent ------------------------------
(***************************************************************************)
(* What the approval plane promises to whoever asks for permission, in     *)
(* terms of the verdicts that are recorded and of what the askers hear     *)
(* (the header of src/src/control/approval-store.ts):                      *)
(*   - a verdict, once recorded, is final;                                 *)
(*   - an asker hears one answer: the verdict recorded for what it asked,  *)
(*     or that its time is up, which means no;                             *)
(*   - so nobody goes ahead without a recorded approval.                   *)
(* How a verdict travels, and when, is left open.                          *)
(***************************************************************************)
CONSTANTS
  Questions,  \* what permission is asked for
  Askers,     \* one wait for one answer each
  None        \* has not asked yet

VARIABLES
  verdict,  \* "none" before the question, then "pending", then one of Verdicts
  asks,     \* the question each asker waits for
  heard     \* "unused", "waiting", what it heard, or "lost" with its process

vars == <<verdict, asks, heard>>

Verdicts == {"approved", "denied", "timed_out"}

Init ==
  /\ verdict = [q \in Questions |-> "none"]
  /\ asks = [w \in Askers |-> None]
  /\ heard = [w \in Askers |-> "unused"]

\* One question may be put, or be given its one verdict.
VerdictMoves(q) ==
  \/ verdict[q] = "none" /\ verdict'[q] = "pending"
  \/ verdict[q] = "pending" /\ verdict'[q] \in Verdicts

\* One asker may begin to wait, hear its answer, or be lost.
HearingMoves(w) ==
  \/ /\ heard[w] = "unused" /\ asks'[w] \in Questions
     /\ verdict'[asks'[w]] # "none"
     /\ heard'[w] \in {"waiting", "timed_out"} \cup ({verdict'[asks'[w]]} \cap Verdicts)
  \/ /\ heard[w] = "waiting" /\ asks'[w] = asks[w]
     /\ heard'[w] \in {"lost", "timed_out"} \cup ({verdict'[asks[w]]} \cap Verdicts)

\* Any number of them at a time.
Next ==
  /\ DOMAIN verdict' = Questions /\ DOMAIN heard' = Askers /\ DOMAIN asks' = Askers
  /\ \A q \in Questions : verdict'[q] = verdict[q] \/ VerdictMoves(q)
  /\ \A w \in Askers : <<heard'[w], asks'[w]>> = <<heard[w], asks[w]>> \/ HearingMoves(w)

Spec == Init /\ [][Next]_vars
=============================================================================
