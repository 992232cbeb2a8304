---------------------------- MODULE DurableTask ----------------------------
(***************************************************************************)
(* What the task queue of honeybee-core promises to the operator who       *)
(* queues a command for a node: a command is remembered from the moment it *)
(* is created, the node may run it any number of times, an answer is only  *)
(* recorded for a command that the node did run, and an answered command   *)
(* is never opened again.  The columns "pending" and "sent" of the tasks   *)
(* table are one state here: they record a guess about delivery, and only  *)
(* NodeLink says when the guess changes.                                   *)
(***************************************************************************)
CONSTANT Tasks

VARIABLES
  status,   \* status[t]: "none", "open" or "answered"
  ran       \* the tasks some agent process has started at least once

vars == <<status, ran>>

TypeOK ==
  /\ status \in [Tasks -> {"none", "open", "answered"}]
  /\ ran \in SUBSET Tasks

Init ==
  /\ status = [t \in Tasks |-> "none"]
  /\ ran = {}

Create(t) ==
  /\ status[t] = "none"
  /\ status' = [status EXCEPT ![t] = "open"]
  /\ UNCHANGED ran

\* The node starts the command.  It may do so again after the answer: a second
\* copy can be on its way when the first one is answered.
Run(t) ==
  /\ status[t] # "none"
  /\ ran' = ran \union {t}
  /\ UNCHANGED status

Answer(t) ==
  /\ t \in ran
  /\ status[t] = "open"
  /\ status' = [status EXCEPT ![t] = "answered"]
  /\ UNCHANGED ran

Next == \E t \in Tasks : Create(t) \/ Run(t) \/ Answer(t)

Spec == Init /\ [][Next]_vars
=============================================================================
