----------------------------- MODULE TaskService -----------------------------
(***************************************************************************)
(* What a caller of a task runner of this program may rely on, whatever    *)
(* happens inside: each accepted task gets exactly one answer; at most     *)
(* Capacity tasks are executed at a time; a task is begun at most Attempts *)
(* times and never again once it is answered; in the end it is answered.   *)
(* A step of the runner may move several tasks at once, since it hands out *)
(* the next task in the callback that ends the last.                       *)
(***************************************************************************)
EXTENDS Naturals, FiniteSets

CONSTANTS Tasks,       \* what the callers may submit
          Capacity,    \* tasks executed at a time
          Attempts     \* executions of one task

VARIABLES phase,    \* task -> "new", "waiting", "executing" or "answered"
          begun     \* task -> how often its execution was begun

serviceVars == <<phase, begun>>

Executing(ph) == {t \in Tasks : ph[t] = "executing"}

ServiceInit ==
    /\ phase = [t \in Tasks |-> "new"]
    /\ begun = [t \in Tasks |-> 0]

\* One task in one step; an attempt that failed may be followed by the next.
Moves(t) ==
    \/ phase'[t] = phase[t] /\ begun'[t] = begun[t]
    \/ phase[t] = "new" /\ phase'[t] \in {"waiting", "answered"} /\ begun'[t] = begun[t]
    \/ phase[t] \in {"waiting", "executing"}
         /\ phase'[t] \in {"waiting", "answered"} /\ begun'[t] = begun[t]
    \/ phase[t] # "answered" /\ phase'[t] = "executing" /\ begun'[t] = begun[t] + 1

ServiceNext ==
    /\ phase' \in [Tasks -> {"new", "waiting", "executing", "answered"}]
    /\ begun' \in [Tasks -> 0 .. Attempts]
    /\ Cardinality(Executing(phase')) <= Capacity
    /\ \A t \in Tasks : Moves(t)

Service == ServiceInit /\ [][ServiceNext]_serviceVars

Answered == \A t \in Tasks : phase[t] \in {"waiting", "executing"} ~> phase[t] = "answered"
==============================================================================
