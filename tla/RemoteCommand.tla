---------------------------- MODULE RemoteCommand ----------------------------
(***************************************************************************)
(* What a command of the lgmagic tool promises about the settings it asks  *)
(* the daemon to change: they are asked for in order, each one only after  *)
(* the one before it was carried out; the command reports success only     *)
(* when all of them were; and a command that gave up asks for nothing      *)
(* more, so that at most the one setting in flight is still carried out    *)
(* after the user was told of the failure.                                 *)
(***************************************************************************)
EXTENDS Naturals

CONSTANTS Plans      \* what commands ask for: sets of numbered settings

VARIABLES run,       \* how many commands were run; names the current one
          plan,      \* the settings of the current command
          status,    \* "running", "ok" or "failed"
          issued,    \* those that were asked for
          applied,   \* those that were carried out
          late       \* requests of earlier commands in flight: <<run, setting>>

vars == <<run, plan, status, issued, applied, late>>

Init ==
  /\ run = 0 /\ plan = {} /\ status = "ok"
  /\ issued = {} /\ applied = {} /\ late = {}

Begin ==
  /\ status # "running"
  /\ run' = run + 1
  /\ plan' \in Plans
  \* "failed": the bus cannot be reached.
  /\ status' \in {"running", "failed"}
  /\ issued' = {} /\ applied' = {}
  \* The request the last command was waiting for may be outstanding still.
  /\ late' \in {late, late \cup {<<run, s>> : s \in issued \ applied}}

Issue ==
  /\ status = "running"
  /\ applied = issued
  /\ \E s \in plan \ issued :
       /\ \A t \in plan \ issued : s <= t
       /\ issued' = issued \cup {s}
  /\ UNCHANGED <<run, plan, status, applied, late>>

Apply ==
  /\ \E s \in issued \ applied : applied' = applied \cup {s}
  /\ UNCHANGED <<run, plan, status, issued, late>>

Late ==
  /\ \E r \in late : late' = late \ {r}
  /\ UNCHANGED <<run, plan, status, issued, applied>>

Succeed ==
  /\ status = "running"
  /\ applied = plan
  /\ status' = "ok"
  /\ UNCHANGED <<run, plan, issued, applied, late>>

Fail ==
  /\ status = "running"
  /\ status' = "failed"
  /\ UNCHANGED <<run, plan, issued, applied, late>>

Next == Begin \/ Issue \/ Apply \/ Late \/ Succeed \/ Fail

Spec == Init /\ [][Next]_vars
=============================================================================
