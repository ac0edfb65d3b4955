---------------------------- MODULE AtomicFiles -----------------------------
(***************************************************************************)
(* What atomic_write_file promises: a reader of a configuration file, at   *)
(* any time and after any crash, finds one whole version of it.  Versions  *)
(* replace one another in one step; a power loss may bring back the        *)
(* version last flushed, never a mixture.                                  *)
(***************************************************************************)
CONSTANT Files

VARIABLES
  version,  \* Files -> the version a reader finds
  flushed   \* Files -> the version a power loss leaves

vars == <<version, flushed>>

IsVersion(v) == v.is \in {"absent", "whole"}

Init ==
  /\ \A f \in Files : IsVersion(version[f])
  /\ flushed = version

\* A new whole version of one file becomes visible.
Put(f) ==
  /\ IsVersion(version'[f])
  /\ version' = [version EXCEPT ![f] = version'[f]]
  /\ UNCHANGED flushed

\* A version written by someone else, flushed at once.
Replace(f) ==
  /\ IsVersion(version'[f])
  /\ version' = [version EXCEPT ![f] = version'[f]]
  /\ flushed' = [flushed EXCEPT ![f] = version'[f]]

Flush(f) ==
  /\ flushed' = [flushed EXCEPT ![f] = version[f]]
  /\ UNCHANGED version

PowerLoss ==
  /\ version' = flushed
  /\ UNCHANGED flushed

Next ==
  \/ \E f \in Files : Put(f) \/ Replace(f) \/ Flush(f)
  \/ PowerLoss

Spec == Init /\ [][Next]_vars

=============================================================================
