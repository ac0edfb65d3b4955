-------------------------- MODULE MCPipelineLeak --------------------------
(***************************************************************************)
(* The pipeline with a history variable: the code each key's current press *)
(* came out as when the daemon read it.  It says whether a key held across *)
(* a re-configuration turns up again under another code.                   *)
(***************************************************************************)
EXTENDS MCPipeline

CONSTANT NoCode

VARIABLE origin

PinOf(k) == held[Slot(k)].virt

HInit == Init /\ origin = [k \in Keys |-> NoCode]

HKey(k, v) ==
  /\ Key(k, v)
  /\ origin' = CASE v = Press -> [origin EXCEPT ![k] = PinOf(k)']
                 [] v = Up -> [origin EXCEPT ![k] = NoCode]
                 [] OTHER -> origin

HNext ==
  \/ \E k \in Keys, v \in {Up, Press, Repeat} : HKey(k, v)
  \/ \E n \in 0..MaxFrameKeys, w \in Detents : ReadFrame(n, w) /\ UNCHANGED origin
  \/ \E k \in Keys :
       Overrun(k) /\ origin' = [origin EXCEPT ![k] = NoCode]
  \/ Wheel /\ UNCHANGED origin
  \/ \E m \in Maps, s \in Speeds : Reconfigure(m, s) /\ UNCHANGED origin

HSpec == HInit /\ [][HNext]_<<vars, origin>>

\* TESTING.md, held key across a remap: "the held press must not leak into
\* the new map".  A key the daemon tracks is pinned to the code its press
\* came out as when it was read, so neither a repeat nor the release of that
\* press can come out as another key.
NoLeak ==
  \A k \in Keys :
    Pinned(k) /\ origin[k] # NoCode => PinOf(k) = origin[k]
=============================================================================
