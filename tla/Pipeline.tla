------------------------------ MODULE Pipeline ------------------------------
(***************************************************************************)
(* The keyboard half of lgmagicd's frame pipeline (daemon_pipeline.c): one *)
(* remote's key events go through the active button map to a virtual       *)
(* keyboard, its wheel detents through a fractional accumulator, and a     *)
(* re-configuration may replace the map and the scroll speed between two   *)
(* frames, while keys are held down.                                       *)
(*                                                                         *)
(* What the daemon reads is the remote's evdev stream: press (1), release  *)
(* (0) and autorepeat (2, the driver sets EV_REP).  Events can be unread   *)
(* when the evdev client buffer overruns; evdev_read_frame_ext takes the   *)
(* SYN_DROPPED marker for an ordinary end of frame and never resyncs.      *)
(***************************************************************************)
EXTENDS Integers, Sequences, FiniteSets

CONSTANTS
  Keys,          \* physical key codes of the remote
  Codes,         \* key codes a virtual keyboard can emit
  Maps,          \* button maps: partial functions from Keys to Codes
  Speeds,        \* scroll speeds, in units of 1/Den
  Den,           \* denominator of the fixed-point wheel arithmetic
  Detents,       \* wheel deltas one frame can carry
  HeldCap,       \* slots of pipeline.held[] (32 in the code)
  MaxDown,       \* bound: keys that are down, or believed down, at once
  MaxFrameKeys   \* bound: key events in one frame (16 in the code)

ASSUME KeysAssumption ==
  /\ IsFiniteSet(Keys)
  /\ Keys \subseteq Codes
ASSUME MapsAssumption ==
  \A m \in Maps : /\ DOMAIN m \subseteq Keys
                  /\ \A k \in DOMAIN m : m[k] \in Codes
ASSUME WheelAssumption ==
  /\ Den \in Nat \ {0}
  /\ Speeds \subseteq Nat
  /\ Detents \subseteq Int
\* The driver reports one button at a time and a remote has a few dozen, so
\* the 32 slots of held[] are never all in use.
ASSUME CapacityAssumption ==
  /\ HeldCap \in Nat /\ MaxDown \in Nat /\ MaxFrameKeys \in Nat
  /\ MaxDown <= HeldCap

VARIABLES
  down,    \* keys physically down, at the daemon's place in the stream
  unread,  \* keys whose last change of state the daemon never read
  frame,   \* what is left of the frame being handled
  held,    \* pipeline.held[0..nheld-1]: which code each press was mapped as
  active,  \* pipeline.active.map
  speed,   \* pipeline.active.scroll_speed
  accum,   \* pipeline.wheel_accum
  vdown,   \* keys down on the virtual keyboard, kept by the input core
  owed     \* wheel travel asked for minus wheel travel emitted

vars == <<down, unread, frame, held, active, speed, accum, vdown, owed>>

Pin == [phys : Keys, virt : Codes]

Up == 0
Press == 1
Repeat == 2

Idle == frame.keys = 0 /\ frame.wheel = 0

-----------------------------------------------------------------------------
(***************************************************************************)
(* The held table and the button map.                                      *)
(***************************************************************************)

\* The first map entry for a key decides; an unmapped key passes through.
Resolve(k) == IF k \in DOMAIN active THEN active[k] ELSE k

\* Slots of held[] that track a physical key; the search keeps the last one.
Slots(k) == {i \in 1..Len(held) : held[i].phys = k}
Pinned(k) == Slots(k) # {}
Slot(k) == CHOOSE i \in Slots(k) : \A j \in Slots(k) : j <= i

\* held[i] = held[nheld - 1]; nheld--.
UntrackKeepsLast(s, i) == [j \in 1..(Len(s) - 1) |-> s[j]]
Untrack(s, i) ==
  [j \in 1..(Len(s) - 1) |-> IF j = i THEN s[Len(s)] ELSE s[j]]

\* A press is pinned while held[] has a slot left.
Track(s, k, c) ==
  IF Len(s) < HeldCap THEN Append(s, [phys |-> k, virt |-> c]) ELSE s

\* What the input core keeps of a written key event: a repeat is passed on
\* and changes no key state.
Write(vd, c, v) ==
  CASE v = Press -> vd \union {c}
    [] v = Up -> vd \ {c}
    [] OTHER -> vd

-----------------------------------------------------------------------------
(***************************************************************************)
(* pipeline_keyboard: the key events of a frame in order, then its wheel.  *)
(***************************************************************************)

\* Repeat and release of a tracked key: the code the press was mapped as.
Tracked(k, v) ==
  /\ Pinned(k)
  /\ vdown' = Write(vdown, held[Slot(k)].virt, v)
  /\ held' = IF v = Up THEN Untrack(held, Slot(k)) ELSE held

\* A press, or a repeat, of an untracked key: mapped now and pinned.
Fresh(k, v) ==
  /\ ~Pinned(k)
  /\ v # Up
  /\ vdown' = Write(vdown, Resolve(k), v)
  /\ held' = Track(held, k, Resolve(k))

\* The release of an untracked key: the current mapping.
UntrackedRelease(k, v) ==
  /\ ~Pinned(k)
  /\ v = Up
  /\ vdown' = Write(vdown, Resolve(k), v)
  /\ held' = held

\* The stream holds a press of a key that is up, a repeat or a release of
\* one that is down.
InStream(k, v) ==
  /\ (v = Press) <=> (k \notin down)
  /\ v = Press => Cardinality(down \union unread \union {k}) <= MaxDown

Key(k, v) ==
  /\ frame.keys > 0
  /\ InStream(k, v)
  /\ Tracked(k, v) \/ Fresh(k, v) \/ UntrackedRelease(k, v)
  /\ frame' = [frame EXCEPT !.keys = @ - 1]
  /\ down' = IF v = Up THEN down \ {k} ELSE down \union {k}
  /\ unread' = unread \ {k}
  /\ UNCHANGED <<active, speed, accum, owed>>

\* (int) of a double: towards zero.
Trunc(n) == IF n >= 0 THEN n \div Den ELSE -((-n) \div Den)

WheelDropsFraction ==
  /\ frame.keys = 0 /\ frame.wheel # 0
  /\ LET total == accum + frame.wheel * speed
         clicks == Trunc(total)
     IN  /\ accum' = 0
         /\ owed' = owed + frame.wheel * speed - clicks * Den
  /\ frame' = [frame EXCEPT !.wheel = 0]
  /\ UNCHANGED <<down, unread, held, active, speed, vdown>>
Wheel ==
  /\ frame.keys = 0 /\ frame.wheel # 0
  /\ LET total == accum + frame.wheel * speed
         clicks == Trunc(total)
     IN  /\ accum' = total - clicks * Den
         /\ owed' = owed + frame.wheel * speed - clicks * Den
  /\ frame' = [frame EXCEPT !.wheel = 0]
  /\ UNCHANGED <<down, unread, held, active, speed, vdown>>

\* evdev_read_frame_ext: up to MaxFrameKeys key events and a summed wheel.
ReadFrameOneTooMany(n, w) ==
  /\ Idle
  /\ frame' = [keys |-> n + 1, wheel |-> w]
  /\ UNCHANGED <<down, unread, held, active, speed, accum, vdown, owed>>
ReadFrame(n, w) ==
  /\ Idle
  /\ frame' = [keys |-> n, wheel |-> w]
  /\ UNCHANGED <<down, unread, held, active, speed, accum, vdown, owed>>

\* The client buffer overruns: a key changes state and the daemon reads
\* nothing of it.
Overrun(k) ==
  /\ Idle
  /\ Cardinality(down \union unread \union {k}) <= MaxDown
  /\ down' = IF k \in down THEN down \ {k} ELSE down \union {k}
  /\ unread' = unread \union {k}
  /\ UNCHANGED <<frame, held, active, speed, accum, vdown, owed>>

-----------------------------------------------------------------------------
(***************************************************************************)
(* pipeline_configure: every pinned key is released, then the map and the  *)
(* speed change.  The accumulator survives.  The calibration half of the   *)
(* function is in DeviceConfig.                                            *)
(***************************************************************************)
ReconfigureKeepsHeld(m, s) ==
  /\ Idle
  /\ active' = m
  /\ speed' = s
  /\ UNCHANGED <<down, unread, frame, held, vdown, accum, owed>>
Reconfigure(m, s) ==
  /\ Idle
  /\ vdown' = vdown \ {held[i].virt : i \in 1..Len(held)}
  /\ held' = << >>
  /\ active' = m
  /\ speed' = s
  /\ UNCHANGED <<down, unread, frame, accum, owed>>

\* A new remote: pipeline_init and the first configure.  Keys may be down
\* already, the virtual keyboard is new.
Init ==
  /\ down \in {d \in SUBSET Keys : Cardinality(d) <= MaxDown}
  /\ unread = down
  /\ frame = [keys |-> 0, wheel |-> 0]
  /\ held = << >>
  /\ active \in Maps
  /\ speed \in Speeds
  /\ accum = 0
  /\ vdown = {}
  /\ owed = 0

Next ==
  \/ \E n \in 0..MaxFrameKeys, w \in Detents : ReadFrame(n, w)
  \/ \E k \in Keys, v \in {Up, Press, Repeat} : Key(k, v)
  \/ Wheel
  \/ \E k \in Keys : Overrun(k)
  \/ \E m \in Maps, s \in Speeds : Reconfigure(m, s)

Spec == Init /\ [][Next]_vars

-----------------------------------------------------------------------------
(***************************************************************************)
(* Properties.                                                             *)
(***************************************************************************)

\* Every variable stays in its domain: a frame carries no more key events
\* than keys[] has room for, held[] no more pins than it has slots.
TypeOK ==
  /\ down \subseteq Keys
  /\ unread \subseteq Keys
  /\ frame \in [keys : 0..MaxFrameKeys, wheel : Int]
  /\ held \in Seq(Pin)
  /\ Len(held) <= HeldCap
  /\ active \in Maps
  /\ speed \in Speeds
  /\ accum \in Int
  /\ vdown \subseteq Codes
  /\ owed \in Int

\* daemon_pipeline.h says a map change must not leave the old virtual key
\* stuck.  Whatever the interleaving of presses, repeats, releases, lost
\* events and map changes, a virtual key is down only while a pin for it is
\* in held[] whose physical key is down, or whose events were lost and not
\* yet read again: the next release read of that key lifts it.
NoStuckKey ==
  \A c \in vdown : \E i \in 1..Len(held) :
    /\ held[i].virt = c
    /\ held[i].phys \in down \union unread

\* A step that changes the button map leaves no virtual key down: the keys
\* held under the old map are up the moment the new one is live
\* (TESTING.md, "Immediate profile / map").
RemapReleasesEverything == [][active' # active => vdown' = {}]_vars

\* Over any sequence of detents and speed changes the wheel travel emitted
\* is within one click of the travel asked for: the fraction cut off by the
\* integer cast is carried, also across a change of the scroll speed.
WheelWithinOneClick == -Den < owed /\ owed < Den
=============================================================================
