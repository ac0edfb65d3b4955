--------------------------- MODULE PipelineProofs ---------------------------
(***************************************************************************)
(* Proofs about Pipeline for any remote, any set of button maps and any    *)
(* size of the held table.                                                 *)
(*                                                                         *)
(* NoStuckKey is not inductive by itself: that a release lifts the right   *)
(* key rests on a key having one pin at most, that every press gets a pin  *)
(* rests on the table never being full, and that rests on every pin        *)
(* belonging to another key that is down or unread.  IInv adds these.      *)
(***************************************************************************)
EXTENDS Pipeline, TLAPS, FiniteSetTheorems

USE DEF Up, Press, Repeat

\* A physical key has one pin at most.
PinsDistinct ==
  \A i, j \in 1..Len(held) : held[i].phys = held[j].phys => i = j

\* Only a key that is down, or unread, is pinned.
PinsLive == \A i \in 1..Len(held) : held[i].phys \in down \union unread

\* Every virtual key that is down is the code of a pin.
VirtualPinned == \A c \in vdown : \E i \in 1..Len(held) : held[i].virt = c

\* The environment's bound on keys down or unread.
FewKeys == Cardinality(down \union unread) <= MaxDown

\* The accumulator is what is owed, and less than a click.
AccumOwed == accum = owed /\ -Den < accum /\ accum < Den

IInv == TypeOK /\ PinsDistinct /\ PinsLive /\ VirtualPinned /\ FewKeys
               /\ AccumOwed

\* A set of keys is finite and its size a natural number.
LEMMA KeySetsFinite ==
  ASSUME NEW S, S \subseteq Keys
  PROVE  IsFiniteSet(S) /\ Cardinality(S) \in Nat
  BY FS_Subset, FS_CardinalityType, KeysAssumption

\* held[] has a slot left for an untracked key when the keys down or unread,
\* with that key, are few enough.
LEMMA RoomForPin ==
  ASSUME IInv, NEW k \in Keys, ~Pinned(k),
         Cardinality(down \union unread \union {k}) <= MaxDown
  PROVE  Len(held) < HeldCap
<1> DEFINE A == down \union unread \union {k}
           B == A \ {k}
           n == Len(held)
           f == [i \in 1..n |-> held[i].phys]
<1>1. A \subseteq Keys /\ IsFiniteSet(A) /\ Cardinality(A) \in Nat
  BY KeySetsFinite DEF IInv, TypeOK
<1>2. IsFiniteSet(B) /\ Cardinality(B) = Cardinality(A) - 1
  BY <1>1, FS_RemoveElement
<1>3. n \in Nat
  BY DEF IInv, TypeOK
<1>4. IsFiniteSet(1..n) /\ Cardinality(1..n) = n
  BY <1>3, FS_Interval, SMTT(30)
<1>5. \A i \in 1..n : held[i].phys \in B
  BY DEF IInv, PinsLive, Pinned, Slots
<1>6. f \in Injection(1..n, B)
  BY <1>5 DEF IInv, PinsDistinct, Injection, IsInjective
<1>7. n <= Cardinality(B)
  BY <1>2, <1>4, <1>6, FS_Injection
<1>8. QED
  BY <1>1, <1>2, <1>3, <1>7, CapacityAssumption

\* The slot found for a pinned key is its one slot.
LEMMA SlotIsUnique ==
  ASSUME IInv, NEW k \in Keys, Pinned(k)
  PROVE  /\ Slot(k) \in 1..Len(held)
         /\ held[Slot(k)].phys = k
         /\ \A i \in 1..Len(held) : held[i].phys = k => i = Slot(k)
<1>1. PICK i \in Slots(k) : TRUE
  BY DEF Pinned
<1>2. i \in 1..Len(held) /\ held[i].phys = k
  BY <1>1 DEF Slots
<1>3. \A j \in Slots(k) : j = i
  BY <1>2 DEF IInv, PinsDistinct, Slots
<1>4. i \in Nat
  BY <1>2 DEF IInv, TypeOK
<1>5. Slot(k) \in Slots(k)
  <2>1. \A j \in Slots(k) : j <= i
    BY <1>3, <1>4
  <2>2. \E h \in Slots(k) : \A j \in Slots(k) : j <= h
    BY <1>1, <2>1
  <2>3. QED
    BY <2>2, Zenon DEF Slot
<1>6. QED
  BY <1>2, <1>3, <1>5 DEF Slots

\* Untracking slot i keeps the other pins and only those.
LEMMA UntrackKeepsOthers ==
  ASSUME held \in Seq(Pin), NEW i \in 1..Len(held)
  PROVE  LET u == Untrack(held, i) IN
         /\ u \in Seq(Pin)
         /\ Len(u) = Len(held) - 1
         /\ \A j \in 1..Len(u) : \E h \in 1..Len(held) : h # i /\ u[j] = held[h]
         /\ \A j \in 1..Len(held) : j # i =>
              \E h \in 1..Len(u) : u[h] = held[j]
<1> DEFINE u == Untrack(held, i)
           n == Len(held)
<1>1. n \in Nat /\ n >= 1 /\ \A j \in 1..n : held[j] \in Pin
  OBVIOUS
<1>2. u = [j \in 1..(n - 1) |-> IF j = i THEN held[n] ELSE held[j]]
  BY DEF Untrack
<1>3. \A j \in 1..(n - 1) : u[j] \in Pin
  BY <1>1, <1>2
<1>4. u \in Seq(Pin) /\ Len(u) = n - 1
  BY <1>1, <1>2, <1>3
<1>5. \A j \in 1..(n - 1) : \E h \in 1..n : h # i /\ u[j] = held[h]
  BY <1>1, <1>2
<1>6. \A j \in 1..n : j # i => \E h \in 1..(n - 1) : u[h] = held[j]
  <2> SUFFICES ASSUME NEW j \in 1..n, j # i
               PROVE  \E h \in 1..(n - 1) : u[h] = held[j]
    OBVIOUS
  <2>1. CASE j = n
    <3>1. i \in 1..(n - 1) /\ u[i] = held[j]
      BY <1>1, <1>2, <2>1
    <3>2. QED BY <3>1
  <2>2. CASE j # n
    <3>1. j \in 1..(n - 1) /\ u[j] = held[j]
      BY <1>1, <1>2, <2>2
    <3>2. QED BY <3>1
  <2>3. QED BY <2>1, <2>2
<1>7. QED
  BY <1>4, <1>5, <1>6

-----------------------------------------------------------------------------
(***************************************************************************)
(* One lemma per group of actions: each preserves the inductive invariant. *)
(***************************************************************************)

\* A key code a physical key resolves to is one the keyboard can emit.
LEMMA ResolveInCodes ==
  ASSUME IInv, NEW k \in Keys
  PROVE  Resolve(k) \in Codes
  BY KeysAssumption, MapsAssumption DEF IInv, TypeOK, Resolve

\* Handling a key event of a pinned key keeps pins and virtual keys in step.
LEMMA TrackedStep ==
  ASSUME IInv, NEW k \in Keys, NEW v \in {Up, Press, Repeat}, Tracked(k, v),
         down' = (IF v = Up THEN down \ {k} ELSE down \union {k}),
         unread' = unread \ {k}
  PROVE  /\ held' \in Seq(Pin) /\ Len(held') <= HeldCap
         /\ vdown' \subseteq Codes
         /\ PinsDistinct' /\ PinsLive' /\ VirtualPinned'
<1> DEFINE s == Slot(k)
<1>1. /\ s \in 1..Len(held) /\ held[s].phys = k
      /\ \A i \in 1..Len(held) : held[i].phys = k => i = s
  BY SlotIsUnique DEF Tracked
<1> HIDE DEF s
<1>2. /\ held \in Seq(Pin) /\ Len(held) \in Nat /\ HeldCap \in Nat
      /\ Len(held) <= HeldCap /\ vdown \subseteq Codes
  BY CapacityAssumption DEF IInv, TypeOK
<1>3. held[s].virt \in Codes
  <2>1. held[s] \in Pin
    BY <1>1, <1>2
  <2>2. QED BY <2>1 DEF Pin
<1>4. CASE v = Up
  <2> DEFINE u == Untrack(held, s)
  <2>1. held' = u /\ vdown' = vdown \ {held[s].virt}
    BY <1>4 DEF Tracked, Write, s
  <2> HIDE DEF u
  <2>2. /\ u \in Seq(Pin) /\ Len(u) = Len(held) - 1
        /\ \A j \in 1..Len(u) : \E h \in 1..Len(held) : h # s /\ u[j] = held[h]
        /\ \A j \in 1..Len(held) : j # s => \E h \in 1..Len(u) : u[h] = held[j]
    BY <1>1, <1>2, UntrackKeepsOthers DEF u
  <2>3. PinsDistinct'
    <3>1. \A i \in 1..(Len(held) - 1) :
            u[i] = IF i = s THEN held[Len(held)] ELSE held[i]
      BY DEF Untrack, u
    <3>2. \A i, j \in 1..Len(u) : u[i].phys = u[j].phys => i = j
      <4> SUFFICES ASSUME NEW i \in 1..Len(u), NEW j \in 1..Len(u),
                          u[i].phys = u[j].phys
                   PROVE  i = j
        OBVIOUS
      <4> DEFINE At(x) == IF x = s THEN Len(held) ELSE x
      <4>1. Len(u) = Len(held) - 1 /\ Len(held) \in Nat
        BY <1>2, <2>2
      <4>2. s \in 1..Len(held)
        BY <1>1
      <4>3. \A x \in 1..Len(u) : At(x) \in 1..Len(held) /\ u[x] = held[At(x)]
        BY <3>1, <4>1, <4>2
      <4>4. At(i) = At(j)
        BY <4>3 DEF IInv, PinsDistinct
      <4>5. QED BY <4>1, <4>2, <4>4
    <3>3. QED BY <2>1, <3>2 DEF PinsDistinct
  <2>4. PinsLive'
    <3>1. \A j \in 1..Len(u) : u[j].phys \in (down \union unread) \ {k}
      <4> SUFFICES ASSUME NEW j \in 1..Len(u)
                   PROVE  u[j].phys \in (down \union unread) \ {k}
        OBVIOUS
      <4>1. PICK h \in 1..Len(held) : h # s /\ u[j] = held[h]
        BY <2>2
      <4>2. QED BY <1>1, <4>1 DEF IInv, PinsLive
    <3>2. QED BY <1>4, <2>1, <3>1 DEF PinsLive
  <2>5. VirtualPinned'
    <3>1. \A c \in vdown \ {held[s].virt} :
            \E h \in 1..Len(u) : u[h].virt = c
      <4> SUFFICES ASSUME NEW c \in vdown, c # held[s].virt
                   PROVE  \E h \in 1..Len(u) : u[h].virt = c
        OBVIOUS
      <4>1. PICK i \in 1..Len(held) : held[i].virt = c
        BY DEF IInv, VirtualPinned
      <4>2. PICK h \in 1..Len(u) : u[h] = held[i]
        BY <2>2, <4>1
      <4>3. QED BY <4>1, <4>2
    <3>2. QED BY <2>1, <3>1 DEF VirtualPinned
  <2>6. held' \in Seq(Pin) /\ Len(held') <= HeldCap /\ vdown' \subseteq Codes
    BY <1>2, <2>1, <2>2
  <2>7. QED BY <2>3, <2>4, <2>5, <2>6
<1>5. CASE v # Up
  <2>1. held' = held /\ vdown' \subseteq vdown \union {held[s].virt}
    BY <1>5 DEF Tracked, Write, s
  <2>2. PinsDistinct'
    BY <2>1 DEF IInv, PinsDistinct
  <2>3. PinsLive'
    BY <1>5, <2>1 DEF IInv, PinsLive
  <2>4. VirtualPinned'
    <3>1. \A c \in vdown' : \E i \in 1..Len(held) : held[i].virt = c
      BY <1>1, <2>1 DEF IInv, VirtualPinned
    <3>2. QED BY <2>1, <3>1 DEF VirtualPinned
  <2>5. held' \in Seq(Pin) /\ Len(held') <= HeldCap /\ vdown' \subseteq Codes
    BY <1>2, <1>3, <2>1
  <2>6. QED BY <2>2, <2>3, <2>4, <2>5
<1>6. QED BY <1>4, <1>5

\* So does a press, or a repeat, of a key without a pin.
LEMMA FreshStep ==
  ASSUME IInv, NEW k \in Keys, NEW v \in {Up, Press, Repeat}, Fresh(k, v),
         Cardinality(down \union unread \union {k}) <= MaxDown,
         down' = (IF v = Up THEN down \ {k} ELSE down \union {k}),
         unread' = unread \ {k}
  PROVE  /\ held' \in Seq(Pin) /\ Len(held') <= HeldCap
         /\ vdown' \subseteq Codes
         /\ PinsDistinct' /\ PinsLive' /\ VirtualPinned'
<1> DEFINE n == Len(held)
           p == [phys |-> k, virt |-> Resolve(k)]
<1>1. n < HeldCap /\ n \in Nat /\ held \in Seq(Pin) /\ HeldCap \in Nat
  BY RoomForPin, CapacityAssumption DEF Fresh, IInv, TypeOK
<1>2. p \in Pin
  BY ResolveInCodes DEF Pin
<1>3. held' = Append(held, p)
  BY <1>1 DEF Fresh, Track
<1>4. /\ held' \in Seq(Pin) /\ Len(held') = n + 1 /\ held'[n + 1] = p
      /\ \A i \in 1..n : held'[i] = held[i]
  BY <1>1, <1>2, <1>3
<1>5. vdown' \subseteq vdown \union {Resolve(k)}
  BY DEF Fresh, Write
<1>6. \A i \in 1..n : held[i].phys # k
  BY DEF Fresh, Pinned, Slots
<1>7. PinsDistinct'
  BY <1>1, <1>4, <1>6 DEF IInv, PinsDistinct
<1>8. PinsLive'
  <2>1. v # Up /\ down' = down \union {k}
    BY DEF Fresh
  <2>2. \A i \in 1..(n + 1) : held'[i].phys \in down' \union unread'
    BY <1>1, <1>4, <2>1 DEF IInv, PinsLive
  <2>3. QED BY <1>4, <2>2 DEF PinsLive
<1>9. VirtualPinned'
  <2> SUFFICES ASSUME NEW c \in vdown'
               PROVE  \E i \in 1..(n + 1) : held'[i].virt = c
    BY <1>4 DEF VirtualPinned
  <2>1. CASE c \in vdown
    <3>1. PICK i \in 1..n : held[i].virt = c
      BY <2>1 DEF IInv, VirtualPinned
    <3>2. i \in 1..(n + 1) /\ held'[i].virt = c
      BY <1>1, <1>4, <3>1
    <3>3. QED BY <3>2
  <2>2. CASE c = Resolve(k)
    <3>1. n + 1 \in 1..(n + 1) /\ held'[n + 1].virt = c
      BY <1>1, <1>4, <2>2
    <3>2. QED BY <3>1
  <2>3. QED BY <1>5, <2>1, <2>2
<1>10. vdown' \subseteq Codes
  BY <1>5, ResolveInCodes DEF IInv, TypeOK
<1>11. QED BY <1>1, <1>4, <1>7, <1>8, <1>9, <1>10

\* And the release of a key without a pin.
LEMMA UntrackedReleaseStep ==
  ASSUME IInv, NEW k \in Keys, NEW v \in {Up, Press, Repeat},
         UntrackedRelease(k, v),
         down' = (IF v = Up THEN down \ {k} ELSE down \union {k}),
         unread' = unread \ {k}
  PROVE  /\ held' \in Seq(Pin) /\ Len(held') <= HeldCap
         /\ vdown' \subseteq Codes
         /\ PinsDistinct' /\ PinsLive' /\ VirtualPinned'
<1>1. held' = held /\ vdown' = vdown \ {Resolve(k)} /\ v = Up
  BY DEF UntrackedRelease, Write
<1>2. \A i \in 1..Len(held) : held[i].phys # k
  BY DEF UntrackedRelease, Pinned, Slots
<1>3. PinsDistinct'
  BY <1>1 DEF IInv, PinsDistinct
<1>4. PinsLive'
  BY <1>1, <1>2 DEF IInv, PinsLive
<1>5. VirtualPinned'
  BY <1>1 DEF IInv, VirtualPinned
<1>6. QED
  BY <1>1, <1>3, <1>4, <1>5 DEF IInv, TypeOK

\* A key event, whichever of the three branches handles it.
LEMMA KeyStep ==
  ASSUME IInv, NEW k \in Keys, NEW v \in {Up, Press, Repeat}, Key(k, v)
  PROVE  IInv'
<1> DEFINE A == down \union unread
<1>1. A \subseteq Keys /\ A \union {k} \subseteq Keys /\ MaxDown \in Nat
  BY CapacityAssumption DEF IInv, TypeOK
<1>2. Cardinality(A \union {k}) <= MaxDown
  <2>1. CASE v = Press
    BY <2>1 DEF Key, InStream
  <2>2. CASE v # Press
    <3>1. A \union {k} = A
      BY <2>2 DEF Key, InStream
    <3>2. QED BY <3>1 DEF IInv, FewKeys
  <2>3. QED BY <2>1, <2>2
<1>3. /\ held' \in Seq(Pin) /\ Len(held') <= HeldCap
      /\ vdown' \subseteq Codes
      /\ PinsDistinct' /\ PinsLive' /\ VirtualPinned'
  BY <1>2, TrackedStep, FreshStep, UntrackedReleaseStep DEF Key
<1>4. FewKeys'
  <2>1. (down' \union unread') \subseteq A \union {k}
    BY DEF Key
  <2>2. IsFiniteSet(A \union {k}) /\ Cardinality(A \union {k}) \in Nat
    BY <1>1, KeySetsFinite
  <2>3. /\ Cardinality(down' \union unread') \in Nat
        /\ Cardinality(down' \union unread') <= Cardinality(A \union {k})
    BY <2>1, <2>2, FS_Subset, FS_CardinalityType
  <2>4. QED BY <1>1, <1>2, <2>2, <2>3 DEF FewKeys
<1>5. frame' \in [keys : 0..MaxFrameKeys, wheel : Int]
  <2>1. frame.keys \in 0..MaxFrameKeys /\ frame.keys > 0 /\ MaxFrameKeys \in Nat
    BY CapacityAssumption DEF IInv, TypeOK, Key
  <2>2. frame.keys - 1 \in 0..MaxFrameKeys
    BY <2>1
  <2>3. QED BY <2>2 DEF IInv, TypeOK, Key
<1>6. TypeOK'
  BY <1>1, <1>3, <1>5 DEF IInv, TypeOK, Key
<1>7. AccumOwed'
  BY DEF IInv, AccumOwed, Key
<1>8. QED
  BY <1>3, <1>4, <1>6, <1>7 DEF IInv

\* The integer cast leaves a remainder smaller than a click.
LEMMA TruncRemainder ==
  ASSUME NEW n \in Int
  PROVE  /\ Trunc(n) \in Int
         /\ -Den < n - Trunc(n) * Den
         /\ n - Trunc(n) * Den < Den
<1>1. Den \in Nat /\ Den > 0
  BY WheelAssumption
<1>2. CASE n >= 0
  <2>1. n \div Den \in Int /\ n = Den * (n \div Den) + (n % Den)
        /\ 0 <= n % Den /\ n % Den < Den
    BY <1>1, <1>2
  <2>2. QED BY <1>1, <1>2, <2>1 DEF Trunc
<1>3. CASE n < 0
  <2> DEFINE m == -n
  <2>1. m \div Den \in Int /\ m = Den * (m \div Den) + (m % Den)
        /\ 0 <= m % Den /\ m % Den < Den
    BY <1>1, <1>3
  <2>2. QED BY <1>1, <1>3, <2>1 DEF Trunc
<1>4. QED BY <1>2, <1>3

\* The wheel of a frame.
LEMMA WheelStep ==
  ASSUME IInv, Wheel
  PROVE  IInv'
<1> DEFINE d == frame.wheel * speed
           q == Trunc(accum + d) * Den
<1>1. accum \in Int /\ frame.wheel \in Int /\ speed \in Int /\ Den \in Int
  BY WheelAssumption DEF IInv, TypeOK
<1>2. d \in Int /\ accum + d \in Int
  BY <1>1
<1>3. accum' = (accum + d) - q /\ owed' = owed + (d - q)
  BY Zenon DEF Wheel
<1> HIDE DEF d
<1>4. Trunc(accum + d) \in Int /\ -Den < (accum + d) - q /\ (accum + d) - q < Den
  BY <1>2, TruncRemainder
<1>5. q \in Int
  BY <1>1, <1>4
<1> HIDE DEF q
<1>6. accum = owed
  BY DEF IInv, AccumOwed
<1>7. accum' \in Int /\ owed' = accum'
  BY <1>1, <1>2, <1>3, <1>5, <1>6
<1>8. AccumOwed'
  BY <1>3, <1>4, <1>7 DEF AccumOwed
<1>9. TypeOK'
  BY <1>7 DEF IInv, TypeOK, Wheel
<1>10. PinsDistinct' /\ PinsLive' /\ VirtualPinned' /\ FewKeys'
  BY DEF IInv, PinsDistinct, PinsLive, VirtualPinned, FewKeys, Wheel
<1>11. QED BY <1>8, <1>9, <1>10 DEF IInv

\* Reading a frame.
LEMMA ReadFrameStep ==
  ASSUME IInv, NEW n \in 0..MaxFrameKeys, NEW w \in Detents, ReadFrame(n, w)
  PROVE  IInv'
<1>1. TypeOK'
  BY WheelAssumption DEF IInv, TypeOK, ReadFrame
<1>2. PinsDistinct' /\ PinsLive' /\ VirtualPinned' /\ FewKeys' /\ AccumOwed'
  BY DEF IInv, PinsDistinct, PinsLive, VirtualPinned, FewKeys, AccumOwed,
         ReadFrame
<1>3. QED BY <1>1, <1>2 DEF IInv

\* Losing events of a key.
LEMMA OverrunStep ==
  ASSUME IInv, NEW k \in Keys, Overrun(k)
  PROVE  IInv'
<1>1. TypeOK'
  BY DEF IInv, TypeOK, Overrun
<1>2. down' \union unread' = down \union unread \union {k}
  BY DEF Overrun
<1>3. FewKeys'
  BY <1>2 DEF Overrun, FewKeys
<1>4. PinsLive'
  BY <1>2 DEF IInv, PinsLive, Overrun
<1>5. PinsDistinct' /\ VirtualPinned' /\ AccumOwed'
  BY DEF IInv, PinsDistinct, VirtualPinned, AccumOwed, Overrun
<1>6. QED BY <1>1, <1>3, <1>4, <1>5 DEF IInv

\* A re-configuration drops every pin and every virtual key.
LEMMA ReconfigureStep ==
  ASSUME IInv, NEW m \in Maps, NEW s \in Speeds, Reconfigure(m, s)
  PROVE  IInv' /\ vdown' = {}
<1>1. vdown' = {}
  BY DEF Reconfigure, IInv, VirtualPinned
<1>2. held' = << >>
  BY DEF Reconfigure
<1>3. TypeOK'
  BY <1>1, <1>2, CapacityAssumption DEF IInv, TypeOK, Reconfigure
<1>4. PinsDistinct' /\ PinsLive' /\ VirtualPinned'
  BY <1>1, <1>2 DEF PinsDistinct, PinsLive, VirtualPinned
<1>5. FewKeys' /\ AccumOwed'
  BY DEF IInv, FewKeys, AccumOwed, Reconfigure
<1>6. QED BY <1>1, <1>3, <1>4, <1>5 DEF IInv

-----------------------------------------------------------------------------
(***************************************************************************)
(* The theorems.                                                           *)
(***************************************************************************)

\* The inductive invariant holds initially and every step preserves it.
LEMMA IInvInit == Init => IInv
<1> SUFFICES ASSUME Init PROVE IInv
  OBVIOUS
<1>1. TypeOK
  BY CapacityAssumption DEF Init, TypeOK
<1>2. FewKeys
  <2>1. down \union unread = down
    BY DEF Init
  <2>2. QED BY <2>1 DEF Init, FewKeys
<1>3. PinsDistinct /\ PinsLive /\ VirtualPinned
  BY DEF Init, PinsDistinct, PinsLive, VirtualPinned
<1>4. AccumOwed
  BY WheelAssumption DEF Init, AccumOwed
<1>5. QED BY <1>1, <1>2, <1>3, <1>4 DEF IInv

\* Every step keeps the inductive invariant: one case per action of Next.
LEMMA IInvNext == IInv /\ [Next]_vars => IInv'
<1> SUFFICES ASSUME IInv, [Next]_vars PROVE IInv'
  OBVIOUS
<1>1. ASSUME NEW n \in 0..MaxFrameKeys, NEW w \in Detents, ReadFrame(n, w)
      PROVE  IInv'
  BY <1>1, ReadFrameStep
<1>2. ASSUME NEW k \in Keys, NEW v \in {Up, Press, Repeat}, Key(k, v)
      PROVE  IInv'
  BY <1>2, KeyStep
<1>3. CASE Wheel
  BY <1>3, WheelStep
<1>4. ASSUME NEW k \in Keys, Overrun(k)
      PROVE  IInv'
  BY <1>4, OverrunStep
<1>5. ASSUME NEW m \in Maps, NEW s \in Speeds, Reconfigure(m, s)
      PROVE  IInv'
  BY <1>5, ReconfigureStep
<1>6. CASE UNCHANGED vars
  BY <1>6 DEF vars, IInv, TypeOK, PinsDistinct, PinsLive, VirtualPinned,
              FewKeys, AccumOwed
<1>7. QED
  BY <1>1, <1>2, <1>3, <1>4, <1>5, <1>6 DEF Next

\* The inductive invariant holds in every reachable state of the pipeline,
\* whatever keys are pressed, lost or remapped.
THEOREM Inductive == Spec => []IInv
<1>1. QED BY IInvInit, IInvNext, PTL DEF Spec

\* Type correctness: held[] and a frame's keys[] are never overrun.
THEOREM TypeCorrect == Spec => []TypeOK
<1>1. IInv => TypeOK
  BY DEF IInv
<1>2. QED BY <1>1, Inductive, PTL

\* No virtual key is ever left down without a pinned physical key that is
\* down or has unread events, for any maps and any order of events.
THEOREM NoKeySticks == Spec => []NoStuckKey
<1>1. IInv => NoStuckKey
  BY DEF IInv, VirtualPinned, PinsLive, NoStuckKey
<1>2. QED BY <1>1, Inductive, PTL

\* The wheel's emitted travel stays within one click of the travel asked for.
THEOREM WheelAccurate == Spec => []WheelWithinOneClick
<1>1. IInv => WheelWithinOneClick
  BY DEF IInv, AccumOwed, WheelWithinOneClick
<1>2. QED BY <1>1, Inductive, PTL

\* A step that changes the button map leaves no virtual key down.
THEOREM RemapReleases == Spec => RemapReleasesEverything
<1>1. ASSUME IInv, [Next]_vars
      PROVE  [active' # active => vdown' = {}]_vars
  <2>1. ASSUME NEW n \in 0..MaxFrameKeys, NEW w \in Detents, ReadFrame(n, w)
        PROVE  active' = active
    BY <2>1 DEF ReadFrame
  <2>2. ASSUME NEW k \in Keys, NEW v \in {Up, Press, Repeat}, Key(k, v)
        PROVE  active' = active
    BY <2>2 DEF Key
  <2>3. ASSUME Wheel PROVE active' = active
    BY <2>3 DEF Wheel
  <2>4. ASSUME NEW k \in Keys, Overrun(k)
        PROVE  active' = active
    BY <2>4 DEF Overrun
  <2>5. ASSUME NEW m \in Maps, NEW s \in Speeds, Reconfigure(m, s)
        PROVE  vdown' = {}
    BY <1>1, <2>5, ReconfigureStep
  <2>6. QED
    BY <1>1, <2>1, <2>2, <2>3, <2>4, <2>5 DEF Next
<1>2. QED
  BY <1>1, Inductive, PTL DEF Spec, RemapReleasesEverything
=============================================================================
