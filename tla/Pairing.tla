------------------------------ MODULE Pairing ------------------------------
(***************************************************************************)
(* pairing.c: group the keyboards and IMUs of a /dev/input scan into       *)
(* remotes.  A pure function of the scanned list, in scan order: the loop  *)
(* over the IMUs is greedy, one IMU after the other.                       *)
(*                                                                         *)
(* A scanned node is [path, kind, uniq]; kind says which of the two name   *)
(* predicates holds ("kbd", "imu" or neither) and uniq is the sysfs MAC,   *)
(* compared without regard to case, NoUniq when absent.                    *)
(***************************************************************************)
EXTENDS Integers, Sequences, FiniteSets

CONSTANT NoUniq   \* the empty sysfs uniq

IsKeyboard(d) == d.kind = "kbd"
IsImu(d) == d.kind = "imu"

\* uniq_eq, as pairing_match uses it: an empty IMU uniq matches nothing.
MacMatch(imu, kbd) == imu.uniq # NoUniq /\ imu.uniq = kbd.uniq

Keyboards(devs) == {i \in 1..Len(devs) : IsKeyboard(devs[i])}

\* imu_of_kbd before the first IMU; 0 stands for the code's -1.
Unpaired == 0
Start(devs) == [ok |-> TRUE, of |-> [k \in Keyboards(devs) |-> Unpaired]]
Ambiguous(s) == [ok |-> FALSE, of |-> s.of]

\* The loop body for one scanned node: a MAC match among the free keyboards,
\* else the only free keyboard, else spare (none free) or ambiguous.
PairOneFirstFree(devs, s, i) ==
  LET free == {k \in DOMAIN s.of : s.of[k] = Unpaired}
  IN  IF ~IsImu(devs[i]) \/ ~s.ok \/ free = {} THEN s
      ELSE [s EXCEPT !.of[CHOOSE k \in free : \A j \in free : k <= j] = i]
PairOneNoMac(devs, s, i) ==
  LET free == {k \in DOMAIN s.of : s.of[k] = Unpaired}
  IN  IF ~IsImu(devs[i]) \/ ~s.ok \/ free = {} THEN s
      ELSE IF Cardinality(free) = 1 THEN [s EXCEPT !.of[CHOOSE k \in free : TRUE] = i]
      ELSE Ambiguous(s)
PairOneEveryMatch(devs, s, i) ==
  IF ~IsImu(devs[i]) \/ ~s.ok THEN s
  ELSE [s EXCEPT !.of = [k \in DOMAIN @ |->
          IF @[k] = Unpaired /\ MacMatch(devs[i], devs[k]) THEN i ELSE @[k]]]
PairOne(devs, s, i) ==
  LET free == {k \in DOMAIN s.of : s.of[k] = Unpaired}
      match == {k \in free : MacMatch(devs[i], devs[k])}
      Pair(k) == [ok |-> TRUE, of |-> [s.of EXCEPT ![k] = i]]
  IN  IF ~IsImu(devs[i]) \/ ~s.ok THEN s
      ELSE IF Cardinality(match) > 1 THEN Ambiguous(s)
      ELSE IF Cardinality(match) = 1 THEN Pair(CHOOSE k \in match : TRUE)
      ELSE IF Cardinality(free) = 1 THEN Pair(CHOOSE k \in free : TRUE)
      ELSE IF free = {} THEN s ELSE Ambiguous(s)

PairAll(devs) ==
  LET after[i \in 0..Len(devs)] ==
        IF i = 0 THEN Start(devs) ELSE PairOne(devs, after[i - 1], i)
  IN  after[Len(devs)]

\* The emitted entry of a keyboard; its MAC, or else its IMU's, is the uniq.
Remote(devs, of, k) ==
  [kbd |-> k,
   imu |-> of[k],
   uniq |-> IF devs[k].uniq # NoUniq THEN devs[k].uniq
            ELSE IF of[k] # Unpaired THEN devs[of[k]].uniq ELSE NoUniq]

\* One remote per keyboard, in discovery order.
Emit(devs, of) ==
  LET out[i \in 0..Len(devs)] ==
        IF i = 0 THEN << >>
        ELSE IF IsKeyboard(devs[i]) THEN Append(out[i - 1], Remote(devs, of, i))
        ELSE out[i - 1]
  IN  out[Len(devs)]

\* pairing_match: ok is the return value, remotes the array filled on 0.
pairing_match(devs) ==
  LET s == PairAll(devs)
  IN  [ok |-> s.ok, remotes |-> IF s.ok THEN Emit(devs, s.of) ELSE << >>]
=============================================================================
