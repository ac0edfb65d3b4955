--------------------------- MODULE PairingProofs ---------------------------
(***************************************************************************)
(* What pairing_match computes, for scans of any length.  The two loops of *)
(* the code are recursive functions; the first lemmas give induction over  *)
(* an index, and say that such a function is what its equation says.       *)
(***************************************************************************)
EXTENDS Pairing, FiniteSetTheorems, TLAPS

\* The least number principle.
LEMMA Least ==
  ASSUME NEW T, T \subseteq Nat, T # {}
  PROVE  \E x \in T : \A y \in T : x <= y
<1>1. PICK x \in T : \A y \in T : ~(<<y, x>> \in OpToRel(<, Nat))
  <2>1. \E x \in T : \A y \in T : ~(<<y, x>> \in OpToRel(<, Nat))
    BY WFMin, NatLessThanWellFounded
  <2> QED
    BY <2>1
<1>2. \A y \in T : ~(y < x)
  BY <1>1 DEF OpToRel
<1> QED
  BY <1>2

\* Induction over the index of a loop that runs L times.
LEMMA LoopInduction ==
  ASSUME NEW L \in Nat, NEW T, 0 \in T,
         \A i \in 1..L : i - 1 \in T => i \in T
  PROVE  \A i \in 0..L : i \in T
<1> SUFFICES ASSUME NEW k \in 0..L, k \notin T PROVE FALSE
  OBVIOUS
<1> DEFINE Bad == {i \in 0..L : i \notin T}
<1>1. Bad \subseteq Nat /\ Bad # {}
  OBVIOUS
<1>2. PICK x \in Bad : \A y \in Bad : x <= y
  BY <1>1, Least
<1>3. x \in 1..L /\ x - 1 \in 0..L /\ ~(x <= x - 1)
  BY <1>2
<1>4. x - 1 \in T
  BY <1>2, <1>3
<1> QED
  BY <1>2, <1>3, <1>4

\* A loop of L rounds that starts from base: what it has after each.
Loop(f, L, S, base, Step) ==
  /\ f \in [0..L -> S] /\ f[0] = base
  /\ \A i \in 1..L : f[i] = Step[i][f[i - 1]]

\* There is such a function.
LEMMA Recursion ==
  ASSUME NEW L \in Nat, NEW S, NEW base \in S, NEW Step \in [1..L -> [S -> S]]
  PROVE  \E f : Loop(f, L, S, base, Step)
<1> DEFINE Good(g, n) == Loop(g, n, S, base, Step)
           T == {n \in 0..L : \E g : Good(g, n)}
<1>1. 0 \in T
  <2> DEFINE g0 == [i \in 0..0 |-> base]
  <2>1. Good(g0, 0)
    BY DEF Loop
  <2> HIDE DEF Good, g0
  <2>2. \E g : Good(g, 0)
    BY <2>1
  <2> QED
    BY <2>2
<1>2. ASSUME NEW n \in 1..L, n - 1 \in T PROVE n \in T
  <2>1. PICK g : Good(g, n - 1)
    <3> HIDE DEF Good
    <3> QED
      BY <1>2
  <2> DEFINE h == [i \in 0..n |-> IF i = n THEN Step[n][g[n - 1]] ELSE g[i]]
  <2>2. g[n - 1] \in S
    BY <2>1 DEF Loop
  <2>3. h \in [0..n -> S]
    BY <2>1, <2>2 DEF Loop
  <2>4. h[0] = base
    BY <2>1 DEF Loop
  <2>5. ASSUME NEW i \in 1..n PROVE h[i] = Step[i][h[i - 1]]
    <3>1. h[i - 1] = g[i - 1]
      OBVIOUS
    <3>2. CASE i = n
      <4>1. h[n] = Step[n][g[n - 1]]
        OBVIOUS
      <4> HIDE DEF h
      <4> QED
        BY <3>1, <3>2, <4>1, Zenon
    <3>3. CASE i # n
      <4>1. i \in 1..(n - 1) /\ h[i] = g[i]
        BY <3>3
      <4>2. g[i] = Step[i][g[i - 1]]
        BY <2>1, <4>1 DEF Loop
      <4> QED
        BY <3>1, <4>1, <4>2
    <3> QED
      BY <3>2, <3>3
  <2>6. Good(h, n)
    <3> HIDE DEF h
    <3> QED
      BY <2>3, <2>4, <2>5 DEF Loop
  <2> HIDE DEF Good, h
  <2>7. \E f : Good(f, n)
    BY <2>6
  <2> QED
    BY <2>7
<1>3. L \in T
  <2> HIDE DEF T
  <2>1. \A i \in 1..L : i - 1 \in T => i \in T
    BY <1>2
  <2>2. \A i \in 0..L : i \in T
    BY <1>1, <2>1, LoopInduction
  <2> QED
    BY <2>2
<1>4. PICK g : Good(g, L)
  BY <1>3
<1> QED
  BY <1>4
-----------------------------------------------------------------------------
\* imu_of_kbd and the error flag, in the loop over the IMUs.
States(d) == [ok : BOOLEAN, of : [Keyboards(d) -> 0..Len(d)]]
Free(s) == {k \in DOMAIN s.of : s.of[k] = Unpaired}
Match(d, s, i) == {k \in Free(s) : MacMatch(d[i], d[k])}

\* There are as many keyboards as nodes at most.
LEMMA KeyboardsFinite ==
  ASSUME NEW d, Len(d) \in Nat
  PROVE  IsFiniteSet(Keyboards(d)) /\ Keyboards(d) \subseteq 1..Len(d)
<1>1. Keyboards(d) \subseteq 1..Len(d)
  BY DEF Keyboards
<1>2. IsFiniteSet(1..Len(d))
  BY FS_Interval
<1> QED
  BY <1>1, <1>2, FS_Subset

\* One round of the loop: nothing, an error, or a free keyboard is given the
\* IMU, the one whose MAC matches or else the only one.
Round(d, s, t, i) ==
  \/ t = s /\ (~s.ok \/ ~IsImu(d[i]) \/ Free(s) = {})
  \/ /\ t = [ok |-> FALSE, of |-> s.of] /\ IsImu(d[i])
     /\ ~\E k \in Free(s) : Match(d, s, i) = {k}
  \/ \E k \in Free(s) :
       /\ IsImu(d[i]) /\ s.ok
       /\ t = [ok |-> TRUE, of |-> [s.of EXCEPT ![k] = i]]
       /\ Match(d, s, i) = {k} \/ Free(s) = {k}

\* One pass of the first loop does what Round says of it.
LEMMA OneRound ==
  ASSUME NEW d, Len(d) \in Nat, NEW s \in States(d), NEW i \in 1..Len(d)
  PROVE  Round(d, s, PairOne(d, s, i), i)
<1> DEFINE free == Free(s)
           match == Match(d, s, i)
           error == [ok |-> FALSE, of |-> s.of]
           Pair(k) == [ok |-> TRUE, of |-> [s.of EXCEPT ![k] = i]]
<1>1. IsFiniteSet(free) /\ IsFiniteSet(match) /\ match \subseteq free
  <2>1. free \subseteq Keyboards(d)
    BY DEF States, Free
  <2>2. match \subseteq free
    BY DEF Match
  <2> QED
    BY <2>1, <2>2, KeyboardsFinite, FS_Subset
<1>2. /\ Cardinality(match) = 1 <=> \E k : match = {k}
      /\ Cardinality(free) = 1 <=> \E k : free = {k}
  BY <1>1, FS_Singleton
<1>3. PairOne(d, s, i) =
        IF ~s.ok \/ ~IsImu(d[i]) THEN s
        ELSE IF Cardinality(match) > 1 THEN error
        ELSE IF Cardinality(match) = 1 THEN Pair(CHOOSE k \in match : TRUE)
        ELSE IF Cardinality(free) = 1 THEN Pair(CHOOSE k \in free : TRUE)
        ELSE IF free = {} THEN s ELSE error
  BY DEF PairOne, Free, Match, Ambiguous
<1> HIDE DEF free, match, error, Pair
<1>4. ASSUME NEW k, match = {k} PROVE (CHOOSE x \in match : TRUE) = k /\ k \in free
  BY <1>1, <1>4
<1>5. ASSUME NEW k, free = {k} PROVE (CHOOSE x \in free : TRUE) = k
  BY <1>5
<1>6. CASE ~s.ok \/ ~IsImu(d[i])
  BY <1>3, <1>6 DEF Round, free
<1>7. CASE s.ok /\ IsImu(d[i]) /\ Cardinality(match) = 1
  <2>1. PICK k : match = {k}
    BY <1>2, <1>7
  <2>2. PairOne(d, s, i) = Pair(k) /\ k \in free
    BY <1>3, <1>4, <1>7, <2>1
  <2> QED
    BY <1>7, <2>1, <2>2 DEF Round, free, match, Pair, error
<1>8. CASE s.ok /\ IsImu(d[i]) /\ Cardinality(match) # 1
  <2>1. ~\E k \in free : match = {k}
    BY <1>2, <1>8
  <2>2. CASE PairOne(d, s, i) = error
    BY <1>8, <2>1, <2>2 DEF Round, free, match, Pair, error
  <2>3. CASE Cardinality(free) = 1 /\ PairOne(d, s, i) = Pair(CHOOSE k \in free : TRUE)
    <3>1. PICK k : free = {k}
      BY <1>2, <2>3
    <3>2. PairOne(d, s, i) = Pair(k) /\ k \in free
      BY <1>5, <2>3, <3>1
    <3> QED
      BY <1>8, <3>1, <3>2 DEF Round, free, match, Pair, error
  <2>4. CASE free = {} /\ PairOne(d, s, i) = s
    BY <1>8, <2>4 DEF Round, free
  <2> QED
    BY <1>3, <1>8, <2>2, <2>3, <2>4
<1> QED
  BY <1>6, <1>7, <1>8

\* The loop stays within its states.
LEMMA RoundTyped ==
  ASSUME NEW d, Len(d) \in Nat, NEW s \in States(d), NEW i \in 1..Len(d), NEW t,
         Round(d, s, t, i)
  PROVE  t \in States(d)
<1>1. s.of \in [Keyboards(d) -> 0..Len(d)] /\ s.ok \in BOOLEAN
  BY DEF States
<1>2. \A k \in Free(s) : [s.of EXCEPT ![k] = i] \in [Keyboards(d) -> 0..Len(d)]
  BY <1>1 DEF Free
<1>3. /\ [ok |-> FALSE, of |-> s.of] \in States(d)
      /\ \A k \in Free(s) : [ok |-> TRUE, of |-> [s.of EXCEPT ![k] = i]] \in States(d)
  BY <1>1, <1>2 DEF States
<1> QED
  BY <1>3, Zenon DEF Round

\* imu_of_kbd after i rounds.
After(d) ==
  CHOOSE f : f = [i \in 0..Len(d) |-> IF i = 0 THEN Start(d) ELSE PairOne(d, f[i - 1], i)]

\* The state after each pass, from the one before.
LEMMA AfterFacts ==
  ASSUME NEW d, Len(d) \in Nat
  PROVE  /\ PairAll(d) = After(d)[Len(d)]
         /\ After(d) \in [0..Len(d) -> States(d)]
         /\ After(d)[0] = Start(d)
         /\ \A i \in 1..Len(d) : After(d)[i] = PairOne(d, After(d)[i - 1], i)
<1> DEFINE S == States(d)
           Step == [i \in 1..Len(d) |-> [s \in S |-> PairOne(d, s, i)]]
           Is(f) == f = [i \in 0..Len(d) |-> IF i = 0 THEN Start(d) ELSE PairOne(d, f[i - 1], i)]
<1>1. Start(d) \in S
  BY DEF Start, States, Unpaired
<1>2. Step \in [1..Len(d) -> [S -> S]]
  <2>1. \A i \in 1..Len(d), s \in S : PairOne(d, s, i) \in S
    BY OneRound, RoundTyped
  <2> QED
    BY <2>1
<1>3. \A s \in S, i \in 1..Len(d) : Step[i][s] = PairOne(d, s, i)
  OBVIOUS
<1> HIDE DEF S, Step
<1>4. PICK f : Loop(f, Len(d), S, Start(d), Step)
  BY <1>1, <1>2, Recursion
<1>5. \A i \in 0..Len(d) : i # 0 => i \in 1..Len(d) /\ i - 1 \in 0..Len(d)
  OBVIOUS
<1>6. Is(f)
  BY <1>3, <1>4, <1>5 DEF Loop
<1>7. Is(After(d)) 
  <2> HIDE DEF Is
  <2>1. After(d) = CHOOSE g : Is(g)
    BY DEF After, Is
  <2> QED
    BY <1>6, <2>1
<1> DEFINE a == After(d)
<1>8. Is(a) /\ PairAll(d) = a[Len(d)]
  BY <1>7 DEF PairAll, After
<1> HIDE DEF a
<1>9. /\ a[0] = Start(d)
      /\ \A i \in 1..Len(d) : a[i] = PairOne(d, a[i - 1], i)
  BY <1>5, <1>8
<1>10. \A i \in 0..Len(d) : a[i] \in S
  <2> DEFINE T == {i \in 0..Len(d) : a[i] \in S}
  <2>1. 0 \in T
    BY <1>1, <1>9
  <2>2. \A i \in 1..Len(d) : i - 1 \in T => i \in T
    BY <1>9, OneRound, RoundTyped DEF S
  <2> HIDE DEF T
  <2>3. \A i \in 0..Len(d) : i \in T
    BY <2>1, <2>2, LoopInduction
  <2> QED
    BY <2>3 DEF T
<1>11. a \in [0..Len(d) -> S]
  BY <1>8, <1>10
<1> QED
  BY <1>8, <1>9, <1>11 DEF S, a
-----------------------------------------------------------------------------
\* After i rounds a keyboard has an IMU that was scanned before, no two have
\* the same one, and a pair without a MAC match was the last that was left.
Sound(d, s, i) ==
  /\ \A k \in Keyboards(d) : s.of[k] # Unpaired => s.of[k] \in 1..i /\ IsImu(d[s.of[k]])
  /\ \A k, m \in Keyboards(d) : s.of[k] # Unpaired /\ s.of[k] = s.of[m] => k = m
  /\ \A k \in Keyboards(d) :
       s.of[k] # Unpaired /\ ~MacMatch(d[s.of[k]], d[k]) =>
         \A m \in Keyboards(d) : s.of[m] # Unpaired

\* A pass keeps Sound.
LEMMA SoundRound ==
  ASSUME NEW d, Len(d) \in Nat, NEW s \in States(d), NEW i \in 1..Len(d), NEW t,
         Round(d, s, t, i), Sound(d, s, i - 1)
  PROVE  Sound(d, t, i)
<1>1. s.of \in [Keyboards(d) -> 0..Len(d)]
  BY DEF States
<1>2. Sound(d, s, i)
  BY DEF Sound
<1>3. CASE t = s \/ t = [ok |-> FALSE, of |-> s.of]
  BY <1>2, <1>3 DEF Sound
<1>4. ASSUME NEW k \in Free(s), IsImu(d[i]), t = [ok |-> TRUE, of |-> [s.of EXCEPT ![k] = i]],
             Match(d, s, i) = {k} \/ Free(s) = {k}
      PROVE  Sound(d, t, i)
  <2>1. /\ k \in Keyboards(d) /\ s.of[k] = Unpaired
        /\ t.of[k] = i /\ \A m \in Keyboards(d) : m # k => t.of[m] = s.of[m]
    BY <1>1, <1>4 DEF Free
  <2>2. i # Unpaired /\ \A m \in Keyboards(d) : s.of[m] # Unpaired => s.of[m] # i
    BY DEF Sound, Unpaired
  <2>3. MacMatch(d[i], d[k]) \/ \A m \in Keyboards(d) : t.of[m] # Unpaired
    <3>1. CASE Match(d, s, i) = {k}
      BY <3>1 DEF Match
    <3>2. CASE Free(s) = {k}
      BY <1>1, <2>1, <2>2, <3>2 DEF Free
    <3> QED
      BY <1>4, <3>1, <3>2
  <2>4. \A m \in Keyboards(d) : t.of[m] # Unpaired => t.of[m] \in 1..i /\ IsImu(d[t.of[m]])
    BY <1>2, <1>4, <2>1 DEF Sound
  <2>5. \A m, n \in Keyboards(d) : t.of[m] # Unpaired /\ t.of[m] = t.of[n] => m = n
    BY <1>2, <2>1, <2>2 DEF Sound
  <2>6. ASSUME NEW m \in Keyboards(d), t.of[m] # Unpaired, ~MacMatch(d[t.of[m]], d[m]),
               NEW n \in Keyboards(d)
        PROVE  t.of[n] # Unpaired
    BY <1>2, <2>1, <2>2, <2>3, <2>6 DEF Sound
  <2> QED
    BY <2>4, <2>5, <2>6 DEF Sound
<1> QED
  BY <1>3, <1>4 DEF Round

\* Sound after the last pass: no first pass breaks it.
LEMMA PairingSound ==
  ASSUME NEW d, Len(d) \in Nat
  PROVE  PairAll(d) \in States(d) /\ Sound(d, PairAll(d), Len(d))
<1> DEFINE a == After(d)
           T == {i \in 0..Len(d) : Sound(d, a[i], i)}
<1>1. /\ PairAll(d) = a[Len(d)] /\ \A i \in 0..Len(d) : a[i] \in States(d)
      /\ a[0] = Start(d) /\ \A i \in 1..Len(d) : a[i] = PairOne(d, a[i - 1], i)
  BY AfterFacts
<1>2. Sound(d, Start(d), 0)
  BY DEF Sound, Start
<1>3. \A i \in 1..Len(d) : Sound(d, a[i - 1], i - 1) => Sound(d, a[i], i)
  <2> HIDE DEF a
  <2> TAKE i \in 1..Len(d)
  <2>1. a[i - 1] \in States(d) /\ Round(d, a[i - 1], a[i], i)
    BY <1>1, OneRound
  <2> QED
    BY <2>1, SoundRound
<1> HIDE DEF a
<1>4. 0 \in T /\ \A i \in 1..Len(d) : i - 1 \in T => i \in T
  BY <1>1, <1>2, <1>3
<1> HIDE DEF T
<1>5. \A i \in 0..Len(d) : i \in T
  BY <1>4, LoopInduction
<1> QED
  BY <1>1, <1>5 DEF T

\* The scanned IMUs.
ImusOf(d) == {i \in 1..Len(d) : IsImu(d[i])}

\* The MACs say which IMU belongs to which keyboard.
MacsDecide(d) ==
  /\ \A i \in ImusOf(d) : \E k \in Keyboards(d) : MacMatch(d[i], d[k])
  /\ \A i, j \in ImusOf(d), k, m \in Keyboards(d) :
       MacMatch(d[i], d[k]) /\ MacMatch(d[j], d[m]) => (k = m <=> i = j)

\* Then after i rounds there was no error, and the pairs are those that match.
Exact(d, s, i) ==
  /\ s.ok = TRUE
  /\ \A k \in Keyboards(d), j \in ImusOf(d) :
       s.of[k] = j <=> j <= i /\ MacMatch(d[j], d[k])

\* A pass keeps Exact where the MACs decide.
LEMMA ExactRound ==
  ASSUME NEW d, Len(d) \in Nat, NEW s \in States(d), NEW i \in 1..Len(d), NEW t,
         Round(d, s, t, i), Sound(d, s, i - 1), MacsDecide(d), Exact(d, s, i - 1)
  PROVE  Exact(d, t, i)
<1>1. s.of \in [Keyboards(d) -> 0..Len(d)]
  BY DEF States
<1>2. CASE ~IsImu(d[i])
  <2>1. t = s
    BY <1>2 DEF Round
  <2>2. \A j \in ImusOf(d) : j <= i <=> j <= i - 1
    BY <1>2 DEF ImusOf
  <2> QED
    BY <2>1, <2>2 DEF Exact
<1>3. CASE IsImu(d[i])
  <2>1. i \in ImusOf(d)
    BY <1>3 DEF ImusOf
  <2>2. PICK k \in Keyboards(d) : MacMatch(d[i], d[k])
    BY <2>1 DEF MacsDecide
  <2>3. s.of[k] = Unpaired
    <3>1. ASSUME s.of[k] # Unpaired PROVE FALSE
      <4>1. s.of[k] \in 1..(i - 1) /\ s.of[k] \in ImusOf(d)
        BY <1>1, <3>1 DEF Sound, ImusOf
      <4>2. MacMatch(d[s.of[k]], d[k]) /\ s.of[k] # i
        BY <4>1 DEF Exact
      <4> QED
        BY <2>1, <2>2, <4>1, <4>2 DEF MacsDecide
    <3> QED
      BY <3>1
  <2>4. \A m \in Keyboards(d) : MacMatch(d[i], d[m]) => m = k
    BY <2>1, <2>2 DEF MacsDecide
  <2>5. Match(d, s, i) = {k} /\ k \in Free(s)
    BY <1>1, <2>2, <2>3, <2>4 DEF Match, Free
  <2>6. t = [ok |-> TRUE, of |-> [s.of EXCEPT ![k] = i]]
    <3>1. PICK m \in Free(s) : /\ t = [ok |-> TRUE, of |-> [s.of EXCEPT ![m] = i]]
                               /\ Match(d, s, i) = {m} \/ Free(s) = {m}
      BY <1>3, <2>5 DEF Round, Exact
    <3>2. m = k
      BY <2>5, <3>1
    <3> QED
      BY <3>1, <3>2
  <2>7. t.of[k] = i /\ (\A m \in Keyboards(d) : m # k => t.of[m] = s.of[m]) /\ t.ok = TRUE
    BY <1>1, <2>2, <2>6
  <2>8. ASSUME NEW m \in Keyboards(d), NEW j \in ImusOf(d)
        PROVE  t.of[m] = j <=> j <= i /\ MacMatch(d[j], d[m])
    <3>0. j \in 1..Len(d)
      BY DEF ImusOf
    <3>1. CASE m = k
      <4>1. MacMatch(d[j], d[k]) <=> j = i
        BY <2>1, <2>2 DEF MacsDecide
      <4> QED
        BY <2>7, <3>0, <3>1, <4>1
    <3>2. CASE m # k
      <4>1. MacMatch(d[j], d[m]) => j # i
        BY <2>4, <3>2
      <4>2. s.of[m] = j <=> j <= i - 1 /\ MacMatch(d[j], d[m])
        BY DEF Exact
      <4> QED
        BY <2>7, <3>0, <3>2, <4>1, <4>2
    <3> QED
      BY <3>1, <3>2
  <2> QED
    BY <2>7, <2>8 DEF Exact
<1> QED
  BY <1>2, <1>3

\* Exact after the last pass.
LEMMA PairingExact ==
  ASSUME NEW d, Len(d) \in Nat, MacsDecide(d)
  PROVE  Exact(d, PairAll(d), Len(d))
<1> DEFINE a == After(d)
           T == {i \in 0..Len(d) : Sound(d, a[i], i) /\ Exact(d, a[i], i)}
<1>1. /\ PairAll(d) = a[Len(d)] /\ \A i \in 0..Len(d) : a[i] \in States(d)
      /\ a[0] = Start(d) /\ \A i \in 1..Len(d) : a[i] = PairOne(d, a[i - 1], i)
  BY AfterFacts
<1>2. Sound(d, Start(d), 0) /\ Exact(d, Start(d), 0)
  BY DEF Sound, Start, Exact, ImusOf, Unpaired
<1>3. \A i \in 1..Len(d) : Sound(d, a[i - 1], i - 1) /\ Exact(d, a[i - 1], i - 1)
                             => Sound(d, a[i], i) /\ Exact(d, a[i], i)
  <2> HIDE DEF a
  <2> TAKE i \in 1..Len(d)
  <2>1. a[i - 1] \in States(d) /\ Round(d, a[i - 1], a[i], i)
    BY <1>1, OneRound
  <2> QED
    BY <2>1, SoundRound, ExactRound
<1> HIDE DEF a
<1>4. 0 \in T /\ \A i \in 1..Len(d) : i - 1 \in T => i \in T
  BY <1>1, <1>2, <1>3
<1> HIDE DEF T
<1>5. \A i \in 0..Len(d) : i \in T
  BY <1>4, LoopInduction
<1> QED
  BY <1>1, <1>5 DEF T
-----------------------------------------------------------------------------
\* The emission loop after i rounds: the keyboards so far, each once, in the
\* order of the scan.
Emitted(d, of, q, i) ==
  /\ Len(q) = Cardinality({k \in Keyboards(d) : k <= i})
  /\ \A n \in 1..Len(q) : /\ q[n].kbd \in Keyboards(d) /\ q[n].kbd <= i
                          /\ q[n] = Remote(d, of, q[n].kbd)
  /\ \A k \in Keyboards(d) : k <= i => \E n \in 1..Len(q) : q[n].kbd = k
  /\ \A m, n \in 1..Len(q) : m < n => q[m].kbd < q[n].kbd

\* One pass of the second loop adds a remote for a keyboard, in order.
LEMMA EmitRound ==
  ASSUME NEW d, Len(d) \in Nat, NEW of, NEW i \in 1..Len(d),
         NEW S, NEW q \in Seq(S), Remote(d, of, i) \in S, Emitted(d, of, q, i - 1)
  PROVE  Emitted(d, of, IF IsKeyboard(d[i]) THEN Append(q, Remote(d, of, i)) ELSE q, i)
<1> DEFINE K(n) == {k \in Keyboards(d) : k <= n}
<1>0. Keyboards(d) \subseteq 1..Len(d) /\ IsFiniteSet(K(i - 1)) /\ Len(q) \in Nat
  BY KeyboardsFinite, FS_Subset
<1>1. CASE ~IsKeyboard(d[i])
  <2>1. \A k \in Keyboards(d) : k <= i <=> k <= i - 1
    BY <1>0, <1>1 DEF Keyboards
  <2>2. K(i) = K(i - 1)
    BY <2>1
  <2> QED
    BY <1>0, <1>1, <2>1, <2>2 DEF Emitted
<1>2. CASE IsKeyboard(d[i])
  <2> DEFINE e == Remote(d, of, i)
             r == Append(q, e)
  <2>1. i \in Keyboards(d) /\ e.kbd = i /\ e = Remote(d, of, e.kbd) /\ e \in S
    BY <1>2 DEF Keyboards, Remote
  <2> HIDE DEF e
  <2>2. /\ Len(r) = Len(q) + 1 /\ r[Len(q) + 1] = e
        /\ \A n \in 1..Len(q) : r[n] = q[n]
    BY <2>1
  <2> HIDE DEF r
  <2>3. K(i) = K(i - 1) \cup {i} /\ i \notin K(i - 1)
    BY <1>0, <2>1
  <2>4. Len(r) = Cardinality(K(i))
    <3>1. Cardinality(K(i - 1) \cup {i}) = Cardinality(K(i - 1)) + 1
      BY <1>0, <2>3, FS_AddElement
    <3>2. Len(q) = Cardinality(K(i - 1))
      BY DEF Emitted
    <3> QED
      BY <2>2, <2>3, <3>1, <3>2
  <2>5. ASSUME NEW n \in 1..Len(r)
        PROVE  /\ r[n].kbd \in Keyboards(d) /\ r[n].kbd <= i
               /\ r[n] = Remote(d, of, r[n].kbd)
    <3>1. CASE n \in 1..Len(q)
      BY <1>0, <2>2, <3>1 DEF Emitted
    <3>2. CASE n = Len(q) + 1
      BY <2>1, <2>2, <3>2
    <3> QED
      BY <1>0, <2>2, <3>1, <3>2
  <2>6. ASSUME NEW k \in Keyboards(d), k <= i PROVE \E n \in 1..Len(r) : r[n].kbd = k
    <3>1. CASE k = i
      BY <1>0, <2>1, <2>2, <3>1
    <3>2. CASE k <= i - 1
      <4>1. PICK n \in 1..Len(q) : q[n].kbd = k
        BY <3>2 DEF Emitted
      <4> QED
        BY <1>0, <2>2, <4>1
    <3> QED
      BY <1>0, <2>6, <3>1, <3>2
  <2>7. ASSUME NEW m \in 1..Len(r), NEW n \in 1..Len(r), m < n
        PROVE  r[m].kbd < r[n].kbd
    <3>1. m \in 1..Len(q) /\ r[m] = q[m] /\ q[m].kbd <= i - 1 /\ q[m].kbd \in 1..Len(d)
      BY <1>0, <2>2, <2>7 DEF Emitted
    <3>2. CASE n \in 1..Len(q)
      BY <2>2, <2>7, <3>1, <3>2 DEF Emitted
    <3>3. CASE n = Len(q) + 1
      BY <2>1, <2>2, <3>1, <3>3
    <3> QED
      BY <1>0, <2>2, <3>2, <3>3
  <2>8. Emitted(d, of, r, i)
    BY <2>4, <2>5, <2>6, <2>7 DEF Emitted
  <2> QED
    BY <1>2, <2>8 DEF r, e
<1> QED
  BY <1>1, <1>2

\* The second loop emits one remote for every keyboard.
LEMMA EmitFacts ==
  ASSUME NEW d, Len(d) \in Nat, NEW of
  PROVE  Emitted(d, of, Emit(d, of), Len(d))
<1> DEFINE E == {Remote(d, of, k) : k \in 1..Len(d)}
           S == Seq(E)
           More(q, i) == IF IsKeyboard(d[i]) THEN Append(q, Remote(d, of, i)) ELSE q
           Step == [i \in 1..Len(d) |-> [q \in S |-> More(q, i)]]
           Is(f) == f = [i \in 0..Len(d) |->
                           IF i = 0 THEN << >> ELSE More(f[i - 1], i)]
           out == CHOOSE f : Is(f)
<1>1. << >> \in S
  OBVIOUS
<1>2. \A i \in 1..Len(d), q \in S : More(q, i) \in S
  <2>1. \A i \in 1..Len(d) : Remote(d, of, i) \in E
    OBVIOUS
  <2> HIDE DEF E
  <2> QED
    BY <2>1
<1>3. /\ Step \in [1..Len(d) -> [S -> S]]
      /\ \A i \in 1..Len(d), q \in S : Step[i][q] = More(q, i)
  <2> HIDE DEF More, S
  <2> QED
    BY <1>2
<1> HIDE DEF S, Step
<1>4. PICK f : Loop(f, Len(d), S, << >>, Step)
  BY <1>1, <1>3, Recursion
<1>5. \A i \in 0..Len(d) : i # 0 => i \in 1..Len(d) /\ i - 1 \in 0..Len(d)
  OBVIOUS
<1>6. Is(f)
  <2> HIDE DEF More
  <2>1. \A i \in 1..Len(d) : f[i] = More(f[i - 1], i)
    BY <1>3, <1>4, <1>5 DEF Loop
  <2> QED
    BY <1>4, <1>5, <2>1 DEF Loop
<1>7. Is(out)
  <2> HIDE DEF Is
  <2> QED
    BY <1>6
<1>8. Emit(d, of) = out[Len(d)]
  BY DEF Emit
<1> HIDE DEF out
<1>9. out[0] = << >> /\ \A i \in 1..Len(d) : out[i] = More(out[i - 1], i)
  <2> HIDE DEF More
  <2> QED
    BY <1>5, <1>7
<1> DEFINE T == {i \in 0..Len(d) : out[i] \in S /\ Emitted(d, of, out[i], i)}
<1>10. 0 \in T
  <2>1. {k \in Keyboards(d) : k <= 0} = {}
    BY DEF Keyboards
  <2>2. Emitted(d, of, << >>, 0)
    <3>1. Len(<< >>) = 0 /\ Cardinality({}) = 0
      BY FS_EmptySet
    <3>2. \A k \in Keyboards(d) : ~(k <= 0)
      BY DEF Keyboards
    <3>3. \A n : n \notin 1..0
      OBVIOUS
    <3> QED
      BY <2>1, <3>1, <3>2, <3>3 DEF Emitted
  <2> QED
    BY <1>1, <1>9, <2>2
<1>11. ASSUME NEW i \in 1..Len(d), i - 1 \in T PROVE i \in T
  <2>1. out[i - 1] \in S /\ Emitted(d, of, out[i - 1], i - 1) /\ out[i] = More(out[i - 1], i)
    BY <1>9, <1>11
  <2>2. out[i] \in S
    BY <1>2, <2>1
  <2>3. Remote(d, of, i) \in E
    OBVIOUS
  <2> HIDE DEF E
  <2>4. Emitted(d, of, More(out[i - 1], i), i)
    BY <2>1, <2>3, EmitRound DEF S
  <2> QED
    BY <2>1, <2>2, <2>4
<1> HIDE DEF T
<1>12. \A i \in 0..Len(d) : i \in T
  BY <1>10, <1>11, LoopInduction
<1> QED
  BY <1>8, <1>12 DEF T
=============================================================================
