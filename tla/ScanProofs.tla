----------------------------- MODULE ScanProofs -----------------------------
(***************************************************************************)
(* The properties of pairing_match that MCPairing checks on small scans,   *)
(* for every scan: any number of nodes in any order, any set of MACs.      *)
(***************************************************************************)
EXTENDS MCPairing, PairingProofs

Nodes == [path : Nat, kind : {"kbd", "imu", "other"}, uniq : Macs \union {NoUniq}]

\* readdir delivers a list of nodes.
Listed == devs \in Seq(Nodes)

\* The scans of the run are sequences of nodes.
LEMMA Scanned == Spec => []Listed
<1>1. Init => Listed
  BY DEF Init, Listed
<1>2. Listed /\ [Next]_devs => Listed'
  <2> SUFFICES ASSUME Listed, [Next]_devs PROVE devs' \in Seq(Nodes)
    BY DEF Listed
  <2> USE DEF Listed
  <2>1. ASSUME NEW d \in Node(Len(devs) + 1), devs' = Append(devs, d)
        PROVE  devs' \in Seq(Nodes)
    <3>1. Len(devs) + 1 \in Nat
      OBVIOUS
    <3>2. d \in Nodes
      BY <3>1 DEF Node, Nodes
    <3> QED
      BY <2>1, <3>2
  <2>2. CASE NewScan
    BY <2>2 DEF NewScan
  <2> QED
    BY <2>1, <2>2 DEF Next, Discover
<1> QED
  BY <1>1, <1>2, PTL DEF Spec

\* The pairs that are emitted are those of imu_of_kbd.
LEMMA ResultFacts ==
  ASSUME Len(devs) \in Nat
  PROVE  /\ Result.ok = PairAll(devs).ok
         /\ Result.ok => Emitted(devs, PairAll(devs).of, Result.remotes, Len(devs))
         /\ ~Result.ok => Len(Result.remotes) = 0
  BY EmitFacts DEF Result, pairing_match

\* The pairs of the result are those of the first loop.
LEMMA PairedFacts ==
  ASSUME Len(devs) \in Nat, Result.ok
  PROVE  Paired = {<<k, PairAll(devs).of[k]>> : k \in Keyboards(devs)}
<1> DEFINE of == PairAll(devs).of
           q == Result.remotes
<1>1. Emitted(devs, of, q, Len(devs))
  BY ResultFacts
<1>2. \A k \in Keyboards(devs) : k <= Len(devs)
  BY KeyboardsFinite
<1>3. Paired = {<<q[n].kbd, q[n].imu>> : n \in 1..Len(q)}
  BY DEF Paired
<1> HIDE DEF of, q
<1>4. \A n \in 1..Len(q) : q[n].kbd \in Keyboards(devs) /\ q[n].imu = of[q[n].kbd]
  BY <1>1 DEF Emitted, Remote
<1>5. \A k \in Keyboards(devs) : \E n \in 1..Len(q) : q[n].kbd = k
  BY <1>1, <1>2 DEF Emitted
<1> QED
  BY <1>3, <1>4, <1>5 DEF of

(* Every scanned keyboard becomes one remote and no two remotes are driven *)
(* by one IMU, whatever pairing_match is given.                            *)
THEOREM ImusAreNotShared == Spec => []NoSharedImu
<1>1. Listed => NoSharedImu
  <2> SUFFICES ASSUME Listed PROVE NoSharedImu
    OBVIOUS
  <2> DEFINE of == PairAll(devs).of
  <2> SUFFICES ASSUME Result.ok
               PROVE  /\ {pr[1] : pr \in Paired} = Keyboards(devs)
                      /\ Len(Result.remotes) = Cardinality(Keyboards(devs))
                      /\ OneToOne(ImuPairs)
    BY DEF NoSharedImu
  <2>0. Len(devs) \in Nat
    BY DEF Listed
  <2>1. Paired = {<<k, of[k]>> : k \in Keyboards(devs)}
    BY <2>0, PairedFacts
  <2>2. Len(Result.remotes) = Cardinality(Keyboards(devs))
    <3>1. {k \in Keyboards(devs) : k <= Len(devs)} = Keyboards(devs)
      BY <2>0, KeyboardsFinite
    <3> QED
      BY <2>0, <3>1, ResultFacts DEF Emitted
  <2>3. Sound(devs, PairAll(devs), Len(devs))
    BY <2>0, PairingSound
  <2>4. \A k, m \in Keyboards(devs) : of[k] # Unpaired /\ of[k] = of[m] => k = m
    BY <2>3 DEF Sound
  <2> HIDE DEF of
  <2>5. {pr[1] : pr \in Paired} = Keyboards(devs)
    <3>1. \A pr \in Paired : pr[1] \in Keyboards(devs)
      BY <2>1
    <3>2. ASSUME NEW k \in Keyboards(devs) PROVE \E pr \in Paired : pr[1] = k
      <4>1. <<k, of[k]>> \in Paired /\ <<k, of[k]>>[1] = k
        BY <2>1
      <4> QED
        BY <4>1, Zenon
    <3> QED
      BY <3>1, <3>2
  <2>6. OneToOne(ImuPairs)
    BY <2>1, <2>4 DEF OneToOne, ImuPairs
  <2> QED
    BY <2>2, <2>5, <2>6
<1> QED
  BY <1>1, Scanned, PTL

(* When the MACs decide, pairing_match accepts the scan and pairs by them, *)
(* in whatever order the nodes come.                                       *)
THEOREM MacsAreFollowed == Spec => []MacPairingExact
<1>1. Listed => MacPairingExact
  <2> SUFFICES ASSUME Listed PROVE MacPairingExact
    OBVIOUS
  <2> DEFINE of == PairAll(devs).of
  <2> SUFFICES ASSUME OneToOne(ByMac), {pr[2] : pr \in ByMac} = Imus
               PROVE  Result.ok /\ ImuPairs = ByMac
    BY DEF MacPairingExact
  <2>0. Len(devs) \in Nat
    BY DEF Listed
  <2>1. \A k, i : <<k, i>> \in ByMac <=>
                    k \in Keyboards(devs) /\ i \in Imus /\ MacMatch(devs[i], devs[k])
    BY DEF ByMac
  <2>2. MacsDecide(devs)
    <3>1. \A i \in Imus : \E k \in Keyboards(devs) : MacMatch(devs[i], devs[k])
      <4> TAKE i \in Imus
      <4>1. PICK pr \in ByMac : pr[2] = i
        OBVIOUS
      <4> QED
        BY <4>1 DEF ByMac
    <3>2. \A i, j \in Imus, k, m \in Keyboards(devs) :
            MacMatch(devs[i], devs[k]) /\ MacMatch(devs[j], devs[m]) => (k = m <=> i = j)
      <4> TAKE i, j \in Imus, k, m \in Keyboards(devs)
      <4> HAVE MacMatch(devs[i], devs[k]) /\ MacMatch(devs[j], devs[m])
      <4>1. <<k, i>> \in ByMac /\ <<m, j>> \in ByMac
        BY <2>1
      <4> QED
        BY <4>1 DEF OneToOne
    <3> QED
      BY <3>1, <3>2 DEF MacsDecide, ImusOf, Imus
  <2>3. Exact(devs, PairAll(devs), Len(devs)) /\ Sound(devs, PairAll(devs), Len(devs))
    BY <2>0, <2>2, PairingExact, PairingSound
  <2>4. Result.ok
    BY <2>0, <2>3, ResultFacts DEF Exact
  <2>5. Paired = {<<k, of[k]>> : k \in Keyboards(devs)}
    BY <2>0, <2>4, PairedFacts
  <2>6. \A k \in Keyboards(devs) : of[k] # Unpaired => of[k] \in Imus
    BY <2>3 DEF Sound, Imus
  <2>7. \A k \in Keyboards(devs), i \in Imus : of[k] = i <=> MacMatch(devs[i], devs[k])
    BY <2>0, <2>3 DEF Exact, ImusOf, Imus
  <2>8. Unpaired \notin Imus
    BY DEF Unpaired, Imus
  <2> HIDE DEF of
  <2>9. ImuPairs \subseteq ByMac
    BY <2>1, <2>5, <2>6, <2>7 DEF ImuPairs
  <2>10. ByMac \subseteq ImuPairs
    BY <2>5, <2>7, <2>8 DEF ImuPairs, ByMac
  <2> QED
    BY <2>4, <2>9, <2>10
<1> QED
  BY <1>1, Scanned, PTL

(* "The daemon refuses to guess": a pair that rests on no MAC match leaves *)
(* no other keyboard without an IMU, on every scan.                        *)
THEOREM PairingIsNoGuess == Spec => []NeverGuesses
<1>1. Listed => NeverGuesses
  <2> SUFFICES ASSUME Listed PROVE NeverGuesses
    OBVIOUS
  <2> DEFINE of == PairAll(devs).of
  <2>0. Len(devs) \in Nat
    BY DEF Listed
  <2>1. CASE Result.ok
    <3>1. Paired = {<<k, of[k]>> : k \in Keyboards(devs)}
      BY <2>0, <2>1, PairedFacts
    <3>2. \A k \in Keyboards(devs) :
            of[k] # Unpaired /\ ~MacMatch(devs[of[k]], devs[k]) =>
              \A m \in Keyboards(devs) : of[m] # Unpaired
      BY <2>0, PairingSound DEF Sound
    <3> HIDE DEF of
    <3>3. \A k \in Keyboards(devs) : of[k] # Unpaired => <<k, of[k]>> \in ImuPairs
      BY <3>1 DEF ImuPairs
    <3>4. ASSUME NEW pr \in ImuPairs, ~MacMatch(devs[pr[2]], devs[pr[1]]),
                 NEW other \in Keyboards(devs) \ {pr[1]}
          PROVE  \E x \in ImuPairs : x[1] = other
      <4>1. PICK k \in Keyboards(devs) : pr = <<k, of[k]>> /\ of[k] # Unpaired
        BY <3>1 DEF ImuPairs
      <4>2. of[other] # Unpaired
        BY <3>2, <3>4, <4>1
      <4>3. <<other, of[other]>> \in ImuPairs
        BY <3>3, <4>2
      <4> QED
        BY <4>3
    <3> QED
      BY <3>4 DEF NeverGuesses
  <2>2. CASE ~Result.ok
    <3>1. \A n : n \notin 1..Len(Result.remotes)
      BY <2>0, <2>2, ResultFacts
    <3> QED
      BY <3>1 DEF NeverGuesses, ImuPairs, Paired
  <2> QED
    BY <2>1, <2>2
<1> QED
  BY <1>1, Scanned, PTL
=============================================================================
