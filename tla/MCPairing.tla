----------------------------- MODULE MCPairing -----------------------------
(***************************************************************************)
(* pairing_match over every scan of at most MaxNodes nodes with any mix of *)
(* kinds and MACs, in any order: the list grows node by node, the way      *)
(* readdir delivers it, and every prefix is a scan of its own.             *)
(***************************************************************************)
EXTENDS Pairing

CONSTANTS Macs, MaxNodes

VARIABLE devs

Node(p) == [path : {p}, kind : {"kbd", "imu", "other"}, uniq : Macs \union {NoUniq}]

Init == devs = << >>
Discover ==
  /\ Len(devs) < MaxNodes
  /\ \E d \in Node(Len(devs) + 1) : devs' = Append(devs, d)
NewScan ==
  /\ Len(devs) = MaxNodes
  /\ devs' = << >>
Next == Discover \/ NewScan
Spec == Init /\ [][Next]_devs

Result == pairing_match(devs)
Imus == {i \in 1..Len(devs) : IsImu(devs[i])}
Paired == {<<Result.remotes[n].kbd, Result.remotes[n].imu>> :
             n \in 1..Len(Result.remotes)}
ImuPairs == {pr \in Paired : pr[2] # Unpaired}

\* The reference pairing: by MAC alone, no order, no fallback.
ByMac == {pr \in Keyboards(devs) \X Imus : MacMatch(devs[pr[2]], devs[pr[1]])}
OneToOne(R) == \A a, b \in R : a[1] = b[1] <=> a[2] = b[2]

\* Every scanned keyboard becomes one remote and an IMU serves one remote at
\* most: two remotes can never be driven by one IMU (daemon_devices.h, two
\* remotes never mix).
NoSharedImu ==
  Result.ok => /\ {pr[1] : pr \in Paired} = Keyboards(devs)
               /\ Len(Result.remotes) = Cardinality(Keyboards(devs))
               /\ OneToOne(ImuPairs)

\* When the MACs say which IMU belongs to which keyboard, one to one and
\* for every IMU, pairing_match accepts the set and finds exactly that
\* pairing, whatever the scan order.
MacPairingExact ==
  OneToOne(ByMac) /\ {pr[2] : pr \in ByMac} = Imus
    => Result.ok /\ ImuPairs = ByMac

\* "The daemon refuses to guess": a pair that rests on no MAC match leaves
\* no other keyboard the IMU could have belonged to unpaired.
NeverGuesses ==
  \A pr \in ImuPairs :
    \/ MacMatch(devs[pr[2]], devs[pr[1]])
    \/ \A other \in Keyboards(devs) \ {pr[1]} :
         \E q \in ImuPairs : q[1] = other
=============================================================================
