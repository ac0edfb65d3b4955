---------------------------- MODULE DeviceProofs ----------------------------
(***************************************************************************)
(* The device side of lgmagicd, for any devices, paths, pairings and order *)
(* of events: every open file has one owner, a grabbed keyboard has its    *)
(* outputs, no keyboard is read twice, and a rescan takes no working       *)
(* keyboard away.                                                          *)
(*                                                                         *)
(* The argument is about who holds which descriptor.  Hands collects every *)
(* remote the daemon knows of under a name, as Remotes does; stealing,     *)
(* finishing and failing only rename the holders and close what has none.  *)
(***************************************************************************)
EXTENDS Devices, PairingProofs

\* Who holds descriptors: the old array, the new array, the remote at work.
Names(m, n) == ({"old"} \X (1..m)) \union ({"new"} \X (1..n)) \union {<<"cur", 0>>}
HandsOf(r, f, c) ==
  [x \in Names(Len(r), Len(f)) |->
     IF x[1] = "old" THEN r[x[2]] ELSE IF x[1] = "new" THEN f[x[2]] ELSE c]
Hands == HandsOf(remotes, fresh, cur)

MaybeFd == Fds \union {NoFd}
MaybePath == Paths \union {NoPath}
Ids == Macs \union {Unknown, NoUniq}
Rem == [id : Ids, kpath : MaybePath, ipath : MaybePath,
        kfd : MaybeFd, ifd : MaybeFd, ku : MaybeFd, mu : MaybeFd]
Files == [type : {"closed", "uinput", "evdev", "dead"}, path : MaybePath,
          dev : Inputs \union {NoInput}]

\* The kinds of file a slot may hold.
KindsOf(s) == IF s \in {"ku", "mu"} THEN {"uinput"} ELSE {"evdev", "dead"}

\* Every descriptor held is open, of the slot's kind and held once, and every
\* open file is held.
OneOwner(H, F) ==
  /\ \A x \in DOMAIN H, s \in Slots :
       H[x][s] # NoFd => H[x][s] \in Fds /\ F[H[x][s]].type \in KindsOf(s)
  /\ \A x, y \in DOMAIN H, s, t \in Slots :
       H[x][s] # NoFd /\ H[x][s] = H[y][t] => x = y /\ s = t
  /\ \A f \in Fds : F[f] # NoFile => \E x \in DOMAIN H, s \in Slots : H[x][s] = f

\* Whoever holds a grab is some remote's keyboard.
GrabsHeld(H, G) ==
  \A p \in Paths : G[p] # NoFd => \E x \in DOMAIN H : H[x]["kfd"] = G[p]

\* A remote with a keyboard has its outputs, and the keyboard's file is one
\* on its path.
Complete(r) ==
  r.kfd # NoFd => /\ r.ku # NoFd /\ r.mu # NoFd
                  /\ file[r.kfd].path = r.kpath

Types ==
  /\ node \in [Paths -> Inputs \union {NoInput}]
  /\ file \in [Fds -> Files]
  /\ grab \in [Paths -> MaybeFd]
  /\ readable \subseteq Fds
  /\ due \in {"none", "debounced", "now"}
  /\ remotes \in Seq(Rem) /\ fresh \in Seq(Rem) /\ todo \in Seq(Rem) /\ cur \in Rem
  /\ ready \in SUBSET Nat /\ moves \in Nat /\ faults \in Nat

\* Where the main loop is, and what it holds there.
Phases ==
  /\ pc \in {"loop", "build", "keyboard", "failed", "imu", "dispatch"}
  /\ pc = "dispatch" <=> ready # {}
  /\ pc \in {"loop", "dispatch"} => todo = << >> /\ fresh = << >>
  /\ pc \notin {"keyboard", "imu"} => cur = Blank
  /\ pc \in {"keyboard", "imu"} =>
       /\ todo # << >> /\ cur.kpath = Head(todo).kpath
       /\ cur.ifd = NoFd /\ cur.ku # NoFd /\ cur.mu # NoFd
  /\ pc = "keyboard" => cur.kfd = NoFd
  /\ pc = "imu" => cur.kfd # NoFd

\* What a rescan wants to open has nothing open and names a keyboard node.
Fresh(w) == w.kpath \in Paths /\ \A s \in Slots : w[s] = NoFd
TodoFresh == \A n \in 1..Len(todo) : Fresh(todo[n])

\* The keyboard nodes: each once in the old array, and each once in the new
\* array and what is still to do together.
Once(q) == \A i, j \in 1..Len(q) : q[i].kpath = q[j].kpath /\ q[i].kpath # NoPath => i = j
Parted(q, t) ==
  /\ Once(q) /\ Once(t)
  /\ \A m \in 1..Len(q), n \in 1..Len(t) : q[m].kpath # t[n].kpath
  /\ \A n \in 1..Len(q) : q[n].kpath \in Paths
KeyboardsOnce ==
  /\ Once(remotes) /\ Parted(fresh, todo)
  /\ pc \in {"loop", "dispatch"} => \A n \in 1..Len(remotes) : remotes[n].kpath \in Paths

AllComplete ==
  /\ \A j \in 1..Len(remotes) : Complete(remotes[j])
  /\ \A n \in 1..Len(fresh) : Complete(fresh[n])
  /\ Complete(cur)

\* The kernel: a device has one node, and a live file is on its device.
Live(f) == f # NoFd /\ file[f].type = "evdev"
KernelOK ==
  /\ \A p, q \in Paths : node[p] = node[q] /\ node[p] # NoInput => p = q
  /\ \A f \in Fds : file[f].type = "evdev" =>
       /\ file[f].path \in Paths /\ node[file[f].path] = file[f].dev
       /\ file[f].dev # NoInput

\* In a rescan without faults a working keyboard of the old array is still to
\* be done, or its node is open and live in the new array.
StillTodo(r) ==
  \E n \in 1..Len(todo) : /\ todo[n].kpath = r.kpath
                          /\ n = 1 /\ pc = "imu" => Live(cur.kfd)
Reopened(r) == \E n \in 1..Len(fresh) : fresh[n].kpath = r.kpath /\ Live(fresh[n].kfd)
WorkGoesOn ==
  pc \in {"build", "keyboard", "failed", "imu"} /\ faults = 0 =>
    \A j \in 1..Len(remotes) :
      Live(remotes[j].kfd) /\ file[remotes[j].kfd].dev \in KeyboardInputs
        => StillTodo(remotes[j]) \/ Reopened(remotes[j])

IInv ==
  /\ Types /\ Phases /\ TodoFresh /\ KeyboardsOnce /\ AllComplete /\ KernelOK
  /\ OneOwner(Hands, file) /\ GrabsHeld(Hands, grab) /\ WorkGoesOn

\* The numbers a failed remote_open leaves behind name no file until the
\* caller has closed them again.
Stale ==
  /\ stale \subseteq Fds /\ overdue \in BOOLEAN
  /\ pc # "failed" => stale = {}
  /\ \A f \in stale : file[f] = NoFile
-----------------------------------------------------------------------------
(***************************************************************************)
(* Holders.                                                                *)
(***************************************************************************)

\* open() returns a descriptor that is free, and the scans take the first
\* entry there is.
LEMMA LowestIn ==
  ASSUME NEW S, S \subseteq Nat, S # {}
  PROVE  Lowest(S) \in S /\ \A g \in S : Lowest(S) <= g
BY Least DEF Lowest

\* The names, and what is behind each.
Behind(H, r, f, c) ==
  /\ \A j \in 1..Len(r) : <<"old", j>> \in DOMAIN H /\ H[<<"old", j>>] = r[j]
  /\ \A n \in 1..Len(f) : <<"new", n>> \in DOMAIN H /\ H[<<"new", n>>] = f[n]
  /\ <<"cur", 0>> \in DOMAIN H /\ H[<<"cur", 0>>] = c
  /\ \A x \in DOMAIN H : \/ \E j \in 1..Len(r) : x = <<"old", j>>
                         \/ \E n \in 1..Len(f) : x = <<"new", n>>
                         \/ x = <<"cur", 0>>

\* Every hand names a remote, by its place.
LEMMA HandsBehind ==
  ASSUME NEW r, NEW f, NEW c
  PROVE  Behind(HandsOf(r, f, c), r, f, c)
<1> DEFINE H == HandsOf(r, f, c)
<1>1. DOMAIN H = Names(Len(r), Len(f))
  BY DEF HandsOf
<1>2. \A j \in 1..Len(r) : <<"old", j>> \in Names(Len(r), Len(f))
  BY DEF Names
<1>3. \A n \in 1..Len(f) : <<"new", n>> \in Names(Len(r), Len(f))
  BY DEF Names
<1>4. <<"cur", 0>> \in Names(Len(r), Len(f))
  BY DEF Names
<1>5. \A x \in Names(Len(r), Len(f)) : \/ \E j \in 1..Len(r) : x = <<"old", j>>
                                       \/ \E n \in 1..Len(f) : x = <<"new", n>>
                                       \/ x = <<"cur", 0>>
  BY DEF Names
<1> QED
  BY <1>1, <1>2, <1>3, <1>4, <1>5 DEF HandsOf, Behind

\* Hands is what the properties call Remotes and RemoteAt.
LEMMA HandsAreRemotes ==
  DOMAIN Hands = Remotes /\ \A x \in Remotes : RemoteAt(x) = Hands[x]
<1>1. DOMAIN Hands = Remotes
  BY DEF Hands, HandsOf, Names, Remotes
<1>2. Behind(Hands, remotes, fresh, cur)
  BY HandsBehind DEF Hands
<1>3. ASSUME NEW x \in Remotes PROVE RemoteAt(x) = Hands[x]
  BY <1>1, <1>2 DEF Behind, RemoteAt
<1> QED
  BY <1>1, <1>3

Shut(F, C) == [f \in Fds |-> IF f \in C THEN NoFile ELSE F[f]]
Ungrab(G, C) == [p \in Paths |-> IF G[p] \in C THEN NoFd ELSE G[p]]
Idle(r) == \A s \in Slots : r[s] = NoFd

\* H2 holds what H holds and is not in C, under other names: phi says under
\* which it was held.
Renames(H, H2, phi, C) ==
  /\ phi \in [DOMAIN H2 -> DOMAIN H]
  /\ \A y \in DOMAIN H2, s \in Slots :
       H2[y][s] # NoFd => H2[y][s] = H[phi[y]][s] /\ H2[y][s] \notin C
  /\ \A y, z \in DOMAIN H2 : phi[y] = phi[z] => y = z \/ Idle(H2[y]) \/ Idle(H2[z])
  /\ \A x \in DOMAIN H, s \in Slots :
       \/ H[x][s] \in C \union {NoFd}
       \/ \E y \in DOMAIN H2 : phi[y] = x /\ H2[y][s] = H[x][s]

\* Renaming the holders and closing what is no longer held keeps ownership.
LEMMA Regroup ==
  ASSUME NEW H, NEW F, NEW G, OneOwner(H, F), GrabsHeld(H, G),
         NEW H2, NEW phi, NEW C, Renames(H, H2, phi, C)
  PROVE  OneOwner(H2, Shut(F, C)) /\ GrabsHeld(H2, Ungrab(G, C))
<1>0. "kfd" \in Slots /\ NoFd \notin Fds
  BY DevicesAssumption DEF Slots, NoFd
<1>1. ASSUME NEW y \in DOMAIN H2, NEW s \in Slots, H2[y][s] # NoFd
      PROVE  /\ H2[y][s] = H[phi[y]][s] /\ phi[y] \in DOMAIN H
             /\ H2[y][s] \in Fds /\ Shut(F, C)[H2[y][s]].type \in KindsOf(s)
  <2>1. phi[y] \in DOMAIN H /\ H2[y][s] = H[phi[y]][s] /\ H2[y][s] \notin C
    BY <1>1 DEF Renames
  <2>2. H2[y][s] \in Fds /\ F[H2[y][s]].type \in KindsOf(s)
    BY <1>1, <2>1 DEF OneOwner
  <2>3. Shut(F, C)[H2[y][s]] = F[H2[y][s]]
    BY <2>1, <2>2 DEF Shut
  <2> QED
    BY <2>1, <2>2, <2>3
<1>2. ASSUME NEW y \in DOMAIN H2, NEW z \in DOMAIN H2, NEW s \in Slots, NEW t \in Slots,
             H2[y][s] # NoFd, H2[y][s] = H2[z][t]
      PROVE  y = z /\ s = t
  <2>1. H[phi[y]][s] # NoFd /\ H[phi[y]][s] = H[phi[z]][t] /\ phi[y] \in DOMAIN H
        /\ phi[z] \in DOMAIN H
    BY <1>1, <1>2
  <2>2. phi[y] = phi[z] /\ s = t
    BY <2>1 DEF OneOwner
  <2> QED
    BY <1>2, <2>2 DEF Renames, Idle
<1>3. ASSUME NEW f \in Fds, Shut(F, C)[f] # NoFile
      PROVE  \E y \in DOMAIN H2, s \in Slots : H2[y][s] = f
  <2>1. F[f] # NoFile /\ f \notin C
    BY <1>3 DEF Shut
  <2>2. PICK x \in DOMAIN H, s \in Slots : H[x][s] = f
    BY <2>1 DEF OneOwner
  <2>3. \E y \in DOMAIN H2 : phi[y] = x /\ H2[y][s] = H[x][s]
    BY <1>0, <2>1, <2>2 DEF Renames
  <2> QED
    BY <2>2, <2>3
<1>4. ASSUME NEW p \in Paths, Ungrab(G, C)[p] # NoFd
      PROVE  \E y \in DOMAIN H2 : H2[y]["kfd"] = Ungrab(G, C)[p]
  <2>1. G[p] \notin C /\ G[p] # NoFd /\ Ungrab(G, C)[p] = G[p]
    BY <1>4 DEF Ungrab
  <2>2. PICK x \in DOMAIN H : H[x]["kfd"] = G[p]
    BY <2>1 DEF GrabsHeld
  <2>3. \E y \in DOMAIN H2 : phi[y] = x /\ H2[y]["kfd"] = H[x]["kfd"]
    BY <1>0, <2>1, <2>2 DEF Renames
  <2> QED
    BY <2>1, <2>2, <2>3
<1>5. OneOwner(H2, Shut(F, C))
  BY <1>1, <1>2, <1>3 DEF OneOwner
<1> QED
  BY <1>4, <1>5 DEF GrabsHeld

\* H2 holds one descriptor more than H, in slot s of x.
Adds(H, H2, x, s, f) ==
  /\ DOMAIN H2 = DOMAIN H /\ x \in DOMAIN H /\ s \in Slots /\ H[x][s] = NoFd
  /\ H2[x][s] = f
  /\ \A y \in DOMAIN H, t \in Slots : <<y, t>> # <<x, s>> => H2[y][t] = H[y][t]

\* A keyboard may be grabbed when it is opened, nothing else.
MayGrab(G, G2, s, f) == \A p \in Paths : G2[p] = G[p] \/ (G2[p] = f /\ s = "kfd")

\* Opening a free descriptor into an empty slot keeps ownership.
LEMMA OpenSlot ==
  ASSUME NEW H, NEW F \in [Fds -> Files], NEW G, OneOwner(H, F), GrabsHeld(H, G),
         NEW H2, NEW x, NEW s, NEW f \in Fds, F[f] = NoFile, Adds(H, H2, x, s, f),
         NEW new, new.type \in KindsOf(s),
         NEW G2, MayGrab(G, G2, s, f)
  PROVE  OneOwner(H2, [F EXCEPT ![f] = new]) /\ GrabsHeld(H2, G2)
<1> DEFINE F2 == [F EXCEPT ![f] = new]
<1>0. "kfd" \in Slots /\ f # NoFd
  BY DevicesAssumption DEF Slots, NoFd
<1>1. F2[f] = new /\ \A g \in Fds : g # f => F2[g] = F[g]
  OBVIOUS
<1> HIDE DEF F2
<1>2. \A y \in DOMAIN H, t \in Slots : H[y][t] # f
  <2>1. "closed" \notin KindsOf("kfd") /\ "closed" \notin KindsOf("ku")
    BY DEF KindsOf
  <2>2. \A t \in Slots : "closed" \notin KindsOf(t)
    BY DEF KindsOf
  <2>3. F[f].type = "closed"
    BY DEF NoFile
  <2> QED
    BY <1>0, <2>2, <2>3 DEF OneOwner
<1>3. ASSUME NEW y \in DOMAIN H2, NEW t \in Slots, H2[y][t] # NoFd
      PROVE  H2[y][t] \in Fds /\ F2[H2[y][t]].type \in KindsOf(t)
  <2>1. CASE y = x /\ t = s
    BY <1>1, <2>1 DEF Adds
  <2>2. CASE ~(y = x /\ t = s)
    <3>1. H2[y][t] = H[y][t] /\ y \in DOMAIN H
      BY <2>2 DEF Adds
    <3>2. H[y][t] \in Fds /\ H[y][t] # f /\ F[H[y][t]].type \in KindsOf(t)
      BY <1>2, <1>3, <3>1 DEF OneOwner
    <3> QED
      BY <1>1, <3>1, <3>2
  <2> QED
    BY <2>1, <2>2
<1>4. ASSUME NEW y \in DOMAIN H2, NEW z \in DOMAIN H2, NEW t \in Slots, NEW u \in Slots,
             H2[y][t] # NoFd, H2[y][t] = H2[z][u]
      PROVE  y = z /\ t = u
  <2>1. y \in DOMAIN H /\ z \in DOMAIN H
    BY DEF Adds
  <2>2. CASE <<y, t>> # <<x, s>> /\ <<z, u>> # <<x, s>>
    BY <1>4, <2>1, <2>2 DEF Adds, OneOwner
  <2>3. CASE <<y, t>> = <<x, s>> /\ <<z, u>> # <<x, s>>
    BY <1>2, <1>4, <2>1, <2>3 DEF Adds
  <2>4. CASE <<y, t>> # <<x, s>> /\ <<z, u>> = <<x, s>>
    BY <1>2, <1>4, <2>1, <2>4 DEF Adds
  <2> QED
    BY <2>2, <2>3, <2>4
<1>5. ASSUME NEW g \in Fds, F2[g] # NoFile
      PROVE  \E y \in DOMAIN H2, t \in Slots : H2[y][t] = g
  <2>1. CASE g = f
    BY <2>1 DEF Adds
  <2>2. CASE g # f
    <3>1. PICK y \in DOMAIN H, t \in Slots : H[y][t] = g
      BY <1>1, <1>5, <2>2 DEF OneOwner
    <3>2. <<y, t>> # <<x, s>>
      BY <3>1, DevicesAssumption DEF Adds, NoFd
    <3> QED
      BY <3>1, <3>2 DEF Adds
  <2> QED
    BY <2>1, <2>2
<1>6. OneOwner(H2, F2)
  BY <1>3, <1>4, <1>5 DEF OneOwner
<1>7. ASSUME NEW p \in Paths, G2[p] # NoFd PROVE \E y \in DOMAIN H2 : H2[y]["kfd"] = G2[p]
  <2>0. G2[p] = G[p] \/ (G2[p] = f /\ s = "kfd")
    BY DEF MayGrab
  <2>1. CASE G2[p] = f /\ s = "kfd"
    BY <2>1 DEF Adds
  <2>2. CASE G2[p] = G[p]
    <3>1. PICK y \in DOMAIN H : H[y]["kfd"] = G[p]
      BY <1>7, <2>2 DEF GrabsHeld
    <3>2. <<y, "kfd">> # <<x, s>>
      BY <1>7, <2>2, <3>1 DEF Adds
    <3> QED
      BY <1>0, <2>2, <3>1, <3>2 DEF Adds
  <2> QED
    BY <2>0, <2>1, <2>2
<1> QED
  BY <1>6, <1>7 DEF GrabsHeld, F2
-----------------------------------------------------------------------------
(***************************************************************************)
(* What a rescan wants.                                                    *)
(***************************************************************************)

\* scan_inputs after i entries of the directory: the nodes there, each once.
Scanned(q, i) ==
  /\ \A n \in 1..Len(q) :
       \E k \in 1..i : q[n] = Probe(ScanOrder[k]) /\ node[ScanOrder[k]] # NoInput
  /\ \A k \in 1..i : node[ScanOrder[k]] # NoInput =>
       \E n \in 1..Len(q) : q[n] = Probe(ScanOrder[k])
  /\ \A m, n \in 1..Len(q) : q[m].path = q[n].path => m = n

\* One node of the scan: listed if something is plugged in there.
LEMMA ScanRound ==
  ASSUME NEW i \in 1..Len(ScanOrder), NEW S, NEW q \in Seq(S),
         Probe(ScanOrder[i]) \in S, Scanned(q, i - 1)
  PROVE  Scanned(IF node[ScanOrder[i]] = NoInput THEN q
                 ELSE Append(q, Probe(ScanOrder[i])), i)
<1>0. /\ Len(q) \in Nat /\ Len(ScanOrder) \in Nat /\ i \in 1..i
      /\ \A k \in 1..(i - 1) : k \in 1..i /\ k # i
      /\ \A k \in 1..i : k = i \/ k \in 1..(i - 1)
      /\ \A k \in 1..i : k \in 1..Len(ScanOrder)
  BY DevicesAssumption
<1>1. CASE node[ScanOrder[i]] = NoInput
  BY <1>0, <1>1, ZenonT(40) DEF Scanned
<1>2. CASE node[ScanOrder[i]] # NoInput
  <2> DEFINE e == Probe(ScanOrder[i])
             r == Append(q, e)
  <2>1. e.path = ScanOrder[i] /\ \A k : Probe(ScanOrder[k]).path = ScanOrder[k]
    BY DEF Probe
  <2>2. e \in S
    OBVIOUS
  <2> HIDE DEF e
  <2>3. /\ Len(r) = Len(q) + 1 /\ r[Len(q) + 1] = e
        /\ \A n \in 1..Len(q) : r[n] = q[n]
    BY <2>2
  <2> HIDE DEF r
  <2>4. \A n \in 1..Len(r) : n \in 1..Len(q) \/ n = Len(q) + 1
    BY <1>0, <2>3
  <2>5. ASSUME NEW n \in 1..Len(r)
        PROVE  \E k \in 1..i : r[n] = Probe(ScanOrder[k]) /\ node[ScanOrder[k]] # NoInput
    <3>1. CASE n = Len(q) + 1
      BY <1>0, <1>2, <2>3, <3>1 DEF e
    <3>2. CASE n \in 1..Len(q)
      <4>1. PICK k \in 1..(i - 1) : q[n] = Probe(ScanOrder[k]) /\ node[ScanOrder[k]] # NoInput
        BY <3>2 DEF Scanned
      <4> QED
        BY <1>0, <2>3, <3>2, <4>1
    <3> QED
      BY <2>4, <3>1, <3>2
  <2>6. ASSUME NEW k \in 1..i, node[ScanOrder[k]] # NoInput
        PROVE  \E n \in 1..Len(r) : r[n] = Probe(ScanOrder[k])
    <3>1. CASE k = i
      BY <1>0, <2>3, <3>1 DEF e
    <3>2. CASE k \in 1..(i - 1)
      <4>1. PICK n \in 1..Len(q) : q[n] = Probe(ScanOrder[k])
        BY <2>6, <3>2 DEF Scanned
      <4> QED
        BY <1>0, <2>3, <4>1
    <3> QED
      BY <1>0, <3>1, <3>2
  <2>7. \A n \in 1..Len(q) : q[n].path # e.path
    <3> TAKE n \in 1..Len(q)
    <3>1. PICK k \in 1..(i - 1) : q[n] = Probe(ScanOrder[k])
      BY DEF Scanned
    <3>2. ScanOrder[k] # ScanOrder[i]
      BY <1>0, DevicesAssumption DEF IsInjective
    <3> QED
      BY <2>1, <3>1, <3>2
  <2>8. \A m, n \in 1..Len(r) : r[m].path = r[n].path => m = n
    BY <2>3, <2>4, <2>7 DEF Scanned
  <2>9. Scanned(r, i)
    BY <2>5, <2>6, <2>8 DEF Scanned
  <2> QED
    BY <1>2, <2>9 DEF r, e
<1> QED
  BY <1>1, <1>2

\* After the last node the scan lists what is plugged in, in scan order.
LEMMA ScanFacts == Len(Scan) \in Nat /\ Scanned(Scan, Len(ScanOrder))
<1> DEFINE L == Len(ScanOrder)
           E == {Probe(p) : p \in Paths}
           S == Seq(E)
           More(q, i) == IF node[ScanOrder[i]] = NoInput THEN q
                         ELSE Append(q, Probe(ScanOrder[i]))
           Step == [i \in 1..L |-> [q \in S |-> More(q, i)]]
           Is(f) == f = [i \in 0..L |-> IF i = 0 THEN << >>
                           ELSE IF node[ScanOrder[i]] = NoInput THEN f[i - 1]
                           ELSE Append(f[i - 1], Probe(ScanOrder[i]))]
           seen == CHOOSE f : Is(f)
<1>0. L \in Nat /\ \A i \in 1..L : Probe(ScanOrder[i]) \in E
  BY DevicesAssumption
<1>1. << >> \in S
  OBVIOUS
<1>2. \A i \in 1..L, q \in S : More(q, i) \in S
  <2> HIDE DEF E
  <2> QED
    BY <1>0
<1>3. /\ Step \in [1..L -> [S -> S]]
      /\ \A i \in 1..L, q \in S : Step[i][q] = More(q, i)
  <2> HIDE DEF More, S
  <2> QED
    BY <1>2
<1>8. Scan = seen[L]
  BY DEF Scan
<1> HIDE DEF S, Step, L
<1>4. PICK f : Loop(f, L, S, << >>, Step)
  BY <1>0, <1>1, <1>3, Recursion
<1>5. \A i \in 0..L : i # 0 => i \in 1..L /\ i - 1 \in 0..L
  BY <1>0
<1> DEFINE Is2(g) == g = [i \in 0..L |-> IF i = 0 THEN << >> ELSE More(g[i - 1], i)]
<1>6. Is2(f)
  <2> HIDE DEF More
  <2>1. \A i \in 1..L : f[i] = More(f[i - 1], i)
    BY <1>0, <1>3, <1>4, <1>5 DEF Loop
  <2> QED
    BY <1>4, <1>5, <2>1 DEF Loop
<1>7. Is2(seen)
  <2>1. Is(f)
    BY <1>6
  <2>2. Is(seen)
    <3> HIDE DEF Is
    <3> QED
      BY <2>1
  <2> HIDE DEF seen
  <2> QED
    BY <2>2
<1> HIDE DEF seen
<1>9. seen[0] = << >> /\ \A i \in 1..L : seen[i] = More(seen[i - 1], i)
  <2> HIDE DEF More
  <2> QED
    BY <1>0, <1>5, <1>7
<1> DEFINE T == {i \in 0..L : seen[i] \in S /\ Scanned(seen[i], i)}
<1>10. 0 \in T
  <2>1. Len(<< >>) = 0 /\ \A n : n \notin 1..0
    OBVIOUS
  <2>2. Scanned(<< >>, 0)
    BY <2>1, Zenon DEF Scanned
  <2> QED
    BY <1>0, <1>1, <1>9, <2>2
<1>11. ASSUME NEW i \in 1..L, i - 1 \in T PROVE i \in T
  <2>1. seen[i - 1] \in S /\ Scanned(seen[i - 1], i - 1) /\ seen[i] = More(seen[i - 1], i)
    BY <1>9, <1>11
  <2>2. seen[i] \in S
    BY <1>2, <2>1
  <2>3. Probe(ScanOrder[i]) \in E
    BY <1>0
  <2> HIDE DEF E
  <2>4. Scanned(More(seen[i - 1], i), i)
    BY <2>1, <2>3, ScanRound DEF S, L
  <2> QED
    BY <1>0, <2>1, <2>2, <2>4
<1> HIDE DEF T
<1>12. \A i \in 0..L : i \in T
  BY <1>0, <1>10, <1>11, LoopInduction
<1>13. L \in 0..L
  BY <1>0
<1>14. seen[L] \in S /\ Scanned(seen[L], L)
  BY <1>12, <1>13 DEF T
<1>15. Len(seen[L]) \in Nat
  BY <1>14 DEF S
<1> QED
  BY <1>8, <1>14, <1>15 DEF L

\* What a rescan is to open: every keyboard node there is, each once, nothing
\* open yet.
Wants(w) ==
  /\ w \in Seq(Rem) /\ Once(w)
  /\ \A n \in 1..Len(w) : Fresh(w[n])
  /\ \A p \in Paths : node[p] # NoInput /\ KindOf[node[p]] = "kbd" =>
       \E n \in 1..Len(w) : w[n].kpath = p

\* What an accepted scan wants: one fresh remote for each keyboard.
LEMMA WantedFacts ==
  ASSUME pairing_match(Scan).ok
  PROVE  Wants(Wanted(Scan, pairing_match(Scan).remotes))
<1> DEFINE d == Scan
           of == PairAll(d).of
           q == pairing_match(d).remotes
           w == Wanted(d, q)
<1>1. Len(d) \in Nat /\ Scanned(d, Len(ScanOrder)) /\ Len(ScanOrder) \in Nat
  BY ScanFacts, DevicesAssumption
<1>2. of \in [Keyboards(d) -> 0..Len(d)]
  <2>1. PairAll(d) \in States(d)
    BY <1>1, AfterFacts
  <2> QED
    BY <2>1 DEF States
<1>3. Emitted(d, of, q, Len(d)) /\ Len(q) \in Nat
  <2>1. q = Emit(d, of)
    BY DEF pairing_match
  <2>2. Emitted(d, of, Emit(d, of), Len(d))
    BY <1>1, EmitFacts
  <2>3. Len(q) = Cardinality({k \in Keyboards(d) : k <= Len(d)})
    BY <2>1, <2>2 DEF Emitted
  <2>4. IsFiniteSet({k \in Keyboards(d) : k <= Len(d)})
    BY <1>1, KeyboardsFinite, FS_Subset
  <2> QED
    BY <2>1, <2>2, <2>3, <2>4, FS_CardinalityType
<1>4. \A n \in 1..Len(d) : d[n].path \in Paths
  <2> TAKE n \in 1..Len(d)
  <2>1. PICK k \in 1..Len(ScanOrder) : d[n] = Probe(ScanOrder[k])
    BY <1>1 DEF Scanned
  <2>2. ScanOrder[k] \in Paths
    BY DevicesAssumption
  <2> QED
    BY <2>1, <2>2 DEF Probe
<1>5. Keyboards(d) \subseteq 1..Len(d)
  BY DEF Keyboards
<1> HIDE DEF d, of, q
<1>6. \A n \in 1..Len(q) : q[n].kbd \in Keyboards(d) /\ q[n].imu \in 0..Len(d)
  <2> TAKE n \in 1..Len(q)
  <2>1. q[n].kbd \in Keyboards(d) /\ q[n] = Remote(d, of, q[n].kbd)
    BY <1>3 DEF Emitted
  <2>2. q[n].imu = of[q[n].kbd]
    BY <2>1 DEF Remote
  <2> QED
    BY <1>2, <2>1, <2>2
<1>7. /\ Len(w) = Len(q) /\ DOMAIN w = 1..Len(q)
      /\ \A n \in 1..Len(q) : w[n] \in Rem /\ w[n].kpath = d[q[n].kbd].path /\ Fresh(w[n])
  <2>1. DOMAIN w = 1..Len(q) /\ Len(w) = Len(q)
    BY <1>3 DEF Wanted
  <2>2. ASSUME NEW n \in 1..Len(q)
        PROVE  w[n] \in Rem /\ w[n].kpath = d[q[n].kbd].path /\ Fresh(w[n])
    <3> DEFINE kp == d[q[n].kbd].path
               ip == IF q[n].imu = Unpaired THEN NoPath ELSE d[q[n].imu].path
               id == Identity(q[n].uniq)
    <3>1. kp \in Paths /\ ip \in MaybePath /\ id \in Ids
      BY <1>4, <1>5, <1>6 DEF MaybePath, Identity, Ids, Unpaired
    <3>2. w[n] = [Blank EXCEPT !.id = id, !.kpath = kp, !.ipath = ip]
      BY DEF Wanted
    <3> HIDE DEF kp, ip, id, w
    <3>3. w[n] \in Rem /\ w[n].kpath = kp /\ Fresh(w[n])
      BY <3>1, <3>2, ZenonT(40) DEF Blank, Rem, MaybePath, MaybeFd, Fresh, Slots
    <3> QED
      BY <3>3 DEF kp
  <2> QED
    BY <2>1, <2>2
<1>8. w \in Seq(Rem)
  <2>1. w \in [1..Len(q) -> Rem]
    <3>1. w = [n \in 1..Len(q) |-> w[n]]
      BY DEF Wanted
    <3> HIDE DEF w
    <3> QED
      BY <1>7, <3>1
  <2> HIDE DEF w
  <2> QED
    BY <1>3, <2>1
<1> HIDE DEF w
<1>9. \A m, n \in 1..Len(q) : q[m].kbd = q[n].kbd => m = n
  <2> SUFFICES ASSUME NEW m \in 1..Len(q), NEW n \in 1..Len(q), q[m].kbd = q[n].kbd, m # n
               PROVE  FALSE
    OBVIOUS
  <2>1. q[m].kbd \in 1..Len(d) /\ (m < n \/ n < m)
    BY <1>3, <1>5, <1>6
  <2>2. q[m].kbd < q[n].kbd \/ q[n].kbd < q[m].kbd
    BY <1>3, <2>1 DEF Emitted
  <2> QED
    BY <1>1, <2>1, <2>2
<1>10. Once(w)
  <2>0. \A m, n \in 1..Len(d) : d[m].path = d[n].path => m = n
    BY <1>1 DEF Scanned
  <2>1. \A m, n \in 1..Len(q) : w[m].kpath = w[n].kpath => q[m].kbd = q[n].kbd
    <3> TAKE m, n \in 1..Len(q)
    <3> HAVE w[m].kpath = w[n].kpath
    <3>1. q[m].kbd \in 1..Len(d) /\ q[n].kbd \in 1..Len(d)
      BY <1>5, <1>6
    <3>2. d[q[m].kbd].path = d[q[n].kbd].path
      BY <1>7
    <3> QED
      BY <2>0, <3>1, <3>2
  <2> QED
    BY <1>7, <1>9, <2>1 DEF Once
<1>11. ASSUME NEW p \in Paths, node[p] # NoInput, KindOf[node[p]] = "kbd"
       PROVE  \E n \in 1..Len(w) : w[n].kpath = p
  <2>1. PICK k \in 1..Len(ScanOrder) : ScanOrder[k] = p
    BY DevicesAssumption DEF Range
  <2>2. PICK m \in 1..Len(d) : d[m] = Probe(p)
    BY <1>1, <1>11, <2>1 DEF Scanned
  <2>3. m \in Keyboards(d) /\ d[m].path = p
    BY <1>11, <2>2 DEF Keyboards, IsKeyboard, Probe
  <2>4. PICK n \in 1..Len(q) : q[n].kbd = m
    BY <1>1, <1>3, <2>3 DEF Emitted
  <2> QED
    BY <1>7, <2>3, <2>4
<1>12. Wants(w)
  BY <1>7, <1>8, <1>10, <1>11 DEF Wants
<1> QED
  BY <1>12 DEF w, q, d

\* The poll entries are open keyboards and IMUs of the array.
Polled == {e \in (1..Len(remotes)) \X {"kfd", "ifd"} : remotes[e[1]][e[2]] # NoFd}

\* The poll set is a sequence of descriptors with their owners.
LEMMA LayoutFacts ==
  ASSUME Len(remotes) \in Nat
  PROVE  Layout \in Seq(Polled)
<1> DEFINE L == Len(remotes)
           S == Seq(Polled)
           More(q, j) == q \o Entry(j, "kfd") \o Entry(j, "ifd")
           Step == [j \in 1..L |-> [q \in S |-> More(q, j)]]
           Is(f) == f = [j \in 0..L |-> IF j = 0 THEN << >> ELSE More(f[j - 1], j)]
           upto == CHOOSE f : Is(f)
<1>1. << >> \in S
  OBVIOUS
<1>2. \A j \in 1..L, s \in {"kfd", "ifd"} : Entry(j, s) \in S
  <2> TAKE j \in 1..L, s \in {"kfd", "ifd"}
  <2>1. CASE remotes[j][s] = NoFd
    BY <1>1, <2>1 DEF Entry
  <2>2. CASE remotes[j][s] # NoFd
    <3> DEFINE e == <<j, s>>
    <3>1. e \in Polled
      BY <2>2 DEF Polled
    <3>2. Entry(j, s) = <<e>>
      BY <2>2 DEF Entry
    <3> HIDE DEF e
    <3> QED
      BY <3>1, <3>2
  <2> QED
    BY <2>1, <2>2
<1>3. \A j \in 1..L, q \in S : More(q, j) \in S
  <2>1. \A q, r \in S : q \o r \in S
    OBVIOUS
  <2>2. "kfd" \in {"kfd", "ifd"} /\ "ifd" \in {"kfd", "ifd"}
    OBVIOUS
  <2> HIDE DEF S
  <2> QED
    BY <1>2, <2>1, <2>2
<1>4. /\ Step \in [1..L -> [S -> S]]
      /\ \A j \in 1..L, q \in S : Step[j][q] = More(q, j)
  <2> HIDE DEF More, S
  <2> QED
    BY <1>3
<1> HIDE DEF S, Step
<1>5. PICK f : Loop(f, L, S, << >>, Step)
  BY <1>1, <1>4, Recursion
<1>6. \A j \in 0..L : j # 0 => j \in 1..L /\ j - 1 \in 0..L
  OBVIOUS
<1>7. Is(f)
  <2> HIDE DEF More
  <2>1. \A j \in 1..L : f[j] = More(f[j - 1], j)
    BY <1>4, <1>5, <1>6 DEF Loop
  <2> QED
    BY <1>5, <1>6, <2>1 DEF Loop
<1>8. Is(upto)
  <2> HIDE DEF Is
  <2> QED
    BY <1>7
<1>9. Layout = upto[L]
  BY DEF Layout
<1> HIDE DEF upto
<1> DEFINE T == {j \in 0..L : upto[j] \in S}
<1>10. upto[0] = << >> /\ \A j \in 1..L : upto[j] = More(upto[j - 1], j)
  <2> HIDE DEF More
  <2> QED
    BY <1>6, <1>8
<1>11. 0 \in T /\ \A j \in 1..L : j - 1 \in T => j \in T
  <2> HIDE DEF More
  <2> QED
    BY <1>1, <1>3, <1>10
<1> HIDE DEF T
<1>12. \A j \in 0..L : j \in T
  BY <1>11, LoopInduction
<1>13. upto[L] \in S
  BY <1>12 DEF T
<1> QED
  BY <1>9, <1>13 DEF S
-----------------------------------------------------------------------------
(***************************************************************************)
(* The invariant: the kernel's steps.                                      *)
(***************************************************************************)

\* A remote's descriptors are descriptors.
LEMMA SlotTypes ==
  ASSUME NEW r \in Rem, NEW s \in Slots
  PROVE  r[s] \in MaybeFd
BY DEF Rem, Slots

\* What the daemon has, it has in hand.
LEMMA InHand ==
  /\ \A j \in 1..Len(remotes) : <<"old", j>> \in DOMAIN Hands /\ Hands[<<"old", j>>] = remotes[j]
  /\ \A n \in 1..Len(fresh) : <<"new", n>> \in DOMAIN Hands /\ Hands[<<"new", n>>] = fresh[n]
  /\ <<"cur", 0>> \in DOMAIN Hands /\ Hands[<<"cur", 0>>] = cur
BY HandsBehind DEF Hands, Behind

\* The keyboard file of a remote is a descriptor with an evdev file.
FileOf(r, F) == r.kfd # NoFd => r.kfd \in Fds /\ F[r.kfd].type \in {"evdev", "dead"}

\* Whoever holds a descriptor holds an open file.
LEMMA HeldOpen ==
  ASSUME NEW r, NEW q, NEW c, NEW F, OneOwner(HandsOf(r, q, c), F)
  PROVE  /\ \A j \in 1..Len(r) : FileOf(r[j], F)
         /\ \A n \in 1..Len(q) : FileOf(q[n], F)
         /\ FileOf(c, F)
<1> DEFINE H == HandsOf(r, q, c)
<1>1. ASSUME NEW x \in DOMAIN H PROVE FileOf(H[x], F)
  BY DEF OneOwner, Slots, KindsOf, FileOf
<1>2. Behind(H, r, q, c)
  BY HandsBehind
<1> HIDE DEF H
<1> QED
  BY <1>1, <1>2 DEF Behind

HasFile(r) == r.kfd # NoFd => r.kfd \in Fds /\ file[r.kfd].type \in {"evdev", "dead"}

\* The same for the arrays of the daemon.
LEMMA KeyboardFile ==
  ASSUME OneOwner(Hands, file)
  PROVE  /\ \A j \in 1..Len(remotes) : HasFile(remotes[j])
         /\ \A n \in 1..Len(fresh) : HasFile(fresh[n])
         /\ HasFile(cur)
BY HeldOpen DEF Hands, HasFile, FileOf

\* A device that appears opens nothing.
LEMMA PlugKeeps ==
  ASSUME IInv, NEW d \in Inputs, NEW p \in Paths, Plug(d, p)
  PROVE  IInv'
<1> USE DEF IInv
<1>1. /\ node' = [node EXCEPT ![p] = d] /\ node[p] = NoInput
      /\ \A q \in Paths : node[q] # d
      /\ UNCHANGED <<file, grab, readable, faults>> /\ UNCHANGED daemon
      /\ moves' = moves + 1
  BY DEF Plug
<1>2. Types' /\ Phases' /\ TodoFresh' /\ KeyboardsOnce'
  BY <1>1 DEF Types, Phases, TodoFresh, KeyboardsOnce, Parted, Fresh, Once, daemon
<1>3. KernelOK'
  <2>1. d # NoInput
    BY DevicesAssumption
  <2> QED
    BY <1>1, <2>1 DEF KernelOK, Types
<1>4. Hands' = Hands
  BY <1>1 DEF Hands, daemon
<1>5. OneOwner(Hands, file)' /\ GrabsHeld(Hands, grab)'
  BY <1>1, <1>4
<1>6. AllComplete' /\ WorkGoesOn'
  BY <1>1 DEF AllComplete, Complete, WorkGoesOn, StillTodo, Reopened, Live, daemon
<1> QED
  BY <1>2, <1>3, <1>5, <1>6

\* A frame makes the file that is read readable, no more.
LEMMA FrameKeeps ==
  ASSUME IInv, Frame
  PROVE  IInv'
<1> USE DEF IInv
<1>1. /\ UNCHANGED <<node, file, grab, moves, faults>> /\ UNCHANGED daemon
      /\ readable' \subseteq Fds
  <2> DEFINE i == Lowest(ready)
             f == FdAt(i)
  <2>1. /\ UNCHANGED <<node, file, grab, moves, faults>> /\ UNCHANGED daemon
        /\ readable' = readable \union {f} /\ i \in 1..Len(Layout)
    BY DEF Frame
  <2>2. Layout[i] \in Polled
    <3>1. Len(remotes) \in Nat
      BY DEF Types
    <3> QED
      BY <2>1, <3>1, LayoutFacts
  <2> HIDE DEF i
  <2>3. Layout[i][1] \in 1..Len(remotes) /\ Layout[i][2] \in {"kfd", "ifd"} /\ f # NoFd
    BY <2>2 DEF Polled, FdAt
  <2>4. remotes[Layout[i][1]] \in Rem
    BY <2>3 DEF Types
  <2>5. f \in Fds
    BY <2>3, <2>4 DEF FdAt, Rem, MaybeFd
  <2> QED
    BY <2>1, <2>5 DEF Types
<1>2. Types' /\ Phases' /\ TodoFresh' /\ KeyboardsOnce' /\ KernelOK'
  BY <1>1 DEF Types, Phases, TodoFresh, KeyboardsOnce, Parted, Fresh, Once, KernelOK, daemon
<1>3. Hands' = Hands
  BY <1>1 DEF Hands, daemon
<1>4. OneOwner(Hands, file)' /\ GrabsHeld(Hands, grab)'
  BY <1>1, <1>3
<1>5. AllComplete' /\ WorkGoesOn'
  BY <1>1 DEF AllComplete, Complete, WorkGoesOn, StillTodo, Reopened, Live, daemon
<1> QED
  BY <1>2, <1>4, <1>5

\* A device that leaves takes its grab; the files stay, dead, with their owner.
LEMMA UnplugKeeps ==
  ASSUME IInv, NEW p \in Paths, Unplug(p)
  PROVE  IInv'
<1> USE DEF IInv
<1>1. /\ node' = [node EXCEPT ![p] = NoInput]
      /\ grab' = [grab EXCEPT ![p] = NoFd] /\ readable' \subseteq Fds
      /\ moves' \in Nat /\ UNCHANGED faults /\ UNCHANGED daemon
  BY DEF Unplug, Types
<1>2. ASSUME NEW f \in Fds
      PROVE  /\ file'[f] \in Files
             /\ file'[f].path = file[f].path /\ file'[f].dev = file[f].dev
             /\ file'[f].type = IF file[f].type = "evdev" /\ file[f].path = p
                                THEN "dead" ELSE file[f].type
             /\ file'[f] # NoFile => file[f] # NoFile
  <2>1. file'[f] = IF file[f].type = "evdev" /\ file[f].path = p
                   THEN [file[f] EXCEPT !.type = "dead"] ELSE file[f]
    BY DEF Unplug
  <2>2. file[f] \in Files
    BY DEF Types
  <2> QED
    BY <2>1, <2>2 DEF Files, NoFile
<1>3. Types'
  <2>1. file' \in [Fds -> Files]
    <3>1. file' = [f \in Fds |-> file'[f]]
      BY DEF Unplug
    <3> QED
      BY <1>2, <3>1
  <2>2. node' \in [Paths -> Inputs \union {NoInput}] /\ grab' \in [Paths -> MaybeFd]
    BY <1>1 DEF Types, MaybeFd
  <2> QED
    BY <1>1, <2>1, <2>2 DEF Types, daemon
<1>4. Phases' /\ TodoFresh' /\ KeyboardsOnce'
  BY <1>1 DEF Phases, TodoFresh, KeyboardsOnce, Parted, Fresh, Once, daemon
<1>5. KernelOK'
  BY <1>1, <1>2 DEF KernelOK, Types
<1>6. Hands' = Hands
  BY <1>1 DEF Hands, daemon
<1>7. OneOwner(Hands, file')
  <2>1. \A x \in DOMAIN Hands, s \in Slots : Hands[x][s] # NoFd =>
          Hands[x][s] \in Fds /\ file'[Hands[x][s]].type \in KindsOf(s)
    BY <1>2 DEF OneOwner, KindsOf
  <2> QED
    BY <1>2, <2>1 DEF OneOwner
<1>8. GrabsHeld(Hands, grab')
  BY <1>1 DEF GrabsHeld, Types
<1>9. AllComplete'
  <2>1. ASSUME NEW r, HasFile(r), Complete(r)
        PROVE  r.kfd # NoFd => r.ku # NoFd /\ r.mu # NoFd /\ file'[r.kfd].path = r.kpath
    BY <1>2, <2>1 DEF HasFile, Complete
  <2>2. UNCHANGED <<remotes, fresh, cur>>
    BY <1>1 DEF daemon
  <2> QED
    BY <2>1, <2>2, KeyboardFile DEF AllComplete, Complete
<1>10. WorkGoesOn'
  <2> SUFFICES ASSUME pc \in {"build", "keyboard", "failed", "imu"}, faults = 0,
                      NEW j \in 1..Len(remotes),
                      Live(remotes[j].kfd)', file'[remotes[j].kfd].dev \in KeyboardInputs
               PROVE  StillTodo(remotes[j])' \/ Reopened(remotes[j])'
    BY <1>1 DEF WorkGoesOn, daemon, KeyboardInputs
  <2>1. ASSUME NEW r, HasFile(r), Complete(r), r.kfd # NoFd
        PROVE  file'[r.kfd].type = "evdev" <=> file[r.kfd].type = "evdev" /\ r.kpath # p
    BY <1>2, <2>1 DEF HasFile, Complete
  <2>2. UNCHANGED <<pc, remotes, fresh, cur, todo>>
    BY <1>1 DEF daemon
  <2>3. Live(remotes[j].kfd) /\ remotes[j].kpath # p
        /\ file[remotes[j].kfd].dev \in KeyboardInputs
    <3>1. HasFile(remotes[j]) /\ Complete(remotes[j])
      BY KeyboardFile DEF AllComplete
    <3>2. remotes[j].kfd # NoFd /\ file'[remotes[j].kfd].type = "evdev"
      BY <2>2 DEF Live
    <3> QED
      BY <1>2, <2>1, <3>1, <3>2 DEF Live, HasFile
  <2>4. CASE StillTodo(remotes[j])
    <3>1. PICK n \in 1..Len(todo) : /\ todo[n].kpath = remotes[j].kpath
                                    /\ n = 1 /\ pc = "imu" => Live(cur.kfd)
      BY <2>4 DEF StillTodo
    <3>2. n = 1 /\ pc = "imu" => cur.kpath = remotes[j].kpath
      BY <3>1 DEF Phases, Types
    <3>3. n = 1 /\ pc = "imu" => Live(cur.kfd)'
      BY <2>1, <2>2, <2>3, <3>1, <3>2, KeyboardFile DEF Live, AllComplete
    <3> QED
      BY <2>2, <3>1, <3>3 DEF StillTodo
  <2>5. CASE Reopened(remotes[j])
    <3>1. PICK n \in 1..Len(fresh) : fresh[n].kpath = remotes[j].kpath /\ Live(fresh[n].kfd)
      BY <2>5 DEF Reopened
    <3>2. Live(fresh[n].kfd)'
      BY <2>1, <2>2, <2>3, <3>1, KeyboardFile DEF Live, AllComplete
    <3> QED
      BY <2>2, <3>1, <3>2 DEF Reopened
  <2> QED
    BY <2>3, <2>4, <2>5 DEF WorkGoesOn
<1> QED
  BY <1>3, <1>4, <1>5, <1>6, <1>7, <1>8, <1>9, <1>10
-----------------------------------------------------------------------------
(***************************************************************************)
(* The invariant: the daemon's steps that open and close nothing.          *)
(***************************************************************************)

\* The rescan starts with nothing opened and everything wanted to be opened.
LEMMA StartRescanKeeps ==
  ASSUME IInv, StartRescan
  PROVE  IInv'
<1> USE DEF IInv
<1>1. /\ pc = "loop" /\ due' = "none"
      /\ UNCHANGED <<node, file, grab, readable, remotes, fresh, cur, ready, moves, faults>>
  BY DEF StartRescan, kernel
<1>2. fresh = << >> /\ todo = << >> /\ cur = Blank /\ ready = {}
  BY <1>1 DEF Phases
<1>3. Hands' = Hands
  BY <1>1 DEF Hands
<1>4. OneOwner(Hands, file)' /\ GrabsHeld(Hands, grab)' /\ KernelOK'
  BY <1>1, <1>3 DEF KernelOK
<1>5. AllComplete'
  BY <1>1 DEF AllComplete, Complete
<1>6. CASE ~pairing_match(Scan).ok
  <2>1. UNCHANGED <<todo, pc>>
    BY <1>6 DEF StartRescan
  <2>2. Types' /\ Phases' /\ TodoFresh' /\ KeyboardsOnce'
    BY <1>1, <2>1 DEF Types, Phases, TodoFresh, KeyboardsOnce, Parted, Fresh, Once
  <2>3. WorkGoesOn'
    BY <1>1, <2>1 DEF WorkGoesOn
  <2> QED
    BY <1>4, <1>5, <2>2, <2>3
<1>7. CASE pairing_match(Scan).ok
  <2>1. todo' = Wanted(Scan, pairing_match(Scan).remotes) /\ pc' = "build"
    BY <1>7 DEF StartRescan
  <2>2. Wants(todo')
    BY <1>7, <2>1, WantedFacts
  <2>3. Types'
    BY <1>1, <2>2 DEF Types, Wants
  <2>4. Phases' /\ TodoFresh'
    BY <1>1, <1>2, <2>1, <2>2 DEF Phases, TodoFresh, Wants, Fresh
  <2>5. KeyboardsOnce'
    <3>1. Len(fresh) = 0 /\ \A n : n \notin 1..0
      BY <1>2
    <3>2. \A n : n \notin 1..Len(fresh)
      BY <3>1, Zenon
    <3>3. Once(fresh') /\ Once(remotes') /\ Once(todo')
      BY <1>1, <2>2 DEF KeyboardsOnce, Parted, Wants
    <3> QED
      BY <1>1, <2>1, <3>2, <3>3 DEF KeyboardsOnce, Parted, Once
  <2>6. WorkGoesOn'
    <3> SUFFICES ASSUME NEW j \in 1..Len(remotes), Live(remotes[j].kfd),
                        file[remotes[j].kfd].dev \in KeyboardInputs
                 PROVE  \E n \in 1..Len(todo') : todo'[n].kpath = remotes[j].kpath
      BY <1>1, <2>1 DEF WorkGoesOn, StillTodo, Live, KeyboardInputs
    <3>1. HasFile(remotes[j]) /\ Complete(remotes[j])
      BY KeyboardFile DEF AllComplete
    <3>2. /\ remotes[j].kpath \in Paths
          /\ node[remotes[j].kpath] = file[remotes[j].kfd].dev
          /\ node[remotes[j].kpath] # NoInput
      BY <3>1 DEF HasFile, Complete, Live, KernelOK
    <3> QED
      BY <2>2, <3>2 DEF Wants, KeyboardInputs
  <2> QED
    BY <1>4, <1>5, <2>3, <2>4, <2>5, <2>6
<1> QED
  BY <1>6, <1>7

\* Poll, and the dispatch of an entry that closes nothing.
Looks ==
  /\ UNCHANGED <<node, file, grab, remotes, fresh, todo, cur, moves, faults>>
  /\ readable' \subseteq Fds /\ due' \in {"none", "debounced", "now"}
  /\ pc \in {"loop", "dispatch"} /\ pc' \in {"loop", "dispatch"}
  /\ ready' \in SUBSET Nat /\ (pc' = "dispatch" <=> ready' # {})

\* A pass of the loop that only looks at what poll returned.
LEMMA LooksKeeps ==
  ASSUME IInv, Looks
  PROVE  IInv'
<1> USE DEF IInv, Looks
<1>1. Types' /\ TodoFresh' /\ KernelOK'
  BY DEF Types, TodoFresh, Fresh, KernelOK
<1>2. Phases'
  BY DEF Phases
<1>3. KeyboardsOnce'
  BY DEF KeyboardsOnce, Parted, Once
<1>4. Hands' = Hands
  BY DEF Hands
<1>5. OneOwner(Hands, file)' /\ GrabsHeld(Hands, grab)'
  BY <1>4
<1>6. AllComplete'
  BY DEF AllComplete, Complete
<1>7. WorkGoesOn'
  BY DEF WorkGoesOn
<1> QED
  BY <1>1, <1>2, <1>3, <1>5, <1>6, <1>7

\* poll() changes no owner.
LEMMA PollKeeps ==
  ASSUME IInv, Poll
  PROVE  IInv'
<1>1. Len(Layout) \in Nat
  <2>1. Len(remotes) \in Nat
    BY DEF IInv, Types
  <2> QED
    BY <2>1, LayoutFacts
<1>2. 1..Len(Layout) \subseteq Nat
  BY <1>1
<1>3. Reported \subseteq Nat
  BY <1>2 DEF Reported
<1>4. PICK events \in SUBSET {0} : ready' = Reported \union events
  BY DEF Poll
<1>5. ready' \in SUBSET Nat
  BY <1>3, <1>4
<1>6. Looks
  BY <1>5 DEF Poll, Looks, IInv, Types
<1> QED
  BY <1>6, LooksKeeps

\* The entry handled is one that poll() reported.
LEMMA HandledFacts ==
  ASSUME IInv, NEW i, Handled(i)
  PROVE  /\ i \in ready /\ pc = "dispatch" /\ pc' \in {"loop", "dispatch"}
         /\ ready' \in SUBSET Nat /\ (pc' = "dispatch" <=> ready' # {})
         /\ UNCHANGED <<fresh, todo, cur, moves, faults>>
<1>1. ready \subseteq Nat /\ ready # {} /\ pc = "dispatch" /\ i = Lowest(ready)
  BY DEF IInv, Types, Phases, Handled
<1>2. i \in ready
  BY <1>1, LowestIn
<1>3. ready' = ready \ {i} /\ pc' = IF ready = {i} THEN "loop" ELSE "dispatch"
  BY DEF Handled
<1>4. ready = {i} <=> ready' = {}
  BY <1>2, <1>3
<1> QED
  BY <1>1, <1>2, <1>3, <1>4 DEF Handled

\* Reading inotify events asks for a rescan, no more.
LEMMA DrainInotifyKeeps ==
  ASSUME IInv, DrainInotify
  PROVE  IInv'
<1>1. Looks
  BY HandledFacts DEF DrainInotify, Looks, IInv, Types
<1> QED
  BY <1>1, LooksKeeps

\* Reading a frame changes no owner.
LEMMA HandleFrameKeeps ==
  ASSUME IInv, NEW i, HandleFrame(i)
  PROVE  IInv'
<1>1. Handled(i) /\ UNCHANGED <<node, file, grab, remotes, due>>
      /\ readable' \subseteq readable
  BY DEF HandleFrame
<1>2. Looks
  BY <1>1, HandledFacts DEF Looks, IInv, Types
<1> QED
  BY <1>2, LooksKeeps

\* Neither does an entry with nothing to read.
LEMMA HandleNothingKeeps ==
  ASSUME IInv, NEW i, HandleNothing(i)
  PROVE  IInv'
<1>1. Handled(i) /\ UNCHANGED <<node, file, grab, readable, remotes, due>>
  BY DEF HandleNothing, kernel
<1>2. Looks
  BY <1>1, HandledFacts DEF Looks, IInv, Types
<1> QED
  BY <1>2, LooksKeeps
-----------------------------------------------------------------------------
(***************************************************************************)
(* The invariant: the steps of a rescan.                                   *)
(***************************************************************************)

\* The remaining work after its head is done.
LEMMA TailFacts ==
  ASSUME NEW t \in Seq(Rem), t # << >>
  PROVE  /\ Tail(t) \in Seq(Rem) /\ Len(Tail(t)) = Len(t) - 1 /\ Len(t) \in Nat \ {0}
         /\ \A n \in 1..Len(Tail(t)) : n + 1 \in 1..Len(t) /\ Tail(t)[n] = t[n + 1]
         /\ 1 \in 1..Len(t) /\ Head(t) = t[1] /\ t[1] \in Rem
         /\ \A n \in 1..Len(t) : n # 1 => n - 1 \in 1..Len(Tail(t)) /\ Tail(t)[n - 1] = t[n]
OBVIOUS

\* The new array with one remote more.
LEMMA AppendFacts ==
  ASSUME NEW q \in Seq(Rem), NEW e \in Rem
  PROVE  /\ Append(q, e) \in Seq(Rem) /\ Len(Append(q, e)) = Len(q) + 1 /\ Len(q) \in Nat
         /\ Append(q, e)[Len(q) + 1] = e
         /\ \A n \in 1..Len(q) : n \in 1..Len(Append(q, e)) /\ Append(q, e)[n] = q[n]
         /\ \A n \in 1..Len(Append(q, e)) : n \in 1..Len(q) \/ n = Len(q) + 1
OBVIOUS

\* One entry is done: dropped, or moved to the new array.
LEMMA PartedTail ==
  ASSUME NEW q \in Seq(Rem), NEW t \in Seq(Rem), t # << >>, Parted(q, t),
         \A n \in 1..Len(t) : Fresh(t[n])
  PROVE  Parted(q, Tail(t)) /\ \A n \in 1..Len(Tail(t)) : Fresh(Tail(t)[n])
<1> DEFINE u == Tail(t)
<1>1. Len(u) \in Nat /\ \A n \in 1..Len(u) : n + 1 \in 1..Len(t) /\ u[n] = t[n + 1]
  BY TailFacts
<1> HIDE DEF u
<1>2. Once(u)
  <2> SUFFICES ASSUME NEW i \in 1..Len(u), NEW j \in 1..Len(u),
                      u[i].kpath = u[j].kpath, u[i].kpath # NoPath
               PROVE  i = j
    BY DEF Once
  <2>1. i + 1 = j + 1
    BY <1>1, SMTT(30) DEF Parted, Once
  <2> QED
    BY <1>1, <2>1
<1> QED
  BY <1>1, <1>2 DEF Parted, u

\* Moving the head of the work into the new array keeps every keyboard once.
LEMMA PartedAppend ==
  ASSUME NEW q \in Seq(Rem), NEW t \in Seq(Rem), t # << >>, Parted(q, t),
         \A n \in 1..Len(t) : Fresh(t[n]),
         NEW e \in Rem, e.kpath = Head(t).kpath
  PROVE  Parted(Append(q, e), Tail(t))
<1> DEFINE u == Tail(t)
           r == Append(q, e)
<1>1. /\ Parted(q, u) /\ 1 \in 1..Len(t) /\ Head(t) = t[1] /\ Len(u) \in Nat
      /\ \A n \in 1..Len(u) : n + 1 \in 1..Len(t) /\ u[n] = t[n + 1]
  BY TailFacts, PartedTail
<1>2. /\ Len(r) = Len(q) + 1 /\ Len(q) \in Nat
      /\ r[Len(q) + 1] = e
      /\ \A n \in 1..Len(q) : n \in 1..Len(r) /\ r[n] = q[n]
      /\ \A n \in 1..Len(r) : n \in 1..Len(q) \/ n = Len(q) + 1
  BY AppendFacts
<1> HIDE DEF u, r
<1>3. e.kpath = t[1].kpath /\ e.kpath \in Paths /\ e.kpath # NoPath
  BY <1>1, DevicesAssumption DEF Fresh
<1>4. \A n \in 1..Len(q) : q[n].kpath # e.kpath
  BY <1>1, <1>3 DEF Parted
<1>5. \A n \in 1..Len(u) : u[n].kpath # e.kpath
  <2> SUFFICES ASSUME NEW n \in 1..Len(u), u[n].kpath = e.kpath PROVE FALSE
    OBVIOUS
  <2>1. n + 1 = 1
    BY <1>1, <1>3 DEF Parted, Once
  <2> QED
    BY <2>1, <1>1
<1>6. Once(r)
  <2> SUFFICES ASSUME NEW i \in 1..Len(r), NEW j \in 1..Len(r),
                      r[i].kpath = r[j].kpath, r[i].kpath # NoPath
               PROVE  i = j
    BY DEF Once
  <2>1. CASE i \in 1..Len(q) /\ j \in 1..Len(q)
    BY <1>2, <2>1 DEF Parted, Once
  <2>2. CASE i = Len(q) + 1 /\ j \in 1..Len(q)
    BY <1>2, <1>4, <2>2
  <2>3. CASE i \in 1..Len(q) /\ j = Len(q) + 1
    BY <1>2, <1>4, <2>3
  <2> QED
    BY <1>2, <2>1, <2>2, <2>3
<1>7. ASSUME NEW m \in 1..Len(r), NEW n \in 1..Len(u)
      PROVE  r[m].kpath # u[n].kpath /\ r[m].kpath \in Paths
  BY <1>1, <1>2, <1>3, <1>5 DEF Parted
<1>8. \A m \in 1..Len(r) : r[m].kpath \in Paths
  BY <1>2, <1>3 DEF Parted
<1>9. Parted(r, u)
  BY <1>1, <1>6, <1>7, <1>8 DEF Parted
<1> QED
  BY <1>9 DEF r, u

\* A remote whose outputs cannot be created is left out, holding nothing.
LEMMA OutputsFailKeeps ==
  ASSUME IInv, OutputsFail
  PROVE  IInv'
<1> USE DEF IInv
<1>1. /\ pc = "build" /\ todo # << >> /\ todo' = Tail(todo) /\ faults' = faults + 1
      /\ UNCHANGED <<node, file, grab, readable, pc, remotes, fresh, cur, ready, due, moves>>
  BY DEF OutputsFail, kernel
<1>2. /\ todo' \in Seq(Rem) /\ Parted(fresh, todo')
      /\ \A n \in 1..Len(todo') : Fresh(todo'[n])
  BY <1>1, TailFacts, PartedTail DEF Types, KeyboardsOnce, TodoFresh
<1>3. Types' /\ Phases' /\ TodoFresh' /\ KernelOK'
  BY <1>1, <1>2 DEF Types, Phases, TodoFresh, Fresh, KernelOK
<1>4. KeyboardsOnce'
  BY <1>1, <1>2 DEF KeyboardsOnce, Parted, Once
<1>5. Hands' = Hands
  BY <1>1 DEF Hands
<1>6. OneOwner(Hands, file)' /\ GrabsHeld(Hands, grab)'
  BY <1>1, <1>5
<1>7. AllComplete'
  BY <1>1 DEF AllComplete, Complete
<1>8. WorkGoesOn'
  BY <1>1 DEF WorkGoesOn, Types
<1> QED
  BY <1>3, <1>4, <1>6, <1>7, <1>8

\* Closing nothing leaves files and grabs as they are.
LEMMA ShutNothing ==
  ASSUME Types
  PROVE  Shut(file, {}) = file /\ Ungrab(grab, {}) = grab
BY DEF Types, Shut, Ungrab

\* A remote of the old array that is unchanged moves to the new one with its files.
LEMMA StealKeeps ==
  ASSUME IInv, Steal
  PROVE  IInv'
<1> USE DEF IInv
<1> DEFINE j == Lowest(Unchanged(Head(todo)))
           k == Len(fresh) + 1
<1>1. /\ pc = "build" /\ todo # << >> /\ todo' = Tail(todo)
      /\ fresh' = Append(fresh, remotes[j]) /\ remotes' = [remotes EXCEPT ![j] = Blank]
      /\ UNCHANGED <<node, file, grab, readable, pc, cur, ready, due, moves, faults>>
  BY DEF Steal, kernel
<1>2. j \in 1..Len(remotes) /\ remotes[j].kpath = Head(todo).kpath
  <2>1. Unchanged(Head(todo)) \subseteq Nat /\ Unchanged(Head(todo)) # {}
    BY DEF Unchanged, Steal
  <2>2. j \in Unchanged(Head(todo))
    BY <2>1, LowestIn
  <2> QED
    BY <2>2 DEF Unchanged, SameRemote
<1> HIDE DEF j
<1>3. Blank \in Rem /\ Idle(Blank) /\ Blank.kfd = NoFd /\ Blank.kpath = NoPath
  BY DEF Blank, Rem, Idle, Slots, MaybeFd, MaybePath, Ids
<1>4. /\ remotes \in Seq(Rem) /\ Len(remotes) \in Nat /\ remotes[j] \in Rem
      /\ fresh \in Seq(Rem) /\ todo \in Seq(Rem) /\ k = Len(fresh) + 1
  BY <1>2 DEF Types
<1>5. /\ remotes' \in Seq(Rem) /\ Len(remotes') = Len(remotes) /\ remotes'[j] = Blank
      /\ \A i \in 1..Len(remotes) : i # j => remotes'[i] = remotes[i]
  BY <1>1, <1>2, <1>3, <1>4
<1>6. /\ fresh' \in Seq(Rem) /\ fresh'[k] = remotes[j] /\ k \in 1..Len(fresh')
      /\ \A n \in 1..Len(fresh) : n \in 1..Len(fresh') /\ fresh'[n] = fresh[n] /\ n # k
      /\ \A n \in 1..Len(fresh') : n \in 1..Len(fresh) \/ n = k
  BY <1>1, <1>4, AppendFacts
<1>7. /\ todo' \in Seq(Rem) /\ \A n \in 1..Len(todo') : Fresh(todo'[n])
      /\ Parted(fresh', todo')
  BY <1>1, <1>2, <1>4, TailFacts, PartedTail, PartedAppend DEF KeyboardsOnce, TodoFresh
<1> HIDE DEF k
<1>8. Types' /\ Phases' /\ TodoFresh' /\ KernelOK'
  BY <1>1, <1>5, <1>6, <1>7 DEF Types, Phases, TodoFresh, Fresh, KernelOK
<1>9. KeyboardsOnce'
  <2>1. Once(remotes')
    BY <1>3, <1>5 DEF KeyboardsOnce, Once
  <2> QED
    BY <1>1, <1>7, <2>1 DEF KeyboardsOnce, Parted, Once
<1>10. AllComplete'
  <2>1. Complete(Blank)
    BY <1>3 DEF Complete
  <2>2. \A i \in 1..Len(remotes') : Complete(remotes'[i])
    BY <1>5, <2>1 DEF AllComplete
  <2>3. \A n \in 1..Len(fresh') : Complete(fresh'[n])
    BY <1>2, <1>6 DEF AllComplete
  <2> QED
    BY <1>1, <2>2, <2>3 DEF AllComplete, Complete
<1>11. OneOwner(Hands, file)' /\ GrabsHeld(Hands, grab)'
  <2> DEFINE H == Hands
             H2 == HandsOf(remotes', fresh', cur)
             phi == [y \in DOMAIN H2 |-> IF y = <<"new", k>> THEN <<"old", j>> ELSE y]
  <2>1. H2 = Hands'
    BY <1>1 DEF Hands
  <2>2. Behind(H, remotes, fresh, cur) /\ Behind(H2, remotes', fresh', cur)
    BY HandsBehind DEF Hands
  <2>3. <<"new", k>> \in DOMAIN H2 /\ phi[<<"new", k>>] = <<"old", j>>
        /\ \A y \in DOMAIN H2 : y # <<"new", k>> => phi[y] = y
    BY <1>6, <2>2 DEF Behind
  <2> HIDE DEF H, H2
  <2>4. phi \in [DOMAIN H2 -> DOMAIN H]
    BY <1>2, <1>5, <1>6, <2>2 DEF Behind
  <2> HIDE DEF phi
  <2>5. Idle(H2[<<"old", j>>])
    BY <1>2, <1>3, <1>5, <2>2 DEF Behind
  <2>6. ASSUME NEW y \in DOMAIN H2, y # <<"old", j>>, y # <<"new", k>>
        PROVE  y \in DOMAIN H /\ H2[y] = H[y]
    <3>1. CASE \E i \in 1..Len(remotes') : y = <<"old", i>>
      <4>1. PICK i \in 1..Len(remotes) : y = <<"old", i>>
        BY <1>5, <3>1
      <4>2. remotes'[i] = remotes[i] /\ i \in 1..Len(remotes')
        BY <1>5, <2>6, <4>1
      <4> QED
        BY <2>2, <4>1, <4>2 DEF Behind
    <3>2. CASE \E n \in 1..Len(fresh') : y = <<"new", n>>
      <4>1. PICK n \in 1..Len(fresh') : y = <<"new", n>>
        BY <3>2
      <4>2. n \in 1..Len(fresh) /\ fresh'[n] = fresh[n]
        BY <1>6, <2>6, <4>1
      <4> QED
        BY <2>2, <4>1, <4>2 DEF Behind
    <3>3. CASE y = <<"cur", 0>>
      BY <2>2, <3>3 DEF Behind
    <3> QED
      BY <2>2, <3>1, <3>2, <3>3 DEF Behind
  <2>7. H2[<<"new", k>>] = H[<<"old", j>>] /\ <<"old", j>> \in DOMAIN H
    BY <1>2, <1>6, <2>2 DEF Behind
  <2>8. ASSUME NEW x \in DOMAIN H, x # <<"old", j>>
        PROVE  x \in DOMAIN H2 /\ x # <<"new", k>> /\ H2[x] = H[x]
    <3>1. x \in DOMAIN H2 /\ x # <<"new", k>>
      <4>1. CASE \E i \in 1..Len(remotes) : x = <<"old", i>>
        BY <1>5, <2>2, <4>1 DEF Behind
      <4>2. CASE \E n \in 1..Len(fresh) : x = <<"new", n>>
        BY <1>6, <2>2, <4>2 DEF Behind
      <4>3. CASE x = <<"cur", 0>>
        BY <2>2, <4>3 DEF Behind
      <4> QED
        BY <2>2, <4>1, <4>2, <4>3 DEF Behind
    <3> QED
      BY <2>6, <2>8, <3>1
  <2>9. \A y \in DOMAIN H2 : Idle(H2[y]) \/ (phi[y] \in DOMAIN H /\ H2[y] = H[phi[y]])
    BY <2>3, <2>5, <2>6, <2>7
  <2>10. Idle(H2[<<"old", j>>]) /\ \A y, z \in DOMAIN H2 : phi[y] = phi[z] =>
                                    y = z \/ y = <<"old", j>> \/ z = <<"old", j>>
    BY <2>3, <2>5
  <2>11. ASSUME NEW x \in DOMAIN H
        PROVE  \E y \in DOMAIN H2 : phi[y] = x /\ H2[y] = H[x]
    BY <2>3, <2>7, <2>8
  <2>12. Renames(H, H2, phi, {})
    BY <2>4, <2>9, <2>10, <2>11 DEF Renames, Idle
  <2>13. OneOwner(H2, Shut(file, {})) /\ GrabsHeld(H2, Ungrab(grab, {}))
    BY <2>12, Regroup DEF H
  <2> QED
    BY <1>1, <2>1, <2>13, ShutNothing
<1>12. WorkGoesOn'
  <2> SUFFICES ASSUME faults = 0, NEW i \in 1..Len(remotes'), Live(remotes'[i].kfd),
                      file[remotes'[i].kfd].dev \in KeyboardInputs
               PROVE  StillTodo(remotes[i])' \/ Reopened(remotes[i])'
    BY <1>1 DEF WorkGoesOn, Live, KeyboardInputs
  <2>1. i \in 1..Len(remotes) /\ i # j /\ remotes'[i] = remotes[i]
    BY <1>3, <1>5 DEF Live
  <2>2. CASE StillTodo(remotes[i])
    <3>1. PICK n \in 1..Len(todo) : todo[n].kpath = remotes[i].kpath
      BY <2>2 DEF StillTodo
    <3>2. n # 1
      <4> SUFFICES ASSUME n = 1 PROVE FALSE
        OBVIOUS
      <4>1. Head(todo) = todo[1] /\ Fresh(todo[1])
        BY <1>1, <1>4, TailFacts DEF TodoFresh
      <4>2. remotes[i].kpath = remotes[j].kpath /\ remotes[i].kpath # NoPath
        BY <1>2, <3>1, <4>1, DevicesAssumption DEF Fresh
      <4> QED
        BY <1>2, <2>1, <4>2 DEF KeyboardsOnce, Once
    <3>3. n - 1 \in 1..Len(todo') /\ todo'[n - 1] = todo[n]
      BY <1>1, <1>4, <3>2, TailFacts
    <3> QED
      BY <1>1, <2>1, <3>1, <3>3 DEF StillTodo
  <2>3. CASE Reopened(remotes[i])
    BY <1>1, <1>6, <2>1, <2>3 DEF Reopened, Live
  <2> QED
    BY <1>1, <2>1, <2>2, <2>3 DEF WorkGoesOn
<1> QED
  BY <1>8, <1>9, <1>10, <1>11, <1>12

\* Only the remote at work differs.
LEMMA OnlyCur ==
  ASSUME NEW r, NEW q, NEW c, NEW e
  PROVE  /\ DOMAIN HandsOf(r, q, e) = DOMAIN HandsOf(r, q, c)
         /\ <<"cur", 0>> \in DOMAIN HandsOf(r, q, c)
         /\ HandsOf(r, q, c)[<<"cur", 0>>] = c /\ HandsOf(r, q, e)[<<"cur", 0>>] = e
         /\ \A x \in DOMAIN HandsOf(r, q, c) :
              x # <<"cur", 0>> => HandsOf(r, q, e)[x] = HandsOf(r, q, c)[x]
<1>1. DOMAIN HandsOf(r, q, e) = DOMAIN HandsOf(r, q, c)
  BY DEF HandsOf
<1>2. Behind(HandsOf(r, q, c), r, q, c) /\ Behind(HandsOf(r, q, e), r, q, e)
  BY HandsBehind
<1>3. \A x \in DOMAIN HandsOf(r, q, c) :
        x # <<"cur", 0>> => HandsOf(r, q, e)[x] = HandsOf(r, q, c)[x]
  BY <1>1, <1>2 DEF Behind
<1> QED
  BY <1>1, <1>2, <1>3 DEF Behind

\* close() on the descriptors of C, in the kernel.
LEMMA CloseFacts ==
  ASSUME Types, KernelOK, NEW C, Close(C), node' = node
  PROVE  /\ file' = Shut(file, C) /\ grab' = Ungrab(grab, C)
         /\ file' \in [Fds -> Files] /\ grab' \in [Paths -> MaybeFd]
         /\ readable' \subseteq Fds
         /\ \A f \in Fds : file'[f] = IF f \in C THEN NoFile ELSE file[f]
         /\ KernelOK'
<1>1. file' = Shut(file, C) /\ grab' = Ungrab(grab, C) /\ readable' \subseteq Fds
  BY DEF Close, Shut, Ungrab, Types
<1>2. NoFile \in Files /\ NoFile.type = "closed"
  BY DEF NoFile, Files, MaybePath
<1>3. \A f \in Fds : file'[f] = IF f \in C THEN NoFile ELSE file[f]
  BY <1>1 DEF Shut
<1>4. file' \in [Fds -> Files] /\ grab' \in [Paths -> MaybeFd]
  BY <1>1, <1>2 DEF Shut, Ungrab, Types, MaybeFd
<1>5. KernelOK'
  BY <1>2, <1>3 DEF KernelOK
<1> QED
  BY <1>1, <1>3, <1>4, <1>5

\* What one holder closes is nobody else's.
LEMMA NotShared ==
  ASSUME NEW H, NEW F, OneOwner(H, F), NEW x \in DOMAIN H, NEW y \in DOMAIN H, x # y,
         NEW s \in Slots, H[y][s] # NoFd
  PROVE  H[y][s] \notin FdsOf(H[x])
BY DEF OneOwner, FdsOf

\* A keyboard that cannot be opened or grabbed: its outputs are closed again.
LEMMA KeyboardFailKeeps ==
  ASSUME IInv, KeyboardFail
  PROVE  IInv'
<1> USE DEF IInv
<1> DEFINE C == FdsOf(cur)
<1>1. /\ pc = "keyboard" /\ node[cur.kpath] = NoInput /\ Close(C) /\ cur' = Blank
      /\ todo' = Tail(todo) /\ pc' = "failed"
      /\ UNCHANGED <<node, remotes, fresh, ready, due, moves, faults>>
  BY DEF KeyboardFail
<1>2. Blank \in Rem /\ Idle(Blank) /\ Blank.kfd = NoFd
  BY DEF Blank, Rem, Idle, Slots, MaybeFd, MaybePath, Ids
<1>3. /\ file' = Shut(file, C) /\ grab' = Ungrab(grab, C)
      /\ file' \in [Fds -> Files] /\ grab' \in [Paths -> MaybeFd]
      /\ readable' \subseteq Fds
      /\ \A f \in Fds : file'[f] = IF f \in C THEN NoFile ELSE file[f]
      /\ KernelOK'
  BY <1>1, CloseFacts
<1>4. todo \in Seq(Rem) /\ fresh \in Seq(Rem) /\ todo # << >> /\ cur.kpath = Head(todo).kpath
  BY <1>1 DEF Types, Phases
<1>5. /\ todo' \in Seq(Rem) /\ Parted(fresh, todo')
      /\ \A n \in 1..Len(todo') : Fresh(todo'[n])
  BY <1>1, <1>4, TailFacts, PartedTail DEF KeyboardsOnce, TodoFresh
<1> HIDE DEF C
<1>6. Types' /\ Phases' /\ TodoFresh'
  BY <1>1, <1>2, <1>3, <1>5 DEF Types, Phases, TodoFresh, Fresh
<1>7. KeyboardsOnce'
  BY <1>1, <1>5 DEF KeyboardsOnce, Parted, Once
<1> DEFINE Kept(r) == r.kfd # NoFd => r.kfd \in Fds /\ file'[r.kfd] = file[r.kfd]
<1>8. ASSUME NEW x \in DOMAIN Hands, x # <<"cur", 0>> PROVE Kept(Hands[x])
  <2> SUFFICES ASSUME Hands[x].kfd # NoFd
               PROVE  Hands[x].kfd \in Fds /\ file'[Hands[x].kfd] = file[Hands[x].kfd]
    OBVIOUS
  <2>1. "kfd" \in Slots /\ Hands[x]["kfd"] # NoFd
    BY DEF Slots
  <2>2. Hands[x]["kfd"] \notin C /\ Hands[x]["kfd"] \in Fds
    BY <1>8, <2>1, InHand, NotShared DEF C, OneOwner
  <2> QED
    BY <1>3, <2>2
<1>9. /\ \A i \in 1..Len(remotes) : Kept(remotes[i])
      /\ \A n \in 1..Len(fresh) : Kept(fresh[n])
  <2> HIDE DEF Kept
  <2>1. \A i : <<"old", i>> # <<"cur", 0>> /\ <<"new", i>> # <<"cur", 0>>
    OBVIOUS
  <2> QED
    BY <1>8, <2>1, InHand
<1>10. AllComplete'
  BY <1>1, <1>2, <1>9 DEF AllComplete, Complete
<1>11. OneOwner(Hands, file)' /\ GrabsHeld(Hands, grab)'
  <2> DEFINE H == Hands
             H2 == HandsOf(remotes, fresh, Blank)
             phi == [y \in DOMAIN H2 |-> y]
  <2>1. H2 = Hands'
    BY <1>1 DEF Hands
  <2>2. /\ DOMAIN H2 = DOMAIN H /\ <<"cur", 0>> \in DOMAIN H /\ H[<<"cur", 0>>] = cur
        /\ H2[<<"cur", 0>>] = Blank
        /\ \A x \in DOMAIN H : x # <<"cur", 0>> => H2[x] = H[x]
    BY OnlyCur DEF Hands
  <2> HIDE DEF H2, H
  <2>3. phi \in [DOMAIN H2 -> DOMAIN H] /\ \A y \in DOMAIN H2 : phi[y] = y
    BY <2>2
  <2> HIDE DEF phi
  <2>4. ASSUME NEW y \in DOMAIN H2, NEW s \in Slots, H2[y][s] # NoFd
        PROVE  H2[y][s] = H[phi[y]][s] /\ H2[y][s] \notin C
    <3>1. y # <<"cur", 0>>
      BY <1>2, <2>2, <2>4 DEF Idle
    <3> QED
      BY <2>2, <2>3, <2>4, <3>1, NotShared DEF C, H
  <2>5. ASSUME NEW x \in DOMAIN H, NEW s \in Slots
        PROVE  \/ H[x][s] \in C \union {NoFd}
               \/ \E y \in DOMAIN H2 : phi[y] = x /\ H2[y][s] = H[x][s]
    BY <2>2, <2>3 DEF C, FdsOf
  <2>6. Renames(H, H2, phi, C)
    BY <2>3, <2>4, <2>5 DEF Renames
  <2> QED
    BY <1>3, <2>1, <2>6, Regroup DEF H
<1>12. WorkGoesOn'
  <2> SUFFICES ASSUME faults = 0, NEW i \in 1..Len(remotes), Live(remotes[i].kfd)',
                      file'[remotes[i].kfd].dev \in KeyboardInputs
               PROVE  StillTodo(remotes[i])' \/ Reopened(remotes[i])'
    BY <1>1 DEF WorkGoesOn, KeyboardInputs
  <2>1. Live(remotes[i].kfd) /\ file[remotes[i].kfd].dev \in KeyboardInputs
    BY <1>1, <1>9 DEF Live
  <2>2. remotes[i].kpath # cur.kpath
    <3>1. file[remotes[i].kfd].path = remotes[i].kpath /\ remotes[i].kfd \in Fds
      BY <1>9, <2>1 DEF AllComplete, Complete, Live
    <3> QED
      BY <1>1, <2>1, <3>1 DEF KernelOK, Live
  <2>3. CASE StillTodo(remotes[i])
    <3>1. PICK n \in 1..Len(todo) : todo[n].kpath = remotes[i].kpath
      BY <2>3 DEF StillTodo
    <3>2. n # 1
      BY <1>4, <2>2, <3>1, TailFacts
    <3>3. n - 1 \in 1..Len(todo') /\ todo'[n - 1] = todo[n]
      BY <1>1, <1>4, <3>2, TailFacts
    <3> QED
      BY <1>1, <3>1, <3>3 DEF StillTodo
  <2>4. CASE Reopened(remotes[i])
    BY <1>1, <1>9, <2>4 DEF Reopened, Live
  <2> QED
    BY <1>1, <2>1, <2>3, <2>4 DEF WorkGoesOn
<1> QED
  BY <1>3, <1>6, <1>7, <1>10, <1>11, <1>12

\* The second close of the outputs of a failed remote_open closes nothing.
LEMMA FreeFailedKeeps ==
  ASSUME IInv, Stale, FreeFailed
  PROVE  IInv' /\ file' = file
<1> USE DEF IInv
<1>1. /\ pc = "failed" /\ Close(stale) /\ pc' = "build"
      /\ UNCHANGED <<node, remotes, fresh, todo, cur, ready, due, moves, faults>>
      /\ stale \subseteq Fds /\ \A f \in stale : file[f] = NoFile
  BY DEF FreeFailed, Stale
<1>2. /\ file' = Shut(file, stale) /\ grab' = Ungrab(grab, stale)
      /\ readable' \subseteq Fds
  BY <1>1, CloseFacts
<1>3. file' = file
  <2>1. file = [f \in Fds |-> file[f]]
    BY DEF Types
  <2> QED
    BY <1>1, <1>2, <2>1 DEF Shut
<1>4. grab' = grab
  <2>1. ASSUME NEW p \in Paths, grab[p] # NoFd PROVE grab[p] \notin stale
    <3>1. PICK x \in DOMAIN Hands : Hands[x]["kfd"] = grab[p]
      BY <2>1 DEF GrabsHeld
    <3>2. file[grab[p]].type \in KindsOf("kfd")
      BY <2>1, <3>1 DEF OneOwner, Slots
    <3> QED
      BY <1>1, <3>2 DEF KindsOf, NoFile
  <2>2. grab = [p \in Paths |-> grab[p]]
    BY DEF Types
  <2> QED
    BY <1>2, <2>1, <2>2 DEF Ungrab
<1>5. Types' /\ Phases' /\ TodoFresh' /\ KernelOK'
  BY <1>1, <1>2, <1>3, <1>4 DEF Types, Phases, TodoFresh, Fresh, KernelOK
<1>6. KeyboardsOnce'
  BY <1>1 DEF KeyboardsOnce, Parted, Once
<1>7. Hands' = Hands
  BY <1>1 DEF Hands
<1>8. OneOwner(Hands, file)' /\ GrabsHeld(Hands, grab)'
  BY <1>3, <1>4, <1>7
<1>9. AllComplete'
  BY <1>1, <1>3 DEF AllComplete, Complete
<1>10. WorkGoesOn'
  BY <1>1, <1>3 DEF WorkGoesOn, StillTodo, Reopened, Live
<1> QED
  BY <1>3, <1>5, <1>6, <1>8, <1>9, <1>10

\* The end of a rescan closes what is left of the old array.
LEMMA FinishRescanKeeps ==
  ASSUME IInv, FinishRescan
  PROVE  IInv'
<1> USE DEF IInv
<1> DEFINE C == UNION {FdsOf(r) : r \in Range(remotes)}
<1>1. /\ pc = "build" /\ todo = << >> /\ Close(C) /\ remotes' = fresh /\ fresh' = << >>
      /\ pc' = "loop" /\ UNCHANGED <<node, todo, cur, ready, due, moves, faults>>
  BY DEF FinishRescan
<1>2. /\ file' = Shut(file, C) /\ grab' = Ungrab(grab, C)
      /\ file' \in [Fds -> Files] /\ grab' \in [Paths -> MaybeFd]
      /\ readable' \subseteq Fds
      /\ \A f \in Fds : file'[f] = IF f \in C THEN NoFile ELSE file[f]
      /\ KernelOK'
  BY <1>1, CloseFacts
<1>3. /\ cur = Blank /\ Idle(Blank) /\ Blank.kfd = NoFd /\ << >> \in Seq(Rem)
      /\ remotes \in Seq(Rem) /\ fresh \in Seq(Rem)
  BY <1>1 DEF Phases, Types, Blank, Idle, Slots
<1>4. \A f : f \in C <=> \E j \in 1..Len(remotes) : f \in FdsOf(remotes[j])
  BY <1>3 DEF Range
<1> HIDE DEF C
<1>5. Types' /\ Phases'
  BY <1>1, <1>2, <1>3 DEF Types, Phases
<1>6. Len(<< >>) = 0 /\ \A n : n \notin 1..0
  OBVIOUS
<1>7. TodoFresh' /\ KeyboardsOnce'
  <2>1. \A n : n \notin 1..Len(todo') /\ n \notin 1..Len(fresh')
    BY <1>1, <1>6, Zenon
  <2>2. Once(remotes') /\ \A n \in 1..Len(remotes') : remotes'[n].kpath \in Paths
    BY <1>1 DEF KeyboardsOnce, Parted
  <2> QED
    BY <2>1, <2>2 DEF TodoFresh, KeyboardsOnce, Parted, Once
<1> DEFINE H == Hands
           H2 == HandsOf(fresh, << >>, cur)
           phi == [y \in DOMAIN H2 |-> IF y = <<"cur", 0>> THEN y ELSE <<"new", y[2]>>]
<1>8. H2 = Hands' /\ Behind(H, remotes, fresh, cur) /\ Behind(H2, fresh, << >>, cur)
  BY <1>1, HandsBehind DEF Hands
<1>9. \A y \in DOMAIN H2 : y = <<"cur", 0>> \/ \E n \in 1..Len(fresh) : y = <<"old", n>>
  BY <1>6, <1>8 DEF Behind
<1> HIDE DEF H, H2
<1>10. /\ <<"cur", 0>> \in DOMAIN H2 /\ phi[<<"cur", 0>>] = <<"cur", 0>>
       /\ \A n \in 1..Len(fresh) : /\ <<"old", n>> \in DOMAIN H2
                                   /\ phi[<<"old", n>>] = <<"new", n>>
  BY <1>8 DEF Behind
<1>11. phi \in [DOMAIN H2 -> DOMAIN H]
  BY <1>8, <1>9 DEF Behind
<1> HIDE DEF phi
<1>12. ASSUME NEW n \in 1..Len(fresh), NEW s \in Slots, fresh[n][s] # NoFd
       PROVE  fresh[n][s] \notin C
  <2> SUFFICES ASSUME NEW j \in 1..Len(remotes), fresh[n][s] \in FdsOf(remotes[j])
               PROVE  FALSE
    BY <1>4
  <2>1. /\ <<"old", j>> \in DOMAIN H /\ <<"new", n>> \in DOMAIN H
        /\ <<"old", j>> # <<"new", n>>
        /\ H[<<"old", j>>] = remotes[j] /\ H[<<"new", n>>] = fresh[n]
    BY <1>8 DEF Behind
  <2>2. OneOwner(H, file)
    BY DEF H
  <2> QED
    BY <1>12, <2>1, <2>2, NotShared
<1>13. Renames(H, H2, phi, C)
  <2>1. ASSUME NEW y \in DOMAIN H2, NEW s \in Slots, H2[y][s] # NoFd
        PROVE  H2[y][s] = H[phi[y]][s] /\ H2[y][s] \notin C
    <3>1. PICK n \in 1..Len(fresh) : y = <<"old", n>>
      BY <1>3, <1>8, <1>9, <2>1 DEF Behind, Idle
    <3>2. H2[y] = fresh[n] /\ H[phi[y]] = fresh[n]
      BY <1>8, <1>10, <3>1 DEF Behind
    <3> QED
      BY <1>12, <2>1, <3>2
  <2>2. \A y, z \in DOMAIN H2 : phi[y] = phi[z] => y = z
    BY <1>9, <1>10
  <2>3. ASSUME NEW x \in DOMAIN H, NEW s \in Slots
        PROVE  \/ H[x][s] \in C \union {NoFd}
               \/ \E y \in DOMAIN H2 : phi[y] = x /\ H2[y][s] = H[x][s]
    <3>1. CASE \E j \in 1..Len(remotes) : x = <<"old", j>>
      <4>1. PICK j \in 1..Len(remotes) : x = <<"old", j>>
        BY <3>1
      <4>2. H[x] = remotes[j]
        BY <1>8, <4>1 DEF Behind
      <4> QED
        BY <1>4, <4>2 DEF FdsOf
    <3>2. CASE \E n \in 1..Len(fresh) : x = <<"new", n>>
      <4>1. PICK n \in 1..Len(fresh) : x = <<"new", n>>
        BY <3>2
      <4>2. H[x] = fresh[n] /\ H2[<<"old", n>>] = fresh[n]
        BY <1>8, <4>1 DEF Behind
      <4> QED
        BY <1>10, <4>1, <4>2
    <3>3. CASE x = <<"cur", 0>>
      BY <1>3, <1>8, <3>3 DEF Behind, Idle
    <3> QED
      BY <1>8, <3>1, <3>2, <3>3 DEF Behind
  <2> QED
    BY <1>11, <2>1, <2>2, <2>3 DEF Renames
<1>14. OneOwner(Hands, file)' /\ GrabsHeld(Hands, grab)'
  BY <1>2, <1>8, <1>13, Regroup DEF H
<1>15. AllComplete'
  <2>1. ASSUME NEW n \in 1..Len(fresh), fresh[n].kfd # NoFd
        PROVE  file'[fresh[n].kfd] = file[fresh[n].kfd]
    <3>1. fresh[n].kfd \in Fds /\ "kfd" \in Slots
      BY <2>1, KeyboardFile DEF HasFile, Slots
    <3>2. fresh[n]["kfd"] \notin C
      BY <1>12, <2>1, <3>1
    <3> QED
      BY <1>2, <3>1, <3>2
  <2>2. \A n \in 1..Len(remotes') : Complete(remotes[n])'
    BY <1>1, <2>1 DEF AllComplete, Complete
  <2>3. \A n \in 1..Len(fresh') : Complete(fresh[n])'
    BY <1>1, <1>6, Zenon
  <2>4. Complete(cur)'
    BY <1>1, <1>3 DEF Complete
  <2> QED
    BY <2>2, <2>3, <2>4 DEF AllComplete
<1>16. WorkGoesOn'
  BY <1>1 DEF WorkGoesOn
<1> QED
  BY <1>2, <1>5, <1>7, <1>14, <1>15, <1>16

\* A daemon that is restarted has nothing open.
LEMMA RestartKeeps ==
  ASSUME IInv, Restart
  PROVE  IInv'
<1> USE DEF IInv
<1>1. /\ faults' = faults + 1 /\ Close(Fds) /\ pc' = "loop" /\ due' = "now"
      /\ remotes' = << >> /\ fresh' = << >> /\ todo' = << >> /\ cur' = Blank /\ ready' = {}
      /\ UNCHANGED <<node, moves>>
  BY DEF Restart
<1>2. /\ file' = Shut(file, Fds) /\ grab' = Ungrab(grab, Fds)
      /\ file' \in [Fds -> Files] /\ grab' \in [Paths -> MaybeFd]
      /\ readable' \subseteq Fds /\ KernelOK'
  BY <1>1, CloseFacts
<1>3. Blank \in Rem /\ Idle(Blank) /\ Blank.kfd = NoFd /\ << >> \in Seq(Rem)
  BY DEF Blank, Rem, Idle, Slots, MaybeFd, MaybePath, Ids
<1>4. Types' /\ Phases'
  BY <1>1, <1>2, <1>3 DEF Types, Phases
<1>5. \A n : n \notin 1..Len(todo') /\ n \notin 1..Len(fresh') /\ n \notin 1..Len(remotes')
  <2>1. Len(<< >>) = 0 /\ \A n : n \notin 1..0
    OBVIOUS
  <2> QED
    BY <1>1, <2>1, Zenon
<1>6. TodoFresh' /\ KeyboardsOnce' /\ WorkGoesOn'
  BY <1>1, <1>5 DEF TodoFresh, KeyboardsOnce, Parted, Once, WorkGoesOn
<1>7. AllComplete'
  BY <1>1, <1>3, <1>5 DEF AllComplete, Complete
<1>8. \A x \in DOMAIN Hands', s \in Slots : Hands'[x][s] = NoFd
  <2>1. Behind(Hands', remotes', fresh', cur')
    BY HandsBehind DEF Hands
  <2> QED
    BY <1>1, <1>3, <1>5, <2>1 DEF Behind, Idle
<1>9. \A f \in Fds : file'[f] = NoFile
  BY <1>2 DEF Shut
<1>10. \A p \in Paths : grab'[p] = NoFd
  BY <1>2 DEF Ungrab, Types, MaybeFd
<1>11. OneOwner(Hands', file') /\ GrabsHeld(Hands', grab')
  BY <1>8, <1>9, <1>10 DEF OneOwner, GrabsHeld
<1> QED
  BY <1>2, <1>4, <1>6, <1>7, <1>11

\* A lost remote is closed and leaves the array.
LEMMA HandleLossKeeps ==
  ASSUME IInv, NEW i, HandleLoss(i)
  PROVE  IInv'
<1> USE DEF IInv
<1> DEFINE j == Layout[i][1]
           s == Layout[i][2]
           f == remotes[j][s]
<1>1. /\ Handled(i) /\ i \in 1..Len(Layout) /\ Close({f}) /\ due' = "now"
      /\ remotes' = [remotes EXCEPT ![j][s] = NoFd] /\ node' = node
  BY DEF HandleLoss, FdAt
<1>2. j \in 1..Len(remotes) /\ s \in {"kfd", "ifd"} /\ f # NoFd
  <2>1. Len(remotes) \in Nat
    BY DEF Types
  <2>2. Layout[i] \in Polled
    BY <1>1, <2>1, LayoutFacts
  <2> QED
    BY <2>2 DEF Polled
<1> HIDE DEF j, s
<1>3. /\ i \in ready /\ pc = "dispatch" /\ pc' \in {"loop", "dispatch"}
      /\ ready' \in SUBSET Nat /\ (pc' = "dispatch" <=> ready' # {})
      /\ UNCHANGED <<fresh, todo, cur, moves, faults>>
  BY <1>1, HandledFacts
<1>4. /\ file' = Shut(file, {f}) /\ grab' = Ungrab(grab, {f})
      /\ file' \in [Fds -> Files] /\ grab' \in [Paths -> MaybeFd]
      /\ readable' \subseteq Fds
      /\ \A g \in Fds : file'[g] = IF g = f THEN NoFile ELSE file[g]
      /\ KernelOK'
  BY <1>1, CloseFacts
<1>5. /\ remotes \in Seq(Rem) /\ Len(remotes) \in Nat /\ remotes[j] \in Rem
      /\ s \in Slots /\ s # "ku" /\ s # "mu"
  BY <1>2 DEF Types, Slots
<1> DEFINE e == [remotes[j] EXCEPT ![s] = NoFd]
<1>6. /\ e \in Rem /\ e.kpath = remotes[j].kpath
      /\ e[s] = NoFd /\ \A t \in Slots : t # s => e[t] = remotes[j][t]
  BY <1>2, <1>5 DEF Rem, Slots, MaybeFd
<1>7. remotes' = [remotes EXCEPT ![j] = e]
  BY <1>1
<1> HIDE DEF e, f
<1>8. /\ remotes' \in Seq(Rem) /\ Len(remotes') = Len(remotes) /\ remotes'[j] = e
      /\ \A n \in 1..Len(remotes) : n # j => remotes'[n] = remotes[n]
      /\ \A n \in 1..Len(remotes) : remotes'[n].kpath = remotes[n].kpath
  BY <1>2, <1>5, <1>6, <1>7
<1>9. Types'
  BY <1>1, <1>3, <1>4, <1>8 DEF Types
<1>10. Phases' /\ TodoFresh' /\ WorkGoesOn'
  BY <1>3 DEF Phases, TodoFresh, Fresh, WorkGoesOn
<1>11. KeyboardsOnce'
  BY <1>3, <1>8 DEF KeyboardsOnce, Parted, Once
<1> DEFINE H == Hands
           H2 == HandsOf(remotes', fresh, cur)
           phi == [y \in DOMAIN H2 |-> y]
           x == <<"old", j>>
<1>12. H2 = Hands' /\ Behind(H, remotes, fresh, cur) /\ Behind(H2, remotes', fresh, cur)
  BY <1>3, HandsBehind DEF Hands
<1>13. DOMAIN H2 = DOMAIN H
  BY <1>8 DEF Hands, HandsOf
<1>14. OneOwner(H, file) /\ GrabsHeld(H, grab)
  OBVIOUS
<1> HIDE DEF H, H2
<1>15. x \in DOMAIN H /\ H[x] = remotes[j] /\ H2[x] = e /\ H[x][s] = f
  BY <1>2, <1>8, <1>12 DEF Behind, f
<1>16. ASSUME NEW y \in DOMAIN H, y # x PROVE H2[y] = H[y]
  <2>1. CASE \E n \in 1..Len(remotes) : y = <<"old", n>>
    <3>1. PICK n \in 1..Len(remotes) : y = <<"old", n>>
      BY <2>1
    <3>2. remotes'[n] = remotes[n] /\ n \in 1..Len(remotes')
      BY <1>8, <1>16, <3>1
    <3> QED
      BY <1>12, <3>1, <3>2 DEF Behind
  <2>2. CASE ~\E n \in 1..Len(remotes) : y = <<"old", n>>
    BY <1>12, <2>2 DEF Behind
  <2> QED
    BY <2>1, <2>2
<1> HIDE DEF x
<1>17. ASSUME NEW y \in DOMAIN H, NEW t \in Slots, <<y, t>> # <<x, s>>
       PROVE  H2[y][t] = H[y][t] /\ (H[y][t] # NoFd => H[y][t] # f)
  <2>1. H2[y][t] = H[y][t]
    BY <1>6, <1>15, <1>16, <1>17
  <2>2. H[y][t] # NoFd => H[y][t] # f
    BY <1>5, <1>14, <1>15, <1>17 DEF OneOwner
  <2> QED
    BY <2>1, <2>2
<1>18. Renames(H, H2, phi, {f})
  <2>1. phi \in [DOMAIN H2 -> DOMAIN H] /\ \A y \in DOMAIN H2 : phi[y] = y
    BY <1>13
  <2> HIDE DEF phi
  <2>2. H2[x][s] = NoFd
    BY <1>6, <1>15
  <2> QED
    BY <1>13, <1>15, <1>17, <2>1, <2>2 DEF Renames
<1>19. OneOwner(Hands, file)' /\ GrabsHeld(Hands, grab)'
  BY <1>4, <1>12, <1>14, <1>18, Regroup
<1>20. AllComplete'
  <2> DEFINE Done(r) == r.kfd # NoFd => /\ r.ku # NoFd /\ r.mu # NoFd
                                        /\ file'[r.kfd].path = r.kpath
  <2>1. ASSUME NEW y \in DOMAIN H, Complete(H[y]) PROVE Done(H2[y])
    <3> SUFFICES ASSUME H2[y]["kfd"] # NoFd
                 PROVE  /\ H2[y]["ku"] # NoFd /\ H2[y]["mu"] # NoFd
                        /\ file'[H2[y]["kfd"]].path = H2[y].kpath
      OBVIOUS
    <3>1. "kfd" \in Slots /\ "ku" \in Slots /\ "mu" \in Slots
      BY DEF Slots
    <3>2. <<y, "kfd">> # <<x, s>>
      BY <1>6, <1>15
    <3>3. H2[y]["kfd"] = H[y]["kfd"] /\ H[y]["kfd"] # f /\ H2[y]["ku"] = H[y]["ku"]
          /\ H2[y]["mu"] = H[y]["mu"]
      BY <1>5, <1>17, <3>1, <3>2
    <3>4. H[y]["kfd"] \in Fds
      BY <1>14, <3>1, <3>3 DEF OneOwner
    <3>5. H2[y].kpath = H[y].kpath
      BY <1>6, <1>15, <1>16
    <3> QED
      BY <1>4, <2>1, <3>3, <3>4, <3>5 DEF Complete
  <2>2. \A y \in DOMAIN H : Complete(H[y])
    BY <1>12 DEF Behind, AllComplete
  <2> HIDE DEF Done
  <2>3. \A y \in DOMAIN H2 : Done(H2[y])
    BY <1>13, <2>1, <2>2
  <2>4. /\ \A n \in 1..Len(remotes') : Done(remotes'[n])
        /\ \A n \in 1..Len(fresh) : Done(fresh[n])
        /\ Done(cur)
    BY <1>12, <2>3 DEF Behind
  <2> QED
    BY <1>3, <2>4 DEF AllComplete, Complete, Done
<1> QED
  BY <1>4, <1>9, <1>10, <1>11, <1>19, <1>20

\* The descriptors open() may return.
LEMMA FreeFacts ==
  ASSUME Types, NEW S, S \subseteq FreeFds, S # {}
  PROVE  Lowest(S) \in S /\ Lowest(S) \in Fds /\ file[Lowest(S)] = NoFile
<1>1. S \subseteq Nat
  BY DevicesAssumption DEF FreeFds
<1>2. Lowest(S) \in S
  BY <1>1, LowestIn
<1> QED
  BY <1>2 DEF FreeFds

\* A step of remote_open that opens descriptors which were free disturbs no
\* remote that has its files already.
LEMMA Undisturbed ==
  ASSUME OneOwner(Hands, file), NEW r, HasFile(r), r.kfd # NoFd,
         \A f \in Fds : file[f] # NoFile => file'[f] = file[f]
  PROVE  r.kfd \in Fds /\ file'[r.kfd] = file[r.kfd]
<1>1. r.kfd \in Fds /\ file[r.kfd].type # "closed"
  BY DEF HasFile
<1>2. file[r.kfd] # NoFile
  BY <1>1 DEF NoFile
<1> QED
  BY <1>1, <1>2

\* A remote is complete as long as no file of the arrays is closed.
LEMMA StayComplete ==
  ASSUME OneOwner(Hands, file), AllComplete, UNCHANGED <<remotes, fresh>>,
         \A f \in Fds : file[f] # NoFile => file'[f] = file[f]
  PROVE  /\ \A j \in 1..Len(remotes') : Complete(remotes[j])'
         /\ \A n \in 1..Len(fresh') : Complete(fresh[n])'
<1> DEFINE Done(r) == r.kfd # NoFd => /\ r.ku # NoFd /\ r.mu # NoFd
                                      /\ file'[r.kfd].path = r.kpath
<1>1. ASSUME NEW r, HasFile(r), Complete(r) PROVE Done(r)
  BY <1>1, Undisturbed DEF Complete
<1> HIDE DEF Done
<1>2. \A j \in 1..Len(remotes) : Done(remotes[j])
  BY <1>1, KeyboardFile DEF AllComplete
<1>3. \A n \in 1..Len(fresh) : Done(fresh[n])
  BY <1>1, KeyboardFile DEF AllComplete
<1> QED
  BY <1>2, <1>3 DEF Done, Complete

\* The outputs take descriptors that were free.
LEMMA OpenOutputsKeeps ==
  ASSUME IInv, OpenOutputs
  PROVE  IInv'
<1> USE DEF IInv
<1> DEFINE k == Lowest(FreeFds)
           m == Lowest(FreeFds \ {k})
           w == Head(todo)
<1>1. /\ pc = "build" /\ todo # << >> /\ pc' = "keyboard"
      /\ file' = [file EXCEPT ![k] = Uinput, ![m] = Uinput]
      /\ cur' = [w EXCEPT !.ku = k, !.mu = m]
      /\ UNCHANGED <<node, grab, readable, remotes, fresh, todo, ready, due, moves, faults>>
  BY DEF OpenOutputs
<1>2. k \in Fds /\ m \in Fds /\ k # m /\ file[k] = NoFile /\ file[m] = NoFile
  <2>1. FreeFds # {} /\ FreeFds \ {k} # {}
    BY DEF OpenOutputs
  <2> QED
    BY <2>1, FreeFacts
<1> HIDE DEF k, m
<1>3. k # NoFd /\ m # NoFd /\ file \in [Fds -> Files] /\ Uinput \in Files
      /\ Uinput.type = "uinput"
  BY <1>2, DevicesAssumption DEF NoFd, Types, Uinput, NoFile, Files, MaybePath
<1>4. w \in Rem /\ Fresh(w) /\ cur = Blank /\ Idle(Blank)
  <2>1. todo \in Seq(Rem) /\ cur = Blank
    BY <1>1 DEF Types, Phases
  <2>2. Idle(Blank)
    BY DEF Idle, Blank, Slots
  <2> QED
    BY <1>1, <2>1, <2>2, TailFacts DEF TodoFresh
<1> HIDE DEF w
<1>5. /\ cur' \in Rem /\ cur'.ku = k /\ cur'.mu = m /\ cur'.kfd = NoFd /\ cur'.ifd = NoFd
      /\ cur'.kpath = w.kpath
  BY <1>1, <1>2, <1>4 DEF Rem, Fresh, Slots, MaybeFd
<1>6. /\ file' \in [Fds -> Files] /\ file'[k] = Uinput /\ file'[m] = Uinput
      /\ \A f \in Fds : f # k /\ f # m => file'[f] = file[f]
  BY <1>1, <1>2, <1>3
<1>7. \A f \in Fds : file[f] # NoFile => file'[f] = file[f]
  BY <1>2, <1>6
<1>8. Types' /\ Phases' /\ TodoFresh' /\ KeyboardsOnce'
  <2>1. Types'
    BY <1>1, <1>5, <1>6 DEF Types
  <2>2. Phases'
    BY <1>1, <1>3, <1>5 DEF Phases, w
  <2>3. TodoFresh' /\ KeyboardsOnce'
    BY <1>1 DEF TodoFresh, Fresh, KeyboardsOnce, Parted, Once
  <2> QED
    BY <2>1, <2>2, <2>3
<1>9. KernelOK'
  BY <1>1, <1>3, <1>6 DEF KernelOK
<1>10. AllComplete'
  <2>1. /\ \A j \in 1..Len(remotes') : Complete(remotes[j])'
        /\ \A n \in 1..Len(fresh') : Complete(fresh[n])'
    BY <1>1, <1>7, StayComplete
  <2>2. Complete(cur)'
    BY <1>5 DEF Complete
  <2> QED
    BY <2>1, <2>2 DEF AllComplete
<1>11. OneOwner(Hands, file)' /\ GrabsHeld(Hands, grab)'
  <2> DEFINE c1 == [w EXCEPT !.ku = k]
             H == Hands
             H1 == HandsOf(remotes, fresh, c1)
             H2 == HandsOf(remotes, fresh, cur')
             x == <<"cur", 0>>
             F1 == [file EXCEPT ![k] = Uinput]
  <2>1. H2 = Hands'
    BY <1>1 DEF Hands
  <2>2. /\ DOMAIN H1 = DOMAIN H /\ x \in DOMAIN H /\ H[x] = cur /\ H1[x] = c1
        /\ \A y \in DOMAIN H : y # x => H1[y] = H[y]
    BY OnlyCur DEF Hands
  <2>3. /\ DOMAIN H2 = DOMAIN H1 /\ x \in DOMAIN H1 /\ H2[x] = cur'
        /\ \A y \in DOMAIN H1 : y # x => H2[y] = H1[y]
    BY OnlyCur
  <2>4. c1["ku"] = k /\ c1["mu"] = NoFd /\ \A t \in Slots : t # "ku" => c1[t] = NoFd
    BY <1>4 DEF Rem, Fresh, Slots
  <2>5. cur'["mu"] = m /\ \A t \in Slots : t # "mu" => cur'[t] = c1[t]
    BY <1>1, <1>4 DEF Rem, Slots
  <2>6. /\ OneOwner(H, file) /\ GrabsHeld(H, grab)
        /\ "ku" \in Slots /\ "mu" \in Slots
        /\ Uinput.type \in KindsOf("ku") /\ Uinput.type \in KindsOf("mu")
    BY <1>3 DEF Slots, KindsOf
  <2>7. F1 \in [Fds -> Files] /\ F1[m] = NoFile /\ file' = [F1 EXCEPT ![m] = Uinput]
    BY <1>1, <1>2, <1>3
  <2> HIDE DEF H, H1, H2, x, c1
  <2>8. MayGrab(grab, grab, "ku", k) /\ MayGrab(grab, grab, "mu", m)
    BY DEF MayGrab
  <2>9. Adds(H, H1, x, "ku", k)
    BY <1>4, <2>2, <2>4, <2>6 DEF Adds, Idle
  <2>10. Adds(H1, H2, x, "mu", m)
    BY <2>2, <2>3, <2>4, <2>5, <2>6 DEF Adds
  <2>11. OneOwner(H1, F1) /\ GrabsHeld(H1, grab)
    BY <1>2, <1>3, <2>6, <2>9, <2>8, OpenSlot
  <2> HIDE DEF F1
  <2>12. OneOwner(H2, [F1 EXCEPT ![m] = Uinput]) /\ GrabsHeld(H2, grab)
    BY <1>2, <2>6, <2>7, <2>10, <2>11, <2>8, OpenSlot
  <2> QED
    BY <1>1, <2>1, <2>7, <2>12
<1>12. WorkGoesOn'
  <2> SUFFICES ASSUME faults = 0, NEW j \in 1..Len(remotes), Live(remotes[j].kfd)',
                      file'[remotes[j].kfd].dev \in KeyboardInputs
               PROVE  StillTodo(remotes[j])' \/ Reopened(remotes[j])'
    BY <1>1 DEF WorkGoesOn, KeyboardInputs
  <2>1. Live(remotes[j].kfd) /\ file[remotes[j].kfd].dev \in KeyboardInputs
    BY <1>1, <1>7, KeyboardFile, Undisturbed DEF Live
  <2>2. CASE StillTodo(remotes[j])
    BY <1>1, <2>2 DEF StillTodo
  <2>3. CASE Reopened(remotes[j])
    <3>1. PICK n \in 1..Len(fresh) : fresh[n].kpath = remotes[j].kpath /\ Live(fresh[n].kfd)
      BY <2>3 DEF Reopened
    <3>2. Live(fresh[n].kfd)'
      BY <1>1, <1>7, <3>1, KeyboardFile, Undisturbed DEF Live
    <3> QED
      BY <1>1, <3>1, <3>2 DEF Reopened
  <2> QED
    BY <1>1, <2>1, <2>2, <2>3 DEF WorkGoesOn
<1> QED
  BY <1>8, <1>9, <1>10, <1>11, <1>12

\* The keyboard takes a free descriptor and the grab.
LEMMA OpenKeyboardKeeps ==
  ASSUME IInv, OpenKeyboard
  PROVE  IInv'
<1> USE DEF IInv
<1> DEFINE f == Lowest(FreeFds)
           kp == cur.kpath
           new == [type |-> "evdev", path |-> kp, dev |-> node[kp]]
<1>1. /\ pc = "keyboard" /\ node[kp] # NoInput /\ pc' = "imu"
      /\ file' = [file EXCEPT ![f] = new]
      /\ grab' = IF grab[kp] = NoFd THEN [grab EXCEPT ![kp] = f] ELSE grab
      /\ cur' = [cur EXCEPT !.kfd = f]
      /\ UNCHANGED <<node, readable, remotes, fresh, todo, ready, due, moves, faults>>
  BY DEF OpenKeyboard, Evdev
<1>2. f \in Fds /\ file[f] = NoFile /\ f # NoFd
  <2>1. FreeFds # {}
    BY DEF OpenKeyboard
  <2> QED
    BY <2>1, FreeFacts, DevicesAssumption DEF NoFd
<1> HIDE DEF f
<1>3. /\ cur \in Rem /\ todo \in Seq(Rem) /\ todo # << >> /\ kp = Head(todo).kpath
      /\ cur.kfd = NoFd /\ cur.ifd = NoFd /\ cur.ku # NoFd /\ cur.mu # NoFd
      /\ file \in [Fds -> Files] /\ grab \in [Paths -> MaybeFd]
  BY <1>1 DEF Types, Phases
<1>4. kp \in Paths /\ new \in Files /\ node[kp] \in Inputs
  <2>1. kp \in Paths
    BY <1>3, TailFacts DEF TodoFresh, Fresh
  <2> HIDE DEF kp
  <2> QED
    BY <1>1, <2>1 DEF Types, Files, MaybePath
<1>5. /\ cur' \in Rem /\ cur'.kfd = f /\ cur'.ifd = NoFd /\ cur'.ku # NoFd
      /\ cur'.mu # NoFd /\ cur'.kpath = kp
  BY <1>1, <1>2, <1>3 DEF Rem, MaybeFd
<1>6. /\ file' \in [Fds -> Files] /\ file'[f] = new
      /\ \A g \in Fds : g # f => file'[g] = file[g]
      /\ new.type = "evdev" /\ new.path = kp /\ new.dev = node[kp]
  BY <1>1, <1>2, <1>3, <1>4
<1>7. /\ \A g \in Fds : file[g] # NoFile => file'[g] = file[g]
      /\ \A p \in Paths : grab'[p] = grab[p] \/ grab'[p] = f
      /\ grab' \in [Paths -> MaybeFd]
  BY <1>1, <1>2, <1>3, <1>4, <1>6 DEF MaybeFd
<1> HIDE DEF new, kp
<1>8. Types' /\ Phases' /\ TodoFresh' /\ KeyboardsOnce'
  <2>1. Types'
    BY <1>1, <1>5, <1>6, <1>7 DEF Types
  <2>2. Phases'
    BY <1>1, <1>2, <1>3, <1>5 DEF Phases
  <2>3. TodoFresh' /\ KeyboardsOnce'
    BY <1>1 DEF TodoFresh, Fresh, KeyboardsOnce, Parted, Once
  <2> QED
    BY <2>1, <2>2, <2>3
<1>9. KernelOK'
  BY <1>1, <1>4, <1>6 DEF KernelOK
<1>10. AllComplete'
  <2>1. /\ \A j \in 1..Len(remotes') : Complete(remotes[j])'
        /\ \A n \in 1..Len(fresh') : Complete(fresh[n])'
    BY <1>1, <1>7, StayComplete
  <2>2. Complete(cur)'
    BY <1>5, <1>6 DEF Complete
  <2> QED
    BY <2>1, <2>2 DEF AllComplete
<1>11. OneOwner(Hands, file)' /\ GrabsHeld(Hands, grab)'
  <2> DEFINE H == Hands
             H2 == HandsOf(remotes, fresh, cur')
             x == <<"cur", 0>>
  <2>1. H2 = Hands'
    BY <1>1 DEF Hands
  <2>2. /\ DOMAIN H2 = DOMAIN H /\ x \in DOMAIN H /\ H[x] = cur /\ H2[x] = cur'
        /\ \A y \in DOMAIN H : y # x => H2[y] = H[y]
    BY OnlyCur DEF Hands
  <2>3. /\ cur["kfd"] = NoFd /\ cur'["kfd"] = f
        /\ \A t \in Slots : t # "kfd" => cur'[t] = cur[t]
    BY <1>1, <1>3 DEF Rem, Slots
  <2>4. OneOwner(H, file) /\ GrabsHeld(H, grab) /\ "kfd" \in Slots /\ new.type \in KindsOf("kfd")
    BY <1>6 DEF Slots, KindsOf
  <2> HIDE DEF H, H2, x
  <2>5. Adds(H, H2, x, "kfd", f)
    BY <2>2, <2>3, <2>4 DEF Adds
  <2>6. MayGrab(grab, grab', "kfd", f)
    BY <1>7 DEF MayGrab
  <2>7. OneOwner(H2, [file EXCEPT ![f] = new]) /\ GrabsHeld(H2, grab')
    BY <1>2, <1>3, <2>4, <2>5, <2>6, OpenSlot
  <2> QED
    BY <1>1, <2>1, <2>7
<1>12. WorkGoesOn'
  <2> SUFFICES ASSUME faults = 0, NEW j \in 1..Len(remotes), Live(remotes[j].kfd)',
                      file'[remotes[j].kfd].dev \in KeyboardInputs
               PROVE  StillTodo(remotes[j])' \/ Reopened(remotes[j])'
    BY <1>1 DEF WorkGoesOn, KeyboardInputs
  <2>1. Live(remotes[j].kfd) /\ file[remotes[j].kfd].dev \in KeyboardInputs
    BY <1>1, <1>7, KeyboardFile, Undisturbed DEF Live
  <2>2. Live(cur.kfd)'
    BY <1>2, <1>5, <1>6 DEF Live
  <2>3. CASE StillTodo(remotes[j])
    BY <1>1, <2>2, <2>3 DEF StillTodo
  <2>4. CASE Reopened(remotes[j])
    <3>1. PICK n \in 1..Len(fresh) : fresh[n].kpath = remotes[j].kpath /\ Live(fresh[n].kfd)
      BY <2>4 DEF Reopened
    <3>2. Live(fresh[n].kfd)'
      BY <1>1, <1>7, <3>1, KeyboardFile, Undisturbed DEF Live
    <3> QED
      BY <1>1, <3>1, <3>2 DEF Reopened
  <2> QED
    BY <1>1, <2>1, <2>3, <2>4 DEF WorkGoesOn
<1> QED
  BY <1>8, <1>9, <1>10, <1>11, <1>12

\* remote_open returns: the remote joins the new array with its files.
LEMMA Handover ==
  ASSUME NEW r, NEW q \in Seq(Rem), NEW c \in Rem, NEW F, NEW G,
         OneOwner(HandsOf(r, q, c), F), GrabsHeld(HandsOf(r, q, c), G)
  PROVE  OneOwner(HandsOf(r, Append(q, c), Blank), Shut(F, {}))
         /\ GrabsHeld(HandsOf(r, Append(q, c), Blank), Ungrab(G, {}))
<1> DEFINE H == HandsOf(r, q, c)
           q2 == Append(q, c)
           H2 == HandsOf(r, q2, Blank)
           k == Len(q) + 1
           z == <<"new", k>>
           x == <<"cur", 0>>
           phi == [y \in DOMAIN H2 |-> IF y = z THEN x ELSE y]
<1>1. Behind(H, r, q, c) /\ Behind(H2, r, q2, Blank) /\ Idle(Blank)
  BY HandsBehind DEF Idle, Blank, Slots
<1>2. /\ q2[k] = c /\ k \in 1..Len(q2)
      /\ \A n \in 1..Len(q) : n \in 1..Len(q2) /\ q2[n] = q[n] /\ n # k
      /\ \A n \in 1..Len(q2) : n \in 1..Len(q) \/ n = k
  BY AppendFacts
<1> HIDE DEF H, H2, q2, k
<1>3. /\ z \in DOMAIN H2 /\ H2[z] = c /\ x \in DOMAIN H /\ H[x] = c /\ z # x
      /\ x \in DOMAIN H2 /\ Idle(H2[x])
  BY <1>1, <1>2 DEF Behind
<1>4. ASSUME NEW y \in DOMAIN H2, y # z, y # x PROVE y \in DOMAIN H /\ H2[y] = H[y]
  <2>1. CASE \E n \in 1..Len(q2) : y = <<"new", n>>
    <3>1. PICK n \in 1..Len(q2) : y = <<"new", n>>
      BY <2>1
    <3>2. n \in 1..Len(q) /\ q2[n] = q[n]
      BY <1>2, <1>4, <3>1
    <3> QED
      BY <1>1, <3>1, <3>2 DEF Behind
  <2>2. CASE ~\E n \in 1..Len(q2) : y = <<"new", n>>
    BY <1>1, <1>4, <2>2 DEF Behind
  <2> QED
    BY <2>1, <2>2
<1>5. ASSUME NEW y \in DOMAIN H, y # x PROVE y \in DOMAIN H2 /\ y # z /\ H2[y] = H[y]
  <2>1. y \in DOMAIN H2 /\ y # z
    <3>1. CASE \E n \in 1..Len(q) : y = <<"new", n>>
      BY <1>1, <1>2, <3>1 DEF Behind
    <3>2. CASE ~\E n \in 1..Len(q) : y = <<"new", n>>
      BY <1>1, <1>5, <3>2 DEF Behind
    <3> QED
      BY <3>1, <3>2
  <2> QED
    BY <1>4, <1>5, <2>1
<1> HIDE DEF z, x
<1>6. phi \in [DOMAIN H2 -> DOMAIN H] /\ phi[z] = x
      /\ \A y \in DOMAIN H2 : y # z => phi[y] = y
  <2>1. \A y \in DOMAIN H2 : (IF y = z THEN x ELSE y) \in DOMAIN H
    BY <1>3, <1>4
  <2> QED
    BY <1>3, <2>1
<1> HIDE DEF phi
<1>7. \A y \in DOMAIN H2 : Idle(H2[y]) \/ H2[y] = H[phi[y]]
  BY <1>3, <1>4, <1>6
<1>8. \A y, u \in DOMAIN H2 : phi[y] = phi[u] => y = u \/ Idle(H2[y]) \/ Idle(H2[u])
  BY <1>3, <1>6
<1>9. \A y \in DOMAIN H : \E u \in DOMAIN H2 : phi[u] = y /\ H2[u] = H[y]
  BY <1>3, <1>5, <1>6
<1>10. Renames(H, H2, phi, {})
  BY <1>6, <1>7, <1>8, <1>9 DEF Renames, Idle
<1> QED
  BY <1>10, Regroup DEF H, H2, q2

\* Paths and identities do not matter for who holds what.
LEMMA SameSlots ==
  ASSUME NEW r, NEW q, NEW c, NEW e, NEW F, NEW G,
         OneOwner(HandsOf(r, q, c), F), GrabsHeld(HandsOf(r, q, c), G),
         \A s \in Slots : e[s] = c[s]
  PROVE  OneOwner(HandsOf(r, q, e), F) /\ GrabsHeld(HandsOf(r, q, e), G)
<1> DEFINE H == HandsOf(r, q, c)
           H2 == HandsOf(r, q, e)
<1>1. /\ DOMAIN H2 = DOMAIN H
      /\ \A x \in DOMAIN H, s \in Slots : H2[x][s] = H[x][s]
  BY OnlyCur
<1>2. "kfd" \in Slots
  BY DEF Slots
<1> HIDE DEF H, H2
<1>3. OneOwner(H2, F)
  BY <1>1 DEF OneOwner, H
<1>4. GrabsHeld(H2, G)
  BY <1>1, <1>2 DEF GrabsHeld, H
<1> QED
  BY <1>3, <1>4 DEF H2

\* The IMU takes a free descriptor, or the remote goes without; it is complete.
LEMMA OpenImuKeeps ==
  ASSUME IInv, OpenImu
  PROVE  IInv'
<1> USE DEF IInv
<1> DEFINE ip == cur.ipath
           there == ip # NoPath /\ node[ip] # NoInput
           f == Lowest(FreeFds)
           done == IF there THEN [cur EXCEPT !.ifd = f] ELSE [cur EXCEPT !.ipath = NoPath]
           new == [type |-> "evdev", path |-> ip, dev |-> node[ip]]
<1>1. /\ pc = "imu" /\ pc' = "build" /\ (there => FreeFds # {})
      /\ file' = IF there THEN [file EXCEPT ![f] = new] ELSE file
      /\ fresh' = Append(fresh, done) /\ cur' = Blank /\ todo' = Tail(todo)
      /\ UNCHANGED <<node, grab, readable, remotes, ready, due, moves, faults>>
  BY DEF OpenImu, Evdev
<1>2. there => f \in Fds /\ file[f] = NoFile /\ f # NoFd
  BY <1>1, FreeFacts, DevicesAssumption DEF NoFd
<1> HIDE DEF f
<1>3. /\ cur \in Rem /\ todo \in Seq(Rem) /\ fresh \in Seq(Rem) /\ todo # << >>
      /\ cur.kpath = Head(todo).kpath /\ cur.ifd = NoFd /\ cur.kfd # NoFd
      /\ file \in [Fds -> Files] /\ node \in [Paths -> Inputs \union {NoInput}]
      /\ Complete(cur)
  BY <1>1 DEF Types, Phases, AllComplete
<1>4. ip \in MaybePath /\ (there => ip \in Paths)
  BY <1>3 DEF Rem, MaybePath
<1>5. there => new \in Files /\ new.type = "evdev" /\ new.path = ip /\ new.dev = node[ip]
  BY <1>3, <1>4 DEF Files, MaybePath
<1>6. /\ file' \in [Fds -> Files]
      /\ \A g \in Fds : file[g] # NoFile => file'[g] = file[g]
      /\ \A g \in Fds : there /\ g = f => file'[g] = new
      /\ \A g \in Fds : ~(there /\ g = f) => file'[g] = file[g]
  <2>1. CASE there
    BY <1>1, <1>2, <1>3, <1>5, <2>1
  <2>2. CASE ~there
    BY <1>1, <1>3, <2>2
  <2> QED
    BY <2>1, <2>2
<1>7. /\ done \in Rem /\ done.kpath = cur.kpath /\ done.kfd = cur.kfd
      /\ done.ku = cur.ku /\ done.mu = cur.mu
      /\ (there => \A s \in Slots : done[s] = IF s = "ifd" THEN f ELSE cur[s])
      /\ (~there => \A s \in Slots : done[s] = cur[s])
  <2>1. CASE there
    BY <1>2, <1>3, <2>1 DEF Rem, Slots, MaybeFd
  <2>2. CASE ~there
    BY <1>3, <2>2 DEF Rem, Slots, MaybePath
  <2> QED
    BY <2>1, <2>2
<1> HIDE DEF done, new
<1>8. /\ fresh' \in Seq(Rem) /\ Parted(fresh', todo') /\ todo' \in Seq(Rem)
      /\ \A n \in 1..Len(todo') : Fresh(todo'[n])
  BY <1>1, <1>3, <1>7, AppendFacts, TailFacts, PartedTail, PartedAppend
     DEF KeyboardsOnce, TodoFresh
<1>9. /\ fresh'[Len(fresh) + 1] = done /\ Len(fresh) + 1 \in 1..Len(fresh')
      /\ \A n \in 1..Len(fresh) : n \in 1..Len(fresh') /\ fresh'[n] = fresh[n]
      /\ \A n \in 1..Len(fresh') : n \in 1..Len(fresh) \/ n = Len(fresh) + 1
  BY <1>1, <1>3, <1>7, AppendFacts
<1>10. Blank \in Rem /\ Blank.kfd = NoFd
  BY DEF Blank, Rem, MaybeFd, MaybePath, Ids
<1>11. Types' /\ Phases' /\ TodoFresh' /\ KeyboardsOnce'
  <2>1. Types'
    BY <1>1, <1>6, <1>8, <1>10 DEF Types
  <2>2. Phases' /\ TodoFresh'
    BY <1>1, <1>8 DEF Phases, TodoFresh, Fresh
  <2>3. KeyboardsOnce'
    BY <1>1, <1>8 DEF KeyboardsOnce, Parted, Once
  <2> QED
    BY <2>1, <2>2, <2>3
<1>12. KernelOK'
  BY <1>1, <1>2, <1>4, <1>5, <1>6 DEF KernelOK
<1> DEFINE Kept(r) == r.kfd # NoFd => r.kfd \in Fds /\ file'[r.kfd] = file[r.kfd]
<1>13. /\ \A j \in 1..Len(remotes) : Kept(remotes[j])
       /\ \A n \in 1..Len(fresh) : Kept(fresh[n])
       /\ Kept(cur)
  <2>1. ASSUME NEW r, HasFile(r) PROVE Kept(r)
    BY <1>6, <2>1, Undisturbed
  <2> HIDE DEF Kept
  <2> QED
    BY <2>1, KeyboardFile
<1>14. AllComplete'
  <2>1. \A j \in 1..Len(remotes') : Complete(remotes[j])'
    BY <1>1, <1>13 DEF AllComplete, Complete
  <2>2. \A n \in 1..Len(fresh') : Complete(fresh[n])'
    <3> TAKE n \in 1..Len(fresh')
    <3>1. CASE n \in 1..Len(fresh)
      BY <1>9, <1>13, <3>1 DEF AllComplete, Complete
    <3>2. CASE n = Len(fresh) + 1
      BY <1>3, <1>7, <1>9, <1>13, <3>2 DEF Complete
    <3> QED
      BY <1>9, <3>1, <3>2
  <2>3. Complete(cur)'
    BY <1>1, <1>10 DEF Complete
  <2> QED
    BY <2>1, <2>2, <2>3 DEF AllComplete
<1>15. OneOwner(Hands, file)' /\ GrabsHeld(Hands, grab)'
  <2> DEFINE H1 == HandsOf(remotes, fresh, done)
  <2>1. OneOwner(HandsOf(remotes, fresh, cur), file) /\ GrabsHeld(HandsOf(remotes, fresh, cur), grab)
    BY DEF Hands
  <2>2. OneOwner(H1, file') /\ GrabsHeld(H1, grab)
    <3>1. CASE ~there
      BY <1>1, <1>7, <2>1, <3>1, SameSlots
    <3>2. CASE there
      <4> DEFINE H == HandsOf(remotes, fresh, cur)
                 x == <<"cur", 0>>
      <4>1. /\ DOMAIN H1 = DOMAIN H /\ x \in DOMAIN H /\ H[x] = cur /\ H1[x] = done
            /\ \A y \in DOMAIN H : y # x => H1[y] = H[y]
        BY OnlyCur
      <4>2. "ifd" \in Slots /\ new.type \in KindsOf("ifd") /\ cur["ifd"] = NoFd
            /\ done["ifd"] = f /\ \A s \in Slots : s # "ifd" => done[s] = cur[s]
        BY <1>3, <1>5, <1>7, <3>2 DEF Slots, KindsOf
      <4>3. MayGrab(grab, grab, "ifd", f)
        BY DEF MayGrab
      <4> HIDE DEF H, H1, x
      <4>4. Adds(H, H1, x, "ifd", f)
        BY <4>1, <4>2 DEF Adds
      <4>5. OneOwner(H1, [file EXCEPT ![f] = new]) /\ GrabsHeld(H1, grab)
        BY <1>2, <1>3, <2>1, <3>2, <4>2, <4>3, <4>4, OpenSlot DEF H
      <4> QED
        BY <1>1, <3>2, <4>5
    <3> QED
      BY <3>1, <3>2
  <2>3. Hands' = HandsOf(remotes, Append(fresh, done), Blank)
    BY <1>1 DEF Hands
  <2>4. Shut(file', {}) = file' /\ Ungrab(grab, {}) = grab /\ grab' = grab
    BY <1>1, <1>6 DEF Shut, Ungrab, Types
  <2>5. /\ OneOwner(HandsOf(remotes, Append(fresh, done), Blank), Shut(file', {}))
        /\ GrabsHeld(HandsOf(remotes, Append(fresh, done), Blank), Ungrab(grab, {}))
    BY <1>3, <1>7, <2>2, Handover
  <2> QED
    BY <2>3, <2>4, <2>5
<1>16. WorkGoesOn'
  <2> SUFFICES ASSUME faults = 0, NEW j \in 1..Len(remotes), Live(remotes[j].kfd)',
                      file'[remotes[j].kfd].dev \in KeyboardInputs
               PROVE  StillTodo(remotes[j])' \/ Reopened(remotes[j])'
    BY <1>1 DEF WorkGoesOn, KeyboardInputs
  <2>1. Live(remotes[j].kfd) /\ file[remotes[j].kfd].dev \in KeyboardInputs
    BY <1>1, <1>13 DEF Live
  <2>2. CASE StillTodo(remotes[j])
    <3>1. PICK n \in 1..Len(todo) : /\ todo[n].kpath = remotes[j].kpath
                                    /\ n = 1 => Live(cur.kfd)
      BY <1>1, <2>2 DEF StillTodo
    <3>2. CASE n = 1
      <4>1. done.kpath = remotes[j].kpath
        BY <1>3, <1>7, <3>1, <3>2, TailFacts
      <4>2. Live(cur.kfd) /\ file'[done.kfd].type = "evdev" /\ done.kfd # NoFd
        BY <1>7, <1>13, <3>1, <3>2 DEF Live
      <4> QED
        BY <1>1, <1>9, <4>1, <4>2 DEF Reopened, Live
    <3>3. CASE n # 1
      <4>1. n - 1 \in 1..Len(todo') /\ todo'[n - 1] = todo[n]
        BY <1>1, <1>3, <3>3, TailFacts
      <4> QED
        BY <1>1, <3>1, <4>1 DEF StillTodo
    <3> QED
      BY <3>2, <3>3
  <2>3. CASE Reopened(remotes[j])
    <3>1. PICK n \in 1..Len(fresh) : fresh[n].kpath = remotes[j].kpath /\ Live(fresh[n].kfd)
      BY <2>3 DEF Reopened
    <3>2. fresh'[n] = fresh[n] /\ n \in 1..Len(fresh') /\ file'[fresh[n].kfd] = file[fresh[n].kfd]
      BY <1>9, <1>13, <3>1 DEF Live
    <3> QED
      BY <1>1, <3>1, <3>2 DEF Reopened, Live
  <2> QED
    BY <1>1, <2>1, <2>2, <2>3 DEF WorkGoesOn
<1> QED
  BY <1>11, <1>12, <1>14, <1>15, <1>16
-----------------------------------------------------------------------------
(***************************************************************************)
(* The theorems.                                                           *)
(***************************************************************************)

\* The daemon starts with nothing open.
LEMMA InitKeeps == Init => IInv
<1> SUFFICES ASSUME Init PROVE IInv
  OBVIOUS
<1>1. Blank \in Rem /\ Idle(Blank) /\ Blank.kfd = NoFd /\ << >> \in Seq(Rem)
  BY DEF Blank, Rem, Idle, Slots, MaybeFd, MaybePath, Ids
<1>2. NoFile \in Files /\ NoFile.type = "closed"
  BY DEF NoFile, Files, MaybePath
<1>3. Types /\ Phases /\ KernelOK
  BY <1>1, <1>2 DEF Init, Types, Phases, KernelOK, MaybeFd
<1>4. \A n : n \notin 1..Len(todo) /\ n \notin 1..Len(fresh) /\ n \notin 1..Len(remotes)
  <2>1. Len(<< >>) = 0 /\ \A n : n \notin 1..0
    OBVIOUS
  <2> QED
    BY <2>1, Zenon DEF Init
<1>5. TodoFresh /\ KeyboardsOnce /\ WorkGoesOn
  BY <1>4 DEF Init, TodoFresh, KeyboardsOnce, Parted, Once, WorkGoesOn
<1>6. AllComplete
  BY <1>1, <1>4 DEF Init, AllComplete, Complete
<1>7. \A x \in DOMAIN Hands, s \in Slots : Hands[x][s] = NoFd
  <2>1. Behind(Hands, remotes, fresh, cur)
    BY HandsBehind DEF Hands
  <2> QED
    BY <1>1, <1>4, <2>1 DEF Init, Behind, Idle
<1>8. OneOwner(Hands, file) /\ GrabsHeld(Hands, grab)
  BY <1>7 DEF Init, OneOwner, GrabsHeld
<1> QED
  BY <1>3, <1>5, <1>6, <1>8 DEF IInv

\* A step of nobody.
LEMMA StutterKeeps == IInv /\ UNCHANGED vars => IInv'
<1> SUFFICES ASSUME IInv, UNCHANGED vars PROVE IInv'
  OBVIOUS
<1> USE DEF IInv, vars, kernel, daemon
<1>1. Types' /\ TodoFresh' /\ KernelOK' /\ Phases'
  BY DEF Types, TodoFresh, Fresh, KernelOK, Phases
<1>2. KeyboardsOnce'
  BY DEF KeyboardsOnce, Parted, Once
<1>3. Hands' = Hands
  BY DEF Hands
<1>4. OneOwner(Hands, file)' /\ GrabsHeld(Hands, grab)'
  BY <1>3
<1>5. AllComplete'
  BY DEF AllComplete, Complete
<1>6. WorkGoesOn'
  BY DEF WorkGoesOn, StillTodo, Reopened, Live
<1> QED
  BY <1>1, <1>2, <1>4, <1>5, <1>6

\* The fallback falls due.
LEMMA FallbackDueKeeps ==
  ASSUME IInv, FallbackDue
  PROVE  IInv'
<1>1. Looks
  BY DEF FallbackDue, Looks, kernel, IInv, Types, Phases
<1> QED
  BY <1>1, LooksKeeps

\* Every step keeps the invariant: one case per action.
LEMMA NextKeeps == IInv /\ Stale /\ [Next]_vars => IInv'
<1> SUFFICES ASSUME IInv, Stale, [Next]_vars PROVE IInv'
  OBVIOUS
<1>1. CASE UNCHANGED vars
  BY <1>1, StutterKeeps
<1>2. CASE Environment
  BY <1>2, PlugKeeps, UnplugKeeps, FrameKeeps DEF Environment
<1>3. CASE StartRescan
  BY <1>3, StartRescanKeeps
<1>4. CASE Rescan
  BY <1>4, StealKeeps, OpenOutputsKeeps, OutputsFailKeeps, OpenKeyboardKeeps,
     KeyboardFailKeeps, FreeFailedKeeps, OpenImuKeeps, FinishRescanKeeps DEF Rescan
<1>5. CASE Poll \/ FallbackDue
  BY <1>5, PollKeeps, FallbackDueKeeps
<1>6. CASE Dispatch
  BY <1>6, DrainInotifyKeeps, HandleFrameKeeps, HandleLossKeeps, HandleNothingKeeps DEF Dispatch
<1>7. CASE Restart
  BY <1>7, RestartKeeps
<1> QED
  BY <1>1, <1>2, <1>3, <1>4, <1>5, <1>6, <1>7 DEF Next, Process

\* Nothing opens a file between the two closes of a failed remote_open.
LEMMA StaleKeeps == IInv /\ Stale /\ [Next]_vars => Stale'
<1> SUFFICES ASSUME IInv, Stale, [Next]_vars PROVE Stale'
  OBVIOUS
<1>1. Types
  BY DEF IInv
<1>2. ASSUME pc # "failed", stale' = stale, overdue' \in BOOLEAN PROVE Stale'
  BY <1>2 DEF Stale
<1>3. ASSUME stale' = {}, overdue' \in BOOLEAN PROVE Stale'
  BY <1>3 DEF Stale
<1>4. overdue \in BOOLEAN
  BY DEF Stale
<1>5. CASE UNCHANGED vars
  BY <1>5 DEF Stale, vars, kernel, daemon
<1>6. CASE Environment
  <2>1. ASSUME NEW d \in Inputs, NEW p \in Paths, Plug(d, p) PROVE Stale'
    BY <2>1 DEF Plug, daemon, Stale
  <2>2. ASSUME NEW p \in Paths, Unplug(p) PROVE Stale'
    <3>1. /\ UNCHANGED <<stale, overdue, pc>>
          /\ \A f \in Fds : file[f] = NoFile => file'[f] = NoFile
      BY <2>2 DEF Unplug, daemon, NoFile
    <3> QED
      BY <3>1 DEF Stale
  <2>3. CASE Frame
    BY <2>3 DEF Frame, daemon, Stale
  <2> QED
    BY <1>6, <2>1, <2>2, <2>3 DEF Environment
<1>7. CASE FallbackDue
  BY <1>2, <1>7 DEF FallbackDue
<1>8. CASE StartRescan
  BY <1>2, <1>8 DEF StartRescan
<1>9. CASE Rescan
  <2>1. CASE Steal \/ OutputsFail
    BY <1>2, <1>4, <2>1 DEF Steal, OutputsFail
  <2>2. CASE OpenOutputs \/ OpenKeyboard \/ OpenImu
    BY <1>2, <1>4, <2>2 DEF OpenOutputs, OpenKeyboard, OpenImu
  <2>3. CASE FinishRescan
    BY <1>2, <1>4, <2>3 DEF FinishRescan
  <2>4. CASE FreeFailed
    BY <1>3, <1>4, <2>4 DEF FreeFailed
  <2>5. CASE KeyboardFail
    <3>1. stale' = FdsOf(cur) /\ pc' = "failed" /\ UNCHANGED overdue
          /\ \A f \in Fds : f \in FdsOf(cur) => file'[f] = NoFile
      BY <2>5 DEF KeyboardFail, Close
    <3>2. FdsOf(cur) \subseteq Fds
      <4>1. \A s \in Slots : cur[s] \in MaybeFd
        BY <1>1, SlotTypes DEF Types
      <4> QED
        BY <4>1 DEF FdsOf, MaybeFd
    <3> QED
      BY <1>4, <3>1, <3>2 DEF Stale
  <2> QED
    BY <1>9, <2>1, <2>2, <2>3, <2>4, <2>5 DEF Rescan
<1>10. CASE Poll
  BY <1>2, <1>4, <1>10 DEF Poll
<1>11. CASE Dispatch
  <2>1. ASSUME NEW i, Handled(i) PROVE Stale'
    BY <1>2, <1>4, <2>1 DEF Handled
  <2> QED
    BY <1>11, <2>1 DEF Dispatch, DrainInotify, HandleFrame, HandleLoss, HandleNothing
<1>12. CASE Restart
  BY <1>3, <1>12 DEF Restart
<1> QED
  BY <1>5, <1>6, <1>7, <1>8, <1>9, <1>10, <1>11, <1>12 DEF Next, Process

\* What the device side of daemon_main.c, daemon_devices.c holds is
\* accounted for at every step.
THEOREM Invariance == Spec => [](IInv /\ Stale)
<1>1. Init => Stale
  BY DEF Init, Stale
<1> QED
  BY <1>1, InitKeeps, NextKeeps, StaleKeeps, PTL DEF Spec

\* Every variable stays in its domain: the dispatch loop of daemon_main.c
\* runs only over entries poll() reported, and a remote's descriptors are
\* descriptors.
THEOREM TypeCorrect == Spec => []TypeOK
<1>1. IInv /\ Stale => TypeOK
  <2> SUFFICES ASSUME IInv, Stale PROVE TypeOK
    OBVIOUS
  <2>1. Types /\ Phases
    BY DEF IInv
  <2>2. ASSUME NEW x \in Remotes, NEW s \in Slots PROVE RemoteAt(x)[s] \in Fds \union {NoFd}
    <3>1. RemoteAt(x) \in Rem
      <4>1. Behind(Hands, remotes, fresh, cur) /\ x \in DOMAIN Hands /\ RemoteAt(x) = Hands[x]
        BY HandsAreRemotes, HandsBehind DEF Hands
      <4>2. Hands[x] \in Rem
        <5>1. CASE \E j \in 1..Len(remotes) : x = <<"old", j>>
          <6>1. PICK j \in 1..Len(remotes) : x = <<"old", j>>
            BY <5>1
          <6>2. Hands[x] = remotes[j] /\ remotes[j] \in Rem
            BY <2>1, <4>1, <6>1, SMTT(30) DEF Types, Behind
          <6> QED
            BY <6>2
        <5>2. CASE \E n \in 1..Len(fresh) : x = <<"new", n>>
          <6>1. PICK n \in 1..Len(fresh) : x = <<"new", n>>
            BY <5>2
          <6>2. Hands[x] = fresh[n] /\ fresh[n] \in Rem
            BY <2>1, <4>1, <6>1 DEF Types, Behind
          <6> QED
            BY <6>2
        <5>3. CASE x = <<"cur", 0>>
          BY <2>1, <4>1, <5>3 DEF Types, Behind
        <5> QED
          BY <4>1, <5>1, <5>2, <5>3 DEF Behind
      <4> QED
        BY <4>1, <4>2
    <3> QED
      BY <3>1, SlotTypes DEF MaybeFd
  <2> QED
    BY <2>1, <2>2 DEF TypeOK, Types, Phases, Stale, Files, MaybePath, MaybeFd
<1> QED
  BY <1>1, Invariance, PTL

\* The descriptors of daemon_devices.c: through stealing, half-way failures
\* and clean-up of any number of remotes every open file has one owner, and
\* the outputs remote_free closes twice are nobody's the second time.
THEOREM FilesHaveOneOwner == Spec => []FdOwnership
<1>1. IInv /\ Stale => FdOwnership
  <2> SUFFICES ASSUME IInv, Stale PROVE FdOwnership
    OBVIOUS
  <2>1. OneOwner(Hands, file)
    BY DEF IInv
  <2>2. DOMAIN Hands = Remotes /\ \A x \in Remotes : RemoteAt(x) = Hands[x]
    BY HandsAreRemotes
  <2>3. ASSUME NEW o \in Owned
        PROVE  /\ o[1] \in DOMAIN Hands /\ o[2] \in Slots /\ o = <<o[1], o[2]>>
               /\ FdOf(o) = Hands[o[1]][o[2]] /\ FdOf(o) # NoFd
    BY <2>2 DEF Owned, FdOf
  <2>4. ASSUME NEW f \in Fds, file[f] # NoFile
        PROVE  Cardinality({o \in Owned : FdOf(o) = f}) = 1
    <3>1. PICK x \in DOMAIN Hands, s \in Slots : Hands[x][s] = f
      BY <2>1, <2>4 DEF OneOwner
    <3>2. f # NoFd
      BY DevicesAssumption DEF NoFd
    <3> DEFINE w == <<x, s>>
    <3>3. w \in Owned /\ FdOf(w) = f
      BY <2>2, <3>1, <3>2 DEF Owned, FdOf
    <3>4. \A o \in Owned : FdOf(o) = f => o = w
      BY <2>1, <2>3, <3>1, <3>2 DEF OneOwner
    <3> HIDE DEF w
    <3>5. {o \in Owned : FdOf(o) = f} = {w}
      BY <3>3, <3>4
    <3> QED
      BY <3>5, FS_Singleton
  <2>5. ASSUME NEW o \in Owned
        PROVE  IF o[2] \in {"ku", "mu"} THEN file[FdOf(o)].type = "uinput"
               ELSE file[FdOf(o)].type \in {"evdev", "dead"}
    BY <2>1, <2>3 DEF OneOwner, KindsOf
  <2> QED
    BY <2>4, <2>5 DEF FdOwnership, Stale
<1> QED
  BY <1>1, Invariance, PTL

\* remote_open and remote_close of daemon_devices.c: a grabbed keyboard
\* belongs to a remote whose virtual keyboard and mouse exist.
THEOREM GrabsHaveTargets == Spec => []GrabHasTarget
<1>1. IInv => GrabHasTarget
  <2> SUFFICES ASSUME IInv, NEW p \in Paths, grab[p] # NoFd
               PROVE  \E x \in Remotes : /\ RemoteAt(x).kfd = grab[p]
                                         /\ RemoteAt(x).ku # NoFd /\ RemoteAt(x).mu # NoFd
    BY DEF GrabHasTarget
  <2>1. PICK x \in DOMAIN Hands : Hands[x]["kfd"] = grab[p]
    BY DEF IInv, GrabsHeld
  <2>2. Complete(Hands[x])
    BY HandsBehind DEF IInv, AllComplete, Hands, Behind
  <2>3. Hands[x].kfd = grab[p] /\ Hands[x].ku # NoFd /\ Hands[x].mu # NoFd
    BY <2>1, <2>2 DEF Complete
  <2> QED
    BY <2>1, <2>3, HandsAreRemotes
<1> QED
  BY <1>1, Invariance, PTL

\* daemon_devices_rescan: between two rescans no keyboard node is read by two
\* remotes, whatever pairing_match made of the scan.
THEOREM NoDoubleReader == Spec => []OneReader
<1>1. IInv => OneReader
  <2> SUFFICES ASSUME IInv, pc \in {"loop", "dispatch"}, NEW i \in 1..Len(remotes),
                      NEW j \in 1..Len(remotes), remotes[i].kpath = remotes[j].kpath
               PROVE  i = j
    BY DEF OneReader
  <2>1. remotes[i].kpath \in Paths /\ Once(remotes)
    BY DEF IInv, KeyboardsOnce
  <2> QED
    BY <2>1, DevicesAssumption DEF Once
<1> QED
  BY <1>1, Invariance, PTL
-----------------------------------------------------------------------------
\* A remote with a live file on device d.
Holding(r, F, d) == r.kfd # NoFd /\ F[r.kfd].type = "evdev" /\ F[r.kfd].dev = d
HeldBy(r, q, c, F, d) ==
  \/ \E j \in 1..Len(r) : Holding(r[j], F, d)
  \/ \E n \in 1..Len(q) : Holding(q[n], F, d)
  \/ Holding(c, F, d)

ServedHeld == \A d \in Inputs : Served(d) <=> HeldBy(remotes, fresh, cur, file, d)

\* A keyboard is served exactly when some hand holds a file of it.
LEMMA ServedIsHeld == ServedHeld
<1> SUFFICES ASSUME NEW d \in Inputs
             PROVE  Served(d) <=> HeldBy(remotes, fresh, cur, file, d)
  BY DEF ServedHeld
<1>1. Served(d) <=> \E x \in DOMAIN Hands : Holding(Hands[x], file, d)
  BY HandsAreRemotes DEF Served, Holding
<1>2. Behind(Hands, remotes, fresh, cur)
  BY HandsBehind DEF Hands
<1>3. ASSUME NEW x \in DOMAIN Hands, Holding(Hands[x], file, d)
      PROVE  HeldBy(remotes, fresh, cur, file, d)
  <2>1. CASE \E j \in 1..Len(remotes) : x = <<"old", j>>
    BY <1>2, <1>3, <2>1 DEF Behind, HeldBy
  <2>2. CASE \E n \in 1..Len(fresh) : x = <<"new", n>>
    BY <1>2, <1>3, <2>2 DEF Behind, HeldBy
  <2>3. CASE x = <<"cur", 0>>
    BY <1>2, <1>3, <2>3 DEF Behind, HeldBy
  <2> QED
    BY <1>2, <2>1, <2>2, <2>3 DEF Behind
<1>4. HeldBy(remotes, fresh, cur, file, d) => \E x \in DOMAIN Hands : Holding(Hands[x], file, d)
  <2>1. ASSUME NEW j \in 1..Len(remotes), Holding(remotes[j], file, d)
        PROVE  \E x \in DOMAIN Hands : Holding(Hands[x], file, d)
    BY <1>2, <2>1 DEF Behind
  <2>2. ASSUME NEW n \in 1..Len(fresh), Holding(fresh[n], file, d)
        PROVE  \E x \in DOMAIN Hands : Holding(Hands[x], file, d)
    BY <1>2, <2>2 DEF Behind
  <2>3. ASSUME Holding(cur, file, d)
        PROVE  \E x \in DOMAIN Hands : Holding(Hands[x], file, d)
    BY <1>2, <2>3 DEF Behind
  <2> QED
    BY <2>1, <2>2, <2>3 DEF HeldBy
<1> QED
  BY <1>1, <1>3, <1>4

\* What is still held after a close() was not closed.
LEMMA HeldWasKept ==
  ASSUME Types, KernelOK, NEW C, Close(C), node' = node, NEW r, FileOf(r, file'),
         NEW d, Holding(r, file, d)
  PROVE  Holding(r, file', d)
<1>1. r.kfd \in Fds /\ file'[r.kfd] # NoFile
  BY DEF FileOf, Holding, NoFile
<1>2. file'[r.kfd] = file[r.kfd]
  BY <1>1, CloseFacts
<1> QED
  BY <1>2 DEF Holding

\* What is held while descriptors are opened that were free.
LEMMA HeldStays ==
  ASSUME NEW r, FileOf(r, file), NEW d, Holding(r, file, d),
         \A f \in Fds : file[f] # NoFile => file'[f] = file[f]
  PROVE  Holding(r, file', d)
<1>1. r.kfd \in Fds /\ file[r.kfd] # NoFile
  BY DEF FileOf, Holding, NoFile
<1> QED
  BY <1>1 DEF Holding

\* A step keeps d served.
Keeps(d) == HeldBy(remotes, fresh, cur, file, d) /\ (\E p \in Paths : node'[p] = d) /\ faults' = 0
              => HeldBy(remotes', fresh', cur', file', d)

\* A device that leaves takes no other keyboard with it.
LEMMA UnplugServes ==
  ASSUME IInv, NEW p \in Paths, Unplug(p), NEW d \in KeyboardInputs
  PROVE  Keeps(d)
<1> SUFFICES ASSUME HeldBy(remotes, fresh, cur, file, d), NEW q \in Paths, node'[q] = d
             PROVE  HeldBy(remotes', fresh', cur', file', d)
  BY DEF Keeps
<1>1. /\ node' = [node EXCEPT ![p] = NoInput] /\ UNCHANGED <<remotes, fresh, cur>>
      /\ \A f \in Fds : ~(file[f].type = "evdev" /\ file[f].path = p) => file'[f] = file[f]
  BY DEF Unplug, daemon
<1>2. d # NoInput /\ node \in [Paths -> Inputs \union {NoInput}]
  BY DevicesAssumption DEF KeyboardInputs, IInv, Types
<1>3. q # p /\ node[q] = d
  BY <1>1, <1>2
<1>4. ASSUME NEW r, FileOf(r, file), Holding(r, file, d) PROVE Holding(r, file', d)
  <2>1. r.kfd \in Fds
    BY <1>4 DEF FileOf, Holding
  <2>2. file[r.kfd].path # p
    BY <1>2, <1>3, <1>4, <2>1 DEF Holding, IInv, KernelOK
  <2> QED
    BY <1>1, <1>4, <2>1, <2>2 DEF Holding
<1>5. /\ \A j \in 1..Len(remotes) : FileOf(remotes[j], file)
      /\ \A n \in 1..Len(fresh) : FileOf(fresh[n], file)
      /\ FileOf(cur, file)
  BY HeldOpen DEF IInv, Hands
<1> QED
  BY <1>1, <1>4, <1>5 DEF HeldBy

\* A remote that moves is still served.
LEMMA StealServes ==
  ASSUME IInv, Steal, NEW d
  PROVE  Keeps(d)
<1> DEFINE j == Lowest(Unchanged(Head(todo)))
<1>1. /\ fresh' = Append(fresh, remotes[j]) /\ remotes' = [remotes EXCEPT ![j] = Blank]
      /\ UNCHANGED <<file, cur>>
  BY DEF Steal, kernel
<1>2. j \in 1..Len(remotes)
  <2>1. Unchanged(Head(todo)) \subseteq Nat /\ Unchanged(Head(todo)) # {}
    BY DEF Unchanged, Steal
  <2>2. j \in Unchanged(Head(todo))
    BY <2>1, LowestIn
  <2> QED
    BY <2>2 DEF Unchanged
<1> HIDE DEF j
<1>3. remotes \in Seq(Rem) /\ fresh \in Seq(Rem) /\ remotes[j] \in Rem
  BY <1>2 DEF IInv, Types
<1>4. /\ fresh'[Len(fresh) + 1] = remotes[j] /\ Len(fresh) + 1 \in 1..Len(fresh')
      /\ \A n \in 1..Len(fresh) : n \in 1..Len(fresh') /\ fresh'[n] = fresh[n]
  BY <1>1, <1>3, AppendFacts
<1>5. Len(remotes') = Len(remotes) /\ \A i \in 1..Len(remotes) : i # j => remotes'[i] = remotes[i]
  BY <1>1, <1>2, <1>3
<1> QED
  BY <1>1, <1>4, <1>5 DEF Keeps, HeldBy

\* Opening files for another remote leaves the served ones alone.
LEMMA OpenServes ==
  ASSUME IInv, OpenOutputs \/ OpenKeyboard, NEW d
  PROVE  Keeps(d)
<1>1. cur.kfd = NoFd /\ UNCHANGED <<remotes, fresh>>
  BY DEF IInv, Phases, Blank, OpenOutputs, OpenKeyboard
<1>2. \A f \in Fds : file[f] # NoFile => file'[f] = file[f]
  <2>1. Types
    BY DEF IInv
  <2>2. CASE OpenOutputs
    <3> DEFINE k == Lowest(FreeFds)
               m == Lowest(FreeFds \ {k})
    <3>1. FreeFds # {} /\ FreeFds \ {k} # {}
      BY <2>2 DEF OpenOutputs
    <3>2. k \in Fds /\ m \in Fds /\ file[k] = NoFile /\ file[m] = NoFile
      BY <2>1, <3>1, FreeFacts
    <3>3. file' = [file EXCEPT ![k] = Uinput, ![m] = Uinput]
      BY <2>2 DEF OpenOutputs
    <3> HIDE DEF k, m
    <3> QED
      BY <2>1, <3>2, <3>3 DEF Types
  <2>3. CASE OpenKeyboard
    <3> DEFINE k == Lowest(FreeFds)
    <3>1. file[k] = NoFile
      BY <2>1, <2>3, FreeFacts DEF OpenKeyboard
    <3>2. file' = [file EXCEPT ![k] = Evdev(cur.kpath)]
      BY <2>3 DEF OpenKeyboard
    <3> HIDE DEF k
    <3> QED
      BY <2>1, <3>1, <3>2 DEF Types
  <2> QED
    BY <2>2, <2>3
<1>3. /\ \A j \in 1..Len(remotes) : FileOf(remotes[j], file)
      /\ \A n \in 1..Len(fresh) : FileOf(fresh[n], file)
  BY HeldOpen DEF IInv, Hands
<1>4. ~Holding(cur, file, d)
  BY <1>1 DEF Holding
<1>5. /\ \A j \in 1..Len(remotes) : Holding(remotes[j], file, d) => Holding(remotes[j], file', d)
      /\ \A n \in 1..Len(fresh) : Holding(fresh[n], file, d) => Holding(fresh[n], file', d)
  BY <1>2, <1>3, HeldStays
<1> QED
  BY <1>1, <1>4, <1>5 DEF Keeps, HeldBy

\* So does the last step of opening a remote.
LEMMA OpenImuServes ==
  ASSUME IInv, OpenImu, NEW d
  PROVE  Keeps(d)
<1> DEFINE there == cur.ipath # NoPath /\ node[cur.ipath] # NoInput
           f == Lowest(FreeFds)
           done == IF there THEN [cur EXCEPT !.ifd = f] ELSE [cur EXCEPT !.ipath = NoPath]
<1>0. Types
  BY DEF IInv
<1>1. /\ file' = IF there THEN [file EXCEPT ![f] = Evdev(cur.ipath)] ELSE file
      /\ fresh' = Append(fresh, done) /\ UNCHANGED remotes /\ (there => FreeFds # {})
  BY DEF OpenImu
<1>2. there => f \in Fds /\ file[f] = NoFile
  BY <1>0, <1>1, FreeFacts
<1> HIDE DEF f
<1>3. done \in Rem /\ done.kfd = cur.kfd
  BY <1>0, <1>2 DEF Types, Rem, MaybeFd, MaybePath
<1>4. \A g \in Fds : file[g] # NoFile => file'[g] = file[g]
  BY <1>0, <1>1, <1>2 DEF Types
<1> HIDE DEF done
<1>5. /\ fresh'[Len(fresh) + 1] = done /\ Len(fresh) + 1 \in 1..Len(fresh')
      /\ \A n \in 1..Len(fresh) : n \in 1..Len(fresh') /\ fresh'[n] = fresh[n]
  BY <1>0, <1>1, <1>3, AppendFacts DEF Types
<1>6. /\ \A j \in 1..Len(remotes) : FileOf(remotes[j], file)
      /\ \A n \in 1..Len(fresh) : FileOf(fresh[n], file)
      /\ FileOf(cur, file)
  BY HeldOpen DEF IInv, Hands
<1>7. /\ \A j \in 1..Len(remotes) : Holding(remotes[j], file, d) => Holding(remotes[j], file', d)
      /\ \A n \in 1..Len(fresh) : Holding(fresh[n], file, d) => Holding(fresh[n], file', d)
      /\ Holding(cur, file, d) => Holding(cur, file', d)
  BY <1>4, <1>6, HeldStays
<1>8. Holding(cur, file', d) => Holding(done, file', d)
  BY <1>3 DEF Holding
<1> QED
  BY <1>1, <1>5, <1>7, <1>8 DEF Keeps, HeldBy

\* What is closed at the end of a rescan was not plugged in any more, or is open
\* in the new array.
LEMMA CloseServes ==
  ASSUME IInv, IInv', KeyboardFail \/ FinishRescan, NEW d \in KeyboardInputs
  PROVE  Keeps(d)
<1> SUFFICES ASSUME HeldBy(remotes, fresh, cur, file, d), faults' = 0
             PROVE  HeldBy(remotes', fresh', cur', file', d)
  BY DEF Keeps
<1>1. Types /\ KernelOK /\ node' = node /\ \E C : Close(C)
  BY DEF IInv, KeyboardFail, FinishRescan
<1>2. /\ \A j \in 1..Len(remotes') : FileOf(remotes'[j], file')
      /\ \A n \in 1..Len(fresh') : FileOf(fresh'[n], file')
  BY HeldOpen DEF IInv, Hands
<1>3. ASSUME NEW r, FileOf(r, file'), Holding(r, file, d) PROVE Holding(r, file', d)
  BY <1>1, <1>3, HeldWasKept
<1>4. ~Holding(cur, file, d)
  BY DEF IInv, Phases, Blank, KeyboardFail, FinishRescan, Holding
<1>5. CASE KeyboardFail
  <2>1. UNCHANGED <<remotes, fresh>>
    BY <1>5 DEF KeyboardFail
  <2> QED
    BY <1>2, <1>3, <1>4, <2>1 DEF HeldBy
<1>6. CASE FinishRescan
  <2>1. remotes' = fresh /\ todo = << >> /\ pc = "build" /\ faults = 0
    BY <1>6 DEF FinishRescan
  <2>2. ASSUME NEW j \in 1..Len(remotes), Holding(remotes[j], file, d)
        PROVE  \E n \in 1..Len(fresh) : Holding(fresh[n], file, d)
    <3>1. \A n : n \notin 1..Len(todo)
      <4>1. Len(<< >>) = 0 /\ \A n : n \notin 1..0
        OBVIOUS
      <4> QED
        BY <2>1, <4>1, Zenon
    <3>2. Reopened(remotes[j])
      BY <2>1, <2>2, <3>1 DEF IInv, WorkGoesOn, Holding, Live, StillTodo
    <3>3. PICK n \in 1..Len(fresh) : fresh[n].kpath = remotes[j].kpath /\ Live(fresh[n].kfd)
      BY <3>2 DEF Reopened
    <3>4. /\ HasFile(fresh[n]) /\ HasFile(remotes[j])
          /\ Complete(fresh[n]) /\ Complete(remotes[j])
      BY KeyboardFile DEF IInv, AllComplete
    <3>5. file[fresh[n].kfd].dev = node[fresh[n].kpath]
      BY <1>1, <3>3, <3>4 DEF HasFile, Complete, Live, KernelOK
    <3>6. file[remotes[j].kfd].dev = node[remotes[j].kpath]
      BY <1>1, <2>2, <3>4 DEF HasFile, Complete, Holding, KernelOK
    <3> QED
      BY <2>2, <3>3, <3>5, <3>6 DEF Holding, Live
  <2>3. PICK n \in 1..Len(fresh) : Holding(fresh[n], file, d)
    BY <1>4, <2>2 DEF HeldBy
  <2> QED
    BY <1>2, <1>3, <2>1, <2>3 DEF HeldBy
<1> QED
  BY <1>5, <1>6

\* A loss closes a keyboard that is gone.
LEMMA HandleLossServes ==
  ASSUME IInv, IInv', NEW i, HandleLoss(i), NEW d
  PROVE  Keeps(d)
<1> SUFFICES ASSUME HeldBy(remotes, fresh, cur, file, d)
             PROVE  HeldBy(remotes', fresh', cur', file', d)
  BY DEF Keeps
<1> DEFINE j == Layout[i][1]
           s == Layout[i][2]
           f == remotes[j][s]
<1>1. /\ i \in 1..Len(Layout) /\ Close({f}) /\ file[f].type = "dead"
      /\ remotes' = [remotes EXCEPT ![j][s] = NoFd]
      /\ UNCHANGED <<node, fresh, cur>> /\ Types /\ KernelOK
  BY DEF HandleLoss, FdAt, Dead, Handled, IInv
<1>2. j \in 1..Len(remotes) /\ s \in {"kfd", "ifd"}
  <2>1. Len(remotes) \in Nat
    BY <1>1 DEF Types
  <2>2. Layout[i] \in Polled
    BY <1>1, <2>1, LayoutFacts
  <2> QED
    BY <2>2 DEF Polled
<1> HIDE DEF j, s
<1>3. \A n \in 1..Len(remotes) : n \in 1..Len(remotes') /\ (n # j => remotes'[n] = remotes[n])
  BY <1>1, <1>2 DEF Types
<1>4. remotes[j].kfd # f => remotes'[j].kfd = remotes[j].kfd
  <2>1. remotes[j] \in Rem /\ remotes'[j] = [remotes[j] EXCEPT ![s] = NoFd]
    BY <1>1, <1>2 DEF Types
  <2> QED
    BY <1>2, <2>1 DEF Rem
<1>5. ASSUME NEW r, FileOf(r, file), Holding(r, file, d) PROVE Holding(r, file', d)
  <2>1. r.kfd # f /\ r.kfd \in Fds
    BY <1>1, <1>5 DEF Holding, FileOf
  <2> HIDE DEF f
  <2>2. file'[r.kfd] = file[r.kfd]
    BY <1>1, <2>1, CloseFacts
  <2> QED
    BY <1>5, <2>2 DEF Holding
<1>6. /\ \A n \in 1..Len(remotes) : FileOf(remotes[n], file)
      /\ \A n \in 1..Len(fresh) : FileOf(fresh[n], file)
      /\ FileOf(cur, file)
  BY HeldOpen DEF IInv, Hands
<1>7. ASSUME NEW n \in 1..Len(remotes), Holding(remotes[n], file, d)
      PROVE  Holding(remotes'[n], file', d) /\ n \in 1..Len(remotes')
  <2>1. Holding(remotes[n], file', d)
    BY <1>5, <1>6, <1>7
  <2>2. remotes'[n].kfd = remotes[n].kfd
    BY <1>1, <1>3, <1>4, <1>7 DEF Holding
  <2> QED
    BY <1>3, <2>1, <2>2 DEF Holding
<1> QED
  BY <1>1, <1>5, <1>6, <1>7 DEF HeldBy

\* daemon_devices_rescan never takes a working keyboard away, for any set of
\* remotes, any pairing and any order of disconnections and rescans.
THEOREM RescanKeepsKeyboards == Spec => StaysServed
<1> DEFINE Step == \A d \in KeyboardInputs :
                     Served(d) /\ Plugged(d)' /\ faults' = 0 => Served(d)'
<1>0. ServedHeld /\ ServedHeld'
  BY ServedIsHeld, PTL
<1>1. IInv /\ Stale /\ IInv' /\ [Next]_vars => [Step]_vars
  <2> SUFFICES ASSUME IInv, Stale, IInv', Next, NEW d \in KeyboardInputs,
                      Served(d), Plugged(d)', faults' = 0
               PROVE  Served(d)'
    BY DEF KeyboardInputs
  <2>1. Keeps(d)
    <3>1. ASSUME UNCHANGED <<remotes, fresh, cur, file>> PROVE Keeps(d)
      BY <3>1 DEF Keeps
    <3>2. CASE Environment
      <4>1. ASSUME NEW e \in Inputs, NEW p \in Paths, Plug(e, p) PROVE Keeps(d)
        BY <3>1, <4>1 DEF Plug, daemon
      <4>2. CASE Frame
        BY <3>1, <4>2 DEF Frame, daemon
      <4> QED
        BY <3>2, <4>1, <4>2, UnplugServes DEF Environment
    <3>3. CASE StartRescan \/ Poll \/ FallbackDue
      BY <3>1, <3>3 DEF StartRescan, Poll, FallbackDue, kernel
    <3>4. CASE Rescan
      <4>1. CASE OutputsFail
        BY <3>1, <4>1 DEF OutputsFail, kernel
      <4>2. CASE FreeFailed
        BY <3>1, <4>2, FreeFailedKeeps DEF FreeFailed
      <4> QED
        BY <3>4, <4>1, <4>2, StealServes, OpenServes, OpenImuServes, CloseServes DEF Rescan
    <3>5. CASE Dispatch
      <4>1. CASE DrainInotify
        BY <3>1, <4>1 DEF DrainInotify, Handled
      <4>2. ASSUME NEW i, HandleFrame(i) \/ HandleNothing(i) PROVE Keeps(d)
        BY <3>1, <4>2 DEF HandleFrame, HandleNothing, Handled, kernel
      <4> QED
        BY <3>5, <4>1, <4>2, HandleLossServes DEF Dispatch
    <3>6. CASE Restart
      BY <3>6 DEF Restart, IInv, Types
    <3> QED
      BY <3>2, <3>3, <3>4, <3>5, <3>6 DEF Next, Process
  <2>2. HeldBy(remotes, fresh, cur, file, d) /\ \E p \in Paths : node'[p] = d
    BY <1>0 DEF Plugged, ServedHeld, KeyboardInputs
  <2>3. HeldBy(remotes', fresh', cur', file', d)
    BY <2>1, <2>2 DEF Keeps
  <2>4. Served(d)' <=> HeldBy(remotes', fresh', cur', file', d)
    BY <1>0 DEF ServedHeld, KeyboardInputs
  <2> QED
    BY <2>3, <2>4
<1> QED
  BY <1>1, Invariance, PTL DEF Spec, StaysServed
=============================================================================
