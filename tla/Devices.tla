------------------------------ MODULE Devices ------------------------------
(***************************************************************************)
(* lgmagicd's device side: the main loop (daemon_main.c), discovery and    *)
(* hotplug (daemon_devices.c), the evdev and uinput files it holds.        *)
(*                                                                         *)
(* The kernel's half is the environment: nodes of /dev/input appear and    *)
(* vanish at any time, also in the middle of a rescan; a file opened on a  *)
(* vanished node stays open and reads ENODEV; a grab belongs to one file   *)
(* of a live node and ends with either.  Evdev files are opened blocking,  *)
(* so a read of a live file with no frame waits.                           *)
(*                                                                         *)
(* A rescan opens files one system call after the other while the          *)
(* previous remotes still hold theirs; those are closed at the end.        *)
(***************************************************************************)
EXTENDS Pairing, Functions

CONSTANTS
  Paths, NoPath,    \* /dev/input/eventN, and the empty path
  Inputs, NoInput,  \* input devices of the remotes around, and none
  KindOf, UniqOf,   \* Inputs -> "kbd" | "imu", Inputs -> MAC | NoUniq
  Homes,            \* Inputs -> the paths a device can appear at
  ScanOrder,        \* readdir's order: a sequence of all Paths
  Macs, Unknown,    \* identities that pass daemon_identity_valid
  Fds,              \* bound: the descriptors the daemon may have open
  MaxEvents,        \* bound: devices that appear or vanish, and faults
  MaxFaults         \* bound: failed uinput_create calls and daemon restarts

ASSUME DevicesAssumption ==
  /\ KindOf \in [Inputs -> {"kbd", "imu"}]
  /\ UniqOf \in [Inputs -> Macs \union {NoUniq, Unknown}]
  /\ Homes \in [Inputs -> SUBSET Paths]
  /\ ScanOrder \in Seq(Paths) /\ Range(ScanOrder) = Paths /\ IsInjective(ScanOrder)
  /\ NoPath \notin Paths /\ NoInput \notin Inputs /\ Fds \subseteq Nat \ {0}
  /\ MaxEvents \in Nat /\ MaxFaults \in Nat

VARIABLES
  \* the kernel
  node,      \* Paths -> the device behind the path
  file,      \* Fds -> the daemon's open file
  grab,      \* Paths -> the file that holds EVIOCGRAB
  readable,  \* files with an unread frame
  \* the daemon
  pc,        \* where the main loop is
  remotes,   \* dd->remotes
  fresh,     \* newr, during a rescan
  todo,      \* paired remotes the rescan has not reached yet
  cur,       \* the remote remote_open works on
  stale,     \* outputs of a failed remote_open: closed, numbers kept
  ready,     \* poll entries still to be handled, by index
  due,       \* have_rescan and rescan_due_ms
  overdue,   \* RESCAN_INTERVAL_MS have passed since last_rescan_ms
  \* bounds and history
  moves, faults,
  reused     \* a node appeared at a path some remote still had

kernel == <<node, file, grab, readable>>
daemon == <<pc, remotes, fresh, todo, cur, stale, ready, due, overdue>>
vars == <<kernel, daemon, moves, faults, reused>>

NoFd == 0
NoFile == [type |-> "closed", path |-> NoPath, dev |-> NoInput]
Uinput == [NoFile EXCEPT !.type = "uinput"]
\* A file is live while its device is still behind its path.
Evdev(p) == [type |-> "evdev", path |-> p, dev |-> node[p]]
Dead(f) == file[f].type = "dead"

\* A zeroed slot of dd->remotes: identity[0] is 0.
Blank == [id |-> NoUniq, kpath |-> NoPath, ipath |-> NoPath,
          kfd |-> NoFd, ifd |-> NoFd, ku |-> NoFd, mu |-> NoFd]
Slots == {"kfd", "ifd", "ku", "mu"}

\* open() returns the lowest free descriptor.
FreeFds == {f \in Fds : file[f] = NoFile}
Lowest(S) == CHOOSE f \in S : \A g \in S : f <= g

FdsOf(r) == {r[s] : s \in Slots} \ {NoFd}

\* close() on every descriptor of a set, whatever file now has that number:
\* a grab ends with its file.
Close(S) ==
  /\ file' = [f \in Fds |-> IF f \in S THEN NoFile ELSE file[f]]
  /\ grab' = [p \in Paths |-> IF grab[p] \in S THEN NoFd ELSE grab[p]]
  /\ readable' = readable \ S

-----------------------------------------------------------------------------
(***************************************************************************)
(* The kernel and the remotes.                                             *)
(***************************************************************************)

HeldPaths ==
  LET rs == Range(remotes) \union Range(fresh) \union Range(todo) \union {cur}
  IN  {r.kpath : r \in rs} \union {r.ipath : r \in rs}

\* A device connects: its node appears.
Plug(d, p) ==
  /\ moves + faults < MaxEvents
  /\ p \in Homes[d]
  /\ node[p] = NoInput
  /\ \A q \in Paths : node[q] # d
  /\ node' = [node EXCEPT ![p] = d]
  /\ moves' = moves + 1
  /\ reused' = (reused \/ p \in HeldPaths)
  /\ UNCHANGED <<file, grab, readable, daemon, faults>>

\* A device disconnects: its node goes, open files on it read ENODEV.
Unplug(p) ==
  /\ moves + faults < MaxEvents
  /\ node[p] # NoInput
  /\ node' = [node EXCEPT ![p] = NoInput]
  /\ file' = [f \in Fds |-> IF file[f].type = "evdev" /\ file[f].path = p
                            THEN [file[f] EXCEPT !.type = "dead"] ELSE file[f]]
  /\ grab' = [grab EXCEPT ![p] = NoFd]
  /\ readable' = {f \in readable : file[f].path # p}
  /\ moves' = moves + 1
  /\ UNCHANGED <<daemon, faults, reused>>

-----------------------------------------------------------------------------
(***************************************************************************)
(* daemon_devices_rescan.                                                  *)
(***************************************************************************)

\* scan_inputs: the nodes that can be probed, in readdir's order.
Probe(p) == [path |-> p, kind |-> KindOf[node[p]], uniq |-> UniqOf[node[p]]]
Scan ==
  LET seen[i \in 0..Len(ScanOrder)] ==
        IF i = 0 THEN << >>
        ELSE IF node[ScanOrder[i]] = NoInput THEN seen[i - 1]
        ELSE Append(seen[i - 1], Probe(ScanOrder[i]))
  IN  seen[Len(ScanOrder)]

Identity(uniq) == IF uniq \in Macs THEN uniq ELSE Unknown

\* What the rescan wants open, one entry per paired remote.
Wanted(devs, paired) ==
  [n \in 1..Len(paired) |->
     [Blank EXCEPT
        !.id = Identity(paired[n].uniq),
        !.kpath = devs[paired[n].kbd].path,
        !.ipath = IF paired[n].imu = Unpaired THEN NoPath
                  ELSE devs[paired[n].imu].path]]

\* RESCAN_INTERVAL_MS have gone by since the last rescan began: the delay
\* the loop computes is 0, however far a debounce has to run.
FallbackDueDebounced ==
  /\ pc = "loop" /\ due = "none" /\ ~overdue
  /\ overdue' = TRUE
  /\ UNCHANGED <<kernel, pc, remotes, fresh, todo, cur, stale, ready, due,
                 moves, faults, reused>>
FallbackDue ==
  /\ pc = "loop" /\ due # "now" /\ ~overdue
  /\ overdue' = TRUE
  /\ UNCHANGED <<kernel, pc, remotes, fresh, todo, cur, stale, ready, due,
                 moves, faults, reused>>

\* The main loop finds a rescan due: at once after a loss, when the debounce
\* has run out ("debounced" may or may not have), or by the fallback.  An
\* ambiguous set keeps everything as it is until the next one.
StartRescanDropsAmbiguous ==
  /\ pc = "loop" /\ (due # "none" \/ overdue)
  /\ due' = "none" /\ overdue' = FALSE
  /\ todo' = Wanted(Scan, pairing_match(Scan).remotes)
  /\ pc' = "build"
  /\ UNCHANGED <<kernel, remotes, fresh, cur, stale, ready, moves, faults, reused>>
StartRescan ==
  /\ pc = "loop" /\ (due # "none" \/ overdue)
  /\ due' = "none" /\ overdue' = FALSE
  /\ \E devs \in {Scan} :
       IF pairing_match(devs).ok
       THEN /\ todo' = Wanted(devs, pairing_match(devs).remotes)
            /\ pc' = "build"
       ELSE UNCHANGED <<todo, pc>>
  /\ UNCHANGED <<kernel, remotes, fresh, cur, stale, ready, moves, faults, reused>>

SameRemote(e, w) == e.id = w.id /\ e.kpath = w.kpath /\ e.ipath = w.ipath
Unchanged(w) == {j \in 1..Len(remotes) : SameRemote(remotes[j], w)}

\* An unchanged remote moves over with its files; its old slot is zeroed so
\* that the clean-up at the end does not close them.
Steal ==
  /\ pc = "build" /\ todo # << >>
  /\ Unchanged(Head(todo)) # {}
  /\ LET j == Lowest(Unchanged(Head(todo)))
     IN  /\ fresh' = Append(fresh, remotes[j])
         /\ remotes' = [remotes EXCEPT ![j] = Blank]
  /\ todo' = Tail(todo)
  /\ UNCHANGED <<kernel, pc, cur, stale, ready, due, overdue, moves, faults,
                 reused>>

\* remote_open, first the virtual keyboard and mouse ...
OpenOutputs ==
  /\ pc = "build" /\ todo # << >>
  /\ Unchanged(Head(todo)) = {}
  /\ \E k, m \in FreeFds : k # m
  /\ LET k == Lowest(FreeFds)
         m == Lowest(FreeFds \ {k})
     IN  /\ file' = [file EXCEPT ![k] = Uinput, ![m] = Uinput]
         /\ cur' = [Head(todo) EXCEPT !.ku = k, !.mu = m]
  /\ pc' = "keyboard"
  /\ UNCHANGED <<node, grab, readable, remotes, fresh, todo, stale,
                 ready, due, overdue, moves, faults, reused>>

\* ... of which either may fail: nothing stays open, the next rescan tries
\* again.
OutputsFailIgnored ==
  /\ pc = "build" /\ todo # << >>
  /\ Unchanged(Head(todo)) = {}
  /\ faults < MaxFaults /\ moves + faults < MaxEvents
  /\ faults' = faults + 1
  /\ cur' = Head(todo)
  /\ pc' = "keyboard"
  /\ UNCHANGED <<kernel, remotes, fresh, todo, stale, ready, due, overdue, moves,
                 reused>>
OutputsFail ==
  /\ pc = "build" /\ todo # << >>
  /\ Unchanged(Head(todo)) = {}
  /\ faults < MaxFaults /\ moves + faults < MaxEvents
  /\ faults' = faults + 1
  /\ todo' = Tail(todo)
  /\ UNCHANGED <<kernel, pc, remotes, fresh, cur, stale, ready, due, overdue,
                 moves, reused>>

\* ... then the keyboard, which is grabbed if nobody else has grabbed it;
\* an ungrabbed keyboard is used all the same.
OpenKeyboard ==
  /\ pc = "keyboard"
  /\ node[cur.kpath] # NoInput /\ FreeFds # {}
  /\ LET f == Lowest(FreeFds)
     IN  /\ file' = [file EXCEPT ![f] = Evdev(cur.kpath)]
         /\ grab' = IF grab[cur.kpath] = NoFd
                    THEN [grab EXCEPT ![cur.kpath] = f] ELSE grab
         /\ cur' = [cur EXCEPT !.kfd = f]
  /\ pc' = "imu"
  /\ UNCHANGED <<node, readable, remotes, fresh, todo, stale, ready,
                 due, overdue, moves, faults, reused>>

\* The node went away since the scan: remote_open closes the virtual devices,
\* uinput_close leaving their numbers in the slot, ...
KeyboardFail ==
  /\ pc = "keyboard"
  /\ node[cur.kpath] = NoInput
  /\ Close(FdsOf(cur))
  /\ stale' = FdsOf(cur)
  /\ cur' = Blank
  /\ todo' = Tail(todo)
  /\ pc' = "failed"
  /\ UNCHANGED <<node, remotes, fresh, ready, due, overdue, moves,
                 faults, reused>>

\* ... and the caller's remote_free closes those numbers again.
FreeFailedLater ==
  /\ pc = "failed" /\ pc' = "build"
  /\ UNCHANGED <<kernel, remotes, fresh, todo, cur, stale, ready, due, overdue,
                 moves, faults, reused>>
FreeFailed ==
  /\ pc = "failed"
  /\ Close(stale)
  /\ stale' = {}
  /\ pc' = "build"
  /\ UNCHANGED <<node, remotes, fresh, todo, cur, ready, due, overdue,
                 moves, faults, reused>>

\* ... last the IMU, never grabbed; a remote without one goes on, with its
\* imu_path emptied when the open failed.
OpenImu ==
  /\ pc = "imu"
  /\ LET there == cur.ipath # NoPath /\ node[cur.ipath] # NoInput
         f == Lowest(FreeFds)
         done == IF there THEN [cur EXCEPT !.ifd = f]
                 ELSE [cur EXCEPT !.ipath = NoPath]
     IN  /\ there => FreeFds # {}
         /\ file' = IF there THEN [file EXCEPT ![f] = Evdev(cur.ipath)] ELSE file
         /\ fresh' = Append(fresh, done)
  /\ cur' = Blank
  /\ todo' = Tail(todo)
  /\ pc' = "build"
  /\ UNCHANGED <<node, grab, readable, remotes, stale, ready, due,
                 overdue, moves, faults, reused>>

\* What was not stolen is closed, the new array takes over.
FinishRescanKeepsOld ==
  /\ pc = "build" /\ todo = << >>
  /\ remotes' = remotes \o fresh
  /\ fresh' = << >>
  /\ pc' = "loop"
  /\ UNCHANGED <<kernel, todo, cur, stale, ready, due, overdue, moves, faults,
                 reused>>
FinishRescan ==
  /\ pc = "build" /\ todo = << >>
  /\ Close(UNION {FdsOf(r) : r \in Range(remotes)})
  /\ remotes' = fresh
  /\ fresh' = << >>
  /\ pc' = "loop"
  /\ UNCHANGED <<node, todo, cur, stale, ready, due, overdue, moves,
                 faults, reused>>

-----------------------------------------------------------------------------
(***************************************************************************)
(* Poll and dispatch.                                                      *)
(***************************************************************************)

\* daemon_devices_pollfds and daemon_devices_handle walk the remotes the
\* same way: entry 0 is inotify, then every open keyboard and IMU.
Entry(j, s) == IF remotes[j][s] = NoFd THEN << >> ELSE << <<j, s>> >>
Layout ==
  LET upto[j \in 0..Len(remotes)] ==
        IF j = 0 THEN << >> ELSE upto[j - 1] \o Entry(j, "kfd") \o Entry(j, "ifd")
  IN  upto[Len(remotes)]
FdAt(i) == remotes[Layout[i][1]][Layout[i][2]]

Ready(f) == f \in readable \/ Dead(f)

\* A device reports to the file that grabbed it, else to all.  Only poll()
\* and reads look at frames: what arrives before is part of Poll.
Receives(f) == file[f].type = "evdev" /\ grab[file[f].path] \in {NoFd, f}

Reported == {i \in 1..Len(Layout) : FdAt(i) \in readable' \/ Dead(FdAt(i))}

\* poll() reports every entry that is ready, and inotify whatever node of
\* /dev/input its events are about (the daemon's own virtual devices make
\* some); with a rescan due at once the loop does not get here.
PollTimeoutDispatches ==
  /\ pc = "loop" /\ due # "now" /\ ~overdue
  /\ \E frames \in SUBSET {f \in Fds : Receives(f)} :
       readable' = readable \union frames
  /\ \E events \in SUBSET {0} : ready' = Reported \union events
  /\ pc' = "dispatch"
  /\ UNCHANGED <<node, file, grab, remotes, fresh, todo, cur, stale, due,
                 overdue, moves, faults, reused>>
Poll ==
  /\ pc = "loop" /\ due # "now" /\ ~overdue
  /\ \E frames \in SUBSET {f \in Fds : Receives(f)} :
       readable' = readable \union frames
  /\ \E events \in SUBSET {0} : ready' = Reported \union events
  /\ ready' # {}
  /\ pc' = "dispatch"
  /\ UNCHANGED <<node, file, grab, remotes, fresh, todo, cur, stale, due,
                 overdue, moves, faults, reused>>

\* A frame arrives for the file the dispatch loop reads.
Frame ==
  /\ pc = "dispatch" /\ Lowest(ready) \in 1..Len(Layout)
  /\ LET f == FdAt(Lowest(ready))
     IN  /\ Receives(f) /\ f \notin readable
         /\ readable' = readable \union {f}
  /\ UNCHANGED <<node, file, grab, daemon, moves, faults, reused>>

\* The dispatch loop moves on to the next reported entry.
Handled(i) ==
  /\ pc = "dispatch" /\ i = Lowest(ready)
  /\ ready' = ready \ {i}
  /\ pc' = IF ready = {i} THEN "loop" ELSE "dispatch"
  /\ UNCHANGED <<fresh, todo, cur, stale, overdue, moves, faults, reused>>

DrainInotify ==
  /\ Handled(0)
  /\ due' = "debounced"
  /\ UNCHANGED <<node, file, grab, readable, remotes>>

\* The index is looked up in the layout as it is now.
HandleFrame(i) ==
  /\ Handled(i) /\ i \in 1..Len(Layout)
  /\ FdAt(i) \in readable
  /\ readable' = readable \ {FdAt(i)}
  /\ UNCHANGED <<node, file, grab, remotes, due>>

HandleLoss(i) ==
  /\ Handled(i) /\ i \in 1..Len(Layout)
  /\ Dead(FdAt(i))
  /\ Close({FdAt(i)})
  /\ remotes' = [remotes EXCEPT ![Layout[i][1]][Layout[i][2]] = NoFd]
  /\ due' = "now"
  /\ UNCHANGED node

\* The layout has become shorter than the index.
HandleNothing(i) ==
  /\ Handled(i) /\ i > Len(Layout)
  /\ UNCHANGED <<kernel, remotes, due>>

\* The daemon dies, or is stopped, and is started again.
Restart ==
  /\ faults < MaxFaults /\ moves + faults < MaxEvents
  /\ faults' = faults + 1
  /\ Close(Fds)
  /\ pc' = "loop" /\ due' = "now" /\ overdue' = FALSE
  /\ remotes' = << >> /\ fresh' = << >> /\ todo' = << >> /\ cur' = Blank
  /\ stale' = {} /\ ready' = {}
  /\ UNCHANGED <<node, moves, reused>>

Init ==
  /\ node = [p \in Paths |-> NoInput]
  /\ file = [f \in Fds |-> NoFile]
  /\ grab = [p \in Paths |-> NoFd]
  /\ readable = {}
  /\ pc = "loop" /\ due = "now" /\ overdue = FALSE
  /\ remotes = << >> /\ fresh = << >> /\ todo = << >> /\ cur = Blank
  /\ stale = {} /\ ready = {}
  /\ moves = 0 /\ faults = 0 /\ reused = FALSE

Environment ==
  \/ \E d \in Inputs, p \in Paths : Plug(d, p)
  \/ \E p \in Paths : Unplug(p)
  \/ Frame

Rescan ==
  \/ Steal \/ OpenOutputs \/ OutputsFail \/ OpenKeyboard \/ KeyboardFail
  \/ FreeFailed \/ OpenImu \/ FinishRescan

Dispatch ==
  \/ DrainInotify
  \/ \E i \in ready : HandleFrame(i) \/ HandleLoss(i) \/ HandleNothing(i)

Process == StartRescan \/ Rescan \/ Dispatch

Next == Environment \/ FallbackDue \/ Process \/ Poll \/ Restart

\* The process runs on unless a read blocks, and a loop that comes round for
\* ever comes round after the interval, too.  Nothing says that the debounce
\* ever runs out: each inotify event starts it anew.
Fairness == WF_vars(Process) /\ SF_vars(FallbackDue)

Spec == Init /\ [][Next]_vars /\ Fairness

-----------------------------------------------------------------------------
(***************************************************************************)
(* Properties.                                                             *)
(***************************************************************************)

\* The remotes the daemon has in its hands: old array, new array, open one.
Remotes ==
  ({"old"} \X (1..Len(remotes))) \union ({"new"} \X (1..Len(fresh)))
    \union {<<"cur", 0>>}
RemoteAt(x) ==
  CASE x[1] = "old" -> remotes[x[2]]
    [] x[1] = "new" -> fresh[x[2]]
    [] OTHER -> cur
Owned == {o \in Remotes \X Slots : RemoteAt(o[1])[o[2]] # NoFd}
FdOf(o) == RemoteAt(o[1])[o[2]]

\* Every variable stays in its domain, and the dispatch loop runs only over
\* entries poll() reported.
TypeOK ==
  /\ node \in [Paths -> Inputs \union {NoInput}]
  /\ file \in [Fds -> [type : {"closed", "uinput", "evdev", "dead"},
                       path : Paths \union {NoPath},
                       dev : Inputs \union {NoInput}]]
  /\ grab \in [Paths -> Fds \union {NoFd}]
  /\ readable \subseteq Fds
  /\ pc \in {"loop", "build", "keyboard", "failed", "imu", "dispatch"}
  /\ pc = "dispatch" <=> ready # {}
  /\ due \in {"none", "debounced", "now"} /\ overdue \in BOOLEAN
  /\ stale \subseteq Fds
  /\ \A x \in Remotes : \A s \in Slots : RemoteAt(x)[s] \in Fds \union {NoFd}

\* Every open file belongs to one slot of one remote, every descriptor a
\* remote holds is open and of the slot's kind, and the numbers a failed
\* remote_open leaves behind name no file: a rescan that steals, opens, fails
\* half-way and closes leaks no file, never leaves two remotes with the same
\* descriptor ("two remotes must never share or mix devices", TESTING.md),
\* and what it closes a second time is nobody's.
FdOwnership ==
  /\ \A f \in Fds : file[f] # NoFile =>
       Cardinality({o \in Owned : FdOf(o) = f}) = 1
  /\ \A o \in Owned :
       IF o[2] \in {"ku", "mu"} THEN file[FdOf(o)].type = "uinput"
       ELSE file[FdOf(o)].type \in {"evdev", "dead"}
  /\ \A f \in stale : file[f] = NoFile

\* "A remote must never be taken over without an output target": whoever
\* holds a grab is the keyboard of a remote whose virtual keyboard and mouse
\* exist, at every step of a rescan.
GrabHasTarget ==
  \A p \in Paths : grab[p] # NoFd =>
    \E x \in Remotes :
      /\ RemoteAt(x).kfd = grab[p]
      /\ RemoteAt(x).ku # NoFd /\ RemoteAt(x).mu # NoFd

\* Between two rescans no two remotes read the same keyboard node, so a key
\* press is emitted by one of them only.
OneReader ==
  pc \in {"loop", "dispatch"} =>
    \A i, j \in 1..Len(remotes) :
      remotes[i].kpath = remotes[j].kpath => i = j

Plugged(d) == \E p \in Paths : node[p] = d
Served(d) ==
  \E x \in Remotes :
    LET f == RemoteAt(x).kfd
    IN  f # NoFd /\ file[f].type = "evdev" /\ file[f].dev = d
KeyboardInputs == {d \in Inputs : KindOf[d] = "kbd"}

\* The dispatch loop reads a file that has no frame: the read returns only
\* when the device reports or leaves.
Blocked ==
  /\ pc = "dispatch"
  /\ LET i == Lowest(ready) IN i \in 1..Len(Layout) /\ ~Ready(FdAt(i))

\* A keyboard that stays connected, in a set of devices that can be paired,
\* ends up served for good, whatever connected, vanished or failed before,
\* whenever it did and however many inotify events there are, unless a node
\* came back at a path a remote still had (see ReconnectServed) or the loop
\* waits for ever in a read of a file that was not ready (ReadsReadyOnly).
KeyboardServed ==
  \A d \in KeyboardInputs :
    <>[](~reused /\ Plugged(d) /\ pairing_match(Scan).ok)
      => <>[]Served(d) \/ <>[]Blocked

\* A rescan never takes a working keyboard away: while the device stays
\* connected and uinput works, some remote keeps a live file on it, also when
\* the set turns ambiguous, its IMU comes or goes or its identity changes.
StaysServed ==
  [][\A d \in KeyboardInputs :
       Served(d) /\ Plugged(d)' /\ faults' = 0 => Served(d)']_vars

\* daemon_devices.h: a rescan will "open/grab what appeared or reconnected".
\* A keyboard that stays connected ends up served for good.
ReconnectServed ==
  \A d \in KeyboardInputs :
    <>[](Plugged(d) /\ pairing_match(Scan).ok) => <>[]Served(d)

\* daemon_devices_handle handles "one ready pollfd entry (idx from 0, same
\* layout as daemon_devices_pollfds)": the file it reads is one that is
\* ready, so the blocking read returns at once.
ReadsReadyOnly ==
  pc = "dispatch" =>
    LET i == Lowest(ready) IN i \in 1..Len(Layout) => Ready(FdAt(i))
=============================================================================
