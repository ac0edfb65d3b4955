# Formal model of lgmagic

TLA+ modules, TLC runs and TLAPS proofs for the LG Magic Remote driver, the
`lgmagicd` daemon and the `lgmagic` tool of this repository. Paths below are relative to `src/`.
`PROJECT.json` has the machine-readable side: which definition models which
lines, the runs, one mutant per checked property, the hazards and the theorems.

## The system

A Bluetooth remote reports buttons, a wheel and an IMU in one HID report. The
kernel driver decodes it into two input devices, a keyboard and an IMU. The
daemon `lgmagicd` finds them, grabs the keyboard, and passes its keys and wheel
through a per-device profile to a virtual (uinput) keyboard; the IMU drives a
virtual mouse. A D-Bus interface changes profiles, button maps and numbers, and
stores them in TOML files. The tool `lgmagic` calls that interface, keeps a
layered configuration of its own, and has a wizard that calibrates the remote
and leaves files for the driver and the daemon to load.

| component | state | operations | talks to |
|---|---|---|---|
| kernel driver (`kernel/lgmagic_main.c`) | button and key last reported, mouse mode, module parameters writable at run time | `raw_event`, probe, remove | HID core, input core |
| pairing (`tools/src/pairing.c`) | none | `pairing_match` | called by every rescan |
| discovery, hotplug, loop (`daemon_devices.c`, `daemon_main.c`) | array of remotes with four descriptors each, rescan deadline, poll set | rescan, `daemon_devices_handle`, reload, restart | inotify, evdev, uinput, pairing, configuration |
| frame pipeline (`daemon_pipeline.c`) | held keys, active map and speed, wheel accumulator, air mouse state | `pipeline_keyboard`, `pipeline_imu`, `pipeline_configure` | evdev frames in, uinput events out |
| profiles and device files (`profiles.c`, `daemon_config.c`) | `dc` in memory; `devices.d/<MAC>.toml`, `state.toml` | load, validate, mutate, serialise, `atomic_write_file` | file system |
| bus interface (`daemon_bus.c`) | none of its own | SetProfile, MapButton, ResetButtons, SetScrollSpeed, SetSensitivity, SetCalibPath, Reload | remotes, files, polkit |
| D-Bus client (`dbus_client.c`, `cmd_bus.c`) | one connection, serial, receive buffer | connect, `bus_call`, disconnect | the bus; used by `device`, `profile`, `button`, `scroll` and the wizard |
| global configuration (`config.c`, `cmd_config.c`) | defaults, `/etc/lgmagic/config.toml`, `~/.config/lgmagic/config.toml`, v1 `config.json` | load, `config set`, `config migrate` | every subcommand, the daemon (system file), the wizard |
| setup wizard (`cmd_setup.c`, `modprobe_helpers.c`) | input mode, calibration, `g_cfg`, `g_stop` | eleven steps and a summary | modprobe, firmware blobs, daemon state, bus, user configuration |
| air mouse, calibration, codecs | floating point, parsers | - | - |

What is hard here: configuration changes arrive between the press and the
release of a key; device nodes vanish and return in the middle of a rescan;
poll indices are used after descriptors were closed; old and new remotes hold
the same keyboard during a rescan; the daemon or the machine dies between two
system calls of a save; the daemon and the loader disagree on ranges; driver
parameters change while a button is down; a call times out and its answer
arrives later; the wizard takes minutes, is interrupted or killed between its
files, and what it loaded at the start is old when it saves. Everything runs in
one thread per process, so there are no data races; the interleavings are with
the kernel, the bus, the file system, the user and the administrator.

## Modules

| module | models | kind |
|---|---|---|
| `KernelDriver` | `lgmagic_raw_event` read by read, probe, remove, sysfs writes | state machine |
| `MCKernelDriver` | five buttons, five values of `key_0x8000` | TLC |
| `KernelProofs` | inductive invariant and theorems | TLAPS |
| `Pipeline` | `pipeline_keyboard` event by event, the key half of `pipeline_configure`, frames of `evdev_read_frame_ext` | state machine |
| `MCPipeline`, `MCPipelineLeak` | a three-key remote; the same with a history variable | TLC |
| `PipelineProofs` | inductive invariant and theorems | TLAPS |
| `Pairing` | `pairing_match` as an operator | pure |
| `PairingProofs` | what the loops of `pairing_match` and its helpers compute, by induction over their indices | TLAPS |
| `MCPairing` | every scan of up to five nodes, a reference pairing | TLC |
| `ScanProofs` (extends `MCPairing`) | the pairing properties, for scans of any length | TLAPS |
| `Devices` (extends `Pairing`) | rescan file by file, poll and dispatch, losses, restarts; `/dev/input`, inotify, grabs as environment | state machine |
| `MCDevices` | one remote that moves; two keyboards and an IMU; two remotes, the second without a MAC, whose keyboards move | TLC |
| `DeviceProofs` | inductive invariant and theorems | TLAPS |
| `DeviceConfig` | load, validation, mutation, serialisation of device files, `pipeline_configure`'s choice of the active profile | pure |
| `AtomicFiles` | what `atomic_write_file` promises | abstract specification |
| `ConfigDaemon` (extends `DeviceConfig`) | the writing bus methods, `atomic_write_file` call by call, rollback, reload, crash, power loss, edits | state machine |
| `MCConfigDaemon` | two profiles, typical device files | TLC |
| `ConfigProofs` | files never torn, refinement of `AtomicFiles`, types, pipeline, settings across restarts | TLAPS |
| `Wire` | marshalling and unmarshalling of `dbus_client.c`, and the D-Bus format as the specification gives it | pure |
| `RemoteCommand` | what a command promises about the settings it asks for | abstract specification |
| `DBusClient` | connection, call, reply matching, timeouts, the commands as sequences of calls; the bus and the daemon as environment | state machine |
| `MCDBusClient` (extends `DBusClient`, `Wire`) | two commands, strings of up to seven characters | TLC |
| `ClientProofs` (extends `MCDBusClient`, which declares the messages) | inductive invariants, the wire format, theorems | TLAPS |
| `GlobalConfig` | merge of the layers, `config set`, `config migrate` | actions |
| `Setup` (extends `GlobalConfig`) | the wizard step by step, with the driver and the daemon as far as they load what it writes | state machine, composition |
| `MCSetup` | hosts, files and budgets a behaviour starts from | TLC |
| `SetupProofs` (extends `Setup`) | round trip of a save, inductive invariant of the wizard, theorems | TLAPS |

Definitions keep the code's function names where one definition is one
function; an action of a multi-step function is named for the step
(`OpenOutputs`, `SyncTmp`). Definitions like `UntrackKeepsLast` or
`OpenInPlace`, defined just before the one they resemble, are mutants: the same
code with a plausible bug, used to show that a property can fail.

### KernelDriver

`lastBtn`, `lastKey`, `mode` are the driver's per-device state; `keys` is what
the input core keeps. A report is handled in four steps, buttons, wheel,
motion, IMU, because `raw_only`, `airmouse`, `imu_evdev` and `key_0x8000` can be
written through sysfs between the places where the code reads them. `keybit` is fixed at the
probe: a code written to `key_0x8000` later that the device was not registered
with is dropped by the input core, which the model does too. What
`lgmagic_calc_mouse` computes is open (`big`: over the threshold, `shift`: a
non-zero displacement), except that a zeroed calibration yields neither.
`heldRaw` and `boundRaw` are histories: raw mode without interruption since the
button changed, since the probe. `imuNode` is the registration of the IMU device,
decided at the probe; `imuLost` remembers a report whose IMU half was dropped or
sent to a device that was never registered, which is what happens when
`raw_only` is switched on at run time. Not modelled: failing probes (which leave
the device started, `hid_hw_stop` is not called) and the reports' values.

### Pipeline

`held`, `active`, `speed`, `accum` are the fields of `struct pipeline`. `down`
is what is physically down at the daemon's place in the stream; `unread` are
keys whose last change the daemon never got to see (an overrun of the client
buffer: the code takes SYN_DROPPED for an ordinary end of frame and does not
resync; also keys that are down when the daemon starts). `vdown` is the key
state the input core keeps for the virtual keyboard, `owed` the wheel travel
asked for minus the travel emitted. A frame is read (`ReadFrame`), its key
events are handled one by one (`Key`), then its wheel (`Wheel`); a
configuration change happens between frames. Speeds and the accumulator are
fixed-point numbers with denominator `Den`, so the cast to int is exact;
speeds that are not dyadic round in the real double arithmetic and are outside
the model. Failing uinput writes are ignored by the code and not modelled.

### Devices

A rescan is a sequence of steps, one per file that is opened, because nodes may
vanish or appear between any two of them. `remotes` is the old array, `fresh`
the new one, `cur` the remote `remote_open` is working on; `Steal` moves an
unchanged remote over. `file` and `grab` are the kernel's open files and
grabs. A `remote_open` that does not get its keyboard closes its outputs
(`KeyboardFail`), and the caller closes the same numbers once more
(`FreeFailed`), because `uinput_close` gets them by value: `stale` are the
numbers between the two closes, and `Close` closes whatever has the number by
then. The directory scan itself is one step.

`due` is what `have_rescan` and `rescan_due_ms` say: nothing, debounced (the
200 ms may or may not be over) or at once. `overdue` says that the fallback
interval is over since the last rescan (`FallbackDue`); the loop rescans when
either asks for it. `Poll` computes the set of ready entries by index, inotify
among them or not, and `HandleFrame`, `HandleLoss`, `HandleNothing` resolve an
index the way `daemon_devices_handle` does, against the descriptors that are
open at that time. An index that has come to mean a file with nothing to read
has no such step until the device reports (`Frame`) or goes: the read blocks. `Fds` is large enough for old and new remotes together; what
the daemon does when descriptors run out is not modelled. Not modelled either:
`--keyboard` and `--no-uinput` test modes, the bus entry of the poll set, a
system without inotify.

### DeviceConfig and ConfigDaemon

A device file is its parsed content or torn; the daemon loads it with
`daemon_config_load_remote`, including the partial result a failed parse
leaves. A bus method is split at the system calls of `atomic_write_file`:
`OpenTmp`, `WriteTmp`, `SyncTmp`, `Rename`, each of which may fail
(`SaveFails`), with a crash or a power loss between any two. `disk` is what
processes see, `stable` what a power loss leaves, `tmp` the `.tmp` file. A
power loss may lose a rename that was not flushed: the directory is not
fsynced, so an ok reply is not durable, but the file is still whole.
Numbers keep their integral value, scaled; NaN, which no comparison of
`method_set_number` refuses, is outside the model (known deviations). The one key of the global
configuration that reaches the pipeline is the constant `GlobalAlpha`.

### Wire and DBusClient

A buffer is a sequence with one element per byte; a number stands in the first
of its bytes, characters are opaque, lengths and alignments are exact. The
writer keeps `nodepad`, the length before the last padding, as `struct wb`
does. `ReadMessage` is what `bus_call` makes of a message: fixed header,
`parse_header_fields`, `rd_value` or the text of an error. `Encode` is the
format of the D-Bus specification, written independently of the code; its sizes
agree with the golden messages of the repository's tests (`GoldenSizes`).
Messages that break the specification are not generated, and `rd_str` is not
modelled for a slice with nothing behind the length of the string.

A client process runs one command: connect, `AUTH EXTERNAL`, `Hello`, then the
command's calls in order (`Script`). A message arrives in two pieces, as
`bus_call` reads it, the fixed header and the rest. `reqs` are requests on
their way to the daemon, which survive the client; `net` and `stream` are what
the bus has sent and what has arrived. Time is abstracted: `Timeout` may happen
whenever nothing has arrived. The daemon answers, refuses, dies before or after
carrying the request out, or stays silent.

### GlobalConfig and Setup

A configuration file is a record: absent (`Missing`), `Malformed`, or a
`Table`, a function from keys to typed values; `merge_file` applies a table key
by key, skipping values of a wrong type. A
save truncates the file in place and its text is smaller than one stdio buffer,
so a save that dies leaves the empty table. A number is written with `%.15g`
and read back as that (`FifteenDigits`); nan and the infinities (`NotFinite`)
are written as words that are no TOML value, so that a save of one leaves a
`Malformed` file (`Unreadable`). Such a number comes from `config set KEY nan`,
from a prompt of the wizard, or from a file that says `1e999`. `config set` and
`config migrate` are single actions with every outcome they can leave.

`Setup` has one action per step of the wizard; a file is opened (`OpenFile`,
empty from then on) and closed (`CloseFile`) in two. A calibration is the
number of the run that recorded it, so that "whose calibration is in use" can
be asked. A signal sets `wiz.stop`, which the run looks at where the code looks
at `g_stop`; after step 5 nothing reads it, so later signals are left out. A
kill ends the run anywhere. The driver loads firmware at every probe
(`lgmagic_load_fw`: an absent or empty blob fails and the generic one is tried;
a blob outside the kernel's ranges leaves the calibration zeroed, and the
generic one is not tried), the
daemon loads the calibration when it opens the remote and on `Reload`; replugs
come in between, under the parameters the module was loaded with. Whether what
was recorded and answered makes a blob the kernel accepts is open
(`ask_tuning`): if not, the wizard writes it all the same, after a warning
(`wiz.warned`), and goes on to success. `FourDigits` is the rounding of a
default printed with `%.4g` and read back.

`disk` has the files the wizard writes: the module parameters (`Conf`), the
recordings of steps 4 and 5 (`Recordings`, "samples"), and what the driver and
the daemon read back (`Settings`: blobs, calibrations, device files). Left out:
the directories it makes, a recording that is too short to be kept or fails to
be written (neither ends the run), and the mouse test, which changes nothing.
That `systemctl enable --now` also enables the unit for the next boot is left
out too; that it starts the daemon is modelled (`EnableDaemon`).

## Runs

`tlc -workers 2 -config <cfg> <module>` in this directory.

| run | question | result |
|---|---|---|
| `kernel` | five buttons, one of them unknown to the table, parameters written at any time, probe with every combination of firmware blobs | all invariants hold; 1.5 million states |
| `pipeline` | three keys, three button maps (two keys to one code, a swap), frames of two events, overruns, remaps | all hold; the held table is full in reachable states |
| `pipeline_leak` | is a key held across a remap kept out of the new map? | no, see below |
| `pairing` | every scan of up to five nodes of any kind and MAC in any order, against a pairing by MAC alone | all hold |
| `devices` | two remotes, the second without a MAC, four paths; each keyboard may come back elsewhere, one at the other's path; five events, of which one may be a failing `uinput_create` or a restart | safety and liveness hold; no working keyboard is dropped when the set turns ambiguous; 162 000 states |
| `devices_reconnect`, `devices_index` | documented promises | violated, see below |
| `config` | two requests of any kind, two faults, one edit, interleaved with every system call | files whole, memory and disk agree, restart keeps settings |
| `config_zero` | documented promise | violated, see below |
| `client` | twelve commands, two in a row, with and without a MAC, zero to two remotes, against a bus and a daemon that may do anything but answer wrongly | answers are never mixed up, every command ends, `RemoteCommand` is implemented, the wire format is right for every string length modulo the alignments |
| `setup` | two runs of the wizard on four kinds of hosts; `lgmagic config` on 48 combinations of files; both together; nan typed at a prompt and given to `config set` | all hold; 723 000 states |
| `setup_identity` | "after it finishes, the remote works end to end" | violated, see below |

Bounds and why they suffice. `Pipeline`: the held table of two slots, with two
keys down, has every shape of the swap-remove (only, first, last entry); three
keys let two of them share a code and a third stay outside. `Devices`: five
events let both keyboards and an IMU come, one of them vanish and come back
elsewhere, or two vanish in the same dispatch, after which a later index reads
a file that is not ready (`Blocked` is reached) while another keyboard comes;
one fault is enough to fail any single open or to restart at any point; the
descriptor numbers are those the daemon can hold at once with old and new
remotes open. `ConfigDaemon`: two requests show what a rollback or a crash
leaves for the next one; two faults allow a crash during the save that follows
a failed one. A variant with three requests and one key was checked once as
well. `DBusClient`: two commands let a late answer, or a late request, of the
first meet the second; strings of zero to seven characters have every offset
modulo 8, the largest alignment. `Setup`: the second run starts from anything
the first can leave; one replug can fall anywhere; a number with more than four digits, one
with more than fifteen and one that is not finite are told apart by the
roundings; the configuration commands
run twice, so that the second starts from what a torn or partial first one
left. `CHECK_DEADLOCK FALSE` is set where requests, faults and edits are
bounded and the system may simply have nothing left to do.

Preconditions of `config`. Its device files load and define the profiles they
select, and the numbers exclude 0. Without the first, more than one thing
differs from what the documentation says: a file that fails to parse leaves a
partial configuration in force where the log says "using defaults"
(`daemon_devices.c:271`); a profile named by `state.toml` that is no longer in
the device file is written back as the active profile, and the file then does
not load; an `lpf_alpha` of a profile is never used, since `profile_merge` does
not copy `has_lpf`. The model has these behaviours (`device_config_from_toml`,
`daemon_config_load_remote`, `profile_merge`); the run's inputs avoid them so
that its properties are about the save protocol. `Careful` in `ConfigProofs`
states the precondition, and the proofs say which properties need it.

Fairness, used for `KeyboardServed` and `ReconnectServed` only: `WF(Process)`,
because the daemon's process runs on in a rescan, in a dispatch loop and when a
rescan is due, and `SF(FallbackDue)`, because a loop that comes round again and
again comes round after the 2 s of `RESCAN_INTERVAL_MS` too, and
`daemon_devices_rescan_delay_ms` takes the smaller of the debounce and that
fallback. Nothing is assumed of the debounce: inotify events may push it back
for ever, and poll may always have something to report. With the fallback
looked at only when no rescan is pending (`FallbackDueDebounced`),
`KeyboardServed` fails. The environment is not fair: devices may stay away, and
no device has to report. Therefore a read of a file that is not ready may block
for ever, which is what `devices_index` finds; `KeyboardServed` says that this
(`<>[]Blocked`) and a return at a path a remote still had (`reused`,
`devices_reconnect`) are the only ways for a connected keyboard to stay
unserved. No event fires by fairness, so the bounds on events take nothing from
the property but behaviours with more events.
`CommandEnds` uses `WF(Client)`: the tool's process runs, and a wait in
`wait_fd` ends by an arrival or by `CALL_TIMEOUT_MS`. Nothing is assumed of the
bus and the daemon. The deadline restarts with every read (`refill`), so a peer
that sends byte by byte could stretch a call; every message of the model arrives
in two pieces, and there are finitely many.

### What the violated runs show

- `pipeline_leak`: `pipeline_configure` empties the held table; the next
  autorepeat of a key still down is taken for a fresh press and pinned under
  the new map (TESTING.md:228-229 says it must not leak).
- `devices_reconnect`: a keyboard that returns at its old path before the
  rescan looks unchanged, and the remote with the dead descriptor is kept
  (`daemon_devices.h:62`).
- `devices_index`: a loss handled earlier in the dispatch shifts later indices
  to a file that is not ready, whose blocking read stops the daemon
  (`daemon_devices.h:80`).
- `config_zero`: 0 is accepted and written by the bus methods and refused by
  the loader (`daemon_e2e.sh:18`).
- `setup_identity`: for a remote with a MAC the wizard names its files `AA_BB`,
  with the sanitisation of the kernel, and the daemon looks under `AA:BB`
  (`daemon_identity_valid` admits no other form) or, when the evdev node
  carries no MAC, under `unknown` (`cmd_setup.c:4`, `:308`, `:1126`). The
  driver's probe never sets `uniq` of its input device, so with this driver it
  is `unknown` every time. `SetupCalibrates` therefore speaks of remotes
  without a MAC in daemon mode.

### Known deviations without a run

Seen while modelling, each visible in the model named.

- `Devices`: when only the IMU path or the identity of a remote changes, the
  keyboard is grabbed a second time while the old file still has the grab; the
  grab fails with EBUSY, and after the old file is closed nobody has it
  (README.md:45 "`lgmagicd` grabs the keyboard evdev"). A `remote_open` that
  fails at the keyboard closes both outputs twice (`daemon_devices.c:286`,
  `:388`), which is harmless only because nothing is opened between the two;
  `FdOwnership` says so.
- `DeviceConfig`: without a loadable calibration `pipeline_configure` returns
  before the air mouse is configured, so it stays off and a new sensitivity
  does not reach it (`daemon_devices.c:277` logs "airmouse without
  calibration"). `SetScrollSpeed` and `SetSensitivity` refuse a value with
  `v < lo || v > hi` (`daemon_bus.c:546`), which NaN passes: like the 0 of
  `config_zero` it is written, answered with ok, and the file does not load
  again.
- `Setup`: under a sudo that resets HOME, step 11 writes root's settings over
  those of the invoking user, whereas README.md:225 promises the calibration
  path and the airmouse tuning. A `config set` made while the wizard runs is
  lost the same way. In kernel mode the daemon is neither stopped nor reloaded.
  Three recordings that are too short leave an identity calibration and exit
  status 0. A `modprobe` that fails after `rmmod` leaves no module. A signal
  between steps 3 and 5 leaves the new module parameters without a calibration.
  A conf that cannot be written is a warning only. In kernel mode a blob that
  fails the validation is written with a warning (`cmd_setup.c:639-642`), the
  run ends with success, and the kernel zeroes the calibration
  (`lgmagic_main.c:317-326`). `nan` is in range for every prompt
  (`cmd_setup.c:159`): as gyro scale it goes into the blob, where it passes both
  validations, and into the JSON as `null`, which `json.c:634` says "never
  happens here" and which reads back as the identity; as alpha or mouse_k
  it makes step 11 write a file that is not read again.
- `GlobalConfig`: `config set alpha nan` (or `inf`) is accepted by `strtod`
  (`config.c:466`), exits with 0 and is written as a word (`toml.c:1067`) the
  parser refuses (`toml.c:641`), so that every key of the user is lost;
  `SetTakesEffect` and `SaveKeepsSettings` name this as their exception. A
  number of more than fifteen digits is rounded by every save, whichever key is
  set. A saved user file holds every key, so later changes of the
  system file have no effect on that user; a malformed user file loses its keys
  at the next `config set`; `--config FILE config set` freezes FILE's values; a
  `config migrate` stops at a system file it may not write, so that an ordinary
  user's file is never reached; one that fails to write leaves an empty TOML
  file, after which a retry finds nothing to do and exits with 0.
- `DBusClient`: `profile list`, `profile show` and `button list` connect to the
  bus although they only read files (their documentation says "no daemon");
  `pick_unix_socket` skips 13 of the 14 characters of `unix:abstract=`; an
  error reply is taken whatever its serial, which `AnswerIsOwn` shows to be
  safe as long as no command goes on after a failed call.

One more was seen while modelling `pairing_match`: an IMU without a MAC that is
scanned before a keyboard's own IMU takes that keyboard, which `pairing.h:43-45`
excludes. `MacPairingExact` is therefore stated for scans whose MACs decide
every IMU.

## Proofs

Each theorem holds for every value of the constants that satisfies the module's
ASSUMEs: any number of remotes, paths, buttons, profiles, commands, requests,
faults, accounts, keys and runs of the wizard. `tlapm <module>.tla` checks them.
Every safety property, action property and refinement that a passing run checks
is also a theorem. The inductive invariants were checked with TLC on the
instances of the runs first.

- `KernelProofs`. `IInv` adds to the properties: what is down is what `lastKey`
  names and `lastKey` is only set for a button of the table (`KeyRemembered`);
  raw mode is on while the histories say so (`RawHistory`); an unsynced event
  has set the local flag (`SyncOwed`); an unbound device handles nothing
  (`Unbound`); raw mode since the probe has an IMU device that lost nothing
  (`ImuKept`). `KeyBelongsToButton` alone is not inductive: after an unknown
  button nothing would say that no key is remembered. Assumed: the table maps
  buttons to key codes and has the two special buttons.
- `PipelineProofs`. `IInv` is the type invariant with: pins are of distinct
  keys (`PinsDistinct`), of keys down or unread (`PinsLive`), every virtual key
  down has a pin (`VirtualPinned`), few enough keys are down (`FewKeys`), and
  the accumulator is exactly what the wheel owes (`AccumOwed`). `FewKeys` gives
  room for every pin (`RoomForPin`, by counting), without which a press would
  be emitted and not pinned. Assumed: no more keys are down at once than the
  table has slots (32 in the code; the driver reports one button at a time).
- `PairingProofs` and `ScanProofs`. The two loops of `pairing_match` are
  recursive functions over the index of the scanned node. The loop invariant
  goes by the least-number principle (`Least`): were there a pass after which
  it fails, take the first. `Sound` says that an IMU is given to one keyboard at
  most, and that a pair made without a MAC leaves no keyboard free; `Exact` that
  where the MACs decide, the pairs after each pass are those that match.
  `Emit` keeps one entry per keyboard in scan order. From it:
  no IMU is shared, MACs that decide are followed, and an ambiguous set is
  refused, never guessed, for scans of any length.
- `DeviceProofs`. The argument is about who holds which descriptor. `Hands`
  names every remote the daemon knows of, in the old array, in the new one or
  being opened; `Steal`, `FinishRescan` and the failures only rename holders or
  close what has none, so one lemma about renaming serves them all. `IInv`:
  descriptors have one owner of the right kind (`OneOwner`), grabs are held by
  live keyboard files (`GrabsHeld`, `KernelOK`), finished remotes have both
  outputs (`AllComplete`), what is still to be opened holds nothing
  (`TodoFresh`), and no keyboard path occurs twice in the new array and the
  remaining work together (`KeyboardsOnce`, from `Emit`), with what each phase
  of the loop holds and leaves empty (`Phases`). `FdOwnership` alone is not
  inductive: nothing would say that a remote being opened has free slots.
  `Stale` is carried beside it: the numbers a failed `remote_open` leaves behind
  name no file until the caller has closed them again, so that the second close
  takes nothing from anybody; it holds because no step opens a file in between,
  and a step that did would break it.
  `StaysServed`, an action property, needs `WorkGoesOn`: in a rescan without
  faults a working keyboard of the old array is still to be done or is open and
  live in the new one. Assumed: `ScanOrder` lists every path once, and
  `NoPath`, `NoInput` and descriptor 0 are no path, device or open file.
- `ClientProofs`. `IInv` is about what is on its way to the client, arrived or
  not: whole messages in order (`Framed`), requests of a run that are answered
  once (`OneRequest`), no reply but to the request the client waits for
  (`OneReply`). With it an error reply that is taken without looking at its
  serial is still the right one, because a command ends at the first error and
  a new command has a new connection.
  `CInv` adds what the promise of `RemoteCommand` needs. A command that changes
  settings makes one call per step, so that its serial is its step (`InStep`);
  no request is made twice (`Distinct`) and nothing was done for a command
  still to come (`Past`); everything asked for was carried out but for the last
  request (`Settled`); the last request, while it is on its way, was not
  carried out (`Pending`), and once a return is on its way it was (`Answered`).
  Without `Answered` a success could be reported for a setting the daemon never
  saw, without `Pending` one could be carried out twice. Step by step
  (`KeepsPromise`): `Start` is `Begin`, the `Send` of a setting is `Issue`, the
  daemon carrying one out is `Apply` for the current command and `Late` for an
  earlier one, an exit with 0 is `Succeed` and with 1 `Fail`, everything else
  stutters.
  The wire format, for strings of any length: `CallsAreWellFormed` says that
  `build_call` makes, byte for byte, the message of the specification, for any
  strings and any list of arguments, and `RepliesAreReadBack` that every reply
  whose fields have distinct codes and whose body is of a type the interface
  uses is read back as what was sent, arrays of any length included. A message
  is taken apart as a concatenation. The writer's buffer is always the
  message so far and the padding the last `wb_pad` put behind it (`Written`),
  and the padding that the next value asks for makes up the rest; this is why
  `nodepad` is needed, and `WbPadCounted` breaks it. The reader stands at the
  end of a beginning of the message (`Begins`), and the state of each of its
  loops after `i` fields or strings is exhibited and shown to be the loop's by
  induction over `i`, a numeral (the lemmas on loops of `PairingProofs`).
  `RequestsUnderstood` and `RepliesUnderstood` carry both over to the runs'
  invariants, with one more fact about the client, that a command has made no
  more calls than its script has steps (`Paced`), at most three. Assumed:
  `MaxLen` is a number. The proof is about the reference encoding of `Wire`;
  that this is the D-Bus format rests on reading the specification and on
  `GoldenSizes`.
- `ConfigProofs`. `FilesInv`: what is renamed over a file was written whole and
  fsynced. From it, no configuration file is ever torn, and the protocol with
  its failures implements `AtomicFiles` under the mapping `version <- disk,
  flushed <- stable`: `Rename` is `Put`, an edit is `Replace`, a write-back is
  `Flush`, everything else stutters or is a power loss. Assumed of the file
  system: rename is atomic, and fsynced data survives.
  `PipelineInv` shows that the pipeline runs the profile the configuration
  selects, also between a failed save and its rollback, for any texts.
  `TypeInv` shows that the configuration in memory and every version of every
  file is one the code can hold (`ConfigOK`: the active profile and every profile
  of the list are named, what a profile does not set has its initial value, and
  scroll speed and sensitivity are within the ranges of the bus methods),
  through loads that fail half-way,
  mutations and write-backs, for any texts.
  `SettingsInv` has the round trip: what `device_config_to_toml` writes of a
  valid configuration loads as that configuration (`RoundTrip`), the name in
  `state.toml` overrides the file's (`StateInForce`), and what is on disk loads
  as what was last acknowledged, or as what is being saved once the rename is
  done (`DiskFollows`). From it an acknowledged setting is what the disk holds,
  and a daemon that dies and returns has the settings it had.
  `SettingsArePersistent` and `RestartsKeepSettings` carry the hypothesis
  `Careful`, which `config`'s instance satisfies, and the attempt to prove them
  without it showed why each part is needed: the bus methods accept 0 and the
  loader refuses it; a device file that does not load is replaced by a partial
  configuration whose profile `state.toml` overrides; and an edit that removes
  the profile `state.toml` names leaves a `SetProfile` that is acknowledged,
  stored and not applied.
- `SetupProofs`. For the configuration: a sound configuration (`CfgOK`: every
  key has a value of its type, an unset string is never the empty one) is what
  every load returns, whatever the files hold (`LoadOK`), and what a save wrote
  loads as what was saved, to fifteen digits (`Rounded`), whatever the layers
  below say (`SavedLoads`); with a number that is not finite it loads as if the
  user had no file (`MergeRejected`). `SaveTakesEffect` puts both together
  (`Reloaded`); from these, `SetTakesEffect`, `MigrateComplete` and
  `SaveKeepsSettings`.
  `SavedWithoutAuto` breaks exactly that lemma: a string left out of the file
  comes back from the system file. For the wizard, `IInv`: every target of the
  run (`Targets`: which files depends on the mode and on what sysfs says) is
  still in `todo` or holds what belongs there (`Belongs`: this run's number, the
  rejected blob if the run warned of one, the name of the calibration), and
  `todo` names nothing else (`TodoOK`); no file holds anything but what its
  reader expects (`DiskOK`); the conf holds the mode once `wiz.conf` is set (`ConfWritten`); a
  module that was reloaded is the one probed from the disk, and the daemon has
  this run's calibration once it was told or has reopened the remote
  (`Applied`); a pending stop means an early step (`StopsEarly`); nothing is
  ever written under `unknown` as a device file, nor a per-device blob when
  sysfs names no MAC (`Unnamed`); and the loaded configuration is still what
  the files say but for the keys asked about, as long as nobody changed them
  (`CfgKept`). `SetupCalibrates` alone is not inductive: without `TodoOK` the
  last file could be closed with another still old, and without `Unnamed` a
  per-device blob left behind would be preferred by the driver, or a device
  file would point the daemon elsewhere. Assumed: numbers stay numbers under
  `%.4g` and `%.15g`, files and defaults hold numbers where the parser found one, every
  step allows at least one recording, and `None` and `Empty` differ from every
  text and number.

Only model-checked. Liveness (`KeyboardServed`, `CommandEnds`) is out of the
prover's reach. Every other property of the passing runs is a theorem.

## Not modelled

Floating-point code (air mouse, Madgwick filter, calibration fit, matrices);
the TOML and JSON codecs, character by character; `pipeline_imu`; the polkit
exchange (accepted or refused); argument parsing, printing and tables of the
CLI, and the subcommands `analyze`, `imu`, `calibrate`, `calib2bin` and
`diagnose`, which read and print or compute; the Python scripts and packaging.
Probes of the driver that fail: what the HID core does with a device that was
started and not stopped is outside the repository. The time a bus method
spends waiting for polkit, during which frames and losses wait.

## Plan

Done, in this order: `Pipeline` and its proofs; `Pairing`; `Devices`;
`DeviceConfig`, `AtomicFiles`, `ConfigDaemon` and proofs; `KernelDriver` and
proofs; `Wire`, `RemoteCommand` and `DBusClient`; `GlobalConfig` and `Setup`;
the proofs of `DBusClient`, `Wire`, `Pairing`, `Devices`, the settings of
`ConfigDaemon`, `GlobalConfig` and `Setup`. Left:

1. `KernelDriver` composed with `Pipeline` through the evdev stream. The driver
   has at most one table key down (`KeyBelongsToButton`), which is what
   `CapacityAssumption` of `Pipeline` asks for; the composition would say so
   in one specification.
2. `Devices` with the bus entry of the poll set.
