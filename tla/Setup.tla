------------------------------- MODULE Setup -------------------------------
(***************************************************************************)
(* The setup wizard (tools/src/cmd_setup.c, modprobe_helpers.c) composed   *)
(* with what it configures: the module parameters and the calibration the  *)
(* driver loads when it probes the remote, the daemon's per-device state,  *)
(* and the invoking user's configuration file (module GlobalConfig).       *)
(*                                                                         *)
(* The wizard runs for minutes beside everything else: the remote may be   *)
(* replugged, the daemon opens it, `lgmagic config` rewrites the user's    *)
(* file, a signal or a kill ends the wizard at any step and another run    *)
(* starts from what it left.  A calibration is the number of the run that  *)
(* recorded it.  Every file is written by fopen("w") ... fclose: in        *)
(* between it is empty.  Directories and the enabled unit are left out.    *)
(***************************************************************************)
EXTENDS GlobalConfig, Sequences

CONSTANTS Scenarios,  \* hosts, files and budgets a behaviour may start from
          FourDigits, \* "%.4g" and back: each number as four digits keep it
          Tries,      \* recordings of one calibration step (3)
          Rejected,   \* a blob outside the ranges the kernel accepts
          Empty       \* a file between its fopen("w") and its fclose

VARIABLES host,    \* what sysfs says of the remote, and what lgmagicd sees
          disk,    \* conf, blobs, calibration JSONs and device files
          module,  \* the driver bound to the remote, None when not loaded
          daemon,  \* lgmagicd: running, remote opened, calibration in use
          wiz,     \* the wizard
          left     \* bounds: runs, commands and replugs still to come, the
                   \* accounts the wizard is run from, the numbers typed

setupVars == <<host, disk, module, daemon, wiz, left>>
vars == <<configVars, setupVars>>

\* A remote with a MAC is AA_BB for sanitize_mac and AA:BB for the daemon.
Idents == {"AA_BB", "AA:BB", "unknown", "etc"}
Conf == <<"conf">>
MacBlob == <<"blob", "AA_BB">>
GenericBlob == <<"blob", "any">>
Calib(id) == <<"calib", id>>
Device(id) == <<"device", id>>

\* What the driver and the daemon read, and the csv files beside a calibration.
Settings == {MacBlob, GenericBlob} \cup {Calib(i) : i \in Idents} \cup {Device(i) : i \in Idents}
Recordings == {"accel", "gyro"} \X Idents
Paths == {Conf} \cup Settings \cup Recordings

\* A file the parsers accept or reject: a number where they find one.
IsConfig(f) ==
    /\ f = [is |-> f.is, table |-> f.table]
    /\ DOMAIN f.table \subseteq Keys
    /\ \A key \in DOMAIN f.table :
          /\ f.table[key][1] \in {"int", "float", "num"} => f.table[key][2] \in Numbers
          /\ f.table[key][1] = "bool" => f.table[key][2] \in BOOLEAN

ASSUME SetupAssumption ==
    /\ "default_calib" \in StrKeys /\ {"alpha", "mouse_k"} \subseteq NumKeys
    /\ FourDigits \in [Numbers -> Numbers]
    /\ \A key \in NumKeys : Builtin[key] \in Numbers
    /\ \A text \in DOMAIN Numeral : Numeral[text] \in Numbers
    /\ \A f \in Extras : IsConfig(f)
    /\ \A s \in Scenarios :
          /\ s.runs \in Nat /\ s.answers \subseteq Numbers
          /\ s.file = [loc \in Locations |-> s.file[loc]]
          /\ \A loc \in Locations : IsConfig(s.file[loc]) /\ IsConfig(s.json[loc])
    /\ Rejected \notin {None, Empty} /\ Rejected \notin Nat
    /\ Tries \in Nat \ {0}
    /\ None # Empty /\ None # "" /\ None \notin Numbers /\ None \notin BOOLEAN
    /\ \A x \in {None, Empty} : x \notin Nat /\ x \notin Idents /\ x \notin {"daemon", "kernel"}
    /\ None \notin [raw : BOOLEAN, calib : Nat \cup {None}]

-----------------------------------------------------------------------------
(* The driver and the daemon, as far as the wizard feeds them *)

Holds(d, path) == d[path] \notin {None, Empty}

\* A blob that does not validate leaves the calibration zeroed.
Validated(blob) == IF blob = Rejected THEN None ELSE blob

\* request_firmware fails on an absent or an empty file; only then is the
\* generic one tried.
lgmagic_load_fw(d) ==
    CASE host.hid = "mac" /\ Holds(d, MacBlob) -> Validated(d[MacBlob])
      [] OTHER -> IF Holds(d, GenericBlob) THEN Validated(d[GenericBlob]) ELSE None

\* raw_only defaults to 1; the probe loads the calibration.
Probed(d) == [raw |-> d[Conf] # "kernel", calib |-> lgmagic_load_fw(d)]

daemon_identity == IF host.evdev = "mac" THEN "AA:BB" ELSE "unknown"

\* The device file's calib member, or <state dir>/<identity>/calibration.json.
daemon_config_calib_path ==
    IF Holds(disk, Device(daemon_identity)) THEN Calib(disk[Device(daemon_identity)])
    ELSE Calib(daemon_identity)

\* calib_load fails on an absent or an empty file: the previous one stays.
pipeline_configure(previous) ==
    IF Holds(disk, daemon_config_calib_path) THEN disk[daemon_config_calib_path]
    ELSE previous

\* remote_open: a fresh pipeline.
DaemonOpens ==
    /\ daemon.running /\ ~daemon.open /\ module # None
    /\ daemon' = [daemon EXCEPT !.open = TRUE, !.calib = pipeline_configure(None)]
    /\ UNCHANGED <<configVars, host, disk, module, wiz, left>>

\* The remote leaves and returns: probed again under the parameters the
\* module was loaded with, lost to the daemon for a moment.
Replug ==
    /\ left.replugs > 0 /\ module # None
    /\ module' = [module EXCEPT !.calib = lgmagic_load_fw(disk)]
    /\ daemon' = [daemon EXCEPT !.open = FALSE, !.calib = None]
    /\ left' = [left EXCEPT !.replugs = @ - 1]
    /\ UNCHANGED <<configVars, host, disk, wiz>>

\* module_reload: rmmod fails while the remote keeps it busy, or modprobe
\* brings it back with the parameters of the conf, or fails and it is gone.
module_reload(ok) ==
    \/ ~ok /\ UNCHANGED <<module, daemon>>
    \/ /\ module # None
       /\ module' = IF ok THEN Probed(disk) ELSE None
       /\ daemon' = [daemon EXCEPT !.open = FALSE, !.calib = None]

-----------------------------------------------------------------------------
(* The wizard's steps *)

At(pc) == wiz.pc = pc

NoWizard ==
    [pc |-> "idle", run |-> 0, mode |-> "daemon", stop |-> FALSE, tries |-> 0, todo |-> <<>>,
     conf |-> FALSE, reloaded |-> FALSE, notified |-> FALSE, warned |-> FALSE, home |-> "root",
     target |-> "root", cfg |-> set_defaults, prior |-> None, fresh |-> TRUE]

\* A process that is gone takes its variables with it.
Goto(pc) == wiz' = IF pc = "failed" THEN [NoWizard EXCEPT !.pc = pc] ELSE [wiz EXCEPT !.pc = pc]

Running == wiz.pc \notin {"idle", "done", "failed"}

\* Mutant: the check after the gyroscope step is missing.
AdvanceLate(pc) == IF wiz.stop /\ pc # "tune" THEN "failed" ELSE pc

\* The run answers g_stop at the end of each of the first five steps.
Advance(pc) == IF wiz.stop THEN "failed" ELSE pc

\* Mutant: the system file only, as in the daemon.
LoadedBySystem(home) == config_load_daemon

\* g_cfg, loaded before the subcommand runs.
LoadedBy(home) == config_load(home, Missing)

\* g_cfg comes from HOME, the save goes to SUDO_USER's home if there is one:
\* sudo resets HOME to root's or keeps the user's.
Start(home, target) ==
    /\ ~Running /\ left.runs > 0
    /\ <<home, target>> \in left.accounts
    /\ left' = [left EXCEPT !.runs = @ - 1]
    /\ wiz' = [pc |-> "environment", run |-> left.runs, mode |-> "daemon", stop |-> FALSE,
               tries |-> 0, todo |-> <<>>, conf |-> FALSE, reloaded |-> FALSE,
               notified |-> FALSE, warned |-> FALSE, home |-> home, target |-> target,
               cfg |-> LoadedBy(home), prior |-> None, fresh |-> TRUE]
    /\ UNCHANGED <<configVars, host, disk, module, daemon>>

\* SIGINT or SIGTERM: from step 6 on nothing reads the flag.
Interrupt ==
    /\ wiz.pc \in {"environment", "mode", "conf", "confWrite", "reload", "reopen",
                   "accel", "accelFit", "gyro", "gyroFit"}
    /\ wiz' = [wiz EXCEPT !.stop = TRUE]
    /\ UNCHANGED <<configVars, host, disk, module, daemon, left>>

\* SIGKILL, SIGHUP with the terminal, a power cut.
Kill ==
    /\ Running /\ Goto("failed")
    /\ UNCHANGED <<configVars, host, disk, module, daemon, left>>

\* Root, the module (loaded if it is not), the IMU node and the hidraw node.
step_environment ==
    /\ At("environment")
    /\ module' \in IF module = None THEN {None, Probed(disk)} ELSE {module}
    /\ \/ Goto("failed")
       \/ module' # None /\ Goto(Advance("mode"))
    /\ UNCHANGED <<configVars, host, disk, daemon, left>>

ask_mode ==
    /\ At("mode")
    /\ \E mode \in {"daemon", "kernel"} :
          IF Advance("conf") = "conf" THEN wiz' = [wiz EXCEPT !.mode = mode, !.pc = "conf"]
          ELSE Goto("failed")
    /\ UNCHANGED <<configVars, host, disk, module, daemon, left>>

\* Step 3: a conf that cannot be written skips the reload and the daemon.
module_write_conf ==
    \/ /\ At("conf")
       /\ \/ disk' = [disk EXCEPT ![Conf] = Empty] /\ Goto("confWrite")
          \/ UNCHANGED disk /\ Goto(Advance("reopen"))
       /\ UNCHANGED <<configVars, host, module, daemon, left>>
    \/ /\ At("confWrite")
       /\ \/ /\ disk' = [disk EXCEPT ![Conf] = wiz.mode]
             /\ wiz' = [wiz EXCEPT !.conf = TRUE, !.pc = "reload"]
          \/ UNCHANGED disk /\ Goto(Advance("reopen"))
       /\ UNCHANGED <<configVars, host, module, daemon, left>>

\* The rest of step 3: the reload, whatever comes of it, ...
step_module_params ==
    /\ At("reload")
    /\ \E ok \in BOOLEAN : module_reload(ok)
    /\ Goto("enable")
    /\ UNCHANGED <<configVars, host, disk, left>>

\* ... and systemctl enable --now in daemon mode, best effort.
EnableDaemon ==
    /\ At("enable")
    /\ \/ UNCHANGED daemon
       \/ /\ wiz.mode = "daemon" /\ ~daemon.running
          /\ daemon' = [running |-> TRUE, open |-> FALSE, calib |-> None]
    /\ Goto(Advance("reopen"))
    /\ UNCHANGED <<configVars, host, disk, module, left>>

\* The IMU node again, after the reload; then the directories.
Reopen ==
    /\ At("reopen")
    /\ \/ Goto("failed")
       \/ module # None /\ wiz' = [wiz EXCEPT !.pc = "accel", !.tries = 1]
    /\ UNCHANGED <<configVars, host, disk, module, daemon, left>>

\* The uniq as the wizard reads it from sysfs, with ':' turned into '_'.
sanitize_mac == IF host.hid = "mac" /\ host.sysfs THEN "AA_BB" ELSE None

CalibIdent ==
    IF sanitize_mac # None THEN sanitize_mac
    ELSE IF wiz.mode = "daemon" THEN "unknown" ELSE "etc"

\* The recording beside the calibration.  A write that fails and a recording
\* too short to be written end no run and are left out: nothing reads it back.
csv_write(kind) == disk' = [disk EXCEPT ![<<kind, CalibIdent>>] = "samples"]

\* A read error, no samples at all or a signal ends the run; otherwise the
\* recording is saved and judged.
Record(kind, judged) ==
    /\ At(kind)
    /\ \/ Goto("failed") /\ UNCHANGED disk
       \/ ~wiz.stop /\ csv_write(kind) /\ Goto(judged)
    /\ UNCHANGED <<configVars, host, module, daemon, left>>

\* Mutant: one recording too many.
RecordOnceMore(kind, next) ==
    \/ Goto("failed")
    \/ Advance(next) = next /\ wiz' = [wiz EXCEPT !.pc = next, !.tries = 1]
    \/ wiz.tries <= Tries /\ wiz' = [wiz EXCEPT !.pc = kind, !.tries = @ + 1]

\* A good recording ends the step; a poor one is repeated or, refused or at
\* the last try, accepted.
Judge(kind, next) ==
    \/ Goto("failed")
    \/ Advance(next) = next /\ wiz' = [wiz EXCEPT !.pc = next, !.tries = 1]
    \/ wiz.tries < Tries /\ wiz' = [wiz EXCEPT !.pc = kind, !.tries = @ + 1]

step_accel_calib ==
    \/ Record("accel", "accelFit")
    \/ /\ At("accelFit") /\ Judge("accel", "gyro")
       /\ UNCHANGED <<configVars, host, disk, module, daemon, left>>

step_gyro_calib ==
    \/ Record("gyro", "gyroFit")
    \/ /\ At("gyroFit") /\ Judge("gyro", "tune")
       /\ UNCHANGED <<configVars, host, disk, module, daemon, left>>

\* Mutant: a per-device blob that is there already is kept.
StepBlobKeepsOld(blob) ==
    IF wiz.mode = "daemon" THEN <<>>
    ELSE (IF sanitize_mac # None /\ disk[MacBlob] = None
          THEN <<[path |-> MacBlob, text |-> blob]>> ELSE <<>>)
           \o <<[path |-> GenericBlob, text |-> blob]>>

\* Both blobs are written, also one that fails the validation.
step_blob(blob) ==
    IF wiz.mode = "daemon" THEN <<>>
    ELSE (IF sanitize_mac # None THEN <<[path |-> MacBlob, text |-> blob]>> ELSE <<>>)
           \o <<[path |-> GenericBlob, text |-> blob]>>

step_daemon_state ==
    <<[path |-> Calib(CalibIdent), text |-> wiz.run]>>
        \o IF sanitize_mac = None THEN <<>>
           ELSE <<[path |-> Device(sanitize_mac), text |-> CalibIdent]>>

\* An answer in its range or nan, or the default on an empty line or for any
\* other answer, as step 11 writes it with "%.4g".
Answer(answer, default) == FourDigits[IF answer = None THEN default ELSE answer]

Tuned(cfg, alpha, k) ==
    [cfg EXCEPT !["alpha"] = Answer(alpha, @), !["mouse_k"] = Answer(k, @)]

\* What was recorded and answered makes a blob the kernel accepts or, with a
\* warning, one it rejects.
ask_tuning ==
    /\ At("tune")
    /\ \E alpha, k \in left.answers \cup {None}, blob \in {wiz.run, Rejected} :
          wiz' = [wiz EXCEPT !.pc = "write", !.tries = 0,
                             !.todo = step_blob(blob) \o step_daemon_state,
                             !.warned = wiz.mode = "kernel" /\ blob = Rejected,
                             !.cfg = Tuned(@, alpha, k)]
    /\ UNCHANGED <<configVars, host, disk, module, daemon, left>>

\* Steps 7 and 8: the files one after the other; a failure ends the run.
OpenFile ==
    /\ At("write") /\ wiz.todo # <<>>
    /\ \/ disk' = [disk EXCEPT ![Head(wiz.todo).path] = Empty] /\ Goto("close")
       \/ UNCHANGED disk /\ Goto("failed")
    /\ UNCHANGED <<configVars, host, module, daemon, left>>

CloseFile ==
    /\ At("close")
    /\ \/ /\ disk' = [disk EXCEPT ![Head(wiz.todo).path] = Head(wiz.todo).text]
          /\ wiz' = [wiz EXCEPT !.pc = "write", !.todo = Tail(@)]
       \/ UNCHANGED disk /\ Goto("failed")
    /\ UNCHANGED <<configVars, host, module, daemon, left>>

\* Reload over the bus, in daemon mode: done and answered, done and the
\* answer missed, or not reached.
Notify ==
    /\ At("write") /\ wiz.todo = <<>>
    /\ \E done \in BOOLEAN, answered \in BOOLEAN :
          /\ done => wiz.mode = "daemon" /\ daemon.running
          /\ answered => done
          /\ daemon' = IF done /\ daemon.open
                       THEN [daemon EXCEPT !.calib = pipeline_configure(@)] ELSE daemon
          /\ wiz' = [wiz EXCEPT !.notified = answered, !.pc = "verify"]
    /\ UNCHANGED <<configVars, host, disk, module, left>>

step_reload_verify ==
    /\ At("verify")
    /\ \E ok \in BOOLEAN :
          module_reload(ok) /\ wiz' = [wiz EXCEPT !.reloaded = ok, !.pc = "save"]
    /\ UNCHANGED <<configVars, host, disk, left>>

\* The three keys of step 11.
TunedKeys == {"default_calib", "alpha", "mouse_k"}

\* Step 11, config_save_user into the invoking user's home; the run succeeds
\* whether or not it does.
step_save_user_config ==
    \/ /\ At("save")
       /\ \/ /\ wiz' = [wiz EXCEPT !.pc = "saving", !.prior = config_load(wiz.target, Missing),
                                   !.cfg = config_set_key(@, "default_calib", CalibIdent)]
             /\ Truncate(wiz.target)
          \/ Goto("done") /\ UNCHANGED file
       /\ UNCHANGED <<json, host, disk, module, daemon, left>>
    \/ /\ At("saving")
       /\ config_save_user(wiz.target, wiz.cfg) \/ UNCHANGED file
       /\ Goto("done")
       /\ UNCHANGED <<json, host, disk, module, daemon, left>>

-----------------------------------------------------------------------------

Init ==
    \E s \in Scenarios :
        /\ host = s.host /\ file = s.file /\ json = s.json
        /\ left = [runs |-> s.runs, commands |-> s.commands, replugs |-> s.replugs,
                   accounts |-> s.accounts, answers |-> s.answers]
        /\ disk = [p \in Paths |-> None]
        /\ module = Probed(disk)
        /\ daemon = [running |-> s.running, open |-> FALSE, calib |-> None]
        /\ wiz = NoWizard

\* Someone runs `lgmagic config` while the wizard holds what it loaded.
ConfigCommand ==
    /\ left.commands > 0 /\ Command
    /\ left' = [left EXCEPT !.commands = @ - 1]
    /\ wiz' = [wiz EXCEPT !.fresh = @ /\ file' = file]
    /\ UNCHANGED <<host, disk, module, daemon>>

Step ==
    \/ step_environment \/ ask_mode \/ module_write_conf \/ step_module_params
    \/ EnableDaemon \/ Reopen \/ step_accel_calib \/ step_gyro_calib \/ ask_tuning
    \/ OpenFile \/ CloseFile \/ Notify \/ step_reload_verify \/ step_save_user_config

Next ==
    \/ \E home, target \in Homes : Start(home, target)
    \/ Step \/ Interrupt \/ Kill \/ ConfigCommand \/ DaemonOpens \/ Replug

Spec == Init /\ [][Next]_vars

-----------------------------------------------------------------------------
(* Properties *)

Steps == {"idle", "environment", "mode", "conf", "confWrite", "reload", "enable", "reopen",
          "accel", "accelFit", "gyro", "gyroFit", "tune", "write", "close", "verify", "save", "saving",
          "done", "failed"}

\* Runs are numbered downwards from the budget they use up.
Calibrations == {s.runs : s \in Scenarios} \cup UNION {1..s.runs : s \in Scenarios}

Contents(p) ==
    CASE p[1] = "conf" -> {"daemon", "kernel"}
      [] p[1] = "blob" -> Calibrations \cup {Rejected}
      [] p[1] = "calib" -> Calibrations
      [] p[1] = "device" -> Idents
      [] OTHER -> {"samples"}

(* Every file holds what its reader expects or is absent or cut short, the *)
(* wizard closes only a file it has opened, and the loops of steps 4 and 5 *)
(* stay within their number of recordings.                                 *)
TypeOK ==
    /\ \A loc \in Locations : DOMAIN file[loc].table \subseteq Keys
    /\ \A p \in Paths : disk[p] \in Contents(p) \cup {None, Empty}
    /\ module = None \/ module.calib \in Calibrations \cup {None}
    /\ daemon.open => daemon.running
    /\ wiz.pc \in Steps /\ wiz.tries \in 0..Tries /\ Len(wiz.todo) <= 4
    /\ At("close") => wiz.todo # <<>> /\ disk[Head(wiz.todo).path] = Empty
    /\ \A key \in Keys : wiz.cfg[key] = None => key \in StrKeys

DriverCalibrated ==
    module # None /\ ~module.raw /\ module.calib = IF wiz.warned THEN None ELSE wiz.run

(* A run that ends with success and applied what it wrote leaves no        *)
(* calibration but its own in use, whatever earlier runs left half done    *)
(* and whatever was replugged meanwhile.  In kernel mode the driver has it *)
(* (both blobs are written before the module is reloaded), or none at all  *)
(* if the wizard warned that the kernel would reject the blob it wrote: an *)
(* earlier run's blob is never found in its place.  In daemon mode         *)
(* lgmagicd has it as soon as it holds the remote (the JSON is complete    *)
(* before Reload and before the reload of the module), for a remote        *)
(* without a MAC.                                                          *)
SetupCalibrates ==
    At("done") =>
        /\ wiz.mode = "kernel" /\ wiz.conf /\ wiz.reloaded => DriverCalibrated
        /\ /\ wiz.mode = "daemon" /\ (wiz.notified \/ wiz.reloaded)
           /\ sanitize_mac = None /\ daemon_identity = "unknown"
           /\ daemon.open
           => daemon.calib = wiz.run

(* A signal before the end of step 5 ends the run before it opens anything *)
(* that the driver, lgmagicd or the user's commands read back: no blob,    *)
(* calibration, device file or user file, whichever step or prompt it      *)
(* arrived in and however the prompts after it were answered.  The module  *)
(* parameters and the recordings of steps 4 and 5 may be there by then.    *)
InterruptedWritesNothing ==
    [][wiz.stop /\ wiz'.pc # wiz.pc =>
          file' = file /\ \A p \in Settings : disk'[p] = disk[p]]_vars

(* Step 11 leaves the user's other settings as they were before the run    *)
(* opened the file, their numbers as fifteen digits keep them, when the    *)
(* run loaded that same user's configuration and nobody changed it since:  *)
(* config_save_user writes every key, also those that came from the system *)
(* file or the defaults.  A number that is not finite among them, or nan   *)
(* answered to a prompt, loses them all: the file is saved, is not read    *)
(* again, and the system file and the defaults are left.  (Under a sudo    *)
(* that resets HOME the run loaded root's configuration and the settings   *)
(* of the invoking user are replaced by it.)                               *)
SaveKeepsSettings ==
    [][/\ At("saving") /\ wiz'.pc = "done" /\ config_save_user(wiz.target, wiz.cfg)
       /\ wiz.home = wiz.target /\ wiz.fresh
       => IF Unreadable(wiz.cfg) THEN config_load(wiz.target, Missing)' = config_load_daemon
          ELSE \A key \in Keys \ TunedKeys :
                  config_load(wiz.target, Missing)'[key] = Rounded(wiz.prior)[key]]_vars

(* cmd_setup.c: in daemon mode the authoritative file is "the daemon's     *)
(* default path" and "the wizard writes exactly there"; after it finishes  *)
(* "the remote works end to end".  For a remote with a MAC the wizard      *)
(* names its files AA_BB and the daemon looks for AA:BB or unknown.        *)
SetupWorks ==
    At("done") /\ wiz.mode = "daemon" /\ wiz.conf /\ wiz.reloaded /\ wiz.notified
        /\ daemon.open
        => daemon.calib = wiz.run
=============================================================================
