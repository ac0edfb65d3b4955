---------------------------- MODULE ConfigDaemon ----------------------------
(***************************************************************************)
(* The write side of lgmagicd: the bus methods of daemon_bus.c on one      *)
(* remote, atomic_write_file system call by system call, Reload and        *)
(* SIGHUP, the load of a remote that is opened, and what may happen        *)
(* between two system calls: a failing call, the death of the daemon, a    *)
(* power loss, an administrator's edit.                                    *)
(*                                                                         *)
(* The daemon has one thread, so a method runs to its reply before the     *)
(* next one starts.  A request that is denied by polkit, names an unknown  *)
(* key or device, or a number out of range gets an error reply and changes *)
(* nothing: it is not a step.                                              *)
(***************************************************************************)
EXTENDS DeviceConfig

CONSTANTS
  Keys,          \* keycodes of the button map
  Numbers,       \* the numbers clients send to SetScrollSpeed, SetSensitivity
  CalibPaths,    \* paths clients send to SetCalibPath, besides ""
  Calibs,        \* calibrations a file can hold
  Texts,         \* device files the administrator writes
  SeedTexts,     \* device files the machine starts with
  MaxRequests,   \* bound: requests that reach the save
  MaxFaults,     \* bound: failing system calls, crashes, power losses
  MaxEdits       \* bound: edits of the device file and the calibrations

Files == {"device", "state"}

\* What a device file the parser accepts can say: a boolean or nothing for
\* airmouse, named profiles with integers for some of the numbers.
IsText(t) ==
  /\ t = [profile |-> t.profile, calib |-> t.calib, airmouse |-> t.airmouse,
          profiles |-> t.profiles]
  /\ t.airmouse \in BOOLEAN \union {Unset}
  /\ Len(t.profiles) \in Nat
  /\ t.profiles = [i \in 1..Len(t.profiles) |-> t.profiles[i]]
  /\ \A i \in 1..Len(t.profiles) :
       LET s == t.profiles[i]
       IN  /\ s = [name |-> s.name, val |-> s.val, map |-> s.map]
           /\ s.name # Unset
           /\ DOMAIN s.val \subseteq NumFields
           /\ s.val = [f \in DOMAIN s.val |-> s.val[f]]
           /\ \A f \in DOMAIN s.val : s.val[f] \in Int

ASSUME ConfigAssumption ==
  /\ Numbers \subseteq Int
  /\ Unset \notin BOOLEAN /\ Default # Unset
  /\ \A t \in Texts \union SeedTexts : IsText(t)
  /\ DefaultPath \notin CalibPaths /\ Broken \notin Calibs
  /\ MaxRequests \in Nat /\ MaxFaults \in Nat /\ MaxEdits \in Nat

VARIABLES
  \* the file system
  disk,      \* Files -> the file as every process sees it
  stable,    \* Files -> the file a power loss leaves
  tmp,       \* Files -> <path>.tmp
  calfile,   \* calibration path -> the calibration in the file, or Broken
  \* the daemon
  pc,        \* where the handler is, "idle" in the main loop, "down"
  job,       \* the running atomic_write_file: file, text, profile asked for
  dc, pl,    \* r->dc and r->pl
  \* history
  edited,    \* the device file changed since the daemon last read or wrote it
  acked,     \* dc when the daemon was last idle
  wanted,    \* dc as the running request will have it
  requests, faults, edits

files == <<disk, stable, tmp>>
daemon == <<pc, job, dc, pl>>
bounds == <<requests, faults, edits>>
history == <<edited, acked, wanted>>
vars == <<files, calfile, daemon, history, bounds>>

NoJob == [file |-> "device", text |-> Unset]

-----------------------------------------------------------------------------
(***************************************************************************)
(* Bus methods, up to the save.                                            *)
(***************************************************************************)

\* mutate_and_save: the change is made in memory first.
mutate_and_save(new) ==
  /\ pc = "idle" /\ requests < MaxRequests
  /\ dc' = new
  /\ job' = [file |-> "device", text |-> device_config_to_toml(new)]
  /\ wanted' = new
  /\ pc' = "open"
  /\ requests' = requests + 1
  /\ UNCHANGED <<files, calfile, pl, edited, acked, faults, edits>>

MapButton(from, to) == mutate_and_save(mutate_map(dc, from, to))

ResetButtons == mutate_and_save(mutate_reset(dc))

\* A range check that is missing.
SetNumberUnchecked(f, v) == mutate_and_save(mutate_number(dc, f, v))

\* method_set_number: lo..hi starts at 0.
SetNumber(f, v) ==
  /\ v >= 0 /\ v <= (IF f = "scroll" THEN ScrollMax ELSE SensMax)
  /\ mutate_and_save(mutate_number(dc, f, v))

SetCalibPath(path) == mutate_and_save(mutate_calib(dc, path))

\* Only "default" or a profile of the device file; dc changes after the save.
SetProfile(name) ==
  /\ pc = "idle" /\ requests < MaxRequests
  /\ name = Default \/ profile_find(dc, name) # {}
  /\ job' = [file |-> "state", text |-> name]
  /\ wanted' = [dc EXCEPT !.profile = name]
  /\ pc' = "open"
  /\ requests' = requests + 1
  /\ UNCHANGED <<files, calfile, dc, pl, edited, acked, faults, edits>>

-----------------------------------------------------------------------------
(***************************************************************************)
(* atomic_write_file.                                                      *)
(***************************************************************************)

\* A write that truncates the file itself instead of a tmp file.
OpenInPlace ==
  /\ pc = "open"
  /\ disk' = [disk EXCEPT ![job.file] = Torn]
  /\ tmp' = [tmp EXCEPT ![job.file] = Torn]
  /\ pc' = "write"
  /\ UNCHANGED <<stable, calfile, job, dc, pl, history, bounds>>

\* O_EXCL finds a tmp file of a crashed write: unlink it and open again.
OpenTmp ==
  /\ pc = "open"
  /\ tmp' = [tmp EXCEPT ![job.file] = [Torn EXCEPT !.synced = FALSE]]
  /\ pc' = "write"
  /\ UNCHANGED <<disk, stable, calfile, job, dc, pl, history, bounds>>

WriteTmp ==
  /\ pc = "write"
  /\ tmp' = [tmp EXCEPT ![job.file] = [Whole(job.text) EXCEPT !.synced = FALSE]]
  /\ pc' = "sync"
  /\ UNCHANGED <<disk, stable, calfile, job, dc, pl, history, bounds>>

\* A write path that renames without waiting for the data.
SyncTmpSkipped ==
  /\ pc = "sync"
  /\ pc' = "rename"
  /\ UNCHANGED <<files, calfile, job, dc, pl, history, bounds>>

SyncTmp ==
  /\ pc = "sync"
  /\ tmp' = [tmp EXCEPT ![job.file].synced = TRUE]
  /\ pc' = "rename"
  /\ UNCHANGED <<disk, stable, calfile, job, dc, pl, history, bounds>>

Rename ==
  /\ pc = "rename"
  /\ disk' = [disk EXCEPT ![job.file] = tmp[job.file]]
  /\ tmp' = [tmp EXCEPT ![job.file] = Absent]
  /\ pc' = "saved"
  /\ edited' = (edited /\ job.file = "state")
  /\ UNCHANGED <<stable, calfile, job, dc, pl, acked, wanted, bounds>>

\* A call of atomic_write_file fails: the tmp file is unlinked, except that
\* an open that finds no way in may leave a stale one.
SaveFails ==
  /\ pc \in {"open", "write", "sync", "rename"}
  /\ faults < MaxFaults
  /\ \/ tmp' = [tmp EXCEPT ![job.file] = Absent]
     \/ pc = "open" /\ UNCHANGED tmp
  /\ pc' = "failed"
  /\ faults' = faults + 1
  /\ UNCHANGED <<disk, stable, calfile, job, dc, pl, history, requests, edits>>

-----------------------------------------------------------------------------
(***************************************************************************)
(* The end of a bus method, and loading.                                   *)
(***************************************************************************)

\* The daemon takes dc into force and is idle again.
Apply(new) ==
  /\ dc' = new
  /\ pl' = pipeline_configure(pl, new, calfile)
  /\ acked' = new
  /\ wanted' = new
  /\ job' = NoJob
  /\ pc' = "idle"

\* save_device succeeded: remote_apply, ok().
ReplySaved ==
  /\ pc = "saved" /\ job.file = "device"
  /\ Apply(dc)
  /\ UNCHANGED <<files, calfile, edited, bounds>>

\* save_profile succeeded: reload dc, whatever the reload says, and apply it.
ReplyProfile ==
  /\ pc = "saved" /\ job.file = "state"
  /\ Apply(daemon_config_load_remote(disk).dc)
  /\ edited' = FALSE
  /\ UNCHANGED <<files, calfile, bounds>>

\* A rollback that forgets to load.
RollbackKeepsMutation ==
  /\ pc = "failed" /\ job.file = "device"
  /\ Apply(dc)
  /\ edited' = FALSE
  /\ UNCHANGED <<files, calfile, bounds>>

\* A rollback that restores the configuration but not the pipeline.
RollbackNotApplied ==
  /\ pc = "failed" /\ job.file = "device"
  /\ dc' = daemon_config_load_remote(disk).dc
  /\ acked' = dc' /\ wanted' = dc'
  /\ job' = NoJob
  /\ pc' = "idle"
  /\ edited' = FALSE
  /\ UNCHANGED <<files, calfile, pl, bounds>>

\* remote_rollback: dc is what the disk says, as far as it can be parsed.
remote_rollback ==
  /\ pc = "failed" /\ job.file = "device"
  /\ Apply(daemon_config_load_remote(disk).dc)
  /\ edited' = FALSE
  /\ UNCHANGED <<files, calfile, bounds>>

\* save_profile failed: dc and the pipeline were not touched.
FailProfile ==
  /\ pc = "failed" /\ job.file = "state"
  /\ wanted' = dc
  /\ job' = NoJob
  /\ pc' = "idle"
  /\ UNCHANGED <<files, calfile, dc, pl, edited, acked, bounds>>

\* daemon_devices_reload, by the bus or SIGHUP: a file that does not load
\* leaves the previous configuration in force.
Reload ==
  /\ pc = "idle"
  /\ LET new == daemon_config_load_remote(disk)
     IN  /\ new.ok
         /\ Apply(new.dc)
  /\ edited' = FALSE
  /\ UNCHANGED <<files, calfile, bounds>>

\* remote_open, after a start of the daemon or a reconnect: a file that does
\* not load leaves what was parsed of it in force.
OpenRemote ==
  /\ pc = "down"
  /\ LET new == daemon_config_load_remote(disk).dc
     IN  /\ dc' = new
         /\ pl' = pipeline_configure(pipeline_init, new, calfile)
         /\ acked' = new /\ wanted' = new
  /\ job' = NoJob
  /\ pc' = "idle"
  /\ edited' = FALSE
  /\ UNCHANGED <<files, calfile, bounds>>

-----------------------------------------------------------------------------
(***************************************************************************)
(* The environment.                                                        *)
(***************************************************************************)

\* The daemon dies, or the remote goes away between two requests.
Crash ==
  /\ pc # "down" /\ faults < MaxFaults
  /\ pc' = "down"
  /\ faults' = faults + 1
  /\ UNCHANGED <<files, calfile, job, dc, pl, history, requests, edits>>

\* What a power loss makes of a file whose name is on disk: the data too only
\* if it was fsynced.
Survives(file) == IF file.synced THEN file ELSE Torn

PowerLoss ==
  /\ faults < MaxFaults
  /\ disk' = [f \in Files |-> Survives(stable[f])]
  /\ stable' = disk'
  /\ tmp' \in [Files -> {Absent, Torn}]
  /\ pc' = "down"
  /\ edited' = TRUE
  /\ faults' = faults + 1
  /\ UNCHANGED <<calfile, job, dc, pl, acked, wanted, requests, edits>>

\* The file system commits a rename on its own time.
Flush(f) ==
  /\ stable[f] # disk[f]
  /\ stable' = [stable EXCEPT ![f] = disk[f]]
  /\ UNCHANGED <<disk, tmp, calfile, daemon, history, bounds>>

Edit(text) ==
  /\ edits < MaxEdits
  /\ disk' = [disk EXCEPT !["device"] = Whole(text)]
  /\ stable' = [stable EXCEPT !["device"] = Whole(text)]
  /\ edited' = TRUE
  /\ edits' = edits + 1
  /\ UNCHANGED <<tmp, calfile, daemon, acked, wanted, requests, faults>>

\* A calibration is written, removed or spoilt.
EditCalib(path, cal) ==
  /\ edits < MaxEdits
  /\ calfile[path] # cal
  /\ calfile' = [calfile EXCEPT ![path] = cal]
  /\ edits' = edits + 1
  /\ UNCHANGED <<files, daemon, history, requests, faults>>

-----------------------------------------------------------------------------
Init ==
  /\ disk \in {[device |-> d, state |-> Absent] :
                 d \in {Absent} \union {Whole(t) : t \in SeedTexts}}
  /\ stable = disk
  /\ tmp = [f \in Files |-> Absent]
  /\ calfile \in [CalibPaths \union {DefaultPath} -> {Broken} \union Calibs]
  /\ pc = "down"
  /\ job = NoJob
  /\ dc = device_config_init /\ pl = pipeline_init
  /\ edited = FALSE
  /\ acked = daemon_config_load_remote(disk).dc /\ wanted = acked
  /\ requests = 0 /\ faults = 0 /\ edits = 0

ProfileNames == {Default} \union {dc.profiles[i].name : i \in DOMAIN dc.profiles}

Request ==
  \/ \E from, to \in Keys : MapButton(from, to)
  \/ ResetButtons
  \/ \E f \in {"scroll", "sens"}, v \in Numbers : SetNumber(f, v)
  \/ \E path \in CalibPaths \union {Unset} : SetCalibPath(path)
  \/ \E name \in ProfileNames : SetProfile(name)

Save == OpenTmp \/ WriteTmp \/ SyncTmp \/ Rename \/ SaveFails

Finish == ReplySaved \/ ReplyProfile \/ remote_rollback \/ FailProfile

Environment ==
  \/ Crash \/ PowerLoss
  \/ \E f \in Files : Flush(f)
  \/ \E text \in Texts : Edit(text)
  \/ \E path \in CalibPaths \union {DefaultPath}, cal \in Calibs \union {Broken} :
       EditCalib(path, cal)

Next == Request \/ Save \/ Finish \/ Reload \/ OpenRemote \/ Environment

Spec == Init /\ [][Next]_vars

-----------------------------------------------------------------------------
(***************************************************************************)
(* Properties.                                                             *)
(***************************************************************************)

\* Types, and the ranges the bus methods let a client set.
TypeOK ==
  /\ pc \in {"down", "idle", "open", "write", "sync", "rename", "saved", "failed"}
  /\ \A f \in Files : /\ disk[f].is \in {"absent", "whole", "torn"}
                      /\ stable[f].is \in {"absent", "whole", "torn"}
                      /\ tmp[f].is \in {"absent", "whole", "torn"}
  /\ job.file \in Files
  /\ \A i \in DOMAIN dc.profiles : /\ dc.profiles[i].val.scroll \in 0..ScrollMax
                                   /\ dc.profiles[i].val.sens \in 0..SensMax
  /\ edited \in BOOLEAN
  /\ requests \in 0..MaxRequests /\ faults \in 0..MaxFaults
  /\ edits \in 0..MaxEdits

\* Whatever fails and whenever the daemon or the machine dies, a reader of a
\* device file or of state.toml finds one whole version (atomic_write_file).
NeverTorn ==
  \A f \in Files : /\ disk[f].is # "torn"
                   /\ stable[f].is # "torn" /\ stable[f].synced

\* Between two requests the configuration in memory is the one the next start
\* would load: a failed save was rolled back, a successful one written.
SettingsPersist ==
  pc = "idle" /\ ~edited => dc = daemon_config_load_remote(disk).dc

\* After the daemon dies in the middle of a request, the next start has the
\* settings from before the request or those it asked for, nothing else.
RestartKeepsSettings ==
  pc = "down" /\ ~edited =>
    daemon_config_load_remote(disk).dc \in {acked, wanted}

\* Between two requests buttons and scroll speed are those of dc.
PipelineFollowsConfig ==
  pc = "idle" => pl.active = Resolve(dc)

\* The write protocol implements files whose versions replace one another in
\* one step.
Abstract == INSTANCE AtomicFiles WITH version <- disk, flushed <- stable

ImplementsAtomicFiles == Abstract!Spec

=============================================================================
