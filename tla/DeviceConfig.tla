---------------------------- MODULE DeviceConfig ----------------------------
(***************************************************************************)
(* The per-remote configuration of profiles.c and daemon_config.c as       *)
(* values and operators: what a device file says, what loading, saving and *)
(* changing it yields, and what pipeline_configure makes of it.            *)
(*                                                                         *)
(* In memory a profile has a value for every number and the set of those   *)
(* set explicitly (has_scroll, has_sens, has_lpf); in a file it has the    *)
(* explicit ones only.  Numbers are integers; lpf is in hundredths.        *)
(***************************************************************************)
EXTENDS Integers, Sequences, FiniteSets

CONSTANTS
  Default,      \* the profile name "default"
  Unset,        \* a key the file does not have; NULL in memory
  DefaultPath,  \* <state_dir>/<identity>/calibration.json
  Broken,       \* a calibration file that is absent or does not parse
  Identity,     \* the identity calibration of pipeline_init
  GlobalAlpha   \* lpf_alpha of config.toml, or its built-in default

NumFields == {"scroll", "sens", "lpf"}

\* The largest numbers a profile may have.
ScrollMax == 100
SensMax == 10000
LpfMax == 100

\* profile_init: the built-in numbers, none of them explicit.
profile_init(name) ==
  [name |-> name, val |-> [scroll |-> 1, sens |-> 30, lpf |-> -1],
   has |-> {}, map |-> << >>]

\* device_config_init: what a remote without a device file gets.
device_config_init ==
  [profile |-> Default, calib |-> Unset, airmouse |-> TRUE,
   has_airmouse |-> FALSE, profiles |-> << >>]

\* The indices of the profiles called name (at most one).
profile_find(dc, name) ==
  {i \in DOMAIN dc.profiles : dc.profiles[i].name = name}

profile_validate(p) ==
  /\ p.val.scroll > 0 /\ p.val.scroll <= ScrollMax
  /\ p.val.sens > 0 /\ p.val.sens <= SensMax
  /\ "lpf" \in p.has => p.val.lpf \in 0..LpfMax

device_config_validate(dc) ==
  /\ \A i \in DOMAIN dc.profiles : profile_validate(dc.profiles[i])
  /\ dc.profile = Default \/ profile_find(dc, dc.profile) # {}

-----------------------------------------------------------------------------
(***************************************************************************)
(* Files.                                                                  *)
(***************************************************************************)

profile_parse_fields(t) ==
  [name |-> t.name, has |-> DOMAIN t.val, map |-> t.map,
   val |-> [f \in NumFields |-> IF f \in DOMAIN t.val THEN t.val[f]
                                ELSE profile_init(t.name).val[f]]]

GoodSection(t) == profile_validate(profile_parse_fields(t))

\* How many profiles are parsed: the load ends at the first bad one.
ParsedProfiles(text) ==
  CHOOSE n \in 0..Len(text.profiles) :
    /\ \A i \in 1..n : GoodSection(text.profiles[i])
    /\ n < Len(text.profiles) => ~GoodSection(text.profiles[n + 1])

\* What was parsed so far stays in the caller's dc when the call fails.
device_config_from_toml(text) ==
  LET dc == [profile |-> IF text.profile = Unset THEN Default ELSE text.profile,
             calib |-> text.calib,
             airmouse |-> text.airmouse # FALSE,
             has_airmouse |-> text.airmouse # Unset,
             profiles |-> [i \in 1..ParsedProfiles(text) |->
                             profile_parse_fields(text.profiles[i])]]
  IN  [ok |-> /\ ParsedProfiles(text) = Len(text.profiles)
              /\ device_config_validate(dc),
       dc |-> dc]

\* Only what was set explicitly is written.
device_config_to_toml(dc) ==
  [profile |-> dc.profile, calib |-> dc.calib,
   airmouse |-> IF dc.has_airmouse THEN dc.airmouse ELSE Unset,
   profiles |-> [i \in 1..Len(dc.profiles) |->
                   [name |-> dc.profiles[i].name, map |-> dc.profiles[i].map,
                    val |-> [f \in dc.profiles[i].has |->
                               dc.profiles[i].val[f]]]]]

\* A file is absent, whole (its data is all there) or torn; fsynced or not.
Absent == [is |-> "absent", data |-> Unset, synced |-> TRUE]
Whole(data) == [is |-> "whole", data |-> data, synced |-> TRUE]
Torn == [is |-> "torn", data |-> Unset, synced |-> TRUE]

device_config_load_file(file) ==
  CASE file.is = "absent" -> [ok |-> TRUE, dc |-> device_config_init]
    [] file.is = "torn" -> [ok |-> FALSE, dc |-> device_config_init]
    [] OTHER -> device_config_from_toml(file.data)

\* The device file, then the profile override of state.toml: an absent or
\* unparseable state.toml is no override, and the name is not validated.
daemon_config_load_remote(files) ==
  LET dev == device_config_load_file(files["device"])
  IN  IF dev.ok /\ files["state"].is = "whole"
      THEN [dev EXCEPT !.dc.profile = files["state"].data]
      ELSE dev

daemon_config_calib_path(dc) ==
  IF dc.calib = Unset THEN DefaultPath ELSE dc.calib

-----------------------------------------------------------------------------
(***************************************************************************)
(* Changes (the mutate_fn of the bus methods).                             *)
(***************************************************************************)

\* The active profile is appended when it is not there yet.
device_config_profile_ensure(dc) ==
  IF profile_find(dc, dc.profile) # {} THEN dc
  ELSE [dc EXCEPT !.profiles = Append(@, profile_init(dc.profile))]

\* The active profile, and dc with another version of it.
ActiveProfile(dc) ==
  dc.profiles[CHOOSE i \in profile_find(dc, dc.profile) : TRUE]
WithActive(dc, new) ==
  [dc EXCEPT !.profiles = [i \in DOMAIN @ |->
     IF i \in profile_find(dc, dc.profile) THEN new ELSE @[i]]]

profile_set_button(p, from, to) ==
  [p EXCEPT !.map = [k \in DOMAIN p.map \union {from} |->
                       IF k = from THEN to ELSE p.map[k]]]

mutate_map(dc, from, to) ==
  LET e == device_config_profile_ensure(dc)
  IN  WithActive(e, profile_set_button(ActiveProfile(e), from, to))

\* A change that is not marked explicit.
MutateNumberForgetsHas(dc, f, v) ==
  LET e == device_config_profile_ensure(dc)
  IN  WithActive(e, [ActiveProfile(e) EXCEPT !.val[f] = v])

mutate_number(dc, f, v) ==
  LET e == device_config_profile_ensure(dc)
  IN  WithActive(e, [ActiveProfile(e) EXCEPT !.val = [@ EXCEPT ![f] = v],
                                             !.has = @ \union {f}])

\* A profile that is not in the file has nothing to reset.
mutate_reset(dc) ==
  IF profile_find(dc, dc.profile) = {} THEN dc
  ELSE WithActive(dc, [ActiveProfile(dc) EXCEPT !.map = << >>])

\* The empty path restores the default one.
mutate_calib(dc, path) == [dc EXCEPT !.calib = path]

-----------------------------------------------------------------------------
(***************************************************************************)
(* The pipeline's settings.                                                *)
(***************************************************************************)

\* profile_merge: the explicit numbers of src, but not that they are explicit.
profile_merge(dst, src) ==
  [dst EXCEPT !.val = [f \in NumFields |-> IF f \in src.has THEN src.val[f]
                                           ELSE dst.val[f]],
              !.map = [k \in DOMAIN dst.map \union DOMAIN src.map |->
                         IF k \in DOMAIN src.map THEN src.map[k]
                         ELSE dst.map[k]]]

\* The active profile, else "default", else the built-ins.
Resolve(dc) ==
  LET at == IF profile_find(dc, dc.profile) # {}
            THEN profile_find(dc, dc.profile) ELSE profile_find(dc, Default)
  IN  IF at = {} THEN profile_init("resolved")
      ELSE profile_merge(profile_init("resolved"),
                         dc.profiles[CHOOSE i \in at : TRUE])

pipeline_init ==
  [active |-> profile_init("resolved"), cal |-> Identity,
   am |-> [alpha |-> 0, sens |-> 0], airmouse_on |-> FALSE]

\* A calibration that does not load ends the call early.
pipeline_configure(pl, dc, calfile) ==
  LET active == Resolve(dc)
      cal == calfile[daemon_config_calib_path(dc)]
      alpha == IF "lpf" \in active.has THEN active.val.lpf ELSE GlobalAlpha
  IN  IF cal = Broken THEN [pl EXCEPT !.active = active]
      ELSE [active |-> active, cal |-> cal,
            am |-> [alpha |-> alpha, sens |-> active.val.sens],
            airmouse_on |-> dc.airmouse]

=============================================================================
