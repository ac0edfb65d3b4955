---------------------------- MODULE GlobalConfig ----------------------------
(***************************************************************************)
(* The global configuration (tools/src/config.c) and `lgmagic config`      *)
(* (tools/src/cmd_config.c): built-in defaults, the system file under      *)
(* /etc/lgmagic and one user file per HOME, merged key by key, and the     *)
(* commands that rewrite them.                                             *)
(*                                                                         *)
(* A file is absent, malformed (present, rejected by the parser) or a      *)
(* table: a function from the keys it holds to <<TOML type, value>>.  A    *)
(* save truncates the file with fopen("w") and its text, smaller than one  *)
(* stdio buffer, reaches the disk with fclose: a save that is killed or    *)
(* fails in between leaves the empty table.  Numbers are written with      *)
(* fifteen digits; nan and the infinities are written as words the parser  *)
(* rejects, and the whole file with them.                                  *)
(***************************************************************************)
EXTENDS Naturals, FiniteSets

CONSTANTS StrKeys,   \* imu_device, hidraw_device, default_calib
          NumKeys,   \* lpf_alpha, mouse_scale, ..., accel_gate_hi
          BoolKeys,  \* accel_gate
          V1Keys,    \* the keys a v1 config.json can hold
          Builtin,   \* the compiled-in value of each numeric key
          Homes,     \* home directories of the accounts
          Texts,     \* what is typed as VALUE in `config set KEY VALUE`
          Numeral,   \* the texts strtod consumes whole, with their numbers
          FifteenDigits, \* "%.15g" and back: a number as fifteen digits keep it
          NotFinite, \* nan and the infinities
          Extras,    \* files given with --config, Missing for no such flag
          None       \* NULL, and a value that is refused

Keys == StrKeys \cup NumKeys \cup BoolKeys

\* Every number a file, a prompt or the built-in defaults can hold.
Numbers == DOMAIN FifteenDigits

ASSUME KeyKinds ==
    /\ StrKeys \cap NumKeys = {} /\ BoolKeys \cap (StrKeys \cup NumKeys) = {}
    /\ V1Keys \subseteq StrKeys \cup NumKeys
    /\ NumKeys \subseteq DOMAIN Builtin
    /\ "etc" \notin Homes
    /\ FifteenDigits \in [Numbers -> Numbers] /\ NotFinite \subseteq Numbers

Locations == Homes \cup {"etc"}

VARIABLES file,   \* config.toml at every location
          json    \* the v1 config.json at every location

configVars == <<file, json>>

-----------------------------------------------------------------------------
(* Loading *)

EmptyTable == [k \in {} |-> None]

Missing == [is |-> "absent", table |-> EmptyTable]
Malformed == [is |-> "malformed", table |-> EmptyTable]
Table(t) == [is |-> "table", table |-> t]

IsTable(f) == f.is = "table"

Accepts(key, type) ==
    \/ key \in StrKeys /\ type = "str"
    \/ key \in NumKeys /\ type \in {"float", "int"}
    \/ key \in BoolKeys /\ type \in {"bool", "int"}

Truth(n) == n # 0

\* An empty string means "auto" (NULL); an integer is a number or a truth value.
Converted(key, v) ==
    CASE key \in StrKeys -> IF v[2] = "" THEN None ELSE v[2]
      [] key \in NumKeys -> v[2]
      [] OTHER -> IF v[1] = "bool" THEN v[2] ELSE Truth(v[2])

set_from_value(cfg, key, v) ==
    IF Accepts(key, v[1]) THEN Converted(key, v) ELSE cfg[key]

merge_file(cfg, f) ==
    [key \in Keys |-> IF IsTable(f) /\ key \in DOMAIN f.table
                      THEN set_from_value(cfg, key, f.table[key]) ELSE cfg[key]]

set_defaults ==
    [key \in Keys |-> CASE key \in StrKeys -> None
                        [] key \in NumKeys -> Builtin[key]
                        [] OTHER -> TRUE]

\* What lgmagicd reads: the system file only.
config_load_daemon == merge_file(set_defaults, file["etc"])

config_load(home, extra) ==
    merge_file(merge_file(config_load_daemon, file[home]), extra)

-----------------------------------------------------------------------------
(* Changing a key and saving *)

config_set_key(cfg, key, text) ==
    CASE key \in StrKeys -> [cfg EXCEPT ![key] = IF text = "" THEN None ELSE text]
      [] key \in NumKeys /\ text \in DOMAIN Numeral -> [cfg EXCEPT ![key] = Numeral[text]]
      [] key \in BoolKeys /\ text \in {"true", "1"} -> [cfg EXCEPT ![key] = TRUE]
      [] key \in BoolKeys /\ text \in {"false", "0"} -> [cfg EXCEPT ![key] = FALSE]
      [] OTHER -> None

\* Mutant: a string that is not set is left out of the saved file.
SavedWithoutAuto(cfg) ==
    [key \in {k \in Keys : cfg[k] # None} |->
        CASE key \in StrKeys -> <<"str", cfg[key]>>
          [] key \in NumKeys -> <<"float", FifteenDigits[cfg[key]]>>
          [] OTHER -> <<"bool", cfg[key]>>]

Text(v) == IF v = None THEN "" ELSE v

\* Every key is written, whichever layer its value came from.
Saved(cfg) ==
    [key \in Keys |->
        CASE key \in StrKeys -> <<"str", Text(cfg[key])>>
          [] key \in NumKeys -> <<"float", FifteenDigits[cfg[key]]>>
          [] OTHER -> <<"bool", cfg[key]>>]

\* The text of a configuration the parser will not take back.
Unreadable(cfg) == \E key \in NumKeys : cfg[key] \in NotFinite

\* A finished config_save_user.
config_save_user(home, cfg) ==
    file' = [file EXCEPT ![home] = IF Unreadable(cfg) THEN Malformed ELSE Table(Saved(cfg))]

\* fopen(path, "w"): the old content is gone.
Truncate(home) == file' = [file EXCEPT ![home] = Table(EmptyTable)]

Set(home, extra, key, text) == config_set_key(config_load(home, extra), key, text)

\* `config set`: an invalid value or a file that cannot be opened changes nothing.
SetFails == UNCHANGED configVars

SetTorn(home, extra, key, text) ==
    /\ Set(home, extra, key, text) # None
    /\ Truncate(home)
    /\ UNCHANGED json

SetDone(home, extra, key, text) ==
    LET cfg == Set(home, extra, key, text)
    IN  cfg # None /\ config_save_user(home, cfg) /\ UNCHANGED json

-----------------------------------------------------------------------------
(* `lgmagic config migrate` *)

\* The v1 keys with a string or a number; other JSON values are skipped.
Migrated(table) ==
    [key \in {k \in V1Keys \cap DOMAIN table : table[k][1] \in {"str", "num"}} |->
        IF table[key][1] = "str" THEN table[key] ELSE <<"float", FifteenDigits[table[key][2]]>>]

\* The results of converting one location: nothing to do, converted, not
\* opened, or opened and not written.  Only root can create the system file.
migrate_one(files, loc, root) ==
    IF json[loc].is = "absent" \/ files[loc].is # "absent" THEN {[rc |-> 0, files |-> files]}
    ELSE IF ~IsTable(json[loc]) \/ (loc = "etc" /\ ~root) THEN {[rc |-> 1, files |-> files]}
    ELSE {[rc |-> 0, files |-> [files EXCEPT ![loc] = Table(Migrated(json[loc].table))]],
          [rc |-> 1, files |-> [files EXCEPT ![loc] = Table(EmptyTable)]],
          [rc |-> 1, files |-> files]}

\* Mutant: the exit status is that of the user file alone.
MigrateLastStatus(home, root, rc) ==
    /\ \E sys \in migrate_one(file, "etc", root) :
       \E user \in migrate_one(sys.files, home, root) :
          rc = user.rc /\ file' = user.files
    /\ UNCHANGED json

\* Both standard locations, /etc first; the user's is tried only when the
\* system's returned 0.
migrate(home, root, rc) ==
    /\ \E sys \in migrate_one(file, "etc", root) :
          \/ sys.rc # 0 /\ rc = sys.rc /\ file' = sys.files
          \/ /\ sys.rc = 0
             /\ \E user \in migrate_one(sys.files, home, root) :
                   rc = user.rc /\ file' = user.files
    /\ UNCHANGED json

\* The system-wide migration needs root: the first home is root's.
Command ==
    \/ SetFails
    \/ \E home \in Homes, extra \in Extras, key \in Keys, text \in Texts :
          SetTorn(home, extra, key, text) \/ SetDone(home, extra, key, text)
    \/ \E home \in Homes, rc \in {0, 1} : migrate(home, home = "root", rc)

-----------------------------------------------------------------------------
(* Properties *)

Usable(key, v) == v[1] \in {"str", "num"} /\ Accepts(key, IF v[1] = "num" THEN "float" ELSE "str")

Digits(key, v) == IF key \in NumKeys THEN FifteenDigits[v] ELSE v

Rounded(cfg) == [key \in Keys |-> Digits(key, cfg[key])]

(* A `config set` that exits with 0 changes the caller's effective         *)
(* configuration in exactly the key it was given, its numbers as fifteen   *)
(* digits keep them: the values that came from the defaults or the system  *)
(* file survive being frozen into the user file, "auto" strings included   *)
(* (config_save_user against merge_file).  The exception is a number that  *)
(* is not finite, typed now or read from a file ("1e999"): the set exits   *)
(* with 0 too, and the caller is back at the system file and the defaults  *)
(* with every key.                                                         *)
SetTakesEffect ==
    [][\A home \in {h \in Homes : file'[h] # file[h]}, key \in Keys, text \in Texts :
          SetDone(home, Missing, key, text) =>
              config_load(home, Missing)' =
                  IF Unreadable(Set(home, Missing, key, text)) THEN config_load_daemon
                  ELSE Rounded(Set(home, Missing, key, text))]_configVars

(* A `config migrate` that exits with 0 leaves no v1 file behind that is   *)
(* still ignored: both locations that hold one have a TOML file, every v1  *)
(* key of the caller's file is in effect unless a TOML file was there      *)
(* before, and a TOML file that was there is untouched.                    *)
MigrateComplete ==
    [][file' # file => \A home \in Homes :
          migrate(home, home = "root", 0) =>
              \A loc \in {"etc", home} :
                  /\ file[loc].is # "absent" => file'[loc] = file[loc]
                  /\ json[loc].is # "absent" => file'[loc].is # "absent"
                  /\ loc = home /\ IsTable(json[loc]) /\ file[loc].is = "absent" =>
                        \A key \in V1Keys \cap DOMAIN json[loc].table :
                            Usable(key, json[loc].table[key]) =>
                                config_load(home, Missing)'[key]
                                    = Digits(key, Converted(key, json[loc].table[key]))]_configVars
=============================================================================
