---------------------------- MODULE SetupProofs ----------------------------
(***************************************************************************)
(* Proofs about the layered configuration and the setup wizard, for any    *)
(* keys, accounts, files, hosts and number of runs.                        *)
(***************************************************************************)
EXTENDS Setup, SequenceTheorems, TLAPS

-----------------------------------------------------------------------------
(***************************************************************************)
(* Loading, changing and saving.                                           *)
(***************************************************************************)

\* A configuration in memory: an unset string is None and never "".
CfgOK(cfg) ==
  /\ DOMAIN cfg = Keys /\ cfg = [key \in Keys |-> cfg[key]]
  /\ \A key \in StrKeys : cfg[key] # ""
  /\ \A key \in NumKeys : cfg[key] \in Numbers
  /\ \A key \in BoolKeys : cfg[key] \in BOOLEAN

\* The built-in defaults are sound.
LEMMA DefaultsOK == CfgOK(set_defaults)
<1> DEFINE c(key) == CASE key \in StrKeys -> None
                       [] key \in NumKeys -> Builtin[key]
                       [] OTHER -> TRUE
<1>1. \A key \in StrKeys : c(key) # ""
  BY KeyKinds, SetupAssumption
<1>2. \A key \in NumKeys : c(key) \in Numbers
  BY KeyKinds, SetupAssumption
<1>3. \A key \in BoolKeys : c(key) \in BOOLEAN
  BY KeyKinds
<1> HIDE DEF c
<1>4. CfgOK([key \in Keys |-> c(key)])
  BY <1>1, <1>2, <1>3 DEF CfgOK, Keys
<1> QED
  BY <1>4 DEF c, set_defaults

\* A file of any content leaves a sound configuration sound.
LEMMA MergeOK ==
  ASSUME NEW cfg, CfgOK(cfg), NEW f, IsConfig(f)
  PROVE  CfgOK(merge_file(cfg, f))
<1> DEFINE c(key) == IF IsTable(f) /\ key \in DOMAIN f.table
                     THEN set_from_value(cfg, key, f.table[key]) ELSE cfg[key]
<1>1. \A key \in StrKeys : c(key) # ""
  BY KeyKinds, SetupAssumption DEF CfgOK, set_from_value, Converted
<1>2. \A key \in NumKeys : c(key) \in Numbers
  BY KeyKinds DEF CfgOK, set_from_value, Converted, Accepts, IsConfig
<1>3. ASSUME NEW key \in BoolKeys PROVE c(key) \in BOOLEAN
  <2>1. CASE ~(IsTable(f) /\ key \in DOMAIN f.table)
    BY <2>1 DEF CfgOK
  <2>2. CASE IsTable(f) /\ key \in DOMAIN f.table
    <3> DEFINE v == f.table[key]
    <3>1. key \notin StrKeys /\ key \notin NumKeys
      BY KeyKinds
    <3>2. Converted(key, v) = IF v[1] = "bool" THEN v[2] ELSE Truth(v[2])
      BY <3>1 DEF Converted
    <3>3. v[1] = "bool" => v[2] \in BOOLEAN
      BY <2>2 DEF IsConfig
    <3>4. cfg[key] \in BOOLEAN
      BY DEF CfgOK
    <3>5. c(key) = IF Accepts(key, v[1]) THEN Converted(key, v) ELSE cfg[key]
      BY <2>2 DEF set_from_value
    <3> HIDE DEF v, c
    <3>6. Converted(key, v) \in BOOLEAN
      BY <3>2, <3>3, Zenon DEF Truth
    <3> QED
      BY <3>4, <3>5, <3>6, Zenon
  <2> QED
    BY <2>1, <2>2
<1> HIDE DEF c
<1>4. CfgOK([key \in Keys |-> c(key)])
  BY <1>1, <1>2, <1>3 DEF CfgOK, Keys
<1> QED
  BY <1>4 DEF c, merge_file

\* No file, no change.
LEMMA MergeMissing ==
  ASSUME NEW cfg, CfgOK(cfg)
  PROVE  merge_file(cfg, Missing) = cfg
BY DEF CfgOK, merge_file, IsTable, Missing

\* Every key is written with its type.
LEMMA SavedIs ==
  ASSUME NEW cfg, NEW key \in Keys
  PROVE  /\ key \in StrKeys => Saved(cfg)[key] = <<"str", Text(cfg[key])>>
         /\ key \in NumKeys => Saved(cfg)[key] = <<"float", FifteenDigits[cfg[key]]>>
         /\ key \in BoolKeys => Saved(cfg)[key] = <<"bool", cfg[key]>>
<1>1. Saved(cfg)[key] = CASE key \in StrKeys -> <<"str", Text(cfg[key])>>
                          [] key \in NumKeys -> <<"float", FifteenDigits[cfg[key]]>>
                          [] OTHER -> <<"bool", cfg[key]>>
  BY Zenon DEF Saved
<1>2. CASE key \in StrKeys
  BY <1>1, <1>2, KeyKinds, Zenon
<1>3. CASE key \in NumKeys
  <2>1. key \notin StrKeys
    BY <1>3, KeyKinds
  <2> QED
    BY <1>1, <1>3, <2>1, KeyKinds, Zenon
<1>4. CASE key \in BoolKeys
  <2>1. key \notin StrKeys /\ key \notin NumKeys
    BY <1>4, KeyKinds
  <2> QED
    BY <1>1, <1>4, <2>1, Zenon
<1> QED
  BY <1>2, <1>3, <1>4 DEF Keys

\* A configuration stays sound when its numbers are rounded.
LEMMA RoundedOK ==
  ASSUME NEW cfg, CfgOK(cfg)
  PROVE  CfgOK(Rounded(cfg))
<1>1. \A key \in StrKeys : Digits(key, cfg[key]) # ""
  BY KeyKinds DEF CfgOK, Digits
<1>2. \A key \in NumKeys : Digits(key, cfg[key]) \in Numbers
  BY KeyKinds DEF CfgOK, Digits
<1>3. \A key \in BoolKeys : Digits(key, cfg[key]) \in BOOLEAN
  BY KeyKinds, Zenon DEF CfgOK, Digits
<1> QED
  BY <1>1, <1>2, <1>3 DEF CfgOK, Rounded, Keys

\* What a save writes is what the next load of that file makes of it, with
\* fifteen digits of every number.
LEMMA SavedLoads ==
  ASSUME NEW base, NEW cfg, CfgOK(cfg)
  PROVE  merge_file(base, Table(Saved(cfg))) = Rounded(cfg)
<1> DEFINE f == Table(Saved(cfg))
<1>1. IsTable(f) /\ f.table = Saved(cfg) /\ DOMAIN f.table = Keys
  BY DEF Table, IsTable, Saved
<1>2. ASSUME NEW key \in Keys
      PROVE  set_from_value(base, key, f.table[key]) = Digits(key, cfg[key])
  <2>1. CASE key \in StrKeys
    <3>1. f.table[key] = <<"str", Text(cfg[key])>>
      BY <1>1, <2>1, SavedIs, Zenon
    <3>2. cfg[key] # ""
      BY <2>1 DEF CfgOK
    <3> DEFINE w == f.table[key]
    <3>3. w[1] = "str" /\ w[2] = Text(cfg[key])
      BY <3>1
    <3> HIDE DEF w
    <3>4. Accepts(key, w[1]) /\ Converted(key, w) = IF w[2] = "" THEN None ELSE w[2]
      BY <2>1, <3>3, KeyKinds DEF Accepts, Converted
    <3>5. (IF w[2] = "" THEN None ELSE w[2]) = cfg[key]
      BY <3>2, <3>3 DEF Text
    <3>6. Digits(key, cfg[key]) = cfg[key]
      BY <2>1, KeyKinds DEF Digits
    <3> QED
      BY <3>4, <3>5, <3>6 DEF set_from_value, w
  <2>2. CASE key \in NumKeys
    <3>1. key \notin StrKeys
      BY <2>2, KeyKinds
    <3>2. f.table[key] = <<"float", FifteenDigits[cfg[key]]>>
      <4>1. Saved(cfg)[key] = <<"float", FifteenDigits[cfg[key]]>>
        BY <2>2, SavedIs
      <4>2. f.table = Saved(cfg)
        BY <1>1
      <4> HIDE DEF f
      <4> QED
        BY <4>1, <4>2
    <3> QED
      BY <2>2, <3>1, <3>2 DEF set_from_value, Accepts, Converted, Digits
  <2>3. CASE key \in BoolKeys
    <3>1. key \notin StrKeys /\ key \notin NumKeys
      BY <2>3, KeyKinds
    <3>2. f.table[key] = <<"bool", cfg[key]>>
      BY <1>1, <2>3, SavedIs, Zenon
    <3> DEFINE w == f.table[key]
    <3>3. w[1] = "bool" /\ w[2] = cfg[key]
      BY <3>2
    <3>4. Accepts(key, w[1]) /\ Converted(key, w) = w[2]
      BY <2>3, <3>1, <3>3 DEF Accepts, Converted
    <3> HIDE DEF w
    <3>5. set_from_value(base, key, w) = w[2]
      BY <3>4 DEF set_from_value
    <3>6. Digits(key, cfg[key]) = cfg[key]
      BY <3>1 DEF Digits
    <3> QED
      BY <3>3, <3>5, <3>6 DEF w
  <2> QED
    BY <2>1, <2>2, <2>3 DEF Keys
<1> HIDE DEF f
<1>3. merge_file(base, f) = [key \in Keys |-> Digits(key, cfg[key])]
  BY <1>1, <1>2 DEF merge_file
<1> QED
  BY <1>3 DEF Rounded, f

\* A saved file is one the parser takes apart.
LEMMA SavedOK ==
  ASSUME NEW cfg, CfgOK(cfg)
  PROVE  IsConfig(Table(Saved(cfg)))
<1> DEFINE f == Table(Saved(cfg))
<1>1. f = [is |-> f.is, table |-> f.table] /\ f.table = Saved(cfg) /\ DOMAIN f.table = Keys
  BY DEF Table, Saved
<1>2. ASSUME NEW key \in Keys
      PROVE  /\ f.table[key][1] \in {"int", "float", "num"} => f.table[key][2] \in Numbers
             /\ f.table[key][1] = "bool" => f.table[key][2] \in BOOLEAN
  <2>1. CASE key \in StrKeys
    <3>1. f.table[key] = <<"str", Text(cfg[key])>>
      BY <1>1, <2>1, SavedIs, Zenon
    <3>2. f.table[key][1] = "str"
      BY <3>1
    <3> QED
      BY <3>2
  <2>2. CASE key \in NumKeys
    <3>1. f.table[key] = <<"float", FifteenDigits[cfg[key]]>>
      <4>1. Saved(cfg)[key] = <<"float", FifteenDigits[cfg[key]]>>
        BY <2>2, SavedIs
      <4>2. f.table = Saved(cfg)
        BY <1>1
      <4> HIDE DEF f
      <4> QED
        BY <4>1, <4>2
    <3>2. f.table[key][1] = "float" /\ f.table[key][2] = FifteenDigits[cfg[key]]
      BY <3>1
    <3>3. FifteenDigits[cfg[key]] \in Numbers
      BY <2>2, KeyKinds DEF CfgOK
    <3> HIDE DEF f
    <3> QED
      BY <3>2, <3>3
  <2>3. CASE key \in BoolKeys
    <3>1. f.table[key] = <<"bool", cfg[key]>>
      BY <1>1, <2>3, SavedIs, Zenon
    <3>2. f.table[key][1] = "bool" /\ f.table[key][2] = cfg[key]
      BY <3>1
    <3>3. cfg[key] \in BOOLEAN
      BY <2>3 DEF CfgOK
    <3>4. "bool" \notin {"int", "float", "num"}
      OBVIOUS
    <3> HIDE DEF f
    <3> QED
      BY <3>2, <3>3, <3>4, Zenon
  <2> QED
    BY <2>1, <2>2, <2>3 DEF Keys
<1> HIDE DEF f
<1>3. IsConfig(f)
  BY <1>1, <1>2 DEF IsConfig
<1> QED
  BY <1>3 DEF f

\* So is a truncated one, and no file at all.
LEMMA EmptyOK == IsConfig(Table(EmptyTable)) /\ IsConfig(Missing) /\ IsConfig(Malformed)
BY DEF IsConfig, Table, Missing, Malformed, EmptyTable

\* A value of the key's type keeps a configuration sound.
LEMMA CfgExcept ==
  ASSUME NEW cfg, CfgOK(cfg), NEW key \in Keys, NEW x,
         key \in StrKeys => x # "",
         key \in NumKeys => x \in Numbers,
         key \in BoolKeys => x \in BOOLEAN
  PROVE  CfgOK([cfg EXCEPT ![key] = x])
<1> DEFINE new == [cfg EXCEPT ![key] = x]
<1>1. DOMAIN cfg = Keys /\ cfg = [k \in Keys |-> cfg[k]]
  BY DEF CfgOK
<1>2. DOMAIN new = Keys /\ new = [k \in Keys |-> new[k]]
  BY <1>1, Zenon
<1>3. \A k \in Keys : new[k] = IF k = key THEN x ELSE cfg[k]
  BY <1>1
<1> HIDE DEF new
<1>4. \A k \in StrKeys : new[k] # ""
  BY <1>3 DEF CfgOK, Keys
<1>5. \A k \in NumKeys : new[k] \in Numbers
  BY <1>3 DEF CfgOK, Keys
<1>6. \A k \in BoolKeys : new[k] \in BOOLEAN
  BY <1>3, Zenon DEF CfgOK, Keys
<1>7. CfgOK(new)
  BY <1>2, <1>4, <1>5, <1>6 DEF CfgOK
<1> QED
  BY <1>7 DEF new

\* `config set` on a sound configuration leaves one, or refuses the value.
LEMMA SetKeyOK ==
  ASSUME NEW cfg, CfgOK(cfg), NEW key \in Keys, NEW text,
         config_set_key(cfg, key, text) # None
  PROVE  CfgOK(config_set_key(cfg, key, text))
<1> DEFINE new == config_set_key(cfg, key, text)
<1>1. CASE key \in StrKeys
  <2>1. key \notin NumKeys /\ key \notin BoolKeys
    BY <1>1, KeyKinds
  <2>2. new = [cfg EXCEPT ![key] = IF text = "" THEN None ELSE text]
    BY <1>1, <2>1, Zenon DEF config_set_key
  <2> DEFINE x == IF text = "" THEN None ELSE text
  <2>3. x # ""
    BY SetupAssumption
  <2> HIDE DEF x
  <2>4. CfgOK([cfg EXCEPT ![key] = x])
    BY <2>1, <2>3, CfgExcept
  <2> QED
    BY <2>2, <2>4 DEF x
<1>2. CASE key \in NumKeys
  <2>1. key \notin StrKeys /\ key \notin BoolKeys
    BY <1>2, KeyKinds
  <2>2. text \in DOMAIN Numeral /\ new = [cfg EXCEPT ![key] = Numeral[text]]
    BY <1>2, <2>1, Zenon DEF config_set_key
  <2>3. Numeral[text] \in Numbers
    BY <2>2, SetupAssumption
  <2>4. CfgOK([cfg EXCEPT ![key] = Numeral[text]])
    BY <2>1, <2>3, CfgExcept
  <2> QED
    BY <2>2, <2>4
<1>3. CASE key \in BoolKeys
  <2>1. key \notin StrKeys /\ key \notin NumKeys
    BY <1>3, KeyKinds
  <2>2. \E b \in BOOLEAN : new = [cfg EXCEPT ![key] = b]
    <3>1. CASE text \in {"true", "1"}
      <4>1. text \notin {"false", "0"}
        BY <3>1
      <4>2. new = [cfg EXCEPT ![key] = TRUE]
        BY <1>3, <2>1, <3>1, <4>1, Zenon DEF config_set_key
      <4> QED
        BY <4>2, Zenon
    <3>2. CASE text \in {"false", "0"}
      <4>1. text \notin {"true", "1"}
        BY <3>2
      <4>2. new = [cfg EXCEPT ![key] = FALSE]
        BY <1>3, <2>1, <3>2, <4>1, Zenon DEF config_set_key
      <4> QED
        BY <4>2, Zenon
    <3>3. CASE text \notin {"true", "1"} /\ text \notin {"false", "0"}
      BY <2>1, <3>3, Zenon DEF config_set_key
    <3> QED
      BY <3>1, <3>2, <3>3
  <2>3. PICK b \in BOOLEAN : new = [cfg EXCEPT ![key] = b]
    BY <2>2
  <2>4. CfgOK([cfg EXCEPT ![key] = b])
    BY <2>1, CfgExcept
  <2> QED
    BY <2>3, <2>4
<1> QED
  BY <1>1, <1>2, <1>3 DEF Keys

\* Every file there is can be read, or is rejected as a whole.
FilesOK ==
  /\ DOMAIN file = Locations
  /\ \A loc \in Locations : IsConfig(file[loc])

\* Whatever the files hold, what is loaded is sound.
LEMMA LoadOK ==
  ASSUME FilesOK, NEW home \in Homes, NEW extra, IsConfig(extra)
  PROVE  CfgOK(config_load_daemon) /\ CfgOK(config_load(home, extra))
<1>1. IsConfig(file["etc"]) /\ IsConfig(file[home])
  BY DEF FilesOK, Locations
<1>2. CfgOK(config_load_daemon)
  BY <1>1, DefaultsOK, MergeOK DEF config_load_daemon
<1>3. CfgOK(merge_file(config_load_daemon, file[home]))
  BY <1>1, <1>2, MergeOK
<1> QED
  BY <1>2, <1>3, MergeOK DEF config_load

\* A file the parser rejects changes nothing.
LEMMA MergeRejected ==
  ASSUME NEW cfg, CfgOK(cfg)
  PROVE  merge_file(cfg, Malformed) = cfg
BY DEF CfgOK, merge_file, IsTable, Malformed

\* What is loaded after a save: the saved numbers with fifteen digits, or the
\* layers below if one of them is not finite.
Reloaded(cfg) == IF Unreadable(cfg) THEN config_load_daemon ELSE Rounded(cfg)

\* After a save the account that owns the file loads what was saved.
LEMMA SaveTakesEffect ==
  ASSUME FilesOK, NEW home \in Homes, NEW cfg, CfgOK(cfg), config_save_user(home, cfg)
  PROVE  config_load(home, Missing)' = Reloaded(cfg)
<1>1. /\ file'[home] = IF Unreadable(cfg) THEN Malformed ELSE Table(Saved(cfg))
      /\ file'["etc"] = file["etc"]
  BY KeyKinds DEF FilesOK, Locations, config_save_user
<1>2. config_load(home, Missing)'
        = merge_file(merge_file(config_load_daemon, file'[home]), Missing)
  BY <1>1 DEF config_load, config_load_daemon
<1>3. CfgOK(config_load_daemon)
  BY LoadOK, EmptyOK
<1>4. CASE Unreadable(cfg)
  BY <1>1, <1>2, <1>3, <1>4, MergeRejected, MergeMissing DEF Reloaded
<1>5. CASE ~Unreadable(cfg)
  <2>1. CfgOK(Rounded(cfg))
    BY RoundedOK
  <2> QED
    BY <1>1, <1>2, <1>5, <2>1, SavedLoads, MergeMissing DEF Reloaded
<1> QED
  BY <1>4, <1>5

\* What is left of a file whose save did not finish is a file.
LEMMA SaveKeepsFiles ==
  ASSUME FilesOK, NEW home \in Homes, NEW f, IsConfig(f), file' = [file EXCEPT ![home] = f]
  PROVE  FilesOK'
BY DEF FilesOK, Locations

\* The effect of a finished `config set`.
LEMMA SetDoneEffect ==
  ASSUME FilesOK, NEW home \in Homes, NEW key \in Keys, NEW text,
         SetDone(home, Missing, key, text)
  PROVE  config_load(home, Missing)' = Reloaded(Set(home, Missing, key, text))
<1>1. CfgOK(config_load(home, Missing))
  BY LoadOK, EmptyOK
<1>2. CfgOK(Set(home, Missing, key, text))
  BY <1>1, SetKeyOK DEF Set, SetDone
<1> QED
  BY <1>2, SaveTakesEffect DEF SetDone
-----------------------------------------------------------------------------
(***************************************************************************)
(* Migration.                                                              *)
(***************************************************************************)

\* A location that is left with status 0 has what it had, or the converted
\* v1 file where there was nothing.
Migration(files, loc, new) ==
  /\ DOMAIN new = Locations
  /\ \A l \in Locations : l # loc => new[l] = files[l]
  /\ \/ new[loc] = files[loc] /\ (json[loc].is = "absent" \/ files[loc].is # "absent")
     \/ /\ files[loc].is = "absent" /\ IsTable(json[loc])
        /\ new[loc] = Table(Migrated(json[loc].table))

\* One location, converted with status 0.
LEMMA OneMigrated ==
  ASSUME NEW files, DOMAIN files = Locations, NEW loc \in Locations, NEW root,
         NEW r \in migrate_one(files, loc, root), r.rc = 0
  PROVE  Migration(files, loc, r.files)
<1>1. CASE json[loc].is = "absent" \/ files[loc].is # "absent"
  <2>1. r = [rc |-> 0, files |-> files]
    BY <1>1 DEF migrate_one
  <2>2. r.files = files
    BY <2>1
  <2> QED
    BY <1>1, <2>2 DEF Migration
<1>2. CASE ~(json[loc].is = "absent" \/ files[loc].is # "absent")
  <2> DEFINE new == [files EXCEPT ![loc] = Table(Migrated(json[loc].table))]
             torn == [files EXCEPT ![loc] = Table(EmptyTable)]
             refused == ~IsTable(json[loc]) \/ (loc = "etc" /\ ~root)
  <2>1. r \in IF refused THEN {[rc |-> 1, files |-> files]}
              ELSE {[rc |-> 0, files |-> new], [rc |-> 1, files |-> torn],
                    [rc |-> 1, files |-> files]}
    BY <1>2 DEF migrate_one
  <2>2. IsTable(json[loc]) \/ refused
    OBVIOUS
  <2>3. DOMAIN new = Locations /\ new[loc] = Table(Migrated(json[loc].table))
        /\ \A l \in Locations : l # loc => new[l] = files[l]
    OBVIOUS
  <2>a. ~refused => IsTable(json[loc])
    OBVIOUS
  <2> HIDE DEF new, torn, refused
  <2>4. ~refused /\ r.files = new
    BY <2>1
  <2> QED
    BY <1>2, <2>a, <2>3, <2>4 DEF Migration
<1> QED
  BY <1>1, <1>2

\* A key of a v1 file that has a type the key accepts is in the new file.
LEMMA MigratedLoads ==
  ASSUME NEW table, NEW key \in V1Keys \cap DOMAIN table, Usable(key, table[key]), NEW base
  PROVE  merge_file(base, Table(Migrated(table)))[key] = Digits(key, Converted(key, table[key]))
<1> DEFINE m == Migrated(table)
           f == Table(m)
           v == table[key]
<1>1. key \in Keys
  BY KeyKinds DEF Keys
<1>2. key \in DOMAIN m /\ m[key] = IF v[1] = "str" THEN v ELSE <<"float", FifteenDigits[v[2]]>>
  BY DEF Usable, Migrated
<1>3. IsTable(f) /\ f.table = m
  BY DEF Table, IsTable
<1>4. merge_file(base, f)[key] = set_from_value(base, key, m[key])
  <2> HIDE DEF m, f
  <2> QED
    BY <1>1, <1>2, <1>3 DEF merge_file
<1>5. CASE v[1] = "str"
  <2>1. Accepts(key, "str") /\ m[key] = v
    BY <1>2, <1>5 DEF Usable
  <2> HIDE DEF m, f, v
  <2>2. set_from_value(base, key, m[key]) = Converted(key, v)
    BY <1>5, <2>1 DEF set_from_value
  <2>3. key \notin NumKeys
    BY <2>1, KeyKinds DEF Accepts
  <2> QED
    BY <1>4, <2>2, <2>3 DEF m, f, v, Digits
<1>6. CASE v[1] # "str"
  <2>1. v[1] = "num" /\ Accepts(key, "float")
    BY <1>6 DEF Usable
  <2>2. key \in NumKeys /\ key \notin StrKeys
    BY <2>1, KeyKinds DEF Accepts
  <2>3. m[key][1] = "float" /\ m[key][2] = FifteenDigits[v[2]]
    BY <1>2, <1>6
  <2> HIDE DEF m, f, v
  <2>4. Converted(key, m[key]) = FifteenDigits[v[2]] /\ Converted(key, v) = v[2]
    BY <2>2, <2>3 DEF Converted
  <2>5. set_from_value(base, key, m[key]) = Digits(key, Converted(key, v))
    BY <2>1, <2>2, <2>3, <2>4 DEF set_from_value, Digits
  <2> QED
    BY <1>4, <2>5 DEF m, f, v
<1> QED
  BY <1>5, <1>6

\* What `config migrate` promises of one home when it exits with 0.
Migrates(home) ==
  \A loc \in {"etc", home} :
      /\ file[loc].is # "absent" => file'[loc] = file[loc]
      /\ json[loc].is # "absent" => file'[loc].is # "absent"
      /\ loc = home /\ IsTable(json[loc]) /\ file[loc].is = "absent" =>
            \A key \in V1Keys \cap DOMAIN json[loc].table :
                Usable(key, json[loc].table[key]) =>
                    config_load(home, Missing)'[key]
                        = Digits(key, Converted(key, json[loc].table[key]))

\* Both locations, converted with status 0.
LEMMA MigrateEffect ==
  ASSUME FilesOK, FilesOK', NEW home \in Homes, NEW root, migrate(home, root, 0)
  PROVE  Migrates(home)
<1>1. PICK sys \in migrate_one(file, "etc", root) :
        /\ sys.rc = 0
        /\ \E user \in migrate_one(sys.files, home, root) : user.rc = 0 /\ file' = user.files
  BY DEF migrate
<1>2. PICK user \in migrate_one(sys.files, home, root) : user.rc = 0 /\ file' = user.files
  BY <1>1
<1>3. "etc" \in Locations /\ home \in Locations /\ home # "etc"
  BY KeyKinds DEF Locations
<1>4. Migration(file, "etc", sys.files)
  BY <1>1, <1>3, OneMigrated DEF FilesOK
<1>5. Migration(sys.files, home, file')
  BY <1>2, <1>3, <1>4, OneMigrated DEF Migration
<1>6. file'["etc"] = sys.files["etc"] /\ sys.files[home] = file[home]
  BY <1>3, <1>4, <1>5 DEF Migration
<1>7. \A t : Table(t).is = "table"
  BY DEF Table
<1>8. ASSUME NEW loc \in {"etc", home}
      PROVE  /\ file[loc].is # "absent" => file'[loc] = file[loc]
             /\ json[loc].is # "absent" => file'[loc].is # "absent"
  BY <1>3, <1>4, <1>5, <1>6, <1>7 DEF Migration
<1>9. ASSUME IsTable(json[home]), file[home].is = "absent",
             NEW key \in V1Keys \cap DOMAIN json[home].table, Usable(key, json[home].table[key])
      PROVE  config_load(home, Missing)'[key] = Digits(key, Converted(key, json[home].table[key]))
  <2>1. json[home].is # "absent"
    BY <1>9 DEF IsTable
  <2>2. file'[home] = Table(Migrated(json[home].table))
    BY <1>5, <1>6, <1>9, <2>1 DEF Migration
  <2> DEFINE base == merge_file(set_defaults, file'["etc"])
             own == merge_file(base, file'[home])
  <2>3. config_load(home, Missing)' = merge_file(own, Missing)
    BY DEF config_load, config_load_daemon
  <2>4. CfgOK(base)
    <3>1. IsConfig(file'["etc"])
      BY <1>3 DEF FilesOK
    <3> QED
      BY <3>1, DefaultsOK, MergeOK
  <2>5. CfgOK(own)
    <3>1. IsConfig(file'[home])
      BY <1>3 DEF FilesOK
    <3> HIDE DEF base
    <3> QED
      BY <3>1, <2>4, MergeOK
  <2>6. own[key] = Digits(key, Converted(key, json[home].table[key]))
    BY <1>9, <2>2, MigratedLoads
  <2> HIDE DEF base, own
  <2> QED
    BY <2>3, <2>5, <2>6, MergeMissing
<1> QED
  BY <1>8, <1>9 DEF Migrates

-----------------------------------------------------------------------------
(***************************************************************************)
(* The invariant.                                                          *)
(***************************************************************************)

WizardFields == {"pc", "run", "mode", "stop", "tries", "todo", "conf", "reloaded",
                 "notified", "warned", "home", "target", "cfg", "prior", "fresh"}

\* The steps whose end looks at g_stop, those that write the files of steps 7
\* and 8, and those after them.
Early == {"environment", "mode", "conf", "confWrite", "reload", "enable", "reopen",
          "accel", "accelFit", "gyro", "gyroFit"}
Writing == {"write", "close"}
Wrote == {"verify", "save", "saving", "done"}

\* What belongs in a file of steps 7 and 8; w says that the wizard warned.
Belongs(p, w) ==
  IF p[1] = "device" THEN CalibIdent
  ELSE IF p[1] = "blob" /\ w THEN Rejected ELSE wiz.run
Content(p) == Belongs(p, wiz.warned)

Items == [path : Paths, text : Idents \cup Calibrations \cup {Rejected}]

\* The files a run has to write.
Targets ==
  (IF wiz.mode = "daemon" THEN {} ELSE {GenericBlob})
    \cup (IF wiz.mode # "daemon" /\ sanitize_mac # None THEN {MacBlob} ELSE {})
    \cup {Calib(CalibIdent)}
    \cup (IF sanitize_mac # None THEN {Device(sanitize_mac)} ELSE {})

JsonOK == \A loc \in Locations : IsConfig(json[loc])

Shapes ==
  /\ DOMAIN wiz = WizardFields
  /\ wiz.pc \in Steps /\ wiz.mode \in {"daemon", "kernel"} /\ wiz.tries \in 0..Tries
  /\ wiz.pc \notin {"idle", "failed"} =>
       /\ wiz.run \in Calibrations \cap Nat
       /\ wiz.home \in Homes /\ wiz.target \in Homes

\* What is left to come; runs are numbered by what is left.
LeftOK ==
  /\ DOMAIN left = {"runs", "commands", "replugs", "accounts", "answers"}
  /\ left.runs \in Nat /\ left.answers \subseteq Numbers
  /\ \E s \in Scenarios : left.runs <= s.runs

DiskOK ==
  /\ DOMAIN disk = Paths
  /\ \A p \in Paths : disk[p] \in Contents(p) \cup {None, Empty}

DriverOK ==
  /\ module = None \/ ("calib" \in DOMAIN module /\ module.calib \in Calibrations \cup {None})
  /\ DOMAIN daemon = {"running", "open", "calib"}
  /\ daemon.open => daemon.running

StopsEarly == wiz.stop => wiz.pc \in Early

\* A path that no wizard writes for this host.
Unnamed ==
  /\ disk[Device("unknown")] = None
  /\ sanitize_mac = None => disk[MacBlob] = None

\* What is still to be written is in todo, each file once opened is empty.
TodoOK ==
  /\ wiz.todo \in Seq(Items) /\ Len(wiz.todo) <= 4
  /\ wiz.pc \notin Writing => wiz.todo = <<>>
  /\ \A n \in 1..Len(wiz.todo) :
       wiz.todo[n].path \in Targets /\ wiz.todo[n].text = Content(wiz.todo[n].path)
  /\ wiz.pc \in Writing \cup Wrote =>
       \A p \in Targets : \/ disk[p] = Content(p)
                          \/ \E n \in 1..Len(wiz.todo) : wiz.todo[n].path = p
  /\ At("close") => wiz.todo # <<>> /\ disk[Head(wiz.todo).path] = Empty

ConfWritten ==
  /\ wiz.conf => disk[Conf] = wiz.mode
  /\ wiz.pc \in {"environment", "mode", "conf", "confWrite"} => ~wiz.conf

Applied ==
  /\ wiz.reloaded => /\ wiz.pc \in {"save", "saving", "done"}
                     /\ module = Probed(disk)
  /\ wiz.notified => wiz.pc \in Wrote
  /\ /\ wiz.pc \in Wrote /\ wiz.mode = "daemon" /\ (wiz.notified \/ wiz.reloaded)
     /\ sanitize_mac = None /\ daemon_identity = "unknown" /\ daemon.open
     => daemon.calib = wiz.run

\* g_cfg is sound, and while nobody changes the files it is what they say but
\* for what the run asked for.
CfgKept ==
  /\ CfgOK(wiz.cfg)
  /\ Running /\ wiz.pc # "saving" /\ wiz.fresh =>
       \A key \in Keys \ TunedKeys : config_load(wiz.home, Missing)[key] = wiz.cfg[key]
  /\ At("saving") /\ wiz.fresh /\ wiz.home = wiz.target =>
       \A key \in Keys \ TunedKeys : wiz.prior[key] = wiz.cfg[key]

IInv ==
  /\ FilesOK /\ JsonOK /\ Shapes /\ LeftOK /\ DiskOK /\ DriverOK /\ StopsEarly /\ Unnamed
  /\ TodoOK /\ ConfWritten /\ Applied /\ CfgKept
-----------------------------------------------------------------------------

\* What the assumptions say of numbers and of the values that stand for none.
LEMMA Bounds == Tries \in Nat /\ 0 \in 0..Tries /\ 1 \in 0..Tries
<1>1. Tries \in Nat \ {0}
  BY SetupAssumption, Zenon
<1> QED
  BY <1>1

\* What a behaviour may start from.
LEMMA ScenarioFacts ==
  ASSUME NEW s \in Scenarios
  PROVE  s.runs \in Nat /\ s.answers \subseteq Numbers
BY SetupAssumption

\* None and Empty are no number, identity or text.
LEMMA NoneFacts ==
  /\ None # Empty /\ None \notin Numbers
  /\ \A x \in {None, Empty} : x \notin Nat /\ x \notin Idents
  /\ Rejected \notin {None, Empty} /\ Rejected \notin Nat
BY SetupAssumption

\* The files are different files.
LEMMA PathFacts ==
  /\ Conf \in Paths /\ Settings \subseteq Paths \ {Conf}
  /\ MacBlob \in Settings /\ GenericBlob \in Settings
  /\ \A i \in Idents : Calib(i) \in Settings /\ Device(i) \in Settings
  /\ \A k \in {"accel", "gyro"}, i \in Idents :
       <<k, i>> \in Paths /\ <<k, i>> \notin Settings /\ <<k, i>> # Conf
  /\ \A p \in Paths : p = Conf <=> p[1] = "conf"
  /\ \A p \in Paths : p[1] = "device" <=> \E i \in Idents : p = Device(i)
  /\ Conf[1] = "conf" /\ MacBlob[1] = "blob" /\ GenericBlob[1] = "blob"
  /\ MacBlob # GenericBlob
  /\ \A i : Calib(i)[1] = "calib" /\ Device(i)[1] = "device" /\ Device(i)[2] = i
BY DEF Paths, Settings, Recordings, Conf, MacBlob, GenericBlob, Calib, Device

\* What the readers of each file expect.
LEMMA ContentsFacts ==
  /\ Contents(Conf) = {"daemon", "kernel"}
  /\ Contents(MacBlob) = Calibrations \cup {Rejected}
  /\ Contents(GenericBlob) = Calibrations \cup {Rejected}
  /\ \A i : Contents(Calib(i)) = Calibrations /\ Contents(Device(i)) = Idents
  /\ \A k \in {"accel", "gyro"}, i \in Idents : Contents(<<k, i>>) = {"samples"}
<1>1. \A k, i : <<k, i>>[1] = k
  OBVIOUS
<1>2. \A p : /\ p[1] = "conf" => Contents(p) = {"daemon", "kernel"}
             /\ p[1] = "blob" => Contents(p) = Calibrations \cup {Rejected}
             /\ p[1] = "calib" => Contents(p) = Calibrations
             /\ p[1] = "device" => Contents(p) = Idents
             /\ p[1] \in {"accel", "gyro"} => Contents(p) = {"samples"}
  BY DEF Contents
<1> QED
  BY <1>1, <1>2, PathFacts

\* The files a run writes: never the conf, never the device file of unknown.
LEMMA TargetFacts ==
  /\ sanitize_mac \in {"AA_BB", None} /\ CalibIdent \in Idents
  /\ Targets \subseteq Settings /\ Targets \subseteq Paths \ {Conf}
  /\ Device("unknown") \notin Targets
  /\ sanitize_mac = None => MacBlob \notin Targets
<1>1. sanitize_mac \in {"AA_BB", None}
  BY DEF sanitize_mac
<1>2. CalibIdent \in Idents
  BY <1>1 DEF CalibIdent, Idents
<1>3. "AA_BB" \in Idents /\ "AA_BB" # "unknown"
  BY DEF Idents
<1>4. ASSUME NEW p \in Targets
      PROVE  /\ p \in Settings /\ p # Device("unknown")
             /\ sanitize_mac = None => p # MacBlob
  <2>1. \/ p = GenericBlob
        \/ sanitize_mac # None /\ p = MacBlob
        \/ p = Calib(CalibIdent)
        \/ sanitize_mac # None /\ p = Device(sanitize_mac)
    BY DEF Targets
  <2> QED
    BY <1>1, <1>2, <1>3, <2>1, PathFacts
<1> QED
  BY <1>1, <1>2, <1>4, PathFacts

\* They depend on the host, the mode and the run.
LEMMA SameTargets ==
  ASSUME host' = host, wiz'.mode = wiz.mode, wiz'.run = wiz.run
  PROVE  /\ Targets' = Targets /\ CalibIdent' = CalibIdent
         /\ sanitize_mac' = sanitize_mac /\ daemon_identity' = daemon_identity
         /\ \A p : Content(p)' = Belongs(p, wiz'.warned)
         /\ wiz'.warned = wiz.warned => \A p : Content(p)' = Content(p)
<1>1. sanitize_mac' = sanitize_mac /\ daemon_identity' = daemon_identity
  BY DEF sanitize_mac, daemon_identity
<1>2. CalibIdent' = CalibIdent
  BY <1>1 DEF CalibIdent
<1>3. Targets' = Targets
  BY <1>1, <1>2 DEF Targets
<1>4. \A p : Content(p)' = Belongs(p, wiz'.warned)
  BY <1>2 DEF Content, Belongs
<1> QED
  BY <1>1, <1>2, <1>3, <1>4 DEF Content

\* Whatever the driver loads is a calibration of some run.
LEMMA ProbedTypes ==
  ASSUME DiskOK
  PROVE  /\ lgmagic_load_fw(disk) \in Calibrations \cup {None}
         /\ "calib" \in DOMAIN Probed(disk)
         /\ Probed(disk).calib \in Calibrations \cup {None}
<1>1. \A p \in {MacBlob, GenericBlob} :
         disk[p] \in Calibrations \cup {Rejected, None, Empty}
  BY PathFacts, ContentsFacts DEF DiskOK
<1>2. \A p \in {MacBlob, GenericBlob} :
         Holds(disk, p) => Validated(disk[p]) \in Calibrations \cup {None}
  BY <1>1 DEF Holds, Validated
<1>3. lgmagic_load_fw(disk) \in Calibrations \cup {None}
  BY <1>2 DEF lgmagic_load_fw
<1> QED
  BY <1>3 DEF Probed

\* A reload leaves the driver gone, or with a calibration of some run.
LEMMA ReloadTypes ==
  ASSUME DiskOK, DriverOK, NEW ok \in BOOLEAN, module_reload(ok)
  PROVE  DriverOK'
<1>1. CASE UNCHANGED <<module, daemon>>
  BY <1>1 DEF DriverOK
<1>2. CASE /\ module' = IF ok THEN Probed(disk) ELSE None
           /\ daemon' = [daemon EXCEPT !.open = FALSE, !.calib = None]
  <2>1. module' = None \/ ("calib" \in DOMAIN module' /\ module'.calib \in Calibrations \cup {None})
    BY <1>2, ProbedTypes
  <2>2. DOMAIN daemon' = {"running", "open", "calib"} /\ ~daemon'.open
    BY <1>2 DEF DriverOK
  <2> QED
    BY <2>1, <2>2 DEF DriverOK
<1> QED
  BY <1>1, <1>2 DEF module_reload

\* Nothing written, nothing asked for.
LEMMA InvInit == Init => IInv
<1> SUFFICES ASSUME Init PROVE IInv
  OBVIOUS
<1>1. PICK s \in Scenarios :
        /\ host = s.host /\ file = s.file /\ json = s.json
        /\ left = [runs |-> s.runs, commands |-> s.commands, replugs |-> s.replugs,
                   accounts |-> s.accounts, answers |-> s.answers]
        /\ disk = [p \in Paths |-> None]
        /\ module = Probed(disk)
        /\ daemon = [running |-> s.running, open |-> FALSE, calib |-> None]
        /\ wiz = NoWizard
  BY DEF Init
<1>2. FilesOK /\ JsonOK
  BY <1>1, SetupAssumption DEF FilesOK, JsonOK
<1>3. /\ DOMAIN wiz = WizardFields /\ wiz.pc = "idle" /\ wiz.run = 0 /\ wiz.mode = "daemon"
      /\ wiz.tries = 0 /\ wiz.todo = <<>> /\ wiz.cfg = set_defaults
      /\ ~wiz.stop /\ ~wiz.conf /\ ~wiz.reloaded /\ ~wiz.notified
  BY <1>1 DEF NoWizard, WizardFields
<1>4. Shapes /\ LeftOK
  <2>1. /\ DOMAIN left = {"runs", "commands", "replugs", "accounts", "answers"}
        /\ left.runs = s.runs /\ left.answers = s.answers
    BY <1>1
  <2>2. left.runs \in Nat /\ left.answers \subseteq Numbers /\ left.runs <= s.runs
    BY <2>1, ScenarioFacts
  <2>3. Shapes
    BY <1>3, Bounds DEF Shapes, Steps
  <2> QED
    BY <2>1, <2>2, <2>3 DEF LeftOK
<1>5. DiskOK /\ Unnamed
  <2>1. \A p \in Paths : disk[p] = None
    BY <1>1
  <2>2. Device("unknown") \in Paths /\ MacBlob \in Paths
    BY PathFacts DEF Idents
  <2> QED
    BY <1>1, <2>1, <2>2 DEF DiskOK, Unnamed
<1>6. DriverOK
  BY <1>1, <1>5, ProbedTypes DEF DriverOK
<1>7. StopsEarly /\ TodoOK /\ ConfWritten /\ Applied
  BY <1>3 DEF StopsEarly, TodoOK, ConfWritten, Applied, Writing, Wrote, At
<1>8. CfgKept
  BY <1>3, DefaultsOK DEF CfgKept, Running, At
<1> QED
  BY <1>2, <1>4, <1>5, <1>6, <1>7, <1>8 DEF IInv

\* A run that is over is over.
LEMMA FailedKeeps ==
  ASSUME IInv, Goto("failed"), UNCHANGED <<left, json, host>>,
         FilesOK', DiskOK', DriverOK', Unnamed'
  PROVE  IInv'
<1>1. /\ DOMAIN wiz' = WizardFields /\ wiz'.pc = "failed" /\ wiz'.mode = "daemon"
      /\ wiz'.tries = 0 /\ wiz'.todo = <<>> /\ wiz'.cfg = set_defaults
      /\ ~wiz'.stop /\ ~wiz'.conf /\ ~wiz'.reloaded /\ ~wiz'.notified
  <2>1. wiz' = [NoWizard EXCEPT !.pc = "failed"]
    BY DEF Goto
  <2> QED
    BY <2>1 DEF NoWizard, WizardFields
<1>2. JsonOK'
  BY DEF IInv, JsonOK
<1>3. Shapes' /\ LeftOK'
  <2>1. Shapes'
    BY <1>1, Bounds DEF Shapes, Steps
  <2> QED
    BY <2>1 DEF IInv, LeftOK
<1>4. StopsEarly' /\ TodoOK' /\ ConfWritten' /\ Applied'
  BY <1>1 DEF StopsEarly, TodoOK, ConfWritten, Applied, Writing, Wrote, At
<1>5. CfgKept'
  BY <1>1, DefaultsOK DEF CfgKept, Running, At
<1> QED
  BY <1>2, <1>3, <1>4, <1>5 DEF IInv

\* What the first five steps leave alone of the wizard's variables.
Others == {"run", "todo", "reloaded", "notified", "home", "target", "cfg", "prior", "fresh"}

\* A step of the wizard before it knows a calibration: the conf may change,
\* the driver and the daemon may.
LEMMA EarlyKeeps ==
  ASSUME IInv, wiz.pc \in Early, wiz'.pc \in Early \cup {"tune"},
         DOMAIN wiz' = WizardFields, \A f \in Others : wiz'[f] = wiz[f],
         wiz'.tries \in 0..Tries, wiz'.mode \in {"daemon", "kernel"},
         UNCHANGED <<file, json, host, left>>,
         DiskOK', DriverOK', \A p \in Settings : disk'[p] = disk[p],
         StopsEarly', ConfWritten'
  PROVE  IInv'
<1>1. /\ wiz'.run = wiz.run /\ wiz'.todo = wiz.todo /\ wiz'.reloaded = wiz.reloaded
      /\ wiz'.notified = wiz.notified /\ wiz'.home = wiz.home /\ wiz'.target = wiz.target
      /\ wiz'.cfg = wiz.cfg /\ wiz'.fresh = wiz.fresh
  BY DEF Others
<1>2. FilesOK' /\ JsonOK' /\ LeftOK'
  BY DEF IInv, FilesOK, JsonOK, LeftOK
<1>3. /\ wiz'.pc \notin {"idle", "failed"} \cup Writing \cup Wrote /\ wiz'.pc \in Steps
      /\ wiz.pc \notin {"idle", "failed"} \cup Writing \cup Wrote
      /\ wiz'.pc \notin {"close", "saving"} /\ wiz.pc \notin {"idle", "done", "failed", "saving"}
  BY DEF Early, Writing, Wrote, Steps
<1>4. Shapes'
  BY <1>1, <1>3 DEF IInv, Shapes
<1>5. Unnamed'
  <2>1. sanitize_mac' = sanitize_mac
    BY DEF sanitize_mac
  <2>2. Device("unknown") \in Settings /\ MacBlob \in Settings
    BY PathFacts DEF Idents
  <2> QED
    BY <2>1, <2>2 DEF IInv, Unnamed
<1>6. wiz.todo = <<>>
  BY <1>3 DEF IInv, TodoOK
<1>7. TodoOK'
  BY <1>1, <1>3, <1>6 DEF TodoOK, At
<1>8. ~wiz.reloaded /\ ~wiz.notified
  BY <1>3 DEF IInv, Applied, Wrote
<1>9. Applied'
  BY <1>1, <1>3, <1>8 DEF Applied
<1>10. CfgKept'
  <2>1. config_load(wiz.home, Missing)' = config_load(wiz.home, Missing)
    BY <1>1 DEF config_load, config_load_daemon
  <2>2. CfgOK(wiz'.cfg)
    BY <1>1 DEF IInv, CfgKept
  <2> QED
    BY <1>1, <1>3, <2>1, <2>2 DEF IInv, CfgKept, Running, At
<1> QED
  BY <1>2, <1>4, <1>5, <1>7, <1>9, <1>10 DEF IInv

\* A step that ends the run there leaves the rest as it is.
LEMMA GivesUp ==
  ASSUME IInv, Goto("failed"), UNCHANGED <<left, configVars, host, disk>>, DriverOK'
  PROVE  IInv'
<1>1. FilesOK' /\ DiskOK'
  BY DEF IInv, FilesOK, DiskOK, configVars
<1>2. Unnamed'
  BY DEF IInv, Unnamed, sanitize_mac
<1> QED
  BY <1>1, <1>2, FailedKeeps DEF configVars

\* Moving on to the next step, or stopping there.
LEMMA Moves ==
  ASSUME IInv, NEW x, x # "failed", Goto(x)
  PROVE  /\ DOMAIN wiz' = WizardFields /\ wiz'.pc = x
         /\ \A f \in WizardFields \ {"pc"} : wiz'[f] = wiz[f]
<1>1. wiz' = [wiz EXCEPT !.pc = x]
  BY DEF Goto
<1>2. DOMAIN wiz = WizardFields /\ "pc" \in WizardFields
  BY DEF IInv, Shapes, WizardFields
<1> QED
  BY <1>1, <1>2

\* The check of g_stop at the end of a step.
LEMMA AdvanceMoves ==
  ASSUME NEW x, Goto(Advance(x))
  PROVE  Goto("failed") \/ (~wiz.stop /\ Goto(x))
BY DEF Advance

\* A plain move between two early steps.
LEMMA EarlyMove ==
  ASSUME IInv, wiz.pc \in Early, NEW x \in Early \cup {"tune"}, ~wiz.stop \/ x \in Early,
         Goto(x), UNCHANGED <<file, json, host, left>>,
         DiskOK', DriverOK', \A p \in Settings : disk'[p] = disk[p],
         wiz.conf => disk'[Conf] = disk[Conf] /\ x \notin {"environment", "mode", "conf", "confWrite"}
  PROVE  IInv'
<1>1. x # "failed"
  BY DEF Early
<1>2. /\ DOMAIN wiz' = WizardFields /\ wiz'.pc = x
      /\ \A f \in WizardFields \ {"pc"} : wiz'[f] = wiz[f]
  BY <1>1, Moves
<1>3. /\ \A f \in Others : wiz'[f] = wiz[f]
      /\ wiz'.tries = wiz.tries /\ wiz'.mode = wiz.mode /\ wiz'.stop = wiz.stop
      /\ wiz'.conf = wiz.conf
  BY <1>2 DEF Others, WizardFields
<1>4. wiz'.tries \in 0..Tries /\ wiz'.mode \in {"daemon", "kernel"}
  BY <1>3 DEF IInv, Shapes
<1>5. StopsEarly' /\ ConfWritten'
  BY <1>2, <1>3 DEF IInv, StopsEarly, ConfWritten
<1> QED
  BY <1>2, <1>3, <1>4, <1>5, EarlyKeeps

\* Step 1: the module may be loaded.
LEMMA EnvironmentStep == IInv /\ step_environment => IInv'
<1> SUFFICES ASSUME IInv, step_environment PROVE IInv'
  OBVIOUS
<1>1. UNCHANGED <<configVars, host, disk, daemon, left>> /\ wiz.pc = "environment"
  BY DEF step_environment, At
<1>2. DriverOK'
  <2>1. module' \in {None, Probed(disk), module}
    BY DEF step_environment
  <2> QED
    BY <1>1, <2>1, ProbedTypes DEF IInv, DriverOK
<1>3. CASE Goto("failed")
  BY <1>1, <1>2, <1>3, GivesUp
<1>4. CASE ~wiz.stop /\ Goto("mode")
  <2>1. wiz.pc \in Early /\ "mode" \in Early /\ ~wiz.conf
    BY <1>1 DEF IInv, ConfWritten, Early
  <2>2. DiskOK'
    BY <1>1 DEF IInv, DiskOK
  <2> QED
    BY <1>1, <1>2, <1>4, <2>1, <2>2, EarlyMove DEF configVars
<1> QED
  BY <1>3, <1>4, AdvanceMoves DEF step_environment

\* Step 2: the mode is chosen.
LEMMA ModeStep == IInv /\ ask_mode => IInv'
<1> SUFFICES ASSUME IInv, ask_mode PROVE IInv'
  OBVIOUS
<1>1. UNCHANGED <<configVars, host, disk, module, daemon, left>> /\ wiz.pc = "mode"
  BY DEF ask_mode, At
<1>2. DriverOK' /\ DiskOK'
  BY <1>1 DEF IInv, DriverOK, DiskOK
<1>3. CASE Goto("failed")
  BY <1>1, <1>2, <1>3, GivesUp
<1>4. ASSUME ~wiz.stop, NEW mode \in {"daemon", "kernel"},
             wiz' = [wiz EXCEPT !.mode = mode, !.pc = "conf"]
      PROVE  IInv'
  <2>1. DOMAIN wiz = WizardFields /\ {"mode", "pc"} \subseteq WizardFields
    BY DEF IInv, Shapes, WizardFields
  <2>2. /\ DOMAIN wiz' = WizardFields /\ wiz'.pc = "conf" /\ wiz'.mode = mode
        /\ \A f \in WizardFields \ {"mode", "pc"} : wiz'[f] = wiz[f]
    BY <1>4, <2>1
  <2>3. /\ \A f \in Others : wiz'[f] = wiz[f]
        /\ wiz'.tries = wiz.tries /\ wiz'.stop = wiz.stop /\ wiz'.conf = wiz.conf
    BY <2>2 DEF Others, WizardFields
  <2>4. wiz'.tries \in 0..Tries /\ wiz.pc \in Early /\ wiz'.pc \in Early
    BY <1>1, <2>2, <2>3 DEF IInv, Shapes, Early
  <2>5. StopsEarly' /\ ConfWritten'
    BY <1>1, <1>4, <2>2, <2>3 DEF IInv, StopsEarly, ConfWritten
  <2> QED
    BY <1>1, <1>2, <2>2, <2>3, <2>4, <2>5, EarlyKeeps DEF configVars
<1>5. PICK mode \in {"daemon", "kernel"} :
        IF Advance("conf") = "conf" THEN wiz' = [wiz EXCEPT !.mode = mode, !.pc = "conf"]
        ELSE Goto("failed")
  BY DEF ask_mode
<1>6. CASE wiz.stop
  BY <1>3, <1>5, <1>6 DEF Advance
<1>7. CASE ~wiz.stop
  BY <1>4, <1>5, <1>7 DEF Advance
<1> QED
  BY <1>6, <1>7

\* A file gets a text of its kind.
LEMMA FileChanges ==
  ASSUME DiskOK, NEW f \in Paths, NEW x \in Contents(f) \cup {None, Empty},
         disk' = [disk EXCEPT ![f] = x]
  PROVE  DiskOK' /\ disk'[f] = x /\ \A p \in Paths : p # f => disk'[p] = disk[p]
<1>1. /\ DOMAIN disk' = Paths /\ disk'[f] = x
      /\ \A p \in Paths : p # f => disk'[p] = disk[p]
  BY DEF DiskOK
<1>2. \A p \in Paths : disk'[p] \in Contents(p) \cup {None, Empty}
  BY <1>1 DEF DiskOK
<1>3. \A p : Contents(p)' = Contents(p)
  BY DEF Contents
<1> QED
  BY <1>1, <1>2, <1>3 DEF DiskOK

\* A new text of the conf.
LEMMA ConfFile ==
  ASSUME DiskOK, NEW c \in {"daemon", "kernel", Empty}, disk' = [disk EXCEPT ![Conf] = c]
  PROVE  DiskOK' /\ disk'[Conf] = c /\ \A p \in Settings : disk'[p] = disk[p]
<1>1. Conf \in Paths /\ c \in Contents(Conf) \cup {None, Empty}
  BY PathFacts, ContentsFacts
<1>2. DiskOK' /\ disk'[Conf] = c
  BY <1>1, FileChanges
<1> QED
  BY <1>1, PathFacts DEF DiskOK

\* Step 3: the conf is opened, then written.
LEMMA ConfStep == IInv /\ module_write_conf => IInv'
<1> SUFFICES ASSUME IInv, module_write_conf PROVE IInv'
  OBVIOUS
<1>1. UNCHANGED <<configVars, host, module, daemon, left>> /\ wiz.pc \in {"conf", "confWrite"}
  BY DEF module_write_conf, At
<1>2. DriverOK' /\ DiskOK /\ wiz.pc \in Early /\ ~wiz.conf
      /\ {"confWrite", "reload", "reopen"} \subseteq Early
  BY <1>1 DEF IInv, DriverOK, ConfWritten, Early
<1>3. CASE UNCHANGED disk /\ Goto(Advance("reopen"))
  <2>1. DiskOK'
    BY <1>2, <1>3 DEF DiskOK
  <2>2. CASE Goto("failed")
    BY <1>1, <1>2, <1>3, <2>2, GivesUp
  <2>3. CASE ~wiz.stop /\ Goto("reopen")
    BY <1>1, <1>2, <1>3, <2>1, <2>3, EarlyMove DEF configVars
  <2> QED
    BY <1>3, <2>2, <2>3, AdvanceMoves
<1>4. CASE disk' = [disk EXCEPT ![Conf] = Empty] /\ Goto("confWrite")
  <2>1. DiskOK' /\ \A p \in Settings : disk'[p] = disk[p]
    BY <1>2, <1>4, ConfFile
  <2> QED
    BY <1>1, <1>2, <1>4, <2>1, EarlyMove DEF configVars
<1>5. CASE /\ disk' = [disk EXCEPT ![Conf] = wiz.mode]
           /\ wiz' = [wiz EXCEPT !.conf = TRUE, !.pc = "reload"]
  <2>1. DOMAIN wiz = WizardFields /\ {"conf", "pc"} \subseteq WizardFields
        /\ wiz.mode \in {"daemon", "kernel"}
    BY DEF IInv, Shapes, WizardFields
  <2>2. DiskOK' /\ disk'[Conf] = wiz.mode /\ \A p \in Settings : disk'[p] = disk[p]
    BY <1>2, <1>5, <2>1, ConfFile
  <2>3. /\ DOMAIN wiz' = WizardFields /\ wiz'.pc = "reload"
        /\ \A f \in WizardFields \ {"conf", "pc"} : wiz'[f] = wiz[f]
    BY <1>5, <2>1
  <2>4. /\ \A f \in Others : wiz'[f] = wiz[f]
        /\ wiz'.tries = wiz.tries /\ wiz'.stop = wiz.stop /\ wiz'.mode = wiz.mode
    BY <2>3 DEF Others, WizardFields
  <2>5. wiz'.tries \in 0..Tries /\ wiz'.pc \in Early
    BY <1>2, <2>3, <2>4 DEF IInv, Shapes
  <2>6. StopsEarly' /\ ConfWritten'
    BY <2>2, <2>3, <2>4, <2>5 DEF StopsEarly, ConfWritten
  <2> QED
    BY <1>1, <1>2, <2>1, <2>2, <2>3, <2>4, <2>5, <2>6, EarlyKeeps DEF configVars
<1> QED
  BY <1>3, <1>4, <1>5 DEF module_write_conf

\* Step 3: the module is reloaded.
LEMMA ParamsStep == IInv /\ step_module_params => IInv'
<1> SUFFICES ASSUME IInv, step_module_params PROVE IInv'
  OBVIOUS
<1>1. /\ UNCHANGED <<configVars, host, disk, left>> /\ wiz.pc = "reload" /\ Goto("enable")
      /\ \E ok \in BOOLEAN : module_reload(ok)
  BY DEF step_module_params, At
<1>2. DriverOK' /\ DiskOK'
  BY <1>1, ReloadTypes DEF IInv, DiskOK
<1>3. wiz.pc \in Early /\ "enable" \in Early
  BY <1>1 DEF Early
<1> QED
  BY <1>1, <1>2, <1>3, EarlyMove DEF configVars

\* Step 3: the daemon is enabled.
LEMMA EnableStep == IInv /\ EnableDaemon => IInv'
<1> SUFFICES ASSUME IInv, EnableDaemon PROVE IInv'
  OBVIOUS
<1>1. /\ UNCHANGED <<configVars, host, disk, module, left>> /\ wiz.pc = "enable"
      /\ Goto(Advance("reopen"))
  BY DEF EnableDaemon, At
<1>2. DriverOK'
  <2>1. CASE UNCHANGED daemon
    BY <1>1, <2>1 DEF IInv, DriverOK
  <2>2. CASE daemon' = [running |-> TRUE, open |-> FALSE, calib |-> None]
    BY <1>1, <2>2 DEF IInv, DriverOK
  <2> QED
    BY <2>1, <2>2 DEF EnableDaemon
<1>3. wiz.pc \in Early /\ "reopen" \in Early /\ DiskOK'
  BY <1>1 DEF IInv, DiskOK, Early
<1>4. CASE Goto("failed")
  BY <1>1, <1>2, <1>4, GivesUp
<1>5. CASE ~wiz.stop /\ Goto("reopen")
  BY <1>1, <1>2, <1>3, <1>5, EarlyMove DEF configVars
<1> QED
  BY <1>1, <1>4, <1>5, AdvanceMoves

\* Steps that end in a recording, or in the next step.
LEMMA RecordingStep ==
  ASSUME IInv, wiz.pc \in Early, NEW x \in Early \cup {"tune"}, ~wiz.stop \/ x \in Early,
         x \notin {"environment", "mode", "conf", "confWrite"},
         NEW t \in 0..Tries, wiz' = [wiz EXCEPT !.pc = x, !.tries = t],
         UNCHANGED <<configVars, host, disk, module, daemon, left>>
  PROVE  IInv'
<1>1. DOMAIN wiz = WizardFields /\ {"tries", "pc"} \subseteq WizardFields
  BY DEF IInv, Shapes, WizardFields
<1>2. /\ DOMAIN wiz' = WizardFields /\ wiz'.pc = x /\ wiz'.tries = t
      /\ \A f \in WizardFields \ {"tries", "pc"} : wiz'[f] = wiz[f]
  BY <1>1
<1>3. /\ \A f \in Others : wiz'[f] = wiz[f]
      /\ wiz'.mode = wiz.mode /\ wiz'.stop = wiz.stop /\ wiz'.conf = wiz.conf
  BY <1>2 DEF Others, WizardFields
<1>4. DriverOK' /\ DiskOK' /\ wiz'.mode \in {"daemon", "kernel"}
  BY <1>3 DEF IInv, DriverOK, DiskOK, Shapes
<1>5. StopsEarly' /\ ConfWritten'
  BY <1>2, <1>3 DEF IInv, StopsEarly, ConfWritten
<1> QED
  BY <1>2, <1>3, <1>4, <1>5, EarlyKeeps DEF configVars

\* A recording is saved beside the calibration.
LEMMA RecordKeeps ==
  ASSUME IInv, NEW kind \in {"accel", "gyro"}, NEW judged \in {"accelFit", "gyroFit"},
         Record(kind, judged)
  PROVE  IInv'
<1>1. /\ UNCHANGED <<configVars, host, module, daemon, left>> /\ wiz.pc = kind
      /\ wiz.pc \in Early /\ judged \in Early
      /\ judged \notin {"environment", "mode", "conf", "confWrite"}
  BY DEF Record, At, Early
<1>2. DriverOK'
  BY <1>1 DEF IInv, DriverOK
<1>3. CASE Goto("failed") /\ UNCHANGED disk
  BY <1>1, <1>2, <1>3, GivesUp
<1>4. CASE ~wiz.stop /\ csv_write(kind) /\ Goto(judged)
  <2> DEFINE f == <<kind, CalibIdent>>
  <2>1. f \in Paths /\ f \notin Settings /\ f # Conf /\ Contents(f) = {"samples"}
    BY PathFacts, ContentsFacts, TargetFacts
  <2>2. disk' = [disk EXCEPT ![f] = "samples"]
    BY <1>4 DEF csv_write
  <2> HIDE DEF f
  <2>3. DiskOK' /\ \A p \in Paths : p # f => disk'[p] = disk[p]
    BY <2>1, <2>2, FileChanges DEF IInv
  <2>4. disk'[Conf] = disk[Conf] /\ \A p \in Settings : disk'[p] = disk[p]
    BY <2>1, <2>3, PathFacts
  <2> QED
    BY <1>1, <1>2, <1>4, <2>3, <2>4, EarlyMove DEF configVars
<1> QED
  BY <1>3, <1>4 DEF Record

\* It is taken, or repeated while tries are left.
LEMMA JudgeKeeps ==
  ASSUME IInv, wiz.pc \in {"accelFit", "gyroFit"}, NEW kind \in {"accel", "gyro"},
         NEW x \in {"gyro", "tune"}, Judge(kind, x),
         UNCHANGED <<configVars, host, disk, module, daemon, left>>
  PROVE  IInv'
<1>1. /\ wiz.pc \in Early /\ x \in Early \cup {"tune"} /\ x # "failed" /\ kind \in Early
      /\ x \notin {"environment", "mode", "conf", "confWrite"}
      /\ kind \notin {"environment", "mode", "conf", "confWrite"}
  BY DEF Early
<1>2. DriverOK'
  BY DEF IInv, DriverOK
<1>3. CASE Goto("failed")
  BY <1>2, <1>3, GivesUp
<1>4. CASE Advance(x) = x /\ wiz' = [wiz EXCEPT !.pc = x, !.tries = 1]
  <2>1. ~wiz.stop
    BY <1>1, <1>4 DEF Advance
  <2> QED
    BY <1>1, <1>4, <2>1, RecordingStep, Bounds
<1>5. CASE wiz.tries < Tries /\ wiz' = [wiz EXCEPT !.pc = kind, !.tries = @ + 1]
  <2> DEFINE t == wiz.tries + 1
  <2>1. t \in 0..Tries
    BY <1>5, Bounds DEF IInv, Shapes
  <2>2. wiz' = [wiz EXCEPT !.pc = kind, !.tries = t]
    BY <1>5
  <2> HIDE DEF t
  <2> QED
    BY <1>1, <2>1, <2>2, RecordingStep
<1> QED
  BY <1>3, <1>4, <1>5 DEF Judge

\* Steps 4 and 5, and the IMU opened before them.
LEMMA CalibrationSteps == IInv /\ (Reopen \/ step_accel_calib \/ step_gyro_calib) => IInv'
<1> SUFFICES ASSUME IInv, Reopen \/ step_accel_calib \/ step_gyro_calib PROVE IInv'
  OBVIOUS
<1>1. CASE Reopen
  <2>1. /\ UNCHANGED <<configVars, host, disk, module, daemon, left>>
        /\ wiz.pc \in Early /\ "accel" \in Early /\ DriverOK'
    BY <1>1 DEF Reopen, At, Early, IInv, DriverOK
  <2>2. CASE Goto("failed")
    BY <2>1, <2>2, GivesUp
  <2>3. CASE wiz' = [wiz EXCEPT !.pc = "accel", !.tries = 1]
    BY <2>1, <2>3, RecordingStep, Bounds
  <2> QED
    BY <1>1, <2>2, <2>3 DEF Reopen
<1>2. CASE step_accel_calib
  <2>1. CASE Record("accel", "accelFit")
    BY <2>1, RecordKeeps
  <2>2. CASE /\ At("accelFit") /\ Judge("accel", "gyro")
             /\ UNCHANGED <<configVars, host, disk, module, daemon, left>>
    BY <2>2, JudgeKeeps DEF At
  <2> QED
    BY <1>2, <2>1, <2>2 DEF step_accel_calib
<1>3. CASE step_gyro_calib
  <2>1. CASE Record("gyro", "gyroFit")
    BY <2>1, RecordKeeps
  <2>2. CASE /\ At("gyroFit") /\ Judge("gyro", "tune")
             /\ UNCHANGED <<configVars, host, disk, module, daemon, left>>
    BY <2>2, JudgeKeeps DEF At
  <2> QED
    BY <1>3, <2>1, <2>2 DEF step_gyro_calib
<1> QED
  BY <1>1, <1>2, <1>3

\* A signal sets the flag only.
LEMMA InterruptStep == IInv /\ Interrupt => IInv'
<1> SUFFICES ASSUME IInv, Interrupt PROVE IInv'
  OBVIOUS
<1>1. /\ UNCHANGED <<configVars, host, disk, module, daemon, left>>
      /\ wiz' = [wiz EXCEPT !.stop = TRUE] /\ wiz.pc \in Early
  BY DEF Interrupt, Early
<1>2. DOMAIN wiz = WizardFields /\ "stop" \in WizardFields
  BY DEF IInv, Shapes, WizardFields
<1>3. DOMAIN wiz' = WizardFields /\ \A f \in WizardFields \ {"stop"} : wiz'[f] = wiz[f]
  BY <1>1, <1>2
<1>4. /\ \A f \in Others : wiz'[f] = wiz[f]
      /\ wiz'.mode = wiz.mode /\ wiz'.pc = wiz.pc /\ wiz'.conf = wiz.conf
      /\ wiz'.tries = wiz.tries
  BY <1>3 DEF Others, WizardFields
<1>5. /\ DriverOK' /\ DiskOK' /\ wiz'.mode \in {"daemon", "kernel"}
      /\ wiz'.tries \in 0..Tries
  BY <1>1, <1>4 DEF IInv, DriverOK, DiskOK, Shapes
<1>6. StopsEarly' /\ ConfWritten'
  BY <1>1, <1>4 DEF IInv, StopsEarly, ConfWritten
<1> QED
  BY <1>1, <1>3, <1>4, <1>5, <1>6, EarlyKeeps DEF configVars

\* A kill leaves the files as they are.
LEMMA KillStep == IInv /\ Kill => IInv'
<1> SUFFICES ASSUME IInv, Kill PROVE IInv'
  OBVIOUS
<1>1. UNCHANGED <<configVars, host, disk, module, daemon, left>> /\ Goto("failed")
  BY DEF Kill
<1>2. DriverOK'
  BY <1>1 DEF IInv, DriverOK
<1> QED
  BY <1>1, <1>2, GivesUp

\* The runs are numbered with calibrations.
LEMMA RunNumber ==
  ASSUME LeftOK, left.runs > 0
  PROVE  left.runs \in Calibrations \cap Nat
<1>1. PICK s \in Scenarios : left.runs <= s.runs
  BY DEF LeftOK
<1>2. s.runs \in Nat /\ left.runs \in Nat
  BY ScenarioFacts DEF LeftOK
<1>3. left.runs \in 1..s.runs
  BY <1>1, <1>2
<1> QED
  BY <1>2, <1>3 DEF Calibrations

\* A run starts with the configuration of its HOME.
LEMMA StartStep ==
  ASSUME IInv, NEW home \in Homes, NEW target \in Homes, Start(home, target)
  PROVE  IInv'
<1>1. /\ UNCHANGED <<configVars, host, disk, module, daemon>>
      /\ left' = [left EXCEPT !.runs = @ - 1] /\ left.runs > 0
  BY DEF Start
<1>2. /\ DOMAIN wiz' = WizardFields /\ wiz'.pc = "environment" /\ wiz'.run = left.runs
      /\ wiz'.mode = "daemon" /\ wiz'.tries = 0 /\ wiz'.todo = <<>> /\ wiz'.home = home
      /\ wiz'.target = target /\ wiz'.cfg = config_load(home, Missing)
      /\ ~wiz'.stop /\ ~wiz'.conf /\ ~wiz'.reloaded /\ ~wiz'.notified
  BY DEF Start, LoadedBy, WizardFields
<1>3. FilesOK' /\ JsonOK' /\ DiskOK' /\ DriverOK' /\ Unnamed'
  BY <1>1 DEF IInv, FilesOK, JsonOK, DiskOK, DriverOK, Unnamed, sanitize_mac, configVars
<1>4. LeftOK'
  <2>1. PICK s \in Scenarios : left.runs <= s.runs
    BY DEF IInv, LeftOK
  <2>2. s.runs \in Nat /\ left.runs \in Nat
    BY ScenarioFacts DEF IInv, LeftOK
  <2>3. left'.runs = left.runs - 1 /\ left'.answers = left.answers /\ DOMAIN left' = DOMAIN left
    BY <1>1 DEF IInv, LeftOK
  <2>4. left'.runs \in Nat /\ left'.runs <= s.runs
    BY <1>1, <2>1, <2>2, <2>3
  <2> QED
    BY <2>3, <2>4 DEF IInv, LeftOK
<1>5. Shapes'
  <2>1. left.runs \in Calibrations \cap Nat
    BY <1>1, RunNumber DEF IInv
  <2> QED
    BY <1>2, <2>1, Bounds DEF Shapes, Steps
<1>6. StopsEarly' /\ TodoOK' /\ ConfWritten' /\ Applied'
  BY <1>2 DEF StopsEarly, TodoOK, ConfWritten, Applied, Writing, Wrote, At
<1>7. CfgKept'
  <2>1. CfgOK(config_load(home, Missing))
    BY LoadOK, EmptyOK DEF IInv
  <2>2. config_load(wiz.home, Missing)' = config_load(home, Missing)
    BY <1>1, <1>2 DEF config_load, config_load_daemon, configVars
  <2> QED
    BY <1>2, <2>1, <2>2 DEF CfgKept, Running, At
<1> QED
  BY <1>3, <1>4, <1>5, <1>6, <1>7 DEF IInv

-----------------------------------------------------------------------------
(***************************************************************************)
(* Writing the files.                                                      *)
(***************************************************************************)

\* What the later steps leave alone of the wizard's variables.
Fixed == {"run", "mode", "stop", "conf", "home", "target", "fresh"}

\* A later step of the wizard: it has its answers, and the conf stays.
LEMMA LateKeeps ==
  ASSUME IInv, wiz.pc \in {"tune"} \cup Writing \cup Wrote, wiz'.pc \in Writing \cup Wrote,
         DOMAIN wiz' = WizardFields, \A f \in Fixed : wiz'[f] = wiz[f],
         wiz'.tries \in 0..Tries, UNCHANGED <<json, host, left>>, FilesOK',
         DiskOK', DriverOK', disk'[Conf] = disk[Conf],
         \A p \in Paths \ Targets : disk'[p] = disk[p],
         TodoOK', Applied', CfgKept'
  PROVE  IInv'
<1>1. /\ wiz'.run = wiz.run /\ wiz'.mode = wiz.mode /\ wiz'.stop = wiz.stop
      /\ wiz'.conf = wiz.conf /\ wiz'.home = wiz.home /\ wiz'.target = wiz.target
      /\ wiz'.fresh = wiz.fresh
  BY DEF Fixed
<1>2. JsonOK' /\ LeftOK'
  BY DEF IInv, JsonOK, LeftOK
<1>3. /\ wiz.pc \notin {"idle", "failed"} \cup Early
      /\ wiz'.pc \notin {"environment", "mode", "conf", "confWrite"} /\ wiz'.pc \in Steps
  BY DEF Early, Writing, Wrote, Steps
<1>4. Shapes'
  BY <1>1, <1>3 DEF IInv, Shapes
<1>5. Unnamed'
  <2>1. sanitize_mac' = sanitize_mac
    BY DEF sanitize_mac
  <2>2. Device("unknown") \in Paths \ Targets /\ (sanitize_mac = None => MacBlob \in Paths \ Targets)
    BY PathFacts, TargetFacts DEF Idents
  <2> QED
    BY <2>1, <2>2 DEF IInv, Unnamed
<1>6. StopsEarly' /\ ConfWritten'
  BY <1>1, <1>3 DEF IInv, StopsEarly, ConfWritten
<1> QED
  BY <1>2, <1>4, <1>5, <1>6 DEF IInv

\* The list of step 7 and 8: every target once, with what belongs there.
Lists(q, w) ==
  /\ q \in Seq(Items) /\ Len(q) <= 4
  /\ \A n \in 1..Len(q) : q[n].path \in Targets /\ q[n].text = Belongs(q[n].path, w)
  /\ \A p \in Targets : \E n \in 1..Len(q) : q[n].path = p

\* Short lists put together.
LEMMA Joined ==
  ASSUME NEW a, NEW b
  PROVE  /\ <<>> \o <<a>> = <<a>> /\ <<a>> \o <<>> = <<a>> /\ <<a>> \o <<b>> = <<a, b>>
         /\ <<>> \o <<a, b>> = <<a, b>>
<1>1. <<>> \o <<a>> = <<a>> /\ <<a>> \o <<>> = <<a>>
  OBVIOUS
<1>2. <<a>> \o <<b>> = <<a, b>>
  <2> DEFINE s == <<a>> \o <<b>>
             t == <<a, b>>
  <2>1. s \in Seq({a, b}) /\ Len(s) = 2 /\ s[1] = a /\ s[2] = b
    OBVIOUS
  <2>2. t \in Seq({a, b}) /\ Len(t) = 2 /\ t[1] = a /\ t[2] = b
    OBVIOUS
  <2>3. \A i \in 1..2 : i = 1 \/ i = 2
    OBVIOUS
  <2> HIDE DEF s, t
  <2>4. \A i \in 1..Len(s) : s[i] = t[i]
    BY <2>1, <2>2, <2>3
  <2>5. s = t
    BY <2>1, <2>2, <2>4, SeqEqual
  <2> QED
    BY <2>5 DEF s, t
<1>3. <<>> \o <<a, b>> = <<a, b>>
  OBVIOUS
<1> QED
  BY <1>1, <1>2, <1>3

\* And the longest one.
LEMMA JoinedPairs ==
  ASSUME NEW a, NEW b, NEW c, NEW d
  PROVE  <<a, b>> \o <<c, d>> = <<a, b, c, d>>
<1> DEFINE s == <<a, b>> \o <<c, d>>
           t == <<a, b, c, d>>
           S == {a, b, c, d}
<1>1. s \in Seq(S) /\ Len(s) = 4 /\ s[1] = a /\ s[2] = b /\ s[3] = c /\ s[4] = d
  OBVIOUS
<1>2. t \in Seq(S) /\ Len(t) = 4 /\ t[1] = a /\ t[2] = b /\ t[3] = c /\ t[4] = d
  OBVIOUS
<1>3. \A i \in 1..4 : i = 1 \/ i = 2 \/ i = 3 \/ i = 4
  OBVIOUS
<1> HIDE DEF s, t, S
<1>4. \A i \in 1..Len(s) : s[i] = t[i]
  BY <1>1, <1>2, <1>3
<1>5. s = t
  BY <1>1, <1>2, <1>4, SeqEqual
<1> QED
  BY <1>5 DEF s, t

\* The list made at the end of step 6 names every target, whatever mode and host.
LEMMA TodoLists ==
  ASSUME IInv, wiz.pc = "tune", NEW blob \in {wiz.run, Rejected}, NEW w \in BOOLEAN,
         w <=> wiz.mode = "kernel" /\ blob = Rejected
  PROVE  Lists(step_blob(blob) \o step_daemon_state, w)
<1> DEFINE mac == [path |-> MacBlob, text |-> blob]
           any == [path |-> GenericBlob, text |-> blob]
           cal == [path |-> Calib(CalibIdent), text |-> wiz.run]
           dev == [path |-> Device(sanitize_mac), text |-> CalibIdent]
           Good(x) == x \in Items /\ x.path \in Targets /\ x.text = Belongs(x.path, w)
<1>1. wiz.run \in Calibrations /\ CalibIdent \in Idents /\ "AA_BB" \in Idents
      /\ sanitize_mac \in {"AA_BB", None}
  BY TargetFacts DEF IInv, Shapes, Idents
<1>2. Good(cal) /\ cal.path = Calib(CalibIdent)
  BY <1>1, PathFacts DEF Items, Targets, Belongs
<1>3. sanitize_mac # None => Good(dev) /\ dev.path = Device(sanitize_mac)
  BY <1>1, PathFacts DEF Items, Targets, Belongs
<1>b. wiz.mode # "daemon" => /\ Belongs(GenericBlob, w) = blob
                             /\ Belongs(MacBlob, w) = blob
  <2>1. wiz.mode \in {"daemon", "kernel"} /\ wiz.run # Rejected
    BY NoneFacts DEF IInv, Shapes
  <2>2. wiz.mode # "daemon" => blob = IF w THEN Rejected ELSE wiz.run
    BY <2>1
  <2> QED
    BY <2>2, PathFacts DEF Belongs
<1>4. wiz.mode # "daemon" => Good(any) /\ any.path = GenericBlob
  BY <1>1, <1>b, PathFacts DEF Items, Targets, Belongs
<1>5. wiz.mode # "daemon" /\ sanitize_mac # None => Good(mac) /\ mac.path = MacBlob
  BY <1>1, <1>b, PathFacts DEF Items, Targets, Belongs
<1>6. /\ step_blob(blob) = IF wiz.mode = "daemon" THEN <<>>
                     ELSE IF sanitize_mac # None THEN <<mac>> \o <<any>> ELSE <<>> \o <<any>>
      /\ step_daemon_state = <<cal>> \o (IF sanitize_mac = None THEN <<>> ELSE <<dev>>)
  BY DEF step_blob, step_daemon_state
<1> HIDE DEF mac, any, cal, dev
<1>7. CASE wiz.mode = "daemon" /\ sanitize_mac = None
  <2>1. step_blob(blob) \o step_daemon_state = <<cal>>
    BY <1>6, <1>7
  <2>2. Targets = {Calib(CalibIdent)}
    BY <1>7 DEF Targets
  <2> QED
    BY <1>2, <2>1, <2>2 DEF Lists
<1>8. CASE wiz.mode = "daemon" /\ sanitize_mac # None
  <2>1. step_blob(blob) \o step_daemon_state = <<cal, dev>>
    BY <1>6, <1>8, Joined, Zenon
  <2>2. Targets = {Calib(CalibIdent), Device(sanitize_mac)}
    BY <1>8 DEF Targets
  <2> QED
    BY <1>2, <1>3, <1>8, <2>1, <2>2 DEF Lists
<1>9. CASE wiz.mode # "daemon" /\ sanitize_mac = None
  <2>1. step_blob(blob) \o step_daemon_state = <<any, cal>>
    BY <1>6, <1>9, Joined, Zenon
  <2>2. Targets = {GenericBlob, Calib(CalibIdent)}
    BY <1>9 DEF Targets
  <2> QED
    BY <1>2, <1>4, <1>9, <2>1, <2>2 DEF Lists
<1>10. CASE wiz.mode # "daemon" /\ sanitize_mac # None
  <2>1. step_blob(blob) \o step_daemon_state = <<mac, any, cal, dev>>
    <3>1. step_blob(blob) = <<mac, any>> /\ step_daemon_state = <<cal, dev>>
      BY <1>6, <1>10, Joined, Zenon
    <3> QED
      BY <3>1, JoinedPairs
  <2>2. Targets = {GenericBlob, MacBlob, Calib(CalibIdent), Device(sanitize_mac)}
    BY <1>10 DEF Targets
  <2> QED
    BY <1>2, <1>3, <1>4, <1>5, <1>10, <2>1, <2>2 DEF Lists
<1> QED
  BY <1>7, <1>8, <1>9, <1>10

\* Step 6: the answers change two keys, and the list is made.
LEMMA TuningStep == IInv /\ ask_tuning => IInv'
<1> SUFFICES ASSUME IInv, ask_tuning PROVE IInv'
  OBVIOUS
<1>1. UNCHANGED <<configVars, host, disk, module, daemon, left>> /\ wiz.pc = "tune"
  BY DEF ask_tuning, At
<1>2. /\ CfgOK(wiz.cfg) /\ {"alpha", "mouse_k"} \subseteq NumKeys
      /\ \A key \in NumKeys : wiz.cfg[key] \in Numbers /\ key \in Keys
      /\ left.answers \subseteq Numbers
  <2>1. {"alpha", "mouse_k"} \subseteq NumKeys
    BY SetupAssumption, Zenon
  <2> QED
    BY <2>1 DEF IInv, CfgKept, CfgOK, LeftOK, Keys
<1>3. ASSUME NEW key \in NumKeys, NEW a \in left.answers \cup {None}
      PROVE  Answer(a, wiz.cfg[key]) \in Numbers
  <2>1. \A x \in Numbers : FourDigits[x] \in Numbers
    BY SetupAssumption
  <2> QED
    BY <1>2, <2>1 DEF Answer
<1>4. PICK alpha \in left.answers \cup {None}, k \in left.answers \cup {None},
           blob \in {wiz.run, Rejected} :
        wiz' = [wiz EXCEPT !.pc = "write", !.tries = 0,
                           !.todo = step_blob(blob) \o step_daemon_state,
                           !.warned = wiz.mode = "kernel" /\ blob = Rejected,
                           !.cfg = Tuned(@, alpha, k)]
  BY DEF ask_tuning
<1> DEFINE todo == step_blob(blob) \o step_daemon_state
           w == wiz.mode = "kernel" /\ blob = Rejected
           cfg == Tuned(wiz.cfg, alpha, k)
<1>5. wiz' = [wiz EXCEPT !.pc = "write", !.tries = 0, !.todo = todo, !.warned = w, !.cfg = cfg]
  BY <1>4, Zenon
<1>6. CfgOK(cfg) /\ \A key \in Keys \ TunedKeys : cfg[key] = wiz.cfg[key]
  <2> DEFINE x == Answer(alpha, wiz.cfg["alpha"])
             y == Answer(k, wiz.cfg["mouse_k"])
             c == [wiz.cfg EXCEPT !["alpha"] = x]
  <2>1. x \in Numbers /\ y \in Numbers
    BY <1>2, <1>3
  <2>2. \A key \in NumKeys : key \notin StrKeys /\ key \notin BoolKeys /\ key \in Keys
    BY KeyKinds DEF Keys
  <2>3. cfg = [c EXCEPT !["mouse_k"] = y]
    BY DEF Tuned
  <2> HIDE DEF x, y, cfg
  <2>4. CfgOK(c)
    BY <1>2, <2>1, <2>2, CfgExcept
  <2>5. DOMAIN wiz.cfg = Keys /\ DOMAIN c = Keys
    BY <1>2, <2>4 DEF CfgOK
  <2>6. \A key \in Keys \ TunedKeys : cfg[key] = wiz.cfg[key]
    BY <2>3, <2>5 DEF TunedKeys
  <2> HIDE DEF c
  <2>7. CfgOK([c EXCEPT !["mouse_k"] = y])
    BY <1>2, <2>1, <2>2, <2>4, CfgExcept
  <2> QED
    BY <2>3, <2>6, <2>7
<1>7. Lists(todo, w)
  <2>1. w \in BOOLEAN /\ (w <=> wiz.mode = "kernel" /\ blob = Rejected)
    OBVIOUS
  <2> HIDE DEF w
  <2> QED
    BY <1>1, <2>1, TodoLists
<1> HIDE DEF cfg, todo, w
<1>8. /\ DOMAIN wiz = WizardFields
      /\ {"pc", "tries", "todo", "warned", "cfg"} \subseteq WizardFields
  BY DEF IInv, Shapes, WizardFields
<1>9. /\ DOMAIN wiz' = WizardFields /\ wiz'.pc = "write" /\ wiz'.tries = 0 /\ wiz'.todo = todo
      /\ wiz'.warned = w /\ wiz'.cfg = cfg
      /\ \A f \in WizardFields \ {"pc", "tries", "todo", "warned", "cfg"} : wiz'[f] = wiz[f]
  BY <1>5, <1>8
<1>10. /\ \A f \in Fixed : wiz'[f] = wiz[f]
       /\ wiz'.run = wiz.run /\ wiz'.mode = wiz.mode /\ wiz'.reloaded = wiz.reloaded
       /\ wiz'.notified = wiz.notified /\ wiz'.home = wiz.home /\ wiz'.fresh = wiz.fresh
  BY <1>9 DEF Fixed, WizardFields
<1>11. Targets' = Targets /\ \A p : Content(p)' = Belongs(p, w)
  BY <1>1, <1>9, <1>10, SameTargets
<1>12. TodoOK'
  BY <1>7, <1>9, <1>11 DEF TodoOK, Lists, At, Writing
<1>13. ~wiz.reloaded /\ ~wiz.notified
  BY <1>1 DEF IInv, Applied, Wrote
<1>14. Applied'
  BY <1>9, <1>10, <1>13 DEF Applied, Wrote
<1>15. CfgKept'
  <2>1. config_load(wiz.home, Missing)' = config_load(wiz.home, Missing)
    BY <1>1, <1>10 DEF config_load, config_load_daemon, configVars
  <2>2. Running /\ wiz.pc # "saving"
    BY <1>1 DEF Running
  <2> QED
    BY <1>6, <1>9, <1>10, <2>1, <2>2 DEF IInv, CfgKept, At
<1>16. FilesOK' /\ DiskOK' /\ DriverOK'
  BY <1>1 DEF IInv, FilesOK, DiskOK, DriverOK, configVars
<1>17. wiz'.pc \in Writing \cup Wrote /\ wiz.pc \in {"tune"}
  BY <1>1, <1>9 DEF Writing
<1> QED
  BY <1>1, <1>9, <1>10, <1>12, <1>14, <1>15, <1>16, <1>17, LateKeeps, Bounds DEF configVars

\* With nothing left to write, every target holds what it should.
LEMMA AllWritten ==
  ASSUME IInv, wiz.pc \in Writing \cup Wrote, wiz.todo = <<>>
  PROVE  \A p \in Targets : disk[p] = Content(p)
BY DEF IInv, TodoOK

\* The file at the head of the list.
LEMMA HeadFacts ==
  ASSUME IInv, wiz.pc \in Writing, wiz.todo # <<>>
  PROVE  /\ Head(wiz.todo) = wiz.todo[1] /\ 1 \in 1..Len(wiz.todo)
         /\ Head(wiz.todo).path \in Targets /\ Head(wiz.todo).path \in Paths \ {Conf}
         /\ Head(wiz.todo).text = Content(Head(wiz.todo).path)
         /\ Content(Head(wiz.todo).path) \in Contents(Head(wiz.todo).path)
<1>1. wiz.todo \in Seq(Items)
  BY DEF IInv, TodoOK
<1>2. Head(wiz.todo) = wiz.todo[1] /\ 1 \in 1..Len(wiz.todo)
  BY <1>1
<1>3. Head(wiz.todo).path \in Targets /\ Head(wiz.todo).text = Content(Head(wiz.todo).path)
  BY <1>2 DEF IInv, TodoOK
<1>4. wiz.run \in Calibrations /\ CalibIdent \in Idents
  BY TargetFacts DEF IInv, Shapes, Writing
<1>5. \A p \in Targets : Content(p) \in Contents(p)
  <2>1. ASSUME NEW p \in Targets
        PROVE  \/ p[1] = "blob" /\ Contents(p) = Calibrations \cup {Rejected}
               \/ p[1] = "calib" /\ Contents(p) = Calibrations
               \/ p[1] = "device" /\ Contents(p) = Idents
    BY PathFacts, ContentsFacts DEF Targets
  <2> QED
    BY <1>4, <2>1 DEF Content, Belongs
<1> QED
  BY <1>2, <1>3, <1>5, TargetFacts

\* Opening or closing the file at the head of the list.
LEMMA FileKeeps ==
  ASSUME IInv, wiz.pc \in Writing, wiz.todo # <<>>, NEW x,
         x \in Contents(Head(wiz.todo).path) \cup {Empty},
         disk' = [disk EXCEPT ![Head(wiz.todo).path] = x],
         wiz'.pc \in Writing, DOMAIN wiz' = WizardFields,
         \A f \in WizardFields \ {"pc", "todo"} : wiz'[f] = wiz[f],
         UNCHANGED <<configVars, host, module, daemon, left>>, TodoOK'
  PROVE  IInv'
<1> DEFINE h == Head(wiz.todo).path
<1>1. h \in Targets /\ h \in Paths \ {Conf}
  BY HeadFacts
<1>2. DOMAIN disk = Paths /\ Conf \in Paths
  BY PathFacts DEF IInv, DiskOK
<1> HIDE DEF h
<1>3. /\ DOMAIN disk' = Paths /\ disk'[h] = x
      /\ \A p \in Paths : p # h => disk'[p] = disk[p]
  BY <1>1, <1>2 DEF h
<1>4. DiskOK'
  BY <1>1, FileChanges DEF IInv, h
<1>5. /\ \A f \in Fixed : wiz'[f] = wiz[f]
      /\ wiz'.tries = wiz.tries /\ wiz'.cfg = wiz.cfg /\ wiz'.home = wiz.home
      /\ wiz'.fresh = wiz.fresh /\ wiz'.reloaded = wiz.reloaded
      /\ wiz'.notified = wiz.notified
  BY DEF Fixed, WizardFields
<1>6. wiz.pc \notin Wrote /\ wiz'.pc \notin Wrote /\ wiz.pc \notin {"save", "saving", "done"}
      /\ wiz'.pc # "saving" /\ Running /\ wiz.pc # "saving"
  BY DEF Writing, Wrote, Running
<1>7. Applied'
  <2>1. ~wiz.reloaded /\ ~wiz.notified
    BY <1>6 DEF IInv, Applied
  <2> QED
    BY <1>5, <1>6, <2>1 DEF Applied
<1>8. CfgKept'
  <2>1. config_load(wiz.home, Missing)' = config_load(wiz.home, Missing)
    BY <1>5 DEF config_load, config_load_daemon, configVars
  <2> QED
    BY <1>5, <1>6, <2>1 DEF IInv, CfgKept, At
<1>9. FilesOK' /\ DriverOK' /\ wiz'.tries \in 0..Tries
  BY <1>5 DEF IInv, FilesOK, DriverOK, Shapes, configVars
<1>10. disk'[Conf] = disk[Conf] /\ \A p \in Paths \ Targets : disk'[p] = disk[p]
  BY <1>1, <1>2, <1>3
<1> QED
  BY <1>4, <1>5, <1>7, <1>8, <1>9, <1>10, LateKeeps DEF configVars

\* A target that is opened is still in the list.
LEMMA OpenStep == IInv /\ OpenFile => IInv'
<1> SUFFICES ASSUME IInv, OpenFile PROVE IInv'
  OBVIOUS
<1>1. /\ UNCHANGED <<configVars, host, module, daemon, left>> /\ wiz.pc = "write"
      /\ wiz.todo # <<>> /\ wiz.pc \in Writing
  BY DEF OpenFile, At, Writing
<1>2. CASE UNCHANGED disk /\ Goto("failed")
  <2>1. DriverOK'
    BY <1>1 DEF IInv, DriverOK
  <2> QED
    BY <1>1, <1>2, <2>1, GivesUp
<1>3. CASE disk' = [disk EXCEPT ![Head(wiz.todo).path] = Empty] /\ Goto("close")
  <2>1. /\ DOMAIN wiz' = WizardFields /\ wiz'.pc = "close"
        /\ \A f \in WizardFields \ {"pc"} : wiz'[f] = wiz[f]
    BY <1>3, Moves
  <2>2. /\ wiz'.todo = wiz.todo /\ wiz'.run = wiz.run /\ wiz'.mode = wiz.mode
        /\ wiz'.warned = wiz.warned
    BY <2>1 DEF WizardFields
  <2>3. Targets' = Targets /\ \A p : Content(p)' = Content(p)
    BY <1>1, <2>2, SameTargets
  <2> DEFINE h == Head(wiz.todo).path
  <2>4. h = wiz.todo[1].path /\ 1 \in 1..Len(wiz.todo) /\ h \in Paths
    BY <1>1, HeadFacts
  <2>5. DOMAIN disk = Paths
    BY DEF IInv, DiskOK
  <2> HIDE DEF h
  <2>6. disk'[h] = Empty /\ \A p \in Paths : p # h => disk'[p] = disk[p]
    BY <1>3, <2>4, <2>5 DEF h
  <2>7. TodoOK'
    <3>1. wiz'.todo \in Seq(Items) /\ Len(wiz'.todo) <= 4
      BY <2>2 DEF IInv, TodoOK
    <3>2. \A n \in 1..Len(wiz'.todo) :
             wiz'.todo[n].path \in Targets /\ wiz'.todo[n].text = Content(wiz'.todo[n].path)
      BY <2>2 DEF IInv, TodoOK
    <3>3. ASSUME NEW p \in Targets
          PROVE  disk'[p] = Content(p) \/ \E n \in 1..Len(wiz'.todo) : wiz'.todo[n].path = p
      <4>1. CASE p = h
        BY <2>2, <2>4, <4>1
      <4>2. CASE p # h
        BY <1>1, <2>2, <2>6, <4>2, TargetFacts DEF IInv, TodoOK
      <4> QED
        BY <4>1, <4>2
    <3>4. wiz'.todo # <<>> /\ disk'[Head(wiz'.todo).path] = Empty
      BY <1>1, <2>2, <2>6 DEF h
    <3>5. Items' = Items
      BY DEF Items
    <3>6. wiz'.pc \in Writing
      BY <2>1 DEF Writing
    <3> QED
      BY <2>3, <3>1, <3>2, <3>3, <3>4, <3>5, <3>6 DEF TodoOK
  <2>8. wiz'.pc \in Writing
    BY <2>1 DEF Writing
  <2> QED
    BY <1>1, <1>3, <2>1, <2>7, <2>8, FileKeeps
<1> QED
  BY <1>2, <1>3 DEF OpenFile

\* A target that leaves the list holds what it should.
LEMMA CloseStep == IInv /\ CloseFile => IInv'
<1> SUFFICES ASSUME IInv, CloseFile PROVE IInv'
  OBVIOUS
<1>1. /\ UNCHANGED <<configVars, host, module, daemon, left>> /\ wiz.pc = "close"
      /\ wiz.todo # <<>> /\ wiz.pc \in Writing
  BY DEF CloseFile, At, Writing, IInv, TodoOK
<1>2. CASE UNCHANGED disk /\ Goto("failed")
  <2>1. DriverOK'
    BY <1>1 DEF IInv, DriverOK
  <2> QED
    BY <1>1, <1>2, <2>1, GivesUp
<1>3. CASE /\ disk' = [disk EXCEPT ![Head(wiz.todo).path] = Head(wiz.todo).text]
           /\ wiz' = [wiz EXCEPT !.pc = "write", !.todo = Tail(@)]
  <2>1. DOMAIN wiz = WizardFields /\ {"pc", "todo"} \subseteq WizardFields
    BY DEF IInv, Shapes, WizardFields
  <2> DEFINE rest == Tail(wiz.todo)
  <2>a. wiz' = [wiz EXCEPT !.pc = "write", !.todo = rest]
    BY <1>3
  <2> HIDE DEF rest
  <2>2. /\ DOMAIN wiz' = WizardFields /\ wiz'.pc = "write" /\ wiz'.todo = rest
        /\ \A f \in WizardFields \ {"pc", "todo"} : wiz'[f] = wiz[f]
    BY <2>1, <2>a
  <2>3. /\ wiz'.run = wiz.run /\ wiz'.mode = wiz.mode /\ wiz'.warned = wiz.warned
        /\ wiz'.pc \in Writing
    BY <2>2 DEF WizardFields, Writing
  <2>4. Targets' = Targets /\ \A p : Content(p)' = Content(p)
    BY <1>1, <2>3, SameTargets
  <2> DEFINE h == Head(wiz.todo).path
  <2>5. /\ h = wiz.todo[1].path /\ h \in Paths /\ Head(wiz.todo).text = Content(h)
        /\ Content(h) \in Contents(h)
    BY <1>1, HeadFacts
  <2>6. DOMAIN disk = Paths
    BY DEF IInv, DiskOK
  <2> HIDE DEF h
  <2>7. disk'[h] = Content(h) /\ \A p \in Paths : p # h => disk'[p] = disk[p]
    BY <1>3, <2>5, <2>6 DEF h
  <2>8. wiz.todo \in Seq(Items) /\ Len(wiz.todo) <= 4
    BY DEF IInv, TodoOK
  <2>9. /\ rest \in Seq(Items) /\ Len(rest) = Len(wiz.todo) - 1
        /\ \A n \in 1..Len(rest) : rest[n] = wiz.todo[n + 1] /\ n + 1 \in 1..Len(wiz.todo)
    BY <1>1, <2>8 DEF rest
  <2>10. TodoOK'
    <3>1. wiz'.todo \in Seq(Items) /\ Len(wiz'.todo) <= 4
      BY <2>2, <2>8, <2>9
    <3>2. \A n \in 1..Len(wiz'.todo) :
             wiz'.todo[n].path \in Targets /\ wiz'.todo[n].text = Content(wiz'.todo[n].path)
      BY <2>2, <2>9 DEF IInv, TodoOK
    <3>3. ASSUME NEW p \in Targets
          PROVE  disk'[p] = Content(p) \/ \E n \in 1..Len(wiz'.todo) : wiz'.todo[n].path = p
      <4>1. CASE p = h
        BY <2>7, <4>1
      <4>2. CASE p # h /\ disk[p] = Content(p)
        BY <2>7, <4>2, TargetFacts
      <4>3. CASE p # h /\ disk[p] # Content(p)
        <5>1. PICK n \in 1..Len(wiz.todo) : wiz.todo[n].path = p
          BY <1>1, <4>3 DEF IInv, TodoOK
        <5>2. n # 1
          BY <2>5, <4>3, <5>1
        <5>3. n - 1 \in 1..Len(rest) /\ (n - 1) + 1 = n
          BY <2>8, <2>9, <5>2
        <5> QED
          BY <2>2, <2>9, <5>1, <5>3
      <4> QED
        BY <4>1, <4>2, <4>3
    <3>4. Items' = Items
      BY DEF Items
    <3> QED
      BY <2>2, <2>3, <2>4, <3>1, <3>2, <3>3, <3>4 DEF TodoOK, At
  <2> QED
    BY <1>1, <1>3, <2>2, <2>3, <2>5, <2>10, FileKeeps DEF h
<1> QED
  BY <1>2, <1>3 DEF CloseFile

-----------------------------------------------------------------------------
(***************************************************************************)
(* Applying the files and saving.                                          *)
(***************************************************************************)

\* Without a MAC the wizard and the daemon name the same file, and no device
\* file diverts the daemon from it.
LEMMA CalibInUse ==
  ASSUME IInv, wiz.pc \in Writing \cup Wrote, wiz.todo = <<>>, wiz.mode = "daemon",
         sanitize_mac = None, daemon_identity = "unknown", NEW x
  PROVE  pipeline_configure(x) = wiz.run
<1>1. CalibIdent = "unknown"
  BY DEF CalibIdent
<1>2. Calib("unknown") \in Targets
  BY <1>1 DEF Targets
<1>3. disk[Calib("unknown")] = wiz.run
  BY <1>2, AllWritten, PathFacts DEF Content, Belongs
<1>4. wiz.run \in Nat
  BY DEF IInv, Shapes, Writing, Wrote
<1>5. Holds(disk, Calib("unknown"))
  BY <1>3, <1>4, NoneFacts DEF Holds
<1>6. ~Holds(disk, Device("unknown"))
  BY DEF IInv, Unnamed, Holds
<1>7. daemon_config_calib_path = Calib("unknown")
  BY <1>6 DEF daemon_config_calib_path
<1> QED
  BY <1>3, <1>5, <1>7 DEF pipeline_configure

\* A step after the files are written.
LEMMA AfterKeeps ==
  ASSUME IInv, wiz.pc \in Writing \cup Wrote, wiz.todo = <<>>, wiz'.pc \in Wrote,
         DOMAIN wiz' = WizardFields,
         \A f \in WizardFields \ {"pc", "notified", "reloaded", "cfg", "prior"} : wiz'[f] = wiz[f],
         UNCHANGED <<json, host, disk, left>>, FilesOK', DriverOK', Applied', CfgKept'
  PROVE  IInv'
<1>1. /\ \A f \in Fixed : wiz'[f] = wiz[f]
      /\ wiz'.tries = wiz.tries /\ wiz'.todo = wiz.todo
      /\ wiz'.run = wiz.run /\ wiz'.mode = wiz.mode /\ wiz'.warned = wiz.warned
  BY DEF Fixed, WizardFields
<1>2. Targets' = Targets /\ \A p : Content(p)' = Content(p)
  BY <1>1, SameTargets
<1>3. \A p \in Targets : disk[p] = Content(p)
  BY AllWritten
<1>4. wiz'.pc # "close"
  BY DEF Wrote
<1>5. TodoOK'
  BY <1>1, <1>2, <1>3, <1>4 DEF TodoOK, At
<1>6. DiskOK' /\ wiz'.tries \in 0..Tries
  BY <1>1 DEF IInv, DiskOK, Shapes
<1> QED
  BY <1>1, <1>5, <1>6, LateKeeps

\* Reload reaches a daemon whose file is written.
LEMMA NotifyStep == IInv /\ Notify => IInv'
<1> SUFFICES ASSUME IInv, Notify PROVE IInv'
  OBVIOUS
<1>1. /\ UNCHANGED <<configVars, host, disk, module, left>> /\ wiz.pc = "write"
      /\ wiz.todo = <<>>
  BY DEF Notify, At
<1>2. PICK done \in BOOLEAN, answered \in BOOLEAN :
        /\ done => wiz.mode = "daemon" /\ daemon.running
        /\ answered => done
        /\ daemon' = IF done /\ daemon.open
                     THEN [daemon EXCEPT !.calib = pipeline_configure(@)] ELSE daemon
        /\ wiz' = [wiz EXCEPT !.notified = answered, !.pc = "verify"]
  BY DEF Notify
<1>3. DOMAIN wiz = WizardFields /\ {"pc", "notified"} \subseteq WizardFields
  BY DEF IInv, Shapes, WizardFields
<1>4. /\ DOMAIN wiz' = WizardFields /\ wiz'.pc = "verify" /\ wiz'.notified = answered
      /\ \A f \in WizardFields \ {"pc", "notified"} : wiz'[f] = wiz[f]
  BY <1>2, <1>3
<1>5. /\ wiz'.run = wiz.run /\ wiz'.mode = wiz.mode /\ wiz'.reloaded = wiz.reloaded
      /\ wiz'.cfg = wiz.cfg /\ wiz'.home = wiz.home /\ wiz'.fresh = wiz.fresh
  BY <1>4 DEF WizardFields
<1>6. DOMAIN daemon = {"running", "open", "calib"}
  BY DEF IInv, DriverOK
<1> DEFINE c == pipeline_configure(daemon.calib)
<1>7. daemon' = IF done /\ daemon.open THEN [daemon EXCEPT !.calib = c] ELSE daemon
  BY <1>2
<1> HIDE DEF c
<1>8. /\ DOMAIN daemon' = DOMAIN daemon /\ daemon'.open = daemon.open
      /\ daemon'.running = daemon.running
      /\ done /\ daemon.open => daemon'.calib = c
  BY <1>6, <1>7
<1>9. DriverOK' /\ FilesOK'
  BY <1>1, <1>8 DEF IInv, DriverOK, FilesOK, configVars
<1>10. ~wiz.reloaded
  BY <1>1 DEF IInv, Applied
<1>11. wiz.pc \in Writing /\ wiz'.pc \in Wrote
  BY <1>1, <1>4 DEF Writing, Wrote
<1>12. Applied'
  <2>1. sanitize_mac' = sanitize_mac /\ daemon_identity' = daemon_identity
    BY <1>1, <1>5, SameTargets
  <2>2. ASSUME wiz.mode = "daemon", answered, sanitize_mac = None,
               daemon_identity = "unknown", daemon'.open
        PROVE  daemon'.calib = wiz.run
    <3>1. c = wiz.run
      BY <1>1, <1>11, <2>2, CalibInUse DEF c
    <3> QED
      BY <1>2, <1>8, <2>2, <3>1
  <2> QED
    BY <1>4, <1>5, <1>10, <1>11, <2>1, <2>2 DEF Applied
<1>13. CfgKept'
  <2>1. config_load(wiz.home, Missing)' = config_load(wiz.home, Missing)
    BY <1>1, <1>5 DEF config_load, config_load_daemon, configVars
  <2> QED
    BY <1>1, <1>4, <1>5, <2>1 DEF IInv, CfgKept, At, Running
<1> QED
  BY <1>1, <1>4, <1>9, <1>11, <1>12, <1>13, AfterKeeps DEF configVars

\* The reload of step 9 probes what is written; a daemon that had the remote
\* loses it, and opens it again later.
LEMMA VerifyStep == IInv /\ step_reload_verify => IInv'
<1> SUFFICES ASSUME IInv, step_reload_verify PROVE IInv'
  OBVIOUS
<1>1. UNCHANGED <<configVars, host, disk, left>> /\ wiz.pc = "verify"
  BY DEF step_reload_verify, At
<1>2. PICK ok \in BOOLEAN :
        module_reload(ok) /\ wiz' = [wiz EXCEPT !.reloaded = ok, !.pc = "save"]
  BY DEF step_reload_verify
<1>3. DOMAIN wiz = WizardFields /\ {"pc", "reloaded"} \subseteq WizardFields
  BY DEF IInv, Shapes, WizardFields
<1>4. /\ DOMAIN wiz' = WizardFields /\ wiz'.pc = "save" /\ wiz'.reloaded = ok
      /\ \A f \in WizardFields \ {"pc", "reloaded"} : wiz'[f] = wiz[f]
  BY <1>2, <1>3
<1>5. /\ wiz'.run = wiz.run /\ wiz'.mode = wiz.mode /\ wiz'.notified = wiz.notified
      /\ wiz'.cfg = wiz.cfg /\ wiz'.home = wiz.home /\ wiz'.fresh = wiz.fresh
  BY <1>4 DEF WizardFields
<1>6. wiz.pc \in Wrote /\ wiz'.pc \in Wrote /\ wiz.todo = <<>>
  BY <1>1, <1>4 DEF Wrote, Writing, IInv, TodoOK
<1>7. DriverOK' /\ FilesOK'
  BY <1>1, <1>2, ReloadTypes DEF IInv, FilesOK, configVars
<1>8. Applied'
  <2>1. sanitize_mac' = sanitize_mac /\ daemon_identity' = daemon_identity
    BY <1>1, <1>5, SameTargets
  <2>2. Probed(disk)' = Probed(disk)
    BY <1>1 DEF Probed, lgmagic_load_fw
  <2>3. ok => module' = Probed(disk)
    BY <1>2 DEF module_reload
  <2>4. (~ok /\ UNCHANGED daemon) \/ ~daemon'.open
    <3>1. CASE ~ok /\ UNCHANGED <<module, daemon>>
      BY <3>1
    <3>2. CASE daemon' = [daemon EXCEPT !.open = FALSE, !.calib = None]
      BY <3>2 DEF IInv, DriverOK
    <3> QED
      BY <1>2, <3>1, <3>2 DEF module_reload
  <2>5. ASSUME wiz.mode = "daemon", wiz.notified \/ ok, sanitize_mac = None,
               daemon_identity = "unknown", daemon'.open
        PROVE  daemon'.calib = wiz.run
    BY <1>6, <2>4, <2>5 DEF IInv, Applied
  <2> QED
    BY <1>4, <1>5, <1>6, <2>1, <2>2, <2>3, <2>5 DEF Applied
<1>9. CfgKept'
  <2>1. config_load(wiz.home, Missing)' = config_load(wiz.home, Missing)
    BY <1>1, <1>5 DEF config_load, config_load_daemon, configVars
  <2> QED
    BY <1>1, <1>4, <1>5, <2>1 DEF IInv, CfgKept, At, Running
<1> QED
  BY <1>1, <1>4, <1>6, <1>7, <1>8, <1>9, AfterKeeps DEF configVars

\* Step 11 leaves the devices alone.
LEMMA SavingKeeps ==
  ASSUME IInv, wiz.pc \in {"save", "saving"}, wiz'.pc \in {"saving", "done"},
         DOMAIN wiz' = WizardFields,
         \A f \in WizardFields \ {"pc", "cfg", "prior"} : wiz'[f] = wiz[f],
         UNCHANGED <<json, host, disk, module, daemon, left>>, FilesOK', CfgKept'
  PROVE  IInv'
<1>1. /\ wiz.pc \in Wrote /\ wiz'.pc \in Wrote /\ wiz'.pc \in {"save", "saving", "done"}
      /\ wiz.todo = <<>>
  BY DEF Wrote, Writing, IInv, TodoOK
<1>2. /\ wiz'.run = wiz.run /\ wiz'.mode = wiz.mode /\ wiz'.notified = wiz.notified
      /\ wiz'.reloaded = wiz.reloaded
  BY DEF WizardFields
<1>3. DriverOK'
  BY DEF IInv, DriverOK
<1>4. Applied'
  <2>1. sanitize_mac' = sanitize_mac /\ daemon_identity' = daemon_identity
    BY <1>2, SameTargets
  <2>2. Probed(disk)' = Probed(disk)
    BY DEF Probed, lgmagic_load_fw
  <2> QED
    BY <1>1, <1>2, <2>1, <2>2 DEF IInv, Applied
<1> QED
  BY <1>1, <1>3, <1>4, AfterKeeps

\* Step 11: the file is opened, then written.
LEMMA SaveStep == IInv /\ step_save_user_config => IInv'
<1> SUFFICES ASSUME IInv, step_save_user_config PROVE IInv'
  OBVIOUS
<1>1. /\ UNCHANGED <<json, host, disk, module, daemon, left>>
      /\ wiz.pc \in {"save", "saving"}
  BY DEF step_save_user_config, At
<1>2. CfgOK(wiz.cfg) /\ wiz.target \in Homes /\ wiz.home \in Homes
  BY <1>1 DEF IInv, CfgKept, Shapes
<1>3. CASE Goto("done") /\ FilesOK'
  <2>1. /\ DOMAIN wiz' = WizardFields /\ wiz'.pc = "done"
        /\ \A f \in WizardFields \ {"pc"} : wiz'[f] = wiz[f]
    BY <1>3, Moves
  <2>2. wiz'.cfg = wiz.cfg
    BY <2>1 DEF WizardFields
  <2>3. CfgKept'
    BY <1>2, <2>1, <2>2 DEF CfgKept, Running, At
  <2> QED
    BY <1>1, <1>3, <2>1, <2>3, SavingKeeps
<1>4. CASE At("saving") /\ (config_save_user(wiz.target, wiz.cfg) \/ UNCHANGED file)
  <2>1. UNCHANGED file => FilesOK'
    BY DEF IInv, FilesOK
  <2>2. ASSUME config_save_user(wiz.target, wiz.cfg) PROVE FilesOK'
    <3> DEFINE f == IF Unreadable(wiz.cfg) THEN Malformed ELSE Table(Saved(wiz.cfg))
    <3>1. IsConfig(f)
      BY <1>2, SavedOK, EmptyOK
    <3>2. file' = [file EXCEPT ![wiz.target] = f]
      BY <2>2 DEF config_save_user
    <3> HIDE DEF f
    <3> QED
      BY <1>2, <3>1, <3>2, SaveKeepsFiles DEF IInv
  <2>3. FilesOK'
    BY <1>4, <2>1, <2>2
  <2>4. Goto("done")
    BY <1>4 DEF step_save_user_config, At
  <2> QED
    BY <1>3, <2>3, <2>4
<1>5. CASE At("save") /\ Goto("done") /\ UNCHANGED file
  BY <1>3, <1>5 DEF IInv, FilesOK
<1>6. CASE /\ At("save")
           /\ wiz' = [wiz EXCEPT !.pc = "saving", !.prior = config_load(wiz.target, Missing),
                                 !.cfg = config_set_key(@, "default_calib", CalibIdent)]
           /\ Truncate(wiz.target)
  <2> DEFINE prior == config_load(wiz.target, Missing)
             cfg == config_set_key(wiz.cfg, "default_calib", CalibIdent)
  <2>1. wiz' = [wiz EXCEPT !.pc = "saving", !.prior = prior, !.cfg = cfg]
    BY <1>6
  <2>2. CfgOK(cfg) /\ \A key \in Keys \ TunedKeys : cfg[key] = wiz.cfg[key]
    <3>1. "default_calib" \in StrKeys
      BY SetupAssumption, Zenon
    <3>2. /\ "default_calib" \in Keys /\ "default_calib" \notin NumKeys
          /\ "default_calib" \notin BoolKeys
      BY <3>1, KeyKinds DEF Keys
    <3>3. CalibIdent # ""
      BY TargetFacts DEF Idents
    <3>4. cfg = [wiz.cfg EXCEPT !["default_calib"] = CalibIdent]
      <4>1. cfg = [wiz.cfg EXCEPT !["default_calib"]
                             = IF CalibIdent = "" THEN None ELSE CalibIdent]
        BY <3>1, <3>2, Zenon DEF config_set_key
      <4> QED
        BY <3>3, <4>1
    <3> HIDE DEF cfg
    <3>5. CfgOK(cfg)
      BY <1>2, <3>2, <3>3, <3>4, CfgExcept
    <3>6. DOMAIN wiz.cfg = Keys
      BY <1>2 DEF CfgOK
    <3> QED
      BY <3>4, <3>5, <3>6 DEF TunedKeys
  <2>3. DOMAIN wiz = WizardFields /\ {"pc", "prior", "cfg"} \subseteq WizardFields
    BY DEF IInv, Shapes, WizardFields
  <2> HIDE DEF cfg, prior
  <2>4. /\ DOMAIN wiz' = WizardFields /\ wiz'.pc = "saving" /\ wiz'.prior = prior
        /\ wiz'.cfg = cfg
        /\ \A f \in WizardFields \ {"pc", "cfg", "prior"} : wiz'[f] = wiz[f]
    BY <2>1, <2>3
  <2>5. wiz'.home = wiz.home /\ wiz'.target = wiz.target /\ wiz'.fresh = wiz.fresh
    BY <2>4 DEF WizardFields
  <2>6. FilesOK'
    BY <1>2, <1>6, EmptyOK, SaveKeepsFiles DEF Truncate, IInv
  <2>7. ASSUME wiz.fresh, wiz.home = wiz.target, NEW key \in Keys \ TunedKeys
        PROVE  prior[key] = cfg[key]
    <3>1. config_load(wiz.home, Missing)[key] = wiz.cfg[key]
      BY <1>6, <2>7 DEF IInv, CfgKept, Running, At
    <3> QED
      BY <2>2, <2>7, <3>1 DEF prior
  <2>8. CfgKept'
    BY <2>2, <2>4, <2>5, <2>7 DEF CfgKept, At, Running
  <2> QED
    BY <1>1, <2>4, <2>6, <2>8, SavingKeeps
<1> QED
  BY <1>4, <1>5, <1>6 DEF step_save_user_config

-----------------------------------------------------------------------------
(***************************************************************************)
(* The others: `lgmagic config`, the daemon, the remote.                   *)
(***************************************************************************)

\* A converted v1 file is one the parser takes apart.
LEMMA MigratedOK ==
  ASSUME NEW f, IsConfig(f)
  PROVE  IsConfig(Table(Migrated(f.table)))
<1> DEFINE m == Migrated(f.table)
           g == Table(m)
<1>1. g = [is |-> g.is, table |-> g.table] /\ g.table = m
  BY DEF Table
<1>2. DOMAIN m \subseteq V1Keys \cap DOMAIN f.table
  BY DEF Migrated
<1>3. ASSUME NEW key \in DOMAIN m
      PROVE  /\ m[key][1] \in {"int", "float", "num"} => m[key][2] \in Numbers
             /\ m[key][1] # "bool"
  <2> DEFINE v == f.table[key]
  <2>1. v[1] \in {"str", "num"} /\ key \in DOMAIN f.table
    BY <1>2 DEF Migrated
  <2>2. m[key] = IF v[1] = "str" THEN v ELSE <<"float", FifteenDigits[v[2]]>>
    BY DEF Migrated
  <2>3. v[1] = "num" => FifteenDigits[v[2]] \in Numbers
    BY <2>1, KeyKinds DEF IsConfig
  <2> HIDE DEF m, v
  <2>4. CASE v[1] = "str"
    BY <2>2, <2>4
  <2>5. CASE v[1] # "str"
    <3>1. m[key][1] = "float" /\ m[key][2] = FifteenDigits[v[2]]
      BY <2>2, <2>5
    <3> QED
      BY <2>1, <2>3, <2>5, <3>1
  <2> QED
    BY <2>4, <2>5
<1>4. DOMAIN m \subseteq Keys
  BY <1>2, KeyKinds DEF Keys
<1> HIDE DEF m, g
<1>5. IsConfig(g)
  BY <1>1, <1>3, <1>4 DEF IsConfig
<1> QED
  BY <1>5 DEF g, m

FilesAre(files) == DOMAIN files = Locations /\ \A loc \in Locations : IsConfig(files[loc])

\* So is what any outcome of one conversion leaves.
LEMMA OneKeeps ==
  ASSUME JsonOK, NEW files, FilesAre(files), NEW loc \in Locations, NEW root,
         NEW r \in migrate_one(files, loc, root)
  PROVE  FilesAre(r.files)
<1> DEFINE new == Table(Migrated(json[loc].table))
           torn == Table(EmptyTable)
<1>1. IsConfig(new) /\ IsConfig(torn)
  BY MigratedOK, EmptyOK DEF JsonOK
<1>2. r \in {[rc |-> 0, files |-> files], [rc |-> 1, files |-> files],
             [rc |-> 0, files |-> [files EXCEPT ![loc] = new]],
             [rc |-> 1, files |-> [files EXCEPT ![loc] = torn]]}
  BY DEF migrate_one
<1> HIDE DEF new, torn
<1>3. r.files \in {files, [files EXCEPT ![loc] = new], [files EXCEPT ![loc] = torn]}
  BY <1>2
<1>4. \A f : IsConfig(f) => FilesAre([files EXCEPT ![loc] = f])
  BY DEF FilesAre
<1> QED
  BY <1>1, <1>3, <1>4

\* No command leaves a file that the parsers would not take apart.
LEMMA CommandKeeps ==
  ASSUME FilesOK, JsonOK, Command
  PROVE  FilesOK' /\ json' = json
<1>1. CASE SetFails
  BY <1>1 DEF SetFails, FilesOK, configVars
<1>2. ASSUME NEW home \in Homes, NEW extra \in Extras, NEW key \in Keys, NEW text \in Texts,
             SetTorn(home, extra, key, text) \/ SetDone(home, extra, key, text)
      PROVE  FilesOK' /\ json' = json
  <2>1. CASE SetTorn(home, extra, key, text)
    BY <2>1, EmptyOK, SaveKeepsFiles DEF SetTorn, Truncate
  <2>2. CASE SetDone(home, extra, key, text)
    <3> DEFINE cfg == Set(home, extra, key, text)
           f == IF Unreadable(cfg) THEN Malformed ELSE Table(Saved(cfg))
    <3>1. cfg # None /\ json' = json /\ file' = [file EXCEPT ![home] = f]
      BY <2>2 DEF SetDone, config_save_user
    <3>2. IsConfig(extra)
      BY SetupAssumption
    <3>3. CfgOK(config_load(home, extra))
      BY <3>2, LoadOK
    <3>4. CfgOK(cfg)
      BY <3>1, <3>3, SetKeyOK DEF Set
    <3> HIDE DEF cfg
    <3>5. IsConfig(f)
      BY <3>4, SavedOK, EmptyOK
    <3> HIDE DEF f
    <3> QED
      BY <3>1, <3>5, SaveKeepsFiles
  <2> QED
    BY <1>2, <2>1, <2>2
<1>3. ASSUME NEW home \in Homes, NEW rc, NEW root, migrate(home, root, rc)
      PROVE  FilesOK' /\ json' = json
  <2>1. PICK sys \in migrate_one(file, "etc", root) :
          \/ file' = sys.files
          \/ \E user \in migrate_one(sys.files, home, root) : file' = user.files
    BY <1>3 DEF migrate
  <2>2. "etc" \in Locations /\ home \in Locations /\ FilesAre(file)
    BY DEF Locations, FilesOK, FilesAre
  <2>3. FilesAre(sys.files)
    BY <2>1, <2>2, OneKeeps
  <2>4. FilesAre(file')
    BY <2>1, <2>2, <2>3, OneKeeps
  <2> QED
    BY <1>3, <2>4 DEF migrate, FilesAre, FilesOK
<1> QED
  BY <1>1, <1>2, <1>3 DEF Command

\* A step that is not the wizard's leaves it as it is, but may make what it
\* loaded out of date.
LEMMA EnvironmentKeeps ==
  ASSUME IInv, DOMAIN wiz' = WizardFields, \A f \in WizardFields \ {"fresh"} : wiz'[f] = wiz[f],
         wiz'.fresh => wiz.fresh /\ file' = file, UNCHANGED <<host, disk>>,
         FilesOK', JsonOK', LeftOK', DriverOK', Applied'
  PROVE  IInv'
<1>1. /\ wiz'.pc = wiz.pc /\ wiz'.run = wiz.run /\ wiz'.mode = wiz.mode /\ wiz'.stop = wiz.stop
      /\ wiz'.tries = wiz.tries /\ wiz'.todo = wiz.todo /\ wiz'.conf = wiz.conf
      /\ wiz'.home = wiz.home /\ wiz'.target = wiz.target /\ wiz'.cfg = wiz.cfg
      /\ wiz'.prior = wiz.prior /\ wiz'.warned = wiz.warned
  BY DEF WizardFields
<1>2. Shapes' /\ StopsEarly' /\ ConfWritten' /\ DiskOK'
  BY <1>1 DEF IInv, Shapes, StopsEarly, ConfWritten, DiskOK
<1>3. Targets' = Targets /\ (\A p : Content(p)' = Content(p)) /\ sanitize_mac' = sanitize_mac
  BY <1>1, SameTargets
<1>4. Unnamed'
  BY <1>3 DEF IInv, Unnamed
<1>5. TodoOK'
  <2>1. Items' = Items
    BY DEF Items
  <2> QED
    BY <1>1, <1>3, <2>1 DEF IInv, TodoOK, At
<1>6. CfgKept'
  <2>1. wiz'.fresh => wiz.fresh /\ config_load(wiz.home, Missing)' = config_load(wiz.home, Missing)
    BY <1>1 DEF config_load, config_load_daemon
  <2> QED
    BY <1>1, <2>1 DEF IInv, CfgKept, At, Running
<1> QED
  BY <1>2, <1>4, <1>5, <1>6 DEF IInv

\* `lgmagic config` leaves sound files, and the wizard with what it loaded before.
LEMMA CommandStep == IInv /\ ConfigCommand => IInv'
<1> SUFFICES ASSUME IInv, ConfigCommand PROVE IInv'
  OBVIOUS
<1>1. /\ UNCHANGED <<host, disk, module, daemon>> /\ Command
      /\ left' = [left EXCEPT !.commands = @ - 1]
      /\ wiz' = [wiz EXCEPT !.fresh = @ /\ file' = file]
  BY DEF ConfigCommand
<1>2. FilesOK' /\ json' = json
  BY <1>1, CommandKeeps DEF IInv
<1>3. JsonOK' /\ DriverOK'
  BY <1>1, <1>2 DEF IInv, JsonOK, DriverOK
<1>4. LeftOK'
  <2>1. left'.runs = left.runs /\ left'.answers = left.answers /\ DOMAIN left' = DOMAIN left
    BY <1>1 DEF IInv, LeftOK
  <2> QED
    BY <2>1 DEF IInv, LeftOK
<1>5. DOMAIN wiz = WizardFields /\ "fresh" \in WizardFields
  BY DEF IInv, Shapes, WizardFields
<1> DEFINE fresh == wiz.fresh /\ file' = file
<1>6. wiz' = [wiz EXCEPT !.fresh = fresh]
  BY <1>1, Zenon
<1>7. fresh => wiz.fresh /\ file' = file
  OBVIOUS
<1> HIDE DEF fresh
<1>8. /\ DOMAIN wiz' = WizardFields /\ wiz'.fresh = fresh
      /\ \A f \in WizardFields \ {"fresh"} : wiz'[f] = wiz[f]
  BY <1>5, <1>6
<1>9. Applied'
  <2>1. /\ wiz'.pc = wiz.pc /\ wiz'.run = wiz.run /\ wiz'.mode = wiz.mode
        /\ wiz'.reloaded = wiz.reloaded /\ wiz'.notified = wiz.notified
    BY <1>8 DEF WizardFields
  <2>2. sanitize_mac' = sanitize_mac /\ daemon_identity' = daemon_identity
    BY <1>1, <2>1, SameTargets
  <2>3. Probed(disk)' = Probed(disk)
    BY <1>1 DEF Probed, lgmagic_load_fw
  <2> QED
    BY <1>1, <2>1, <2>2, <2>3 DEF IInv, Applied
<1> QED
  BY <1>1, <1>2, <1>3, <1>4, <1>7, <1>8, <1>9, EnvironmentKeeps

\* The daemon opens the remote and loads its calibration.
LEMMA DaemonOpensStep == IInv /\ DaemonOpens => IInv'
<1> SUFFICES ASSUME IInv, DaemonOpens PROVE IInv'
  OBVIOUS
<1>1. UNCHANGED <<configVars, host, disk, module, wiz, left>> /\ daemon.running
  BY DEF DaemonOpens
<1>2. FilesOK' /\ JsonOK' /\ LeftOK'
  BY <1>1 DEF IInv, FilesOK, JsonOK, LeftOK, configVars
<1> DEFINE c == pipeline_configure(None)
<1>3. daemon' = [daemon EXCEPT !.open = TRUE, !.calib = c]
  BY DEF DaemonOpens
<1> HIDE DEF c
<1>4. DOMAIN daemon' = DOMAIN daemon /\ daemon'.running = daemon.running /\ daemon'.calib = c
  BY <1>3 DEF IInv, DriverOK
<1>5. DriverOK'
  BY <1>1, <1>4 DEF IInv, DriverOK
<1>6. Applied'
  <2>1. sanitize_mac' = sanitize_mac /\ daemon_identity' = daemon_identity
    BY <1>1, SameTargets
  <2>2. Probed(disk)' = Probed(disk)
    BY <1>1 DEF Probed, lgmagic_load_fw
  <2>3. wiz.pc \in Wrote => wiz.todo = <<>>
    BY DEF Wrote, Writing, IInv, TodoOK
  <2>4. wiz.pc \in Wrote /\ wiz.mode = "daemon" /\ sanitize_mac = None
          /\ daemon_identity = "unknown" => c = wiz.run
    BY <2>3, CalibInUse DEF c
  <2> QED
    BY <1>1, <1>4, <2>1, <2>2, <2>4 DEF IInv, Applied
<1>7. DOMAIN wiz' = WizardFields
  BY <1>1 DEF IInv, Shapes
<1> QED
  BY <1>1, <1>2, <1>5, <1>6, <1>7, EnvironmentKeeps DEF configVars

\* The driver probes the remote again, the daemon loses it for a moment.
LEMMA ReplugStep == IInv /\ Replug => IInv'
<1> SUFFICES ASSUME IInv, Replug PROVE IInv'
  OBVIOUS
<1> DEFINE c == lgmagic_load_fw(disk)
<1>1. /\ UNCHANGED <<configVars, host, disk, wiz>> /\ module' = [module EXCEPT !.calib = c]
      /\ daemon' = [daemon EXCEPT !.open = FALSE, !.calib = None]
      /\ left' = [left EXCEPT !.replugs = @ - 1]
      /\ module # None
  BY DEF Replug
<1>2. FilesOK' /\ JsonOK'
  BY <1>1 DEF IInv, FilesOK, JsonOK, configVars
<1>3. LeftOK'
  <2>1. left'.runs = left.runs /\ left'.answers = left.answers /\ DOMAIN left' = DOMAIN left
    BY <1>1 DEF IInv, LeftOK
  <2> QED
    BY <2>1 DEF IInv, LeftOK
<1>4. DOMAIN daemon' = DOMAIN daemon /\ ~daemon'.open
  BY <1>1 DEF IInv, DriverOK
<1>5. DriverOK'
  <2>1. c \in Calibrations \cup {None}
    BY ProbedTypes DEF IInv
  <2> HIDE DEF c
  <2>2. "calib" \in DOMAIN module' /\ module'.calib = c
    BY <1>1 DEF IInv, DriverOK
  <2> QED
    BY <1>4, <2>1, <2>2 DEF IInv, DriverOK
<1>6. Applied'
  <2>1. Probed(disk)' = Probed(disk)
    BY <1>1 DEF Probed, lgmagic_load_fw
  <2>2. ASSUME module = Probed(disk) PROVE module' = Probed(disk)
    <3> DEFINE x == disk[Conf] # "kernel"
    <3>1. module = [raw |-> x, calib |-> c]
      BY <2>2 DEF Probed
    <3> HIDE DEF x, c
    <3>2. module' = [raw |-> x, calib |-> c]
      BY <1>1, <3>1
    <3> QED
      BY <2>2, <3>1, <3>2
  <2>3. wiz' = wiz /\ sanitize_mac' = sanitize_mac /\ daemon_identity' = daemon_identity
    BY <1>1, SameTargets
  <2> QED
    BY <1>4, <2>1, <2>2, <2>3 DEF IInv, Applied
<1>7. DOMAIN wiz' = WizardFields
  BY <1>1 DEF IInv, Shapes
<1> QED
  BY <1>1, <1>2, <1>3, <1>5, <1>6, <1>7, EnvironmentKeeps DEF configVars

\* Every step keeps the invariant: one lemma per action.
LEMMA InvNext == IInv /\ [Next]_vars => IInv'
<1> SUFFICES ASSUME IInv, [Next]_vars PROVE IInv'
  OBVIOUS
<1>1. CASE UNCHANGED vars
  <2>1. UNCHANGED <<configVars, host, disk, module, daemon, wiz, left>>
    BY <1>1 DEF vars, setupVars
  <2>2. FilesOK' /\ JsonOK' /\ LeftOK' /\ DriverOK' /\ DOMAIN wiz' = WizardFields
    BY <2>1 DEF IInv, FilesOK, JsonOK, LeftOK, DriverOK, Shapes, configVars
  <2>3. Applied'
    <3>1. sanitize_mac' = sanitize_mac /\ daemon_identity' = daemon_identity
      BY <2>1, SameTargets
    <3>2. Probed(disk)' = Probed(disk)
      BY <2>1 DEF Probed, lgmagic_load_fw
    <3> QED
      BY <2>1, <3>1, <3>2 DEF IInv, Applied
  <2> QED
    BY <2>1, <2>2, <2>3, EnvironmentKeeps DEF configVars
<1>2. CASE \E home, target \in Homes : Start(home, target)
  BY <1>2, StartStep
<1>3. CASE Step
  BY <1>3, EnvironmentStep, ModeStep, ConfStep, ParamsStep, EnableStep, CalibrationSteps,
     TuningStep, OpenStep, CloseStep, NotifyStep, VerifyStep, SaveStep DEF Step
<1>4. CASE Interrupt \/ Kill \/ ConfigCommand \/ DaemonOpens \/ Replug
  BY <1>4, InterruptStep, KillStep, CommandStep, DaemonOpensStep, ReplugStep
<1> QED
  BY <1>1, <1>2, <1>3, <1>4 DEF Next

\* Every behaviour keeps the files readable, the list of files to write in
\* step with the disk, and the loaded configuration what the files say.
THEOREM Invariance == Spec => []IInv
BY InvInit, InvNext, PTL DEF Spec

-----------------------------------------------------------------------------
(***************************************************************************)
(* The results.                                                            *)
(***************************************************************************)

\* Whatever is killed, replugged or rewritten meanwhile, every file holds what
\* its reader expects or is cut short, and no file is closed that was not
\* opened by the step before (TypeOK of module Setup).
THEOREM TypeCorrect == Spec => []TypeOK
<1>1. IInv => TypeOK
  <2> SUFFICES ASSUME IInv PROVE TypeOK
    OBVIOUS
  <2>1. \A loc \in Locations : DOMAIN file[loc].table \subseteq Keys
    BY DEF IInv, FilesOK, IsConfig
  <2>2. \A p \in Paths : disk[p] \in Contents(p) \cup {None, Empty}
    BY DEF IInv, DiskOK
  <2>3. /\ module = None \/ module.calib \in Calibrations \cup {None}
        /\ daemon.open => daemon.running
        /\ wiz.pc \in Steps /\ wiz.tries \in 0..Tries /\ Len(wiz.todo) <= 4
        /\ At("close") => wiz.todo # <<>> /\ disk[Head(wiz.todo).path] = Empty
    BY DEF IInv, DriverOK, Shapes, TodoOK
  <2>4. ASSUME NEW key \in Keys, wiz.cfg[key] = None PROVE key \in StrKeys
    <3>1. None \notin Numbers
      BY NoneFacts
    <3>2. None \notin BOOLEAN
      BY SetupAssumption, Zenon
    <3>3. key \notin NumKeys
      BY <2>4, <3>1 DEF IInv, CfgKept, CfgOK
    <3>4. key \notin BoolKeys
      BY <2>4, <3>2, Zenon DEF IInv, CfgKept, CfgOK
    <3> QED
      BY <3>3, <3>4 DEF Keys
  <2> QED
    BY <2>1, <2>2, <2>3, <2>4 DEF TypeOK
<1> QED
  BY <1>1, Invariance, PTL

\* A run that ends with success and applied what it wrote leaves its own
\* calibration in use, and the driver without any if the blob it wrote was one
\* the kernel rejects (step_blob before the reload, step_daemon_state before
\* Reload), for any host, whatever earlier runs left behind.
THEOREM Calibrated == Spec => []SetupCalibrates
<1>1. IInv => SetupCalibrates
  <2> SUFFICES ASSUME IInv, At("done") PROVE SetupCalibrates
    BY DEF SetupCalibrates
  <2>1. wiz.pc \in Wrote /\ wiz.todo = <<>> /\ wiz.run \in Nat
    BY DEF At, Wrote, Writing, IInv, TodoOK, Shapes
  <2>2. \A p \in Targets : disk[p] = Content(p)
    BY <2>1, AllWritten
  <2> DEFINE blob == IF wiz.warned THEN Rejected ELSE wiz.run
             used == IF wiz.warned THEN None ELSE wiz.run
  <2>3. ASSUME wiz.mode = "kernel", wiz.conf, wiz.reloaded PROVE DriverCalibrated
    <3>1. module = Probed(disk) /\ disk[Conf] = "kernel"
      BY <2>3 DEF IInv, Applied, ConfWritten
    <3>2. GenericBlob \in Targets /\ (sanitize_mac # None => MacBlob \in Targets)
      BY <2>3 DEF Targets
    <3>3. /\ disk[GenericBlob] = blob
          /\ sanitize_mac # None => disk[MacBlob] = blob
          /\ sanitize_mac = None => disk[MacBlob] = None
      BY <2>2, <3>2, PathFacts DEF Content, Belongs, IInv, Unnamed
    <3>4. blob \notin {None, Empty} /\ Validated(blob) = used
      BY <2>1, NoneFacts DEF Validated
    <3> HIDE DEF blob, used
    <3>5. lgmagic_load_fw(disk) = used
      <4>1. Holds(disk, GenericBlob) /\ (Holds(disk, MacBlob) => disk[MacBlob] = blob)
        BY <3>3, <3>4 DEF Holds
      <4>2. CASE host.hid = "mac" /\ Holds(disk, MacBlob)
        BY <3>4, <4>1, <4>2 DEF lgmagic_load_fw
      <4>3. CASE ~(host.hid = "mac" /\ Holds(disk, MacBlob))
        BY <3>3, <3>4, <4>1, <4>3 DEF lgmagic_load_fw
      <4> QED
        BY <4>2, <4>3
    <3>6. used \in Nat \cup {None}
      BY <2>1 DEF used
    <3>7. module.raw = FALSE /\ module.calib = used
          /\ module \in [raw : BOOLEAN, calib : Nat \cup {None}]
      <4> DEFINE c == lgmagic_load_fw(disk)
      <4>1. module = [raw |-> disk[Conf] # "kernel", calib |-> c]
        BY <3>1 DEF Probed
      <4>2. (disk[Conf] # "kernel") = FALSE /\ c = used
        BY <3>1, <3>5
      <4> HIDE DEF c
      <4>3. module = [raw |-> FALSE, calib |-> used]
        BY <4>1, <4>2, Zenon
      <4> QED
        BY <3>6, <4>3
    <3>8. None \notin [raw : BOOLEAN, calib : Nat \cup {None}]
      BY SetupAssumption, Zenon
    <3>9. module # None /\ ~module.raw
      BY <3>7, <3>8
    <3> QED
      BY <3>7, <3>9 DEF DriverCalibrated, used
  <2>4. ASSUME wiz.mode = "daemon", wiz.notified \/ wiz.reloaded, sanitize_mac = None,
               daemon_identity = "unknown", daemon.open
        PROVE  daemon.calib = wiz.run
    BY <2>1, <2>4 DEF IInv, Applied
  <2> QED
    BY <2>3, <2>4 DEF SetupCalibrates
<1> QED
  BY <1>1, Invariance, PTL

\* A signal before the end of step 5 ends the run before it touches anything
\* that the driver, lgmagicd or `lgmagic config` read back, whatever the mode,
\* the recordings made and the file the signal finds open (the checks of
\* g_stop in cmd_setup): the module parameters and the recordings are all it
\* can have written.
THEOREM InterruptedSafely == Spec => InterruptedWritesNothing
<1> DEFINE Kept == file' = file /\ \A p \in Settings : disk'[p] = disk[p]
           Quiet == wiz.stop /\ wiz'.pc # wiz.pc => Kept
<1>1. IInv /\ [Next]_vars => [Quiet]_vars
  <2> SUFFICES ASSUME IInv, Next, wiz.stop, wiz'.pc # wiz.pc PROVE Kept
    OBVIOUS
  <2>1. wiz.pc \in Early
    BY DEF IInv, StopsEarly
  <2>2. UNCHANGED <<file, disk>> => Kept
    OBVIOUS
  <2>3. module_write_conf => Kept
    <3> SUFFICES ASSUME module_write_conf PROVE Kept
      OBVIOUS
    <3>1. file' = file
      BY DEF module_write_conf, configVars
    <3>2. DiskOK /\ wiz.mode \in {"daemon", "kernel"}
      BY DEF IInv, Shapes
    <3>3. UNCHANGED disk \/ \E c \in {"daemon", "kernel", Empty} : disk' = [disk EXCEPT ![Conf] = c]
      BY <3>2 DEF module_write_conf
    <3> QED
      BY <3>1, <3>2, <3>3, ConfFile
  <2>4. CASE \/ step_environment \/ ask_mode \/ step_module_params \/ EnableDaemon \/ Reopen
             \/ step_accel_calib \/ step_gyro_calib \/ Kill
    <3>1. ASSUME NEW kind \in {"accel", "gyro"}, NEW judged, Record(kind, judged) PROVE Kept
      <4>1. UNCHANGED <<file, disk>>
        BY <3>1 DEF Record, configVars
      <4> QED
        BY <2>2, <4>1
    <3>2. CASE step_accel_calib
      BY <2>2, <3>1, <3>2 DEF step_accel_calib, configVars
    <3>3. CASE step_gyro_calib
      BY <2>2, <3>1, <3>3 DEF step_gyro_calib, configVars
    <3> QED
      BY <2>2, <2>4, <3>2, <3>3 DEF step_environment, ask_mode, step_module_params,
         EnableDaemon, Reopen, Kill, configVars
  <2>5. ~(ask_tuning \/ OpenFile \/ CloseFile \/ Notify \/ step_reload_verify
           \/ step_save_user_config)
    BY <2>1 DEF Early, At, ask_tuning, OpenFile, CloseFile, Notify, step_reload_verify,
       step_save_user_config
  <2>6. Running
    BY <2>1 DEF Early, Running
  <2>7. ASSUME NEW home \in Homes, NEW target \in Homes PROVE ~Start(home, target)
    BY <2>6 DEF Start
  <2>8. ~(Interrupt \/ ConfigCommand \/ DaemonOpens \/ Replug)
    <3>1. DOMAIN wiz = WizardFields /\ {"pc", "stop", "fresh"} \subseteq WizardFields
      BY DEF IInv, Shapes, WizardFields
    <3>2. ~Interrupt
      BY <3>1 DEF Interrupt
    <3>3. ASSUME ConfigCommand PROVE FALSE
      <4> DEFINE fresh == wiz.fresh /\ file' = file
      <4>1. wiz' = [wiz EXCEPT !.fresh = fresh]
        BY <3>3, Zenon DEF ConfigCommand
      <4> HIDE DEF fresh
      <4> QED
        BY <3>1, <4>1
    <3> QED
      BY <3>2, <3>3 DEF DaemonOpens, Replug
  <2> QED
    BY <2>3, <2>4, <2>5, <2>7, <2>8 DEF Next, Step
<1> QED
  BY <1>1, Invariance, PTL DEF Spec, InterruptedWritesNothing

\* Step 11 keeps every setting of the user that the wizard did not ask for to
\* fifteen digits, when the run loaded the same user's configuration and nobody
\* changed it since, and loses all of them when a number in it is not finite
\* (step_save_user_config, config_save_user).
THEOREM SettingsKept == Spec => SaveKeepsSettings
<1> DEFINE Saves == /\ At("saving") /\ wiz'.pc = "done"
                    /\ config_save_user(wiz.target, wiz.cfg)
                    /\ wiz.home = wiz.target /\ wiz.fresh
           Keeps == IF Unreadable(wiz.cfg)
                    THEN config_load(wiz.target, Missing)' = config_load_daemon
                    ELSE \A key \in Keys \ TunedKeys :
                            config_load(wiz.target, Missing)'[key] = Rounded(wiz.prior)[key]
<1>1. IInv /\ [Next]_vars => [Saves => Keeps]_vars
  <2> SUFFICES ASSUME IInv, Next, Saves PROVE Keeps
    OBVIOUS
  <2>1. DOMAIN wiz = WizardFields /\ {"pc", "stop", "fresh", "target"} \subseteq WizardFields
    BY DEF IInv, Shapes, WizardFields
  <2>2. wiz'.target = wiz.target
    <3>1. ~Kill
      BY DEF Kill, Goto, NoWizard
    <3>2. wiz.pc = "saving" /\ wiz'.pc = "done" /\ Running
      BY DEF At, Running
    <3>3. ASSUME NEW home \in Homes, NEW target \in Homes PROVE ~Start(home, target)
      BY <3>2 DEF Start
    <3>4. ~(Interrupt \/ DaemonOpens \/ Replug)
      BY <3>2 DEF Interrupt, DaemonOpens, Replug
    <3>5. ASSUME ConfigCommand PROVE FALSE
      <4> DEFINE fresh == wiz.fresh /\ file' = file
      <4>1. wiz' = [wiz EXCEPT !.fresh = fresh]
        BY <3>5, Zenon DEF ConfigCommand
      <4> HIDE DEF fresh
      <4> QED
        BY <2>1, <3>2, <4>1
    <3>6. step_save_user_config
      BY <3>1, <3>2, <3>3, <3>4, <3>5 DEF Next, Step, At, Record, step_environment, ask_mode,
         module_write_conf, step_module_params, EnableDaemon, Reopen, step_accel_calib,
         step_gyro_calib, ask_tuning, OpenFile, CloseFile, Notify, step_reload_verify
    <3>7. Goto("done")
      BY <3>2, <3>6 DEF step_save_user_config, At
    <3> QED
      BY <2>1, <3>7, Moves
  <2>3. FilesOK /\ wiz.target \in Homes /\ CfgOK(wiz.cfg)
    BY DEF IInv, Shapes, CfgKept, At
  <2> DEFINE user == wiz.target
  <2>4. config_load(wiz.target, Missing)'
          = merge_file(merge_file(config_load_daemon', file'[wiz'.target]), Missing)
    BY DEF config_load
  <2>5. \A home \in Homes : config_load(home, Missing)'
          = merge_file(merge_file(config_load_daemon', file'[home]), Missing)
    BY DEF config_load
  <2>6. \A home \in Homes : config_save_user(home, wiz.cfg) =>
           merge_file(merge_file(config_load_daemon', file'[home]), Missing)
             = Reloaded(wiz.cfg)
    <3> SUFFICES ASSUME NEW home \in Homes, config_save_user(home, wiz.cfg)
                 PROVE  config_load(home, Missing)' = Reloaded(wiz.cfg)
      BY <2>5
    <3> QED
      BY <2>3, SaveTakesEffect
  <2>7. config_load(wiz.target, Missing)' = Reloaded(wiz.cfg)
    BY <2>2, <2>3, <2>4, <2>6
  <2>8. \A key \in Keys \ TunedKeys : Rounded(wiz.cfg)[key] = Rounded(wiz.prior)[key]
    <3>1. \A key \in Keys \ TunedKeys : wiz.prior[key] = wiz.cfg[key]
      BY DEF IInv, CfgKept
    <3> QED
      BY <3>1 DEF Rounded
  <2> QED
    BY <2>7, <2>8 DEF Reloaded
<1> QED
  BY <1>1, Invariance, PTL DEF Spec, SaveKeepsSettings

\* A `config set` that exits with 0 changes the caller's effective
\* configuration in exactly the key it was given, to fifteen digits, or leaves
\* the layers below the user's file when a number in it is not finite
\* (config_set_key, config_save_user, merge_file), whatever the files hold.
THEOREM SetEffective == Spec => SetTakesEffect
<1> DEFINE Effect ==
             \A home \in {h \in Homes : file'[h] # file[h]}, key \in Keys, text \in Texts :
                 SetDone(home, Missing, key, text) =>
                     config_load(home, Missing)' =
                         IF Unreadable(Set(home, Missing, key, text)) THEN config_load_daemon
                         ELSE Rounded(Set(home, Missing, key, text))
<1>1. IInv => [Effect]_configVars
  <2>1. ASSUME IInv, NEW home \in Homes, NEW key \in Keys, NEW text \in Texts,
               SetDone(home, Missing, key, text)
        PROVE  config_load(home, Missing)' = Reloaded(Set(home, Missing, key, text))
    BY <2>1, SetDoneEffect DEF IInv
  <2> QED
    BY <2>1 DEF Reloaded
<1> QED
  BY <1>1, Invariance, PTL DEF SetTakesEffect

\* A `config migrate` that exits with 0 leaves no v1 file that is ignored
\* (migrate_one, migrate).
THEOREM MigrationComplete == Spec => MigrateComplete
<1> DEFINE Done == file' # file => \A home \in Homes :
             migrate(home, home = "root", 0) =>
                 \A loc \in {"etc", home} :
                     /\ file[loc].is # "absent" => file'[loc] = file[loc]
                     /\ json[loc].is # "absent" => file'[loc].is # "absent"
                     /\ loc = home /\ IsTable(json[loc]) /\ file[loc].is = "absent" =>
                           \A key \in V1Keys \cap DOMAIN json[loc].table :
                               Usable(key, json[loc].table[key]) =>
                                   config_load(home, Missing)'[key]
                                       = Digits(key, Converted(key, json[loc].table[key]))
<1>1. IInv /\ IInv' => [Done]_configVars
  <2> SUFFICES ASSUME FilesOK, FilesOK' PROVE Done
    BY DEF IInv
  <2>1. \A home \in Homes : migrate(home, home = "root", 0) => Migrates(home)
    BY MigrateEffect
  <2> QED
    BY <2>1 DEF Migrates
<1> QED
  BY <1>1, Invariance, PTL DEF MigrateComplete
=============================================================================
