---------------------------- MODULE ConfigProofs ----------------------------
(***************************************************************************)
(* Proofs about ConfigDaemon, for every set of device files, requests and  *)
(* every bound: no crash or failing call leaves a torn file, and the write *)
(* protocol implements AtomicFiles.  What the texts are does not matter.   *)
(***************************************************************************)
EXTENDS ConfigDaemon, WellFoundedInduction, TLAPS

\* A file whose data is all there and on disk.
Complete(file) == file.is \in {"absent", "whole"} /\ file.synced = TRUE

\* NeverTorn, and why: what is renamed over a file was written whole and
\* fsynced, so what a later flush makes permanent is complete too.
FilesInv ==
  /\ job.file \in Files
  /\ disk = [f \in Files |-> disk[f]]
  /\ stable = [f \in Files |-> stable[f]]
  /\ tmp = [f \in Files |-> tmp[f]]
  /\ \A f \in Files : Complete(disk[f]) /\ Complete(stable[f])
  /\ pc = "sync" =>
       tmp[job.file] = [is |-> "whole", data |-> job.text, synced |-> FALSE]
  /\ pc = "rename" => Complete(tmp[job.file])

\* The steps that touch neither a file nor the running save.
FilesUntouched ==
  /\ UNCHANGED files
  /\ job'.file \in Files
  /\ pc' \notin {"sync", "rename"}

\* Requests, replies and reloads leave the files alone.
LEMMA QuietSteps ==
  ASSUME FilesInv, Request \/ Finish \/ Reload \/ OpenRemote \/ Crash
  PROVE  FilesUntouched
<1>1. CASE Request
  <2>1. ASSUME NEW new, mutate_and_save(new)
        PROVE  FilesUntouched
    BY <2>1 DEF mutate_and_save, FilesUntouched, files, Files
  <2>2. ASSUME NEW name, SetProfile(name)
        PROVE  FilesUntouched
    BY <2>2 DEF SetProfile, FilesUntouched, files, Files
  <2> QED
    BY <1>1, <2>1, <2>2 DEF Request, MapButton, ResetButtons, SetNumber,
                            SetCalibPath
<1>2. CASE Finish
  BY <1>2 DEF Finish, ReplySaved, ReplyProfile, remote_rollback, FailProfile,
              Apply, NoJob, FilesUntouched, files, Files
<1>3. CASE Reload
  BY <1>3 DEF Reload, Apply, NoJob, FilesUntouched, files, Files
<1>4. CASE OpenRemote
  BY <1>4 DEF OpenRemote, NoJob, FilesUntouched, files, Files
<1>5. CASE Crash
  BY <1>5 DEF Crash, FilesUntouched, files, FilesInv
<1> QED
  BY <1>1, <1>2, <1>3, <1>4, <1>5

\* The files the machine starts with are complete.
LEMMA FilesInvInit == Init => FilesInv
<1> SUFFICES ASSUME Init PROVE FilesInv
  OBVIOUS
<1>1. PICK d \in {Absent} \union {Whole(t) : t \in SeedTexts} :
        disk = [device |-> d, state |-> Absent]
  BY DEF Init
<1>2. Complete(d) /\ Complete(Absent)
  BY <1>1 DEF Complete, Absent, Whole
<1>3. disk = [f \in Files |-> disk[f]] /\ \A f \in Files : Complete(disk[f])
  BY <1>1, <1>2 DEF Files
<1>4. stable = disk /\ job.file \in Files /\ pc = "down"
  BY DEF Init, NoJob, Files
<1>5. tmp = [f \in Files |-> tmp[f]]
  BY DEF Init
<1> QED
  BY <1>3, <1>4, <1>5 DEF FilesInv

\* Every step keeps the files complete: only Rename puts new data in place,
\* and it comes after SyncTmp.
LEMMA FilesInvNext == FilesInv /\ [Next]_vars => FilesInv'
<1> SUFFICES ASSUME FilesInv, [Next]_vars PROVE FilesInv'
  OBVIOUS
<1> USE DEF FilesInv
<1>1. CASE FilesUntouched
  BY <1>1 DEF FilesUntouched, files, Complete
<1>2. CASE OpenTmp
  BY <1>2 DEF OpenTmp, Complete, Files
<1>3. CASE WriteTmp
  BY <1>3 DEF WriteTmp, Complete, Whole, Files
<1>4. CASE SyncTmp
  <2> DEFINE whole == [is |-> "whole", data |-> job.text, synced |-> FALSE]
  <2>1. tmp' = [tmp EXCEPT ![job.file] = [whole EXCEPT !.synced = TRUE]]
    BY <1>4 DEF SyncTmp
  <2>2. Complete([whole EXCEPT !.synced = TRUE])
    BY DEF Complete
  <2> HIDE DEF whole
  <2> QED
    BY <1>4, <2>1, <2>2 DEF SyncTmp
<1>5. CASE Rename
  BY <1>5 DEF Rename, Complete
<1>6. CASE SaveFails
  BY <1>6 DEF SaveFails, Complete
<1>7. CASE PowerLoss
  <2>1. /\ disk' = [f \in Files |-> stable[f]]
        /\ stable' = disk'
        /\ job' = job /\ pc' = "down"
        /\ tmp' = [f \in Files |-> tmp'[f]]
    BY <1>7 DEF PowerLoss, Survives, Complete
  <2> QED
    BY <2>1 DEF Complete
<1>8. ASSUME NEW f \in Files, Flush(f) PROVE FilesInv'
  BY <1>8 DEF Flush, daemon, Complete
<1>9. ASSUME NEW text \in Texts, Edit(text) PROVE FilesInv'
  BY <1>9 DEF Edit, daemon, Complete, Whole, Files
<1>10. ASSUME NEW path, NEW cal, EditCalib(path, cal) PROVE FilesInv'
  BY <1>10 DEF EditCalib, files, daemon, Complete
<1>11. CASE UNCHANGED vars
  BY <1>11 DEF vars, files, daemon, Complete
<1> QED
  BY <1>1, <1>2, <1>3, <1>4, <1>5, <1>6, <1>7, <1>8, <1>9, <1>10, <1>11,
     QuietSteps DEF Next, Save, Environment

\* The invariant holds in every reachable state.
THEOREM FilesInvariant == Spec => []FilesInv
BY FilesInvInit, FilesInvNext, PTL DEF Spec

\* Whatever call fails and whenever the daemon or the machine dies, a reader
\* finds a whole device file and a whole state.toml (atomic_write_file).
THEOREM FilesNeverTorn == Spec => []NeverTorn
<1>1. FilesInv => NeverTorn
  BY DEF FilesInv, NeverTorn, Complete
<1> QED
  BY <1>1, FilesInvariant, PTL

\* A step that leaves the files alone is a stuttering step of AtomicFiles.
LEMMA QuietStutters == FilesUntouched => UNCHANGED Abstract!vars
BY DEF FilesUntouched, files, Abstract!vars

\* Every step is a step of AtomicFiles or a stuttering one.
LEMMA StepRefines ==
  FilesInv /\ [Next]_vars => [Abstract!Next]_(Abstract!vars)
<1> SUFFICES ASSUME FilesInv, [Next]_vars
             PROVE  Abstract!Next \/ UNCHANGED Abstract!vars
  BY DEF Abstract!vars
<1> USE DEF Abstract!vars
<1>1. CASE OpenTmp \/ WriteTmp \/ SyncTmp \/ SaveFails
  BY <1>1 DEF OpenTmp, WriteTmp, SyncTmp, SaveFails
<1>2. CASE Rename
  <2>1. Abstract!Put(job.file)
    BY <1>2 DEF Rename, FilesInv, Complete, Abstract!Put, Abstract!IsVersion
  <2> QED
    BY <2>1 DEF FilesInv, Abstract!Next
<1>3. CASE PowerLoss
  <2>1. disk' = stable /\ stable' = stable
    BY <1>3 DEF PowerLoss, Survives, FilesInv, Complete
  <2> QED
    BY <2>1 DEF Abstract!PowerLoss, Abstract!Next
<1>4. ASSUME NEW f \in Files, Flush(f) PROVE Abstract!Next
  BY <1>4 DEF Flush, Abstract!Flush, Abstract!Next
<1>5. ASSUME NEW text \in Texts, Edit(text) PROVE Abstract!Next
  <2>1. Abstract!Replace("device")
    BY <1>5 DEF Edit, FilesInv, Whole, Files, Abstract!Replace,
                Abstract!IsVersion
  <2> QED
    BY <2>1 DEF Abstract!Next, Files
<1>6. ASSUME NEW path, NEW cal, EditCalib(path, cal)
      PROVE  UNCHANGED Abstract!vars
  BY <1>6 DEF EditCalib, files
<1>7. CASE UNCHANGED vars
  BY <1>7 DEF vars, files
<1> QED
  BY <1>1, <1>2, <1>3, <1>4, <1>5, <1>6, <1>7, QuietSteps, QuietStutters
     DEF Next, Save, Environment

\* The write protocol, with its crashes and failing calls, implements files
\* whose whole versions replace one another in one step.
THEOREM WritesAreAtomic == Spec => ImplementsAtomicFiles
<1>1. Init => Abstract!Init
  <2> SUFFICES ASSUME Init PROVE Abstract!Init
    OBVIOUS
  <2>1. FilesInv
    BY FilesInvInit
  <2> QED
    BY <2>1 DEF Init, FilesInv, Complete, Abstract!Init, Abstract!IsVersion
<1> QED
  BY <1>1, StepRefines, FilesInvariant, PTL
     DEF Spec, ImplementsAtomicFiles, Abstract!Spec

-----------------------------------------------------------------------------
(***************************************************************************)
(* The pipeline.                                                           *)
(***************************************************************************)

\* A profile is being saved: dc and the pipeline are those of before.
SavingProfile ==
  /\ pc \in {"open", "write", "sync", "rename", "failed"}
  /\ job.file = "state"

\* PipelineFollowsConfig, and why: only a device request changes dc before
\* it is applied, and a profile request that fails needs no apply.
PipelineInv ==
  /\ pl = [active |-> pl.active, cal |-> pl.cal, am |-> pl.am,
           airmouse_on |-> pl.airmouse_on]
  /\ pc = "idle" \/ SavingProfile => pl.active = Resolve(dc)

\* pipeline_configure takes the profile into force, even when it gives up on
\* the calibration.
LEMMA ConfigureResolves ==
  ASSUME NEW p, NEW d, NEW c,
         p = [active |-> p.active, cal |-> p.cal, am |-> p.am,
              airmouse_on |-> p.airmouse_on]
  PROVE  LET q == pipeline_configure(p, d, c)
         IN  /\ q = [active |-> q.active, cal |-> q.cal, am |-> q.am,
                     airmouse_on |-> q.airmouse_on]
             /\ q.active = Resolve(d)
BY DEF pipeline_configure

\* What Apply takes into force is resolved.
LEMMA ApplyResolves ==
  ASSUME PipelineInv, NEW new, Apply(new)
  PROVE  PipelineInv'
BY ConfigureResolves DEF Apply, PipelineInv

\* The built-in pipeline, before a remote is opened.
LEMMA PipelineInvInit == Init => PipelineInv
BY DEF Init, PipelineInv, SavingProfile, NoJob, pipeline_init

\* Every step keeps the pipeline behind dc only while a request runs.
LEMMA PipelineInvNext == PipelineInv /\ [Next]_vars => PipelineInv'
<1> SUFFICES ASSUME PipelineInv, [Next]_vars PROVE PipelineInv'
  OBVIOUS
<1>1. ASSUME NEW new, mutate_and_save(new) PROVE PipelineInv'
  BY <1>1 DEF mutate_and_save, PipelineInv, SavingProfile
<1>2. ASSUME NEW name, SetProfile(name) PROVE PipelineInv'
  BY <1>2 DEF SetProfile, PipelineInv, SavingProfile
<1>3. CASE Save
  BY <1>3 DEF Save, OpenTmp, WriteTmp, SyncTmp, Rename, SaveFails,
              PipelineInv, SavingProfile
<1>4. CASE ReplySaved \/ ReplyProfile \/ remote_rollback \/ Reload
  BY <1>4, ApplyResolves DEF ReplySaved, ReplyProfile, remote_rollback, Reload
<1>5. CASE FailProfile
  BY <1>5 DEF FailProfile, PipelineInv, SavingProfile
<1>6. CASE OpenRemote
  <2>1. pipeline_init = [active |-> pipeline_init.active,
                         cal |-> pipeline_init.cal, am |-> pipeline_init.am,
                         airmouse_on |-> pipeline_init.airmouse_on]
    BY DEF pipeline_init
  <2> QED
    BY <1>6, <2>1, ConfigureResolves DEF OpenRemote, PipelineInv
<1>7. CASE Environment
  BY <1>7 DEF Environment, Crash, PowerLoss, Flush, Edit, EditCalib, daemon,
              PipelineInv, SavingProfile
<1>8. CASE UNCHANGED vars
  BY <1>8 DEF vars, daemon, PipelineInv, SavingProfile
<1> QED
  BY <1>1, <1>2, <1>3, <1>4, <1>5, <1>6, <1>7, <1>8
     DEF Next, Request, MapButton, ResetButtons, SetNumber, SetCalibPath, Finish

\* Between two requests buttons and scroll speed are those of dc: no save
\* that fails, rollback, reload or bad calibration leaves the pipeline behind.
THEOREM PipelineIsCurrent == Spec => []PipelineFollowsConfig
<1>1. PipelineInv => PipelineFollowsConfig
  BY DEF PipelineInv, PipelineFollowsConfig
<1> QED
  BY <1>1, PipelineInvInit, PipelineInvNext, PTL DEF Spec

-----------------------------------------------------------------------------
(***************************************************************************)
(* The configuration in memory and in the files.                           *)
(***************************************************************************)

\* A profile in memory: a number that is not explicit has its built-in value,
\* the others are in the ranges a client or a file can set.
ProfileOK(p) ==
  /\ p = [name |-> p.name, val |-> p.val, has |-> p.has, map |-> p.map]
  /\ p.name # Unset
  /\ p.has \subseteq NumFields
  /\ p.val \in [NumFields -> Int]
  /\ \A f \in NumFields \ p.has : p.val[f] = profile_init(p.name).val[f]
  /\ p.val.scroll \in 0..ScrollMax /\ p.val.sens \in 0..SensMax

\* r->dc.
ConfigOK(d) ==
  /\ d = [profile |-> d.profile, calib |-> d.calib, airmouse |-> d.airmouse,
          has_airmouse |-> d.has_airmouse, profiles |-> d.profiles]
  /\ d.profile # Unset
  /\ d.airmouse \in BOOLEAN /\ d.has_airmouse \in BOOLEAN
  /\ d.has_airmouse \/ d.airmouse
  /\ Len(d.profiles) \in Nat
  /\ d.profiles = [i \in 1..Len(d.profiles) |-> d.profiles[i]]
  /\ \A i \in 1..Len(d.profiles) : ProfileOK(d.profiles[i])

\* The data of a device file is a text, that of state.toml a profile name.
DataOK(f, data) ==
  IF f = "device" THEN IsText(data) ELSE data # Unset

VersionOK(f, v) == v.is = "whole" => DataOK(f, v.data)

Saving == {"open", "write", "sync", "rename"}

\* TypeOK, and why: the files hold what dc was written as, dc what they were
\* read as.
TypeInv ==
  /\ pc \in Saving \union {"down", "idle", "saved", "failed"}
  /\ \A f \in Files : tmp[f].is \in {"absent", "whole", "torn"}
  /\ ConfigOK(dc)
  /\ \A f \in Files : VersionOK(f, disk[f]) /\ VersionOK(f, stable[f])
  /\ pc \in Saving => DataOK(job.file, job.text)
  /\ pc = "rename" => tmp[job.file] = Whole(job.text)
  /\ edited \in BOOLEAN
  /\ requests \in 0..MaxRequests /\ faults \in 0..MaxFaults
  /\ edits \in 0..MaxEdits

\* The least number principle.
LEMMA Least ==
  ASSUME NEW T, T \subseteq Nat, T # {}
  PROVE  \E x \in T : \A y \in T : x <= y
<1>1. PICK x \in T : \A y \in T : ~(<<y, x>> \in OpToRel(<, Nat))
  <2>1. \E x \in T : \A y \in T : ~(<<y, x>> \in OpToRel(<, Nat))
    BY WFMin, NatLessThanWellFounded
  <2> QED
    BY <2>1
<1>2. \A y \in T : ~(y < x)
  BY <1>1 DEF OpToRel
<1> QED
  BY <1>2

\* The largest numbers are above the built-in ones.
LEMMA MaximaAreNumbers ==
  /\ ScrollMax \in Int /\ SensMax \in Int
  /\ 1 <= ScrollMax /\ 30 <= SensMax
BY DEF ScrollMax, SensMax

\* A text is parsed up to its first bad profile, wherever that is.
LEMMA ParsedUpTo ==
  ASSUME NEW t, Len(t.profiles) \in Nat
  PROVE  LET n == ParsedProfiles(t)
         IN  /\ n \in 0..Len(t.profiles)
             /\ \A i \in 1..n : GoodSection(t.profiles[i])
             /\ n < Len(t.profiles) => ~GoodSection(t.profiles[n + 1])
<1> DEFINE Bad == {i \in 1..Len(t.profiles) : ~GoodSection(t.profiles[i])}
           Stop(n) == /\ \A i \in 1..n : GoodSection(t.profiles[i])
                      /\ n < Len(t.profiles) => ~GoodSection(t.profiles[n + 1])
<1>1. \E n \in 0..Len(t.profiles) : Stop(n)
  <2>1. CASE Bad = {}
    <3>1. Stop(Len(t.profiles))
      BY <2>1
    <3> QED
      BY <3>1
  <2>2. CASE Bad # {}
    <3>0. Bad \subseteq Nat
      OBVIOUS
    <3>1. PICK x \in Bad : \A y \in Bad : x <= y
      <4> HIDE DEF Bad
      <4> QED
        BY <2>2, <3>0, Least
    <3>2. x - 1 \in 0..Len(t.profiles) /\ x - 1 + 1 = x
      OBVIOUS
    <3>3. Stop(x - 1)
      BY <3>1, <3>2
    <3> QED
      BY <3>2, <3>3
  <2> QED
    BY <2>1, <2>2
<1>2. ParsedProfiles(t) = CHOOSE n \in 0..Len(t.profiles) : Stop(n)
  BY DEF ParsedProfiles
<1> HIDE DEF Stop
<1>3. ParsedProfiles(t) \in 0..Len(t.profiles) /\ Stop(ParsedProfiles(t))
  BY <1>1, <1>2
<1> QED
  BY <1>3 DEF Stop

\* A section of a text that is good makes a profile.
LEMMA SectionParses ==
  ASSUME NEW t, IsText(t), NEW i \in 1..Len(t.profiles),
         GoodSection(t.profiles[i])
  PROVE  ProfileOK(profile_parse_fields(t.profiles[i]))
<1> DEFINE s == t.profiles[i]
           p == profile_parse_fields(s)
<1>1. /\ s.name # Unset /\ DOMAIN s.val \subseteq NumFields
      /\ \A f \in DOMAIN s.val : s.val[f] \in Int
  BY DEF IsText
<1>2. profile_validate(p)
  BY DEF GoodSection
<1> HIDE DEF s
<1>3. p = [name |-> p.name, val |-> p.val, has |-> p.has, map |-> p.map]
  BY DEF profile_parse_fields
<1>4. p.name = s.name /\ p.has = DOMAIN s.val
  BY DEF profile_parse_fields
<1>5. \A f \in NumFields : profile_init(s.name).val[f] \in Int
  BY DEF profile_init, NumFields
<1>6. /\ p.val \in [NumFields -> Int]
      /\ \A f \in NumFields : f \notin DOMAIN s.val => p.val[f] = profile_init(s.name).val[f]
  BY <1>1, <1>5 DEF profile_parse_fields
<1> HIDE DEF p
<1>7. p.val.scroll \in 0..ScrollMax /\ p.val.sens \in 0..SensMax
  <2>1. p.val["scroll"] \in Int /\ p.val["sens"] \in Int
    BY <1>6 DEF NumFields
  <2>2. /\ p.val["scroll"] > 0 /\ p.val["scroll"] <= ScrollMax
        /\ p.val["sens"] > 0 /\ p.val["sens"] <= SensMax
    BY <1>2 DEF profile_validate
  <2> DEFINE x == p.val["scroll"]
             y == p.val["sens"]
  <2>3. x \in Int /\ x > 0 /\ x <= ScrollMax /\ y \in Int /\ y > 0 /\ y <= SensMax
    BY <2>1, <2>2, Zenon
  <2> HIDE DEF x, y
  <2>4. x \in 0..ScrollMax /\ y \in 0..SensMax
    BY <2>3, MaximaAreNumbers
  <2> QED
    BY <2>4, Zenon DEF x, y
<1>8. \A f \in NumFields \ p.has : p.val[f] = profile_init(p.name).val[f]
  BY <1>4, <1>6
<1>9. ProfileOK(p)
  <2>1. p.name # Unset /\ p.has \subseteq NumFields
    BY <1>1, <1>4
  <2>2. p.val \in [NumFields -> Int]
    BY <1>6
  <2> QED
    BY <1>3, <1>7, <1>8, <2>1, <2>2, Zenon DEF ProfileOK
<1> QED
  BY <1>9 DEF p, s

\* Whatever a text says, and wherever its load stops, dc is a configuration.
LEMMA TextLoads ==
  ASSUME NEW t, IsText(t)
  PROVE  ConfigOK(device_config_from_toml(t).dc)
<1> DEFINE n == ParsedProfiles(t)
           d == device_config_from_toml(t).dc
<1>1. /\ n \in 0..Len(t.profiles)
      /\ \A i \in 1..n : GoodSection(t.profiles[i])
  BY ParsedUpTo DEF IsText
<1> HIDE DEF n
<1>2. d = [profile |-> IF t.profile = Unset THEN Default ELSE t.profile,
           calib |-> t.calib, airmouse |-> t.airmouse # FALSE,
           has_airmouse |-> t.airmouse # Unset,
           profiles |-> [i \in 1..n |-> profile_parse_fields(t.profiles[i])]]
  BY DEF device_config_from_toml, n
<1>3. d.profile # Unset
  BY <1>2, ConfigAssumption
<1>4. /\ d.airmouse \in BOOLEAN /\ d.has_airmouse \in BOOLEAN
      /\ d.has_airmouse \/ d.airmouse
  <2>1. d.airmouse = (t.airmouse # FALSE) /\ d.has_airmouse = (t.airmouse # Unset)
    BY <1>2
  <2>2. (t.airmouse # Unset) \/ (t.airmouse # FALSE)
    BY ConfigAssumption, Zenon
  <2> HIDE DEF d
  <2> QED
    BY <2>1, <2>2, Zenon
<1>5. ASSUME NEW i \in 1..n PROVE ProfileOK(profile_parse_fields(t.profiles[i]))
  <2>1. i \in 1..Len(t.profiles) /\ GoodSection(t.profiles[i])
    BY <1>1 DEF IsText
  <2> QED
    BY <2>1, SectionParses
<1>6. /\ Len(d.profiles) = n /\ n \in Nat
      /\ \A i \in 1..n : d.profiles[i] = profile_parse_fields(t.profiles[i])
      /\ d.profiles = [i \in 1..n |-> d.profiles[i]]
  BY <1>1, <1>2
<1>7. d = [profile |-> d.profile, calib |-> d.calib, airmouse |-> d.airmouse,
           has_airmouse |-> d.has_airmouse, profiles |-> d.profiles]
  BY <1>2
<1> HIDE DEF d
<1> QED
  BY <1>3, <1>4, <1>5, <1>6, <1>7 DEF ConfigOK, d

\* The profiles a configuration has.
Names(d) == {d.profiles[i].name : i \in 1..Len(d.profiles)}

AllValid(d) == \A i \in 1..Len(d.profiles) : profile_validate(d.profiles[i])

\* e is d with other profiles, the active one possibly added.
Changed(d, e) ==
  /\ ConfigOK(e)
  /\ e.profile = d.profile
  /\ Names(d) \subseteq Names(e)
  /\ Names(e) \subseteq Names(d) \union {d.profile}

\* A configuration, from its parts.
LEMMA ConfigFromParts ==
  ASSUME NEW pr, NEW ca, NEW am, NEW ha, NEW n \in Nat, NEW Prof(_),
         pr # Unset, am \in BOOLEAN, ha \in BOOLEAN, ha \/ am,
         \A i \in 1..n : ProfileOK(Prof(i))
  PROVE  LET d == [profile |-> pr, calib |-> ca, airmouse |-> am,
                   has_airmouse |-> ha, profiles |-> [i \in 1..n |-> Prof(i)]]
         IN  ConfigOK(d) /\ Len(d.profiles) = n
<1> DEFINE q == [i \in 1..n |-> Prof(i)]
           d == [profile |-> pr, calib |-> ca, airmouse |-> am,
                 has_airmouse |-> ha, profiles |-> q]
<1>1. /\ Len(q) = n /\ \A i \in 1..n : q[i] = Prof(i)
      /\ q = [i \in 1..Len(q) |-> q[i]]
  OBVIOUS
<1>2. \A i \in 1..Len(q) : ProfileOK(q[i])
  BY <1>1
<1> HIDE DEF q
<1>3. /\ d.profile = pr /\ d.calib = ca /\ d.airmouse = am
      /\ d.has_airmouse = ha /\ d.profiles = q
  OBVIOUS
<1>4. d = [profile |-> d.profile, calib |-> d.calib, airmouse |-> d.airmouse,
           has_airmouse |-> d.has_airmouse, profiles |-> d.profiles]
  BY <1>3
<1>5. ConfigOK(d) /\ Len(d.profiles) = n
  <2> HIDE DEF d
  <2> QED
    BY <1>1, <1>2, <1>3, <1>4 DEF ConfigOK
<1> QED
  BY <1>5 DEF q

\* The profile device_config_profile_ensure adds.
LEMMA BuiltInOK ==
  ASSUME NEW name, name # Unset
  PROVE  ProfileOK(profile_init(name)) /\ profile_validate(profile_init(name))
<1> DEFINE p == profile_init(name)
<1>1. p = [name |-> p.name, val |-> p.val, has |-> p.has, map |-> p.map]
  BY DEF profile_init
<1>2. p.name = name /\ p.has = {}
  BY DEF profile_init
<1>3. /\ p.val \in [NumFields -> Int]
      /\ p.val.scroll = 1 /\ p.val.sens = 30
  BY DEF profile_init, NumFields
<1>4. profile_init(p.name) = p
  BY <1>2
<1> HIDE DEF p
<1>5. p.val.scroll \in 0..ScrollMax /\ p.val.sens \in 0..SensMax
  BY <1>3, MaximaAreNumbers
<1>6. ProfileOK(p)
  BY <1>1, <1>2, <1>3, <1>4, <1>5 DEF ProfileOK
<1>7. profile_validate(p)
  BY <1>2, <1>3, MaximaAreNumbers DEF profile_validate
<1> QED
  BY <1>6, <1>7 DEF p

\* device_config_profile_ensure: the active profile is there afterwards.
LEMMA Ensured ==
  ASSUME NEW d, ConfigOK(d)
  PROVE  LET e == device_config_profile_ensure(d)
         IN  /\ Changed(d, e)
             /\ profile_find(e, e.profile) # {}
             /\ AllValid(d) => AllValid(e)
<1> DEFINE e == device_config_profile_ensure(d)
<1>1. CASE profile_find(d, d.profile) # {}
  <2>1. e = d
    BY <1>1 DEF device_config_profile_ensure
  <2> QED
    BY <1>1, <2>1 DEF Changed
<1>2. CASE profile_find(d, d.profile) = {}
  <2> DEFINE n == Len(d.profiles)
             new == profile_init(d.profile)
             Prof(i) == IF i = n + 1 THEN new ELSE d.profiles[i]
  <2>1. n \in Nat /\ d.profiles = [i \in 1..n |-> d.profiles[i]]
    BY DEF ConfigOK
  <2>2. d = [profile |-> d.profile, calib |-> d.calib, airmouse |-> d.airmouse,
             has_airmouse |-> d.has_airmouse, profiles |-> d.profiles]
    BY DEF ConfigOK
  <2>3. ProfileOK(new) /\ profile_validate(new) /\ new.name = d.profile
    BY BuiltInOK DEF ConfigOK, profile_init
  <2> HIDE DEF new
  <2>4. Append(d.profiles, new) = [i \in 1..(n + 1) |-> Prof(i)]
    <3> DEFINE S == {d.profiles[i] : i \in 1..n} \union {new}
    <3>1. d.profiles \in Seq(S) /\ new \in S
      BY <2>1
    <3> QED
      BY <2>1, <3>1
  <2>5. e = [profile |-> d.profile, calib |-> d.calib, airmouse |-> d.airmouse,
             has_airmouse |-> d.has_airmouse,
             profiles |-> [i \in 1..(n + 1) |-> Prof(i)]]
    <3>1. e = [d EXCEPT !.profiles = Append(d.profiles, new)]
      BY <1>2 DEF device_config_profile_ensure, new
    <3> QED
      BY <2>2, <2>4, <3>1
  <2>6. \A i \in 1..(n + 1) : ProfileOK(Prof(i))
    BY <2>1, <2>3 DEF ConfigOK
  <2> HIDE DEF e
  <2>7. ConfigOK(e) /\ Len(e.profiles) = n + 1
    <3>1. n + 1 \in Nat
      BY <2>1
    <3> HIDE DEF Prof, n
    <3> QED
      BY <2>5, <2>6, <3>1, ConfigFromParts DEF ConfigOK
  <2>8. e.profile = d.profile /\ \A i \in 1..(n + 1) : e.profiles[i] = Prof(i)
    BY <2>5
  <2>9. e.profiles[n + 1] = new /\ n + 1 \in 1..(n + 1)
    BY <2>1, <2>8
  <2>10. ASSUME NEW i \in 1..n
         PROVE  e.profiles[i] = d.profiles[i] /\ i \in 1..(n + 1)
    BY <2>1, <2>8
  <2>11. ASSUME NEW i \in 1..(n + 1)
         PROVE  i = n + 1 \/ i \in 1..n
    BY <2>1
  <2> HIDE DEF Prof
  <2>12. Names(d) \subseteq Names(e)
    BY <2>7, <2>10 DEF Names
  <2>13. Names(e) \subseteq Names(d) \union {d.profile}
    BY <2>3, <2>7, <2>9, <2>10, <2>11 DEF Names
  <2>14. n + 1 \in profile_find(e, e.profile)
    <3>1. DOMAIN e.profiles = 1..(n + 1)
      BY <2>7 DEF ConfigOK
    <3> QED
      BY <2>3, <2>8, <2>9, <3>1 DEF profile_find
  <2>15. AllValid(d) => AllValid(e)
    BY <2>3, <2>7, <2>9, <2>10, <2>11 DEF AllValid
  <2> QED
    BY <2>7, <2>8, <2>12, <2>13, <2>14, <2>15 DEF Changed, e
<1> QED
  BY <1>1, <1>2

\* The active profile is one of the profiles.
LEMMA ActiveFound ==
  ASSUME NEW d, ConfigOK(d), profile_find(d, d.profile) # {}
  PROVE  LET p == ActiveProfile(d)
         IN  /\ ProfileOK(p)
             /\ p.name = d.profile
             /\ AllValid(d) => profile_validate(p)
<1> DEFINE i == CHOOSE j \in profile_find(d, d.profile) : TRUE
<1>1. i \in profile_find(d, d.profile)
  OBVIOUS
<1>2. ActiveProfile(d) = d.profiles[i]
  BY DEF ActiveProfile
<1> HIDE DEF i
<1>3. DOMAIN d.profiles = 1..Len(d.profiles)
  BY DEF ConfigOK
<1>4. i \in 1..Len(d.profiles) /\ d.profiles[i].name = d.profile
  BY <1>1, <1>3 DEF profile_find
<1> QED
  BY <1>2, <1>4 DEF ConfigOK, AllValid

\* Another version of the active profile.
LEMMA ActiveReplaced ==
  ASSUME NEW d, ConfigOK(d), NEW new, ProfileOK(new), new.name = d.profile
  PROVE  LET e == WithActive(d, new)
         IN  /\ Changed(d, e)
             /\ AllValid(d) /\ profile_validate(new) => AllValid(e)
<1> DEFINE e == WithActive(d, new)
           n == Len(d.profiles)
           Prof(i) == IF i \in profile_find(d, d.profile) THEN new
                      ELSE d.profiles[i]
<1>1. /\ n \in Nat /\ d.profiles = [i \in 1..n |-> d.profiles[i]]
      /\ DOMAIN d.profiles = 1..n
  BY DEF ConfigOK
<1>2. d = [profile |-> d.profile, calib |-> d.calib, airmouse |-> d.airmouse,
           has_airmouse |-> d.has_airmouse, profiles |-> d.profiles]
  BY DEF ConfigOK
<1>3. e = [profile |-> d.profile, calib |-> d.calib, airmouse |-> d.airmouse,
           has_airmouse |-> d.has_airmouse,
           profiles |-> [i \in 1..n |-> Prof(i)]]
  <2>1. e = [d EXCEPT !.profiles = [i \in DOMAIN d.profiles |-> Prof(i)]]
    BY DEF WithActive
  <2> HIDE DEF Prof
  <2> QED
    BY <1>1, <1>2, <2>1
<1> HIDE DEF e
<1>4. ASSUME NEW i \in 1..n
      PROVE  /\ ProfileOK(Prof(i)) /\ Prof(i).name = d.profiles[i].name
             /\ AllValid(d) /\ profile_validate(new) => profile_validate(Prof(i))
  BY DEF ConfigOK, profile_find, AllValid
<1> HIDE DEF Prof, n
<1>5. ConfigOK(e) /\ Len(e.profiles) = n
  BY <1>1, <1>3, <1>4, ConfigFromParts DEF ConfigOK
<1>6. e.profile = d.profile /\ \A i \in 1..n : e.profiles[i] = Prof(i)
  BY <1>3
<1>7. Names(e) = Names(d)
  BY <1>4, <1>5, <1>6 DEF Names, n
<1>8. AllValid(d) /\ profile_validate(new) => AllValid(e)
  BY <1>4, <1>5, <1>6 DEF AllValid
<1> QED
  BY <1>5, <1>6, <1>7, <1>8 DEF Changed, e

\* Changes compose.
LEMMA ChangedAgain ==
  ASSUME NEW d, NEW e, NEW g, Changed(d, e), Changed(e, g)
  PROVE  Changed(d, g)
BY DEF Changed

\* The bus methods change numbers and buttons of the active profile only.
LEMMA MapChanges ==
  ASSUME NEW d, ConfigOK(d), NEW from, NEW to
  PROVE  LET e == mutate_map(d, from, to)
         IN  Changed(d, e) /\ (AllValid(d) => AllValid(e))
<1> DEFINE e == device_config_profile_ensure(d)
           p == ActiveProfile(e)
           q == profile_set_button(p, from, to)
           g == WithActive(e, q)
<1>1. /\ Changed(d, e) /\ profile_find(e, e.profile) # {}
      /\ AllValid(d) => AllValid(e)
  BY Ensured
<1>2. mutate_map(d, from, to) = g
  BY DEF mutate_map
<1> HIDE DEF e
<1>3. ConfigOK(e)
  BY <1>1 DEF Changed
<1>4. /\ ProfileOK(p) /\ p.name = e.profile
      /\ AllValid(e) => profile_validate(p)
  BY <1>1, <1>3, ActiveFound
<1> HIDE DEF p
<1>5. /\ q = [name |-> p.name, val |-> p.val, has |-> p.has, map |-> q.map]
  BY <1>4 DEF ProfileOK, profile_set_button
<1> HIDE DEF q
<1>6. q.name = p.name /\ q.val = p.val /\ q.has = p.has
  BY <1>5
<1>7. ProfileOK(q) /\ (profile_validate(p) => profile_validate(q))
  <2>1. q = [name |-> q.name, val |-> q.val, has |-> q.has, map |-> q.map]
    BY <1>5, <1>6
  <2> QED
    BY <1>4, <1>6, <2>1 DEF ProfileOK, profile_validate
<1>8. Changed(e, g) /\ (AllValid(e) /\ profile_validate(q) => AllValid(g))
  BY <1>3, <1>4, <1>6, <1>7, ActiveReplaced
<1> QED
  BY <1>1, <1>2, <1>4, <1>7, <1>8, ChangedAgain

\* ResetButtons does not add the profile it would empty.
LEMMA ResetChanges ==
  ASSUME NEW d, ConfigOK(d)
  PROVE  LET e == mutate_reset(d)
         IN  Changed(d, e) /\ (AllValid(d) => AllValid(e))
<1>1. CASE profile_find(d, d.profile) = {}
  <2>1. mutate_reset(d) = d
    BY <1>1 DEF mutate_reset
  <2> QED
    BY <2>1 DEF Changed
<1>2. CASE profile_find(d, d.profile) # {}
  <2> DEFINE p == ActiveProfile(d)
             q == [p EXCEPT !.map = << >>]
             g == WithActive(d, q)
  <2>1. mutate_reset(d) = g
    BY <1>2 DEF mutate_reset
  <2>2. /\ ProfileOK(p) /\ p.name = d.profile
        /\ AllValid(d) => profile_validate(p)
    BY <1>2, ActiveFound
  <2> HIDE DEF p
  <2>3. q = [name |-> p.name, val |-> p.val, has |-> p.has, map |-> << >>]
    BY <2>2 DEF ProfileOK
  <2> HIDE DEF q
  <2>4. q.name = p.name /\ q.val = p.val /\ q.has = p.has /\ q.map = << >>
    BY <2>3
  <2>5. ProfileOK(q) /\ (profile_validate(p) => profile_validate(q))
    <3>1. q = [name |-> q.name, val |-> q.val, has |-> q.has, map |-> q.map]
      BY <2>3, <2>4
    <3> QED
      BY <2>2, <2>4, <3>1 DEF ProfileOK, profile_validate
  <2>6. Changed(d, g) /\ (AllValid(d) /\ profile_validate(q) => AllValid(g))
    BY <2>2, <2>4, <2>5, ActiveReplaced
  <2> QED
    BY <2>1, <2>2, <2>5, <2>6
<1> QED
  BY <1>1, <1>2

\* A profile with other numbers.
LEMMA NumbersReplaced ==
  ASSUME NEW p, ProfileOK(p), NEW val, NEW has
  PROVE  [p EXCEPT !.val = val, !.has = has]
           = [name |-> p.name, val |-> val, has |-> has, map |-> p.map]
<1> DEFINE q == [p EXCEPT !.val = val]
           r == [p EXCEPT !.val = val, !.has = has]
<1>1. q = [name |-> p.name, val |-> val, has |-> p.has, map |-> p.map]
  BY DEF ProfileOK
<1>2. r = [q EXCEPT !.has = has]
  OBVIOUS
<1> HIDE DEF q, r
<1>3. r = [name |-> p.name, val |-> val, has |-> has, map |-> p.map]
  BY <1>1, <1>2
<1> QED
  BY <1>3 DEF r

\* SetScrollSpeed and SetSensitivity let 0 through, which does not validate.
LEMMA NumberChanges ==
  ASSUME NEW d, ConfigOK(d), NEW f \in {"scroll", "sens"}, NEW v \in Int,
         v >= 0, v <= (IF f = "scroll" THEN ScrollMax ELSE SensMax)
  PROVE  LET e == mutate_number(d, f, v)
         IN  Changed(d, e) /\ (AllValid(d) /\ v # 0 => AllValid(e))
<1> DEFINE e == device_config_profile_ensure(d)
           p == ActiveProfile(e)
           q == [p EXCEPT !.val = [@ EXCEPT ![f] = v], !.has = @ \union {f}]
           g == WithActive(e, q)
<1>1. /\ Changed(d, e) /\ profile_find(e, e.profile) # {}
      /\ AllValid(d) => AllValid(e)
  BY Ensured
<1>2. mutate_number(d, f, v) = g
  BY DEF mutate_number
<1> HIDE DEF e
<1>3. ConfigOK(e)
  BY <1>1 DEF Changed
<1>4. /\ ProfileOK(p) /\ p.name = e.profile
      /\ AllValid(e) => profile_validate(p)
  BY <1>1, <1>3, ActiveFound
<1> HIDE DEF p
<1>5. q = [name |-> p.name, val |-> [p.val EXCEPT ![f] = v],
           has |-> p.has \union {f}, map |-> p.map]
  <2> DEFINE val == [p.val EXCEPT ![f] = v]
             has == p.has \union {f}
  <2>1. q = [p EXCEPT !.val = val, !.has = has]
    OBVIOUS
  <2> HIDE DEF val, has, q
  <2>2. q = [name |-> p.name, val |-> val, has |-> has, map |-> p.map]
    BY <1>4, <2>1, NumbersReplaced
  <2> QED
    BY <2>2 DEF val, has
<1> HIDE DEF q
<1>6. /\ q.name = p.name /\ q.val = [p.val EXCEPT ![f] = v]
      /\ q.has = p.has \union {f} /\ q.map = p.map
  BY <1>5
<1>7. /\ p.val \in [NumFields -> Int] /\ f \in NumFields
      /\ q.val \in [NumFields -> Int]
      /\ \A h \in NumFields : q.val[h] = IF h = f THEN v ELSE p.val[h]
  BY <1>4, <1>6 DEF ProfileOK, NumFields
<1>8. /\ q.val["scroll"] = IF f = "scroll" THEN v ELSE p.val["scroll"]
      /\ q.val["sens"] = IF f = "sens" THEN v ELSE p.val["sens"]
      /\ q.val["lpf"] = p.val["lpf"]
  BY <1>7 DEF NumFields
<1>9. ProfileOK(q)
  <2>1. q = [name |-> q.name, val |-> q.val, has |-> q.has, map |-> q.map]
    BY <1>5, <1>6
  <2>2. \A h \in NumFields \ q.has : q.val[h] = profile_init(q.name).val[h]
    BY <1>4, <1>6, <1>7 DEF ProfileOK
  <2>3. q.val.scroll \in 0..ScrollMax /\ q.val.sens \in 0..SensMax
    BY <1>4, <1>8, MaximaAreNumbers DEF ProfileOK
  <2>4. q.has \subseteq NumFields /\ q.name # Unset
    BY <1>4, <1>6, <1>7 DEF ProfileOK
  <2> QED
    BY <1>7, <2>1, <2>2, <2>3, <2>4 DEF ProfileOK
<1>10. v # 0 /\ profile_validate(p) => profile_validate(q)
  <2>1. "lpf" \in q.has => "lpf" \in p.has
    BY <1>6
  <2> QED
    BY <1>8, <2>1, MaximaAreNumbers DEF profile_validate
<1>11. Changed(e, g) /\ (AllValid(e) /\ profile_validate(q) => AllValid(g))
  BY <1>3, <1>4, <1>6, <1>9, ActiveReplaced
<1> QED
  BY <1>1, <1>2, <1>4, <1>10, <1>11, ChangedAgain

\* SetCalibPath.
LEMMA CalibChanges ==
  ASSUME NEW d, ConfigOK(d), NEW path
  PROVE  LET e == mutate_calib(d, path)
         IN  Changed(d, e) /\ (AllValid(d) => AllValid(e))
<1> DEFINE e == mutate_calib(d, path)
<1>1. e = [profile |-> d.profile, calib |-> path, airmouse |-> d.airmouse,
           has_airmouse |-> d.has_airmouse, profiles |-> d.profiles]
  BY DEF mutate_calib, ConfigOK
<1> HIDE DEF e
<1>2. /\ e.profile = d.profile /\ e.calib = path /\ e.airmouse = d.airmouse
      /\ e.has_airmouse = d.has_airmouse /\ e.profiles = d.profiles
  BY <1>1
<1>3. e = [profile |-> e.profile, calib |-> e.calib, airmouse |-> e.airmouse,
           has_airmouse |-> e.has_airmouse, profiles |-> e.profiles]
  BY <1>1, <1>2
<1>4. ConfigOK(e)
  BY <1>2, <1>3 DEF ConfigOK
<1> QED
  BY <1>2, <1>4 DEF Changed, Names, AllValid, e

\* device_config_to_toml makes a text, of the same profiles.
LEMMA ConfigWrites ==
  ASSUME NEW d, ConfigOK(d)
  PROVE  LET t == device_config_to_toml(d)
         IN  /\ IsText(t)
             /\ t.profile = d.profile /\ t.calib = d.calib
             /\ t.airmouse = IF d.has_airmouse THEN d.airmouse ELSE Unset
             /\ Len(t.profiles) = Len(d.profiles)
             /\ \A i \in 1..Len(d.profiles) :
                  t.profiles[i] = [name |-> d.profiles[i].name,
                                   map |-> d.profiles[i].map,
                                   val |-> [f \in d.profiles[i].has |->
                                              d.profiles[i].val[f]]]
<1> DEFINE t == device_config_to_toml(d)
           n == Len(d.profiles)
           Sec(i) == [name |-> d.profiles[i].name, map |-> d.profiles[i].map,
                      val |-> [f \in d.profiles[i].has |-> d.profiles[i].val[f]]]
           IsSection(s) == /\ s = [name |-> s.name, val |-> s.val, map |-> s.map]
                           /\ s.name # Unset
                           /\ DOMAIN s.val \subseteq NumFields
                           /\ s.val = [f \in DOMAIN s.val |-> s.val[f]]
                           /\ \A f \in DOMAIN s.val : s.val[f] \in Int
<1>1. ASSUME NEW i \in 1..n PROVE IsSection(Sec(i))
  <2> DEFINE p == d.profiles[i]
             v == [f \in p.has |-> p.val[f]]
             s == [name |-> p.name, map |-> p.map, val |-> v]
  <2>1. ProfileOK(p)
    BY DEF ConfigOK
  <2> HIDE DEF p
  <2>2. DOMAIN v \subseteq NumFields /\ v = [f \in DOMAIN v |-> v[f]]
    BY <2>1 DEF ProfileOK
  <2>3. \A f \in DOMAIN v : v[f] \in Int
    BY <2>1 DEF ProfileOK
  <2> HIDE DEF v
  <2>4. s.name = p.name /\ s.val = v /\ s.map = p.map
    OBVIOUS
  <2>5. s = [name |-> s.name, val |-> s.val, map |-> s.map]
    BY <2>4
  <2>6. IsSection(s)
    <3> HIDE DEF s
    <3> QED
      BY <2>1, <2>2, <2>3, <2>4, <2>5 DEF ProfileOK
  <2>7. s = Sec(i)
    BY DEF p, v
  <2> HIDE DEF IsSection, s, Sec
  <2> QED
    BY <2>6, <2>7
<1> DEFINE secs == [i \in 1..n |-> Sec(i)]
           air == IF d.has_airmouse THEN d.airmouse ELSE Unset
<1>2. t = [profile |-> d.profile, calib |-> d.calib, airmouse |-> air,
           profiles |-> secs]
  BY DEF device_config_to_toml
<1>3. n \in Nat
  BY DEF ConfigOK
<1> HIDE DEF t, Sec, n, IsSection
<1>4. /\ Len(secs) = n /\ secs = [i \in 1..Len(secs) |-> secs[i]]
      /\ \A i \in 1..n : secs[i] = Sec(i)
  BY <1>3
<1> HIDE DEF secs
<1>5. air \in BOOLEAN \union {Unset}
  BY DEF ConfigOK
<1> HIDE DEF air
<1>6. t.profile = d.profile /\ t.calib = d.calib /\ t.airmouse = air /\ t.profiles = secs
  BY <1>2
<1>7. t = [profile |-> t.profile, calib |-> t.calib, airmouse |-> t.airmouse,
           profiles |-> t.profiles]
  BY <1>2, <1>6
<1>8. \A i \in 1..Len(t.profiles) : IsSection(t.profiles[i])
  BY <1>1, <1>4, <1>6
<1>9. IsText(t)
  BY <1>3, <1>4, <1>5, <1>6, <1>7, <1>8 DEF IsText, IsSection
<1>10. Len(t.profiles) = n /\ \A i \in 1..n : t.profiles[i] = Sec(i)
  BY <1>4, <1>6
<1> QED
  BY <1>6, <1>9, <1>10 DEF t, n, Sec, air

\* The built-in configuration.
LEMMA BuiltInConfig ==
  ConfigOK(device_config_init) /\ Len(device_config_init.profiles) = 0
<1> DEFINE d == device_config_init
<1>1. /\ d = [profile |-> Default, calib |-> Unset, airmouse |-> TRUE,
              has_airmouse |-> FALSE, profiles |-> << >>]
      /\ Len(<< >>) = 0 /\ << >> = [i \in 1..0 |-> << >>[i]]
  BY DEF device_config_init
<1>2. d.profiles = << >> /\ d.profile = Default /\ d.airmouse = TRUE
      /\ d.has_airmouse = FALSE /\ d.calib = Unset
  BY <1>1
<1>3. \A i \in 1..0 : FALSE
  OBVIOUS
<1> HIDE DEF d
<1>4. ConfigOK(d) /\ Len(d.profiles) = 0
  BY <1>1, <1>2, <1>3, ConfigAssumption DEF ConfigOK
<1> QED
  BY <1>4 DEF d

\* The files as a process finds them.
FilesOK(files_) ==
  \A f \in Files : /\ files_[f].is \in {"absent", "whole"}
                   /\ VersionOK(f, files_[f])

\* Loading the device file.
LEMMA DeviceLoads ==
  ASSUME NEW v, v.is \in {"absent", "whole"}, VersionOK("device", v)
  PROVE  LET l == device_config_load_file(v)
         IN  l = [ok |-> l.ok, dc |-> l.dc] /\ ConfigOK(l.dc)
<1>1. CASE v.is = "absent"
  BY <1>1, BuiltInConfig DEF device_config_load_file
<1>2. CASE v.is = "whole"
  <2>1. device_config_load_file(v) = device_config_from_toml(v.data)
    BY <1>2 DEF device_config_load_file
  <2>2. IsText(v.data)
    BY <1>2 DEF VersionOK, DataOK
  <2>3. LET l == device_config_from_toml(v.data)
        IN  l = [ok |-> l.ok, dc |-> l.dc]
    BY DEF device_config_from_toml
  <2> QED
    BY <2>1, <2>2, <2>3, TextLoads
<1> QED
  BY <1>1, <1>2

\* A configuration with another active profile.
LEMMA ProfileChosen ==
  ASSUME NEW d, ConfigOK(d), NEW name, name # Unset
  PROVE  LET e == [d EXCEPT !.profile = name]
         IN  /\ ConfigOK(e) /\ e.profile = name /\ e.profiles = d.profiles
             /\ \A n : [e EXCEPT !.profile = n] = [d EXCEPT !.profile = n]
             /\ name = d.profile => e = d
<1> DEFINE e == [d EXCEPT !.profile = name]
<1>0. d = [profile |-> d.profile, calib |-> d.calib, airmouse |-> d.airmouse,
           has_airmouse |-> d.has_airmouse, profiles |-> d.profiles]
  BY DEF ConfigOK
<1>1. e = [profile |-> name, calib |-> d.calib, airmouse |-> d.airmouse,
           has_airmouse |-> d.has_airmouse, profiles |-> d.profiles]
  BY <1>0
<1>2. \A n : [e EXCEPT !.profile = n] = [d EXCEPT !.profile = n]
  BY <1>0, <1>1
<1>3. name = d.profile => e = d
  BY <1>0, <1>1
<1> HIDE DEF e
<1>4. /\ e.profile = name /\ e.calib = d.calib /\ e.airmouse = d.airmouse
      /\ e.has_airmouse = d.has_airmouse /\ e.profiles = d.profiles
  BY <1>1
<1>5. e = [profile |-> e.profile, calib |-> e.calib, airmouse |-> e.airmouse,
           has_airmouse |-> e.has_airmouse, profiles |-> e.profiles]
  BY <1>1, <1>4
<1>6. ConfigOK(e)
  BY <1>4, <1>5 DEF ConfigOK
<1> QED
  BY <1>2, <1>3, <1>4, <1>6 DEF e

\* Loading a remote, with the profile of state.toml on top.
LEMMA RemoteLoads ==
  ASSUME NEW fs, FilesOK(fs)
  PROVE  LET dev == device_config_load_file(fs["device"])
             l == daemon_config_load_remote(fs)
         IN  /\ ConfigOK(dev.dc) /\ ConfigOK(l.dc)
             /\ l.dc.profiles = dev.dc.profiles
             /\ l.ok = dev.ok
             /\ l.dc = IF dev.ok /\ fs["state"].is = "whole"
                       THEN [dev.dc EXCEPT !.profile = fs["state"].data]
                       ELSE dev.dc
<1> DEFINE dev == device_config_load_file(fs["device"])
           l == daemon_config_load_remote(fs)
           over == [dev.dc EXCEPT !.profile = fs["state"].data]
<1>1. dev = [ok |-> dev.ok, dc |-> dev.dc] /\ ConfigOK(dev.dc)
  BY DeviceLoads DEF FilesOK, Files
<1>2. CASE dev.ok /\ fs["state"].is = "whole"
  <2>1. l = [dev EXCEPT !.dc = over]
    BY <1>2 DEF daemon_config_load_remote
  <2>2. fs["state"].data # Unset
    BY <1>2 DEF FilesOK, Files, VersionOK, DataOK
  <2> HIDE DEF l, dev
  <2>3. ConfigOK(over) /\ over.profiles = dev.dc.profiles
    BY <1>1, <2>2, ProfileChosen
  <2>4. l.dc = over /\ l.ok = dev.ok
    <3> HIDE DEF over
    <3> QED
      BY <1>1, <2>1
  <2> QED
    BY <1>1, <1>2, <2>3, <2>4 DEF l, dev
<1>3. CASE ~(dev.ok /\ fs["state"].is = "whole")
  <2>1. l = dev
    BY <1>3 DEF daemon_config_load_remote
  <2> HIDE DEF dev, l
  <2> QED
    BY <1>1, <1>3, <2>1 DEF dev, l
<1> QED
  BY <1>2, <1>3

\* The files can be loaded in every state.
LEMMA DiskOK ==
  ASSUME FilesInv, TypeInv
  PROVE  FilesOK(disk) /\ ConfigOK(daemon_config_load_remote(disk).dc)
<1>1. FilesOK(disk)
  BY DEF FilesInv, TypeInv, Complete, FilesOK
<1> QED
  BY <1>1, RemoteLoads

\* The types hold in the initial states.
LEMMA TypeInvInit == Init => TypeInv
<1> SUFFICES ASSUME Init PROVE TypeInv
  OBVIOUS
<1>1. PICK d \in {Absent} \union {Whole(t) : t \in SeedTexts} :
        disk = [device |-> d, state |-> Absent]
  BY DEF Init
<1>2. VersionOK("device", d) /\ VersionOK("state", Absent)
  BY <1>1, ConfigAssumption DEF VersionOK, DataOK, Absent, Whole
<1>3. \A f \in Files : VersionOK(f, disk[f]) /\ VersionOK(f, stable[f])
  BY <1>1, <1>2 DEF Init, Files
<1>4. \A f \in Files : tmp[f].is \in {"absent", "whole", "torn"}
  BY DEF Init, Absent
<1>5. ConfigOK(dc)
  BY BuiltInConfig DEF Init
<1>6. /\ requests \in 0..MaxRequests /\ faults \in 0..MaxFaults
      /\ edits \in 0..MaxEdits
  BY ConfigAssumption DEF Init
<1>7. edited \in BOOLEAN /\ pc = "down"
  BY DEF Init
<1> QED
  BY <1>3, <1>4, <1>5, <1>6, <1>7 DEF TypeInv, Saving

\* A request that starts a save of the device file.
LEMMA MutateTypes ==
  ASSUME TypeInv, NEW new, ConfigOK(new), mutate_and_save(new)
  PROVE  TypeInv'
<1>1. IsText(device_config_to_toml(new))
  BY ConfigWrites
<1>2. pc' = "open" /\ job'.file = "device" /\ job'.text = device_config_to_toml(new)
  BY DEF mutate_and_save
<1>3. DataOK(job'.file, job'.text)
  BY <1>1, <1>2 DEF DataOK
<1>4. requests' \in 0..MaxRequests
  BY ConfigAssumption DEF mutate_and_save, TypeInv
<1> QED
  BY <1>2, <1>3, <1>4 DEF mutate_and_save, files, TypeInv, Saving

\* Requests keep the types.
LEMMA RequestTypes ==
  ASSUME TypeInv, Request
  PROVE  TypeInv'
<1>0. ConfigOK(dc)
  BY DEF TypeInv
<1>1. ASSUME NEW from, NEW to, MapButton(from, to) PROVE TypeInv'
  BY <1>0, <1>1, MapChanges, MutateTypes DEF MapButton, Changed
<1>2. CASE ResetButtons
  BY <1>0, <1>2, ResetChanges, MutateTypes DEF ResetButtons, Changed
<1>3. ASSUME NEW f \in {"scroll", "sens"}, NEW v \in Numbers, SetNumber(f, v)
      PROVE  TypeInv'
  <2>1. v \in Int
    BY ConfigAssumption
  <2>2. ConfigOK(mutate_number(dc, f, v))
    BY <1>0, <1>3, <2>1, NumberChanges DEF SetNumber, Changed
  <2> QED
    BY <1>3, <2>2, MutateTypes DEF SetNumber
<1>4. ASSUME NEW path, SetCalibPath(path) PROVE TypeInv'
  BY <1>0, <1>4, CalibChanges, MutateTypes DEF SetCalibPath, Changed
<1>5. ASSUME NEW name, SetProfile(name) PROVE TypeInv'
  <2>1. name # Unset
    <3>1. CASE profile_find(dc, name) # {}
      <4>1. DOMAIN dc.profiles = 1..Len(dc.profiles)
        BY <1>0 DEF ConfigOK
      <4>2. PICK i \in 1..Len(dc.profiles) : dc.profiles[i].name = name
        BY <3>1, <4>1 DEF profile_find
      <4>3. ProfileOK(dc.profiles[i])
        BY <1>0 DEF ConfigOK
      <4> QED
        BY <4>2, <4>3 DEF ProfileOK
    <3> QED
      BY <1>5, <3>1, ConfigAssumption DEF SetProfile
  <2>2. DataOK(job'.file, job'.text)
    BY <1>5, <2>1 DEF SetProfile, DataOK
  <2>3. requests' \in 0..MaxRequests
    BY <1>5, ConfigAssumption DEF SetProfile, TypeInv
  <2> QED
    BY <1>5, <2>2, <2>3 DEF SetProfile, files, TypeInv, Saving
<1> QED
  BY <1>1, <1>2, <1>3, <1>4, <1>5 DEF Request

\* A version with another synced bit.
LEMMA SyncedVersion ==
  ASSUME NEW v, NEW is, NEW d, NEW s, NEW b,
         v = [is |-> is, data |-> d, synced |-> s]
  PROVE  [v EXCEPT !.synced = b] = [is |-> is, data |-> d, synced |-> b]
OBVIOUS

\* The calls of atomic_write_file keep the types.
LEMMA SaveTypes ==
  ASSUME FilesInv, TypeInv, Save
  PROVE  TypeInv'
<1>0. /\ job.file \in Files
      /\ disk = [f \in Files |-> disk[f]] /\ tmp = [f \in Files |-> tmp[f]]
  BY DEF FilesInv
<1>1. CASE OpenTmp
  BY <1>0, <1>1 DEF OpenTmp, history, bounds, Torn, TypeInv, Saving
<1>2. CASE WriteTmp
  BY <1>0, <1>2 DEF WriteTmp, history, bounds, Whole, TypeInv, Saving
<1>3. CASE SyncTmp
  <2> DEFINE whole == [is |-> "whole", data |-> job.text, synced |-> FALSE]
  <2>1. tmp' = [tmp EXCEPT ![job.file] = [whole EXCEPT !.synced = TRUE]]
    BY <1>3 DEF SyncTmp, FilesInv
  <2>2. [whole EXCEPT !.synced = TRUE] = Whole(job.text)
    <3> DEFINE yes == TRUE
               no == FALSE
    <3>1. whole = [is |-> "whole", data |-> job.text, synced |-> no]
      OBVIOUS
    <3> HIDE DEF whole, yes, no
    <3>2. [whole EXCEPT !.synced = yes]
            = [is |-> "whole", data |-> job.text, synced |-> yes]
      BY <3>1, SyncedVersion
    <3> QED
      BY <3>2, Zenon DEF yes, Whole
  <2>3. Whole(job.text).is = "whole"
    BY DEF Whole
  <2> HIDE DEF whole
  <2>4. tmp'[job.file] = Whole(job.text) /\ \A f \in Files : f # job.file => tmp'[f] = tmp[f]
    BY <1>0, <2>1, <2>2
  <2> QED
    BY <1>3, <2>3, <2>4 DEF SyncTmp, history, bounds, TypeInv, Saving
<1>4. CASE Rename
  <2>1. VersionOK(job.file, tmp[job.file])
    BY <1>4 DEF Rename, TypeInv, Saving, VersionOK, Whole
  <2>2. \A f \in Files : VersionOK(f, disk'[f])
    BY <1>0, <1>4, <2>1 DEF Rename, TypeInv
  <2>3. edited' \in BOOLEAN
    BY <1>4, Zenon DEF Rename
  <2> QED
    BY <1>0, <1>4, <2>2, <2>3 DEF Rename, bounds, Absent, TypeInv, Saving
<1>5. CASE SaveFails
  <2>1. \A f \in Files : tmp'[f].is \in {"absent", "whole", "torn"}
    BY <1>0, <1>5 DEF SaveFails, Absent, TypeInv
  <2>2. faults' \in 0..MaxFaults
    BY <1>5, ConfigAssumption DEF SaveFails, TypeInv
  <2> QED
    BY <1>5, <2>1, <2>2 DEF SaveFails, history, TypeInv, Saving
<1> QED
  BY <1>1, <1>2, <1>3, <1>4, <1>5 DEF Save

\* Replies, rollbacks and loads keep the types.
LEMMA LoadTypes ==
  ASSUME FilesInv, TypeInv, Finish \/ Reload \/ OpenRemote
  PROVE  TypeInv'
<1>0. ConfigOK(daemon_config_load_remote(disk).dc) /\ ConfigOK(dc)
  BY DiskOK DEF TypeInv
<1>1. ASSUME NEW new, ConfigOK(new), Apply(new),
             UNCHANGED <<files, bounds>>, edited' \in BOOLEAN
      PROVE  TypeInv'
  BY <1>1 DEF Apply, files, bounds, TypeInv, Saving
<1>2. CASE ReplySaved
  <2>1. edited' \in BOOLEAN
    BY <1>2 DEF ReplySaved, TypeInv
  <2> QED
    BY <1>0, <1>1, <1>2, <2>1 DEF ReplySaved
<1>3. CASE ReplyProfile \/ remote_rollback \/ Reload
  BY <1>0, <1>1, <1>3 DEF ReplyProfile, remote_rollback, Reload
<1>4. CASE FailProfile
  BY <1>4 DEF FailProfile, files, bounds, TypeInv, Saving
<1>5. CASE OpenRemote
  BY <1>0, <1>5 DEF OpenRemote, files, bounds, TypeInv, Saving
<1> QED
  BY <1>2, <1>3, <1>4, <1>5 DEF Finish

\* The environment keeps the types.
LEMMA EnvironmentTypes ==
  ASSUME FilesInv, TypeInv, Environment
  PROVE  TypeInv'
<1>0. /\ disk = [f \in Files |-> disk[f]] /\ stable = [f \in Files |-> stable[f]]
  BY DEF FilesInv
<1>1. CASE Crash
  <2>1. faults' \in 0..MaxFaults
    BY <1>1, ConfigAssumption DEF Crash, TypeInv
  <2> QED
    BY <1>1, <2>1 DEF Crash, files, history, TypeInv, Saving
<1>2. CASE PowerLoss
  <2>1. \A f \in Files : disk'[f] = stable[f] /\ stable'[f] = stable[f]
    BY <1>2 DEF PowerLoss, Survives, FilesInv, Complete
  <2>2. \A f \in Files : tmp'[f].is \in {"absent", "whole", "torn"}
    <3>1. Absent.is = "absent" /\ Torn.is = "torn"
      BY DEF Absent, Torn
    <3> QED
      BY <1>2, <3>1 DEF PowerLoss
  <2>3. faults' \in 0..MaxFaults
    BY <1>2, ConfigAssumption DEF PowerLoss, TypeInv
  <2> QED
    BY <1>2, <2>1, <2>2, <2>3 DEF PowerLoss, TypeInv, Saving
<1>3. ASSUME NEW f \in Files, Flush(f) PROVE TypeInv'
  BY <1>0, <1>3 DEF Flush, daemon, history, bounds, TypeInv, Saving
<1>4. ASSUME NEW text \in Texts, Edit(text) PROVE TypeInv'
  <2>1. VersionOK("device", Whole(text))
    BY ConfigAssumption DEF VersionOK, DataOK, Whole
  <2>2. \A f \in Files : VersionOK(f, disk'[f]) /\ VersionOK(f, stable'[f])
    BY <1>0, <1>4, <2>1 DEF Edit, TypeInv
  <2>3. edits' \in 0..MaxEdits
    BY <1>4, ConfigAssumption DEF Edit, TypeInv
  <2> QED
    BY <1>4, <2>2, <2>3 DEF Edit, daemon, TypeInv, Saving
<1>5. ASSUME NEW path, NEW cal, EditCalib(path, cal) PROVE TypeInv'
  <2>1. edits' \in 0..MaxEdits
    BY <1>5, ConfigAssumption DEF EditCalib, TypeInv
  <2> QED
    BY <1>5, <2>1 DEF EditCalib, files, daemon, history, TypeInv, Saving
<1> QED
  BY <1>1, <1>2, <1>3, <1>4, <1>5 DEF Environment

\* The types are inductive.
LEMMA TypeInvNext == FilesInv /\ TypeInv /\ [Next]_vars => TypeInv'
<1> SUFFICES ASSUME FilesInv, TypeInv, [Next]_vars PROVE TypeInv'
  OBVIOUS
<1>1. CASE UNCHANGED vars
  BY <1>1 DEF vars, files, daemon, history, bounds, TypeInv, Saving
<1> QED
  BY <1>1, RequestTypes, SaveTypes, LoadTypes, EnvironmentTypes DEF Next

\* The invariant holds in every reachable state.
THEOREM TypeInvariant == Spec => []TypeInv
BY TypeInvInit, TypeInvNext, FilesInvariant, PTL DEF Spec

\* What requests and files make of dc stays in the ranges of the bus methods,
\* whatever the administrator writes and wherever a load stops.
THEOREM TypeCorrect == Spec => []TypeOK
<1>1. FilesInv /\ TypeInv => TypeOK
  <2> SUFFICES ASSUME FilesInv, TypeInv PROVE TypeOK
    OBVIOUS
  <2>1. ASSUME NEW i \in DOMAIN dc.profiles
        PROVE  /\ dc.profiles[i].val.scroll \in 0..ScrollMax
               /\ dc.profiles[i].val.sens \in 0..SensMax
    <3>1. i \in 1..Len(dc.profiles)
      BY DEF TypeInv, ConfigOK
    <3> QED
      BY <3>1 DEF TypeInv, ConfigOK, ProfileOK
  <2>2. \A f \in Files : /\ disk[f].is \in {"absent", "whole", "torn"}
                         /\ stable[f].is \in {"absent", "whole", "torn"}
                         /\ tmp[f].is \in {"absent", "whole", "torn"}
    BY DEF FilesInv, TypeInv, Complete
  <2> QED
    BY <2>1, <2>2 DEF FilesInv, TypeInv, TypeOK, Saving
<1> QED
  BY <1>1, FilesInvariant, TypeInvariant, PTL

-----------------------------------------------------------------------------
(***************************************************************************)
(* Settings persist.                                                       *)
(***************************************************************************)

\* What the daemon counts on: no client sets a number to 0 (which a load
\* refuses), every device file loads, and an edit removes no profile (the
\* name in state.toml is not checked against the file).
Careful ==
  /\ 0 \notin Numbers
  /\ \A t \in Texts \union SeedTexts : device_config_from_toml(t).ok
  /\ \A s \in Texts \union SeedTexts, t \in Texts :
       Names(s) \subseteq Names(t) \union {Default}

\* The profiles of a version of the device file.
FileNames(v) == IF v.is = "whole" THEN Names(v.data) ELSE {}

Loads(v) == v.is = "whole" => device_config_from_toml(v.data).ok

\* A name that can be the active profile.
Known(n) == n \in Names(dc) \union {Default}

\* dc and the device file can be written and read back, now and after a
\* power loss.
AllLoad ==
  /\ AllValid(dc)
  /\ Loads(disk["device"]) /\ Loads(stable["device"])

\* A profile in memory, "default" apart, is in the file, in what a power
\* loss leaves of it and in every edit.
NamesStay ==
  /\ Names(dc) \subseteq FileNames(disk["device"]) \union {Default}
  /\ FileNames(disk["device"]) \subseteq FileNames(stable["device"]) \union {Default}
  /\ \A t \in Texts : FileNames(stable["device"]) \subseteq Names(t) \union {Default}

\* The active profile is always there, wherever its name is kept.
ProfileKnown ==
  /\ Known(dc.profile)
  /\ disk["state"].is = "whole" => Known(disk["state"].data)
  /\ stable["state"].is = "whole" => Known(stable["state"].data)
  /\ pc \in Saving /\ job.file = "state" => Known(job.text)

\* While the daemon runs, dc has the profile of state.toml, until the end of
\* the request that changed it.
StateInForce ==
  /\ pc # "down" /\ ~(pc = "saved" /\ job.file = "state")
  /\ disk["state"].is = "whole"
  => dc.profile = disk["state"].data

\* What the running request saves, and what it has done to dc.
RequestRuns ==
  /\ pc \in Saving /\ job.file = "device" => job.text = device_config_to_toml(dc)
  /\ pc \in Saving \union {"saved"} /\ job.file = "device" => wanted = dc
  /\ pc = "idle" \/ SavingProfile => acked = dc
  /\ pc \in Saving /\ job.file = "state" => wanted = [dc EXCEPT !.profile = job.text]

\* The disk has the configuration from before the request until the rename,
\* the one it asked for afterwards.
DiskFollows ==
  ~edited =>
    LET l == daemon_config_load_remote(disk).dc
    IN  /\ pc \in Saving \union {"idle", "failed"} => l = acked
        /\ pc = "saved" => l = wanted
        /\ pc = "down" => l \in {acked, wanted}

SettingsInv ==
  /\ AllLoad /\ NamesStay /\ ProfileKnown
  /\ StateInForce /\ RequestRuns /\ DiskFollows

\* A text that loads loads with all its profiles.
LEMMA TextLoadsWhole ==
  ASSUME NEW t, IsText(t), device_config_from_toml(t).ok
  PROVE  LET d == device_config_from_toml(t).dc
         IN  /\ AllValid(d) /\ Names(d) = Names(t)
             /\ d.profile \in Names(d) \union {Default}
<1> DEFINE n == ParsedProfiles(t)
           d == device_config_from_toml(t).dc
<1>1. /\ d.profiles = [i \in 1..n |-> profile_parse_fields(t.profiles[i])]
      /\ n = Len(t.profiles) /\ device_config_validate(d)
  BY DEF device_config_from_toml
<1>2. n \in Nat
  BY <1>1 DEF IsText
<1> HIDE DEF n, d
<1>3. /\ Len(d.profiles) = n /\ DOMAIN d.profiles = 1..n
      /\ \A i \in 1..n : d.profiles[i].name = t.profiles[i].name
  <2>1. Len(d.profiles) = n /\ DOMAIN d.profiles = 1..n
    BY <1>1, <1>2
  <2>2. \A i \in 1..n : d.profiles[i] = profile_parse_fields(t.profiles[i])
    BY <1>1
  <2>3. \A x : profile_parse_fields(x).name = x.name
    BY DEF profile_parse_fields
  <2> QED
    BY <2>1, <2>2, <2>3
<1>4. AllValid(d)
  BY <1>1, <1>3 DEF AllValid, device_config_validate
<1>5. Names(d) = Names(t)
  BY <1>1, <1>3, ZenonT(40) DEF Names
<1>6. d.profile \in Names(d) \union {Default}
  BY <1>1, <1>3 DEF Names, device_config_validate, profile_find
<1> QED
  BY <1>4, <1>5, <1>6 DEF d

\* What is not explicit is not written, and comes back as built-in.
LEMMA ProfileRoundTrip ==
  ASSUME NEW p, ProfileOK(p)
  PROVE  profile_parse_fields([name |-> p.name, map |-> p.map,
                               val |-> [f \in p.has |-> p.val[f]]]) = p
<1> DEFINE v == [f \in p.has |-> p.val[f]]
           s == [name |-> p.name, map |-> p.map, val |-> v]
           back == [f \in NumFields |-> IF f \in DOMAIN v THEN v[f]
                                        ELSE profile_init(p.name).val[f]]
<1>1. back = p.val
  <2>1. \A f \in NumFields : back[f] = p.val[f]
    BY DEF ProfileOK
  <2>2. p.val = [f \in NumFields |-> p.val[f]]
    BY DEF ProfileOK
  <2>3. back = [f \in NumFields |-> back[f]]
    OBVIOUS
  <2> HIDE DEF back
  <2> QED
    BY <2>1, <2>2, <2>3
<1>2. DOMAIN v = p.has
  OBVIOUS
<1> HIDE DEF v
<1>3. s.name = p.name /\ s.map = p.map /\ s.val = v
  OBVIOUS
<1> HIDE DEF s
<1>4. profile_parse_fields(s)
        = [name |-> p.name, has |-> p.has, map |-> p.map, val |-> back]
  BY <1>2, <1>3 DEF profile_parse_fields
<1> HIDE DEF back
<1>5. profile_parse_fields(s) = p
  BY <1>1, <1>4 DEF ProfileOK
<1> QED
  BY <1>5 DEF s, v

\* A configuration that validates is what its text is read back as.
LEMMA RoundTrip ==
  ASSUME NEW d, ConfigOK(d), AllValid(d), d.profile \in Names(d) \union {Default}
  PROVE  LET t == device_config_to_toml(d)
         IN  /\ device_config_from_toml(t).ok
             /\ device_config_from_toml(t).dc = d
             /\ Names(t) = Names(d)
<1> DEFINE t == device_config_to_toml(d)
           n == Len(d.profiles)
           l == device_config_from_toml(t)
<1>1. /\ IsText(t) /\ t.profile = d.profile /\ t.calib = d.calib
      /\ t.airmouse = IF d.has_airmouse THEN d.airmouse ELSE Unset
      /\ Len(t.profiles) = n
  BY ConfigWrites
<1>2. ASSUME NEW i \in 1..n
      PROVE  /\ profile_parse_fields(t.profiles[i]) = d.profiles[i]
             /\ t.profiles[i].name = d.profiles[i].name
             /\ GoodSection(t.profiles[i])
  <2> DEFINE p == d.profiles[i]
  <2>1. t.profiles[i] = [name |-> p.name, map |-> p.map,
                         val |-> [f \in p.has |-> p.val[f]]]
    BY ConfigWrites
  <2>2. ProfileOK(p) /\ profile_validate(p)
    BY DEF ConfigOK, AllValid
  <2> HIDE DEF p, t
  <2>3. profile_parse_fields(t.profiles[i]) = p
    BY <2>1, <2>2, ProfileRoundTrip
  <2> QED
    BY <2>1, <2>2, <2>3 DEF GoodSection, p
<1>3. n \in Nat /\ DOMAIN d.profiles = 1..n
      /\ d.profiles = [i \in 1..n |-> d.profiles[i]]
  BY DEF ConfigOK
<1> HIDE DEF t, n
<1>4. ParsedProfiles(t) = n
  <2>1. /\ ParsedProfiles(t) \in 0..n
        /\ ParsedProfiles(t) < n => ~GoodSection(t.profiles[ParsedProfiles(t) + 1])
    BY <1>1, <1>3, ParsedUpTo
  <2> QED
    BY <1>2, <1>3, <2>1
<1>5. [i \in 1..n |-> profile_parse_fields(t.profiles[i])] = d.profiles
  BY <1>2, <1>3
<1>6. (t.airmouse # FALSE) = d.airmouse /\ (t.airmouse # Unset) = d.has_airmouse
  <2>1. /\ d.airmouse \in BOOLEAN /\ d.has_airmouse \in BOOLEAN
        /\ d.has_airmouse \/ d.airmouse
    BY DEF ConfigOK
  <2>2. CASE d.has_airmouse
    <3>1. t.airmouse = d.airmouse
      BY <1>1, <2>2
    <3> QED
      BY <2>1, <2>2, <3>1, ConfigAssumption, Zenon
  <2>3. CASE ~d.has_airmouse
    <3>1. t.airmouse = Unset
      BY <1>1, <2>3
    <3> QED
      BY <2>1, <2>3, <3>1, ConfigAssumption, Zenon
  <2> QED
    BY <2>2, <2>3
<1>7. l.dc = [profile |-> d.profile, calib |-> d.calib,
              airmouse |-> t.airmouse # FALSE,
              has_airmouse |-> t.airmouse # Unset, profiles |-> d.profiles]
  <2>1. d.profile # Unset
    BY DEF ConfigOK
  <2> QED
    BY <1>1, <1>4, <1>5, <2>1 DEF device_config_from_toml
<1>8. l.dc = d
  <2>1. d = [profile |-> d.profile, calib |-> d.calib, airmouse |-> d.airmouse,
             has_airmouse |-> d.has_airmouse, profiles |-> d.profiles]
    BY DEF ConfigOK
  <2> DEFINE a == (t.airmouse # FALSE)
             h == (t.airmouse # Unset)
  <2>2. l.dc = [profile |-> d.profile, calib |-> d.calib, airmouse |-> a,
                has_airmouse |-> h, profiles |-> d.profiles]
    BY <1>7
  <2>3. a = d.airmouse /\ h = d.has_airmouse
    BY <1>6
  <2> HIDE DEF l, a, h
  <2> QED
    BY <2>1, <2>2, <2>3, Zenon
<1>9. device_config_validate(d)
  <2>1. d.profile = Default \/ profile_find(d, d.profile) # {}
    BY <1>3 DEF Names, profile_find, n
  <2> QED
    BY <1>3, <2>1 DEF AllValid, device_config_validate, n
<1>10. l.ok = (ParsedProfiles(t) = Len(t.profiles) /\ device_config_validate(l.dc))
  BY DEF device_config_from_toml
<1>11. Names(t) = Names(d)
  BY <1>1, <1>2 DEF Names, n
<1> HIDE DEF l
<1>12. l.ok
  BY <1>1, <1>4, <1>8, <1>9, <1>10
<1> QED
  BY <1>8, <1>11, <1>12 DEF t, l

\* A load of the files on disk, in a state of the invariant: it succeeds,
\* has the profiles of the file, and an active one that is there.
LEMMA DiskLoads ==
  ASSUME FilesInv, TypeInv, AllLoad, NamesStay, ProfileKnown
  PROVE  LET l == daemon_config_load_remote(disk)
         IN  /\ l.ok /\ AllValid(l.dc)
             /\ Names(l.dc) = FileNames(disk["device"])
             /\ l.dc.profile \in Names(l.dc) \union {Default}
             /\ disk["state"].is = "whole" => l.dc.profile = disk["state"].data
<1> DEFINE dev == device_config_load_file(disk["device"])
           l == daemon_config_load_remote(disk)
<1>1. FilesOK(disk)
  BY DiskOK
<1>2. /\ ConfigOK(dev.dc) /\ ConfigOK(l.dc) /\ l.dc.profiles = dev.dc.profiles
      /\ l.ok = dev.ok
      /\ l.dc = IF dev.ok /\ disk["state"].is = "whole"
                THEN [dev.dc EXCEPT !.profile = disk["state"].data]
                ELSE dev.dc
  BY <1>1, RemoteLoads
<1>3. /\ dev.ok /\ AllValid(dev.dc)
      /\ Names(dev.dc) = FileNames(disk["device"])
      /\ dev.dc.profile \in Names(dev.dc) \union {Default}
  <2>1. CASE disk["device"].is = "absent"
    <3>1. dev.ok /\ dev.dc = device_config_init
      BY <2>1 DEF device_config_load_file
    <3>2. device_config_init.profile = Default
      BY DEF device_config_init
    <3>3. \A i \in 1..0 : FALSE
      OBVIOUS
    <3> HIDE DEF dev
    <3>4. AllValid(dev.dc) /\ Names(dev.dc) = {}
      BY <3>1, <3>3, BuiltInConfig DEF AllValid, Names
    <3> QED
      BY <2>1, <3>1, <3>2, <3>4 DEF FileNames
  <2>2. CASE disk["device"].is = "whole"
    <3>1. dev = device_config_from_toml(disk["device"].data)
      BY <2>2 DEF device_config_load_file
    <3>2. IsText(disk["device"].data) /\ dev.ok
      BY <1>1, <2>2, <3>1 DEF FilesOK, Files, VersionOK, DataOK, AllLoad, Loads
    <3> HIDE DEF dev
    <3> QED
      BY <2>2, <3>1, <3>2, TextLoadsWhole DEF FileNames
  <2> QED
    BY <1>1, <2>1, <2>2 DEF FilesOK, Files
<1> HIDE DEF dev, l
<1>4. AllValid(l.dc) /\ Names(l.dc) = Names(dev.dc)
  BY <1>2, <1>3 DEF AllValid, Names
<1>5. CASE disk["state"].is = "whole"
  <2>1. disk["state"].data # Unset
    BY <1>1, <1>5 DEF FilesOK, Files, VersionOK, DataOK
  <2>2. l.dc = [dev.dc EXCEPT !.profile = disk["state"].data]
    BY <1>2, <1>3, <1>5
  <2>3. l.dc.profile = disk["state"].data
    <3> DEFINE d == dev.dc
               name == disk["state"].data
    <3>1. ConfigOK(d) /\ name # Unset /\ l.dc = [d EXCEPT !.profile = name]
      BY <1>2, <2>1, <2>2
    <3> HIDE DEF d, name
    <3>2. d = [profile |-> d.profile, calib |-> d.calib, airmouse |-> d.airmouse,
               has_airmouse |-> d.has_airmouse, profiles |-> d.profiles]
      BY <3>1 DEF ConfigOK
    <3>3. [d EXCEPT !.profile = name].profile = name
      BY <3>2
    <3>4. l.dc.profile = name
      BY <3>1, <3>3
    <3> QED
      BY <3>4 DEF name
  <2>4. disk["state"].data \in FileNames(disk["device"]) \union {Default}
    BY <1>5 DEF ProfileKnown, Known, NamesStay
  <2> QED
    BY <1>2, <1>3, <1>4, <2>3, <2>4 DEF l
<1>6. CASE disk["state"].is # "whole"
  <2>1. l.dc = dev.dc
    BY <1>2, <1>6
  <2> QED
    BY <1>2, <1>3, <1>4, <1>6, <2>1 DEF l
<1> QED
  BY <1>5, <1>6

\* dc is loaded from the disk and the daemon is idle.
LEMMA LoadedSettings ==
  ASSUME FilesInv, TypeInv, SettingsInv, UNCHANGED files,
         dc' = daemon_config_load_remote(disk).dc,
         acked' = dc', wanted' = dc', job' = NoJob, pc' = "idle"
  PROVE  SettingsInv'
<1> DEFINE l == daemon_config_load_remote(disk)
<1>1. /\ AllValid(l.dc) /\ Names(l.dc) = FileNames(disk["device"])
      /\ l.dc.profile \in Names(l.dc) \union {Default}
      /\ disk["state"].is = "whole" => l.dc.profile = disk["state"].data
  BY DiskLoads DEF SettingsInv
<1>2. disk' = disk /\ stable' = stable /\ dc' = l.dc
  BY DEF files
<1> HIDE DEF l
<1>3. \A n : Known(n) => Known(n)'
  BY <1>1, <1>2 DEF Known, SettingsInv, NamesStay
<1>4. AllLoad'
  BY <1>1, <1>2 DEF SettingsInv, AllLoad, Loads
<1>5. NamesStay'
  BY <1>1, <1>2 DEF SettingsInv, NamesStay
<1>6. ProfileKnown'
  BY <1>1, <1>2, <1>3 DEF SettingsInv, ProfileKnown, Saving, Known
<1>7. StateInForce'
  BY <1>1, <1>2 DEF StateInForce
<1>8. RequestRuns'
  BY DEF RequestRuns, Saving, SavingProfile
<1>9. DiskFollows'
  BY <1>2 DEF DiskFollows, Saving, l
<1> QED
  BY <1>4, <1>5, <1>6, <1>7, <1>8, <1>9 DEF SettingsInv

\* A request for the device file.
LEMMA MutateSettings ==
  ASSUME SettingsInv, NEW new, Changed(dc, new), AllValid(new),
         mutate_and_save(new)
  PROVE  SettingsInv'
<1>1. /\ pc = "idle" /\ pc' = "open" /\ dc' = new /\ wanted' = new
      /\ disk' = disk /\ stable' = stable /\ acked' = acked /\ edited' = edited
      /\ job'.file = "device" /\ job'.text = device_config_to_toml(new)
  BY DEF mutate_and_save, files
<1>2. /\ new.profile = dc.profile /\ Names(dc) \subseteq Names(new)
      /\ Names(new) \subseteq Names(dc) \union {Default}
  BY DEF Changed, SettingsInv, ProfileKnown, Known
<1>3. AllLoad'
  BY <1>1 DEF SettingsInv, AllLoad, Loads
<1>4. NamesStay'
  BY <1>1, <1>2 DEF SettingsInv, NamesStay
<1>5. ProfileKnown'
  BY <1>1, <1>2 DEF SettingsInv, ProfileKnown, Known
<1>6. StateInForce'
  BY <1>1, <1>2 DEF SettingsInv, StateInForce
<1>7. RequestRuns'
  BY <1>1 DEF RequestRuns, SavingProfile
<1>8. DiskFollows'
  BY <1>1 DEF SettingsInv, DiskFollows, Saving
<1> QED
  BY <1>3, <1>4, <1>5, <1>6, <1>7, <1>8 DEF SettingsInv

\* Every request starts from a configuration that is on disk, and asks for
\* one that will load.
LEMMA RequestSettings ==
  ASSUME Careful, TypeInv, SettingsInv, Request
  PROVE  SettingsInv'
<1>0. ConfigOK(dc) /\ AllValid(dc)
  BY DEF TypeInv, SettingsInv, AllLoad
<1>1. ASSUME NEW from, NEW to, MapButton(from, to) PROVE SettingsInv'
  BY <1>0, <1>1, MapChanges, MutateSettings DEF MapButton
<1>2. CASE ResetButtons
  BY <1>0, <1>2, ResetChanges, MutateSettings DEF ResetButtons
<1>3. ASSUME NEW f \in {"scroll", "sens"}, NEW v \in Numbers, SetNumber(f, v)
      PROVE  SettingsInv'
  <2>1. v \in Int /\ v # 0
    BY ConfigAssumption DEF Careful
  <2>2. Changed(dc, mutate_number(dc, f, v)) /\ AllValid(mutate_number(dc, f, v))
    BY <1>0, <1>3, <2>1, NumberChanges DEF SetNumber
  <2> QED
    BY <1>3, <2>2, MutateSettings DEF SetNumber
<1>4. ASSUME NEW path, SetCalibPath(path) PROVE SettingsInv'
  BY <1>0, <1>4, CalibChanges, MutateSettings DEF SetCalibPath
<1>5. ASSUME NEW name, SetProfile(name) PROVE SettingsInv'
  <2>1. /\ pc = "idle" /\ pc' = "open" /\ dc' = dc /\ acked' = acked
        /\ disk' = disk /\ stable' = stable /\ edited' = edited
        /\ job'.file = "state" /\ job'.text = name
        /\ wanted' = [dc EXCEPT !.profile = name]
    BY <1>5 DEF SetProfile, files
  <2>2. Known(name)
    <3>1. DOMAIN dc.profiles = 1..Len(dc.profiles)
      BY <1>0 DEF ConfigOK
    <3> QED
      BY <1>5, <3>1 DEF SetProfile, profile_find, Known, Names
  <2>3. AllLoad' /\ NamesStay'
    BY <2>1 DEF SettingsInv, AllLoad, Loads, NamesStay
  <2>4. ProfileKnown'
    BY <2>1, <2>2 DEF SettingsInv, ProfileKnown, Known
  <2>5. StateInForce' /\ DiskFollows'
    BY <2>1 DEF SettingsInv, StateInForce, DiskFollows, Saving
  <2>6. RequestRuns'
    BY <2>1 DEF SettingsInv, RequestRuns, SavingProfile
  <2> QED
    BY <2>3, <2>4, <2>5, <2>6 DEF SettingsInv
<1> QED
  BY <1>1, <1>2, <1>3, <1>4, <1>5 DEF Request

\* The calls before the rename change neither file.
LEMMA WaitingSettings ==
  ASSUME SettingsInv, pc \in Saving, pc' \in Saving \union {"failed"},
         UNCHANGED <<disk, stable, job, dc, edited, acked, wanted>>
  PROVE  SettingsInv'
<1>1. AllLoad' /\ NamesStay'
  BY DEF SettingsInv, AllLoad, Loads, NamesStay
<1>2. ProfileKnown'
  BY DEF SettingsInv, ProfileKnown, Known
<1>3. StateInForce' /\ DiskFollows'
  BY DEF SettingsInv, StateInForce, DiskFollows, Saving
<1>4. RequestRuns'
  BY DEF SettingsInv, RequestRuns, SavingProfile, Saving
<1> QED
  BY <1>1, <1>2, <1>3, <1>4 DEF SettingsInv

\* The new device file is what is in memory.
LEMMA RenameDevice ==
  ASSUME FilesInv, TypeInv, FilesInv', TypeInv', SettingsInv,
         Rename, job.file = "device"
  PROVE  SettingsInv'
<1> DEFINE t == device_config_to_toml(dc)
           l == daemon_config_load_remote(disk')
           dev == device_config_load_file(disk'["device"])
<1>1. /\ disk'["device"] = Whole(t) /\ disk'["state"] = disk["state"]
      /\ pc = "rename" /\ pc' = "saved" /\ stable' = stable /\ dc' = dc
      /\ job' = job /\ wanted' = wanted /\ wanted = dc
  BY DEF Rename, FilesInv, TypeInv, SettingsInv, RequestRuns, Saving, Files
<1>2. /\ ConfigOK(dc) /\ AllValid(dc) /\ dc.profile \in Names(dc) \union {Default}
  BY DEF TypeInv, SettingsInv, AllLoad, ProfileKnown, Known
<1>3. /\ device_config_from_toml(t).ok /\ device_config_from_toml(t).dc = dc
      /\ Names(t) = Names(dc)
  BY <1>2, RoundTrip
<1>4. Whole(t).is = "whole" /\ Whole(t).data = t
  BY DEF Whole
<1> HIDE DEF t
<1>5. AllLoad'
  BY <1>1, <1>3, <1>4 DEF SettingsInv, AllLoad, Loads
<1>6. NamesStay'
  <2>1. FileNames(disk'["device"]) = Names(dc)
    BY <1>1, <1>3, <1>4 DEF FileNames
  <2> QED
    BY <1>1, <2>1 DEF SettingsInv, NamesStay
<1>7. ProfileKnown'
  BY <1>1 DEF SettingsInv, ProfileKnown, Known, Saving
<1>8. StateInForce'
  BY <1>1 DEF SettingsInv, StateInForce
<1>9. RequestRuns'
  BY <1>1 DEF SettingsInv, RequestRuns, SavingProfile, Saving
<1>10. l.dc = dc
  <2>1. FilesOK(disk')
    BY DEF FilesInv, TypeInv, Complete, FilesOK
  <2>2. l.dc = IF dev.ok /\ disk'["state"].is = "whole"
               THEN [dev.dc EXCEPT !.profile = disk'["state"].data]
               ELSE dev.dc
    BY <2>1, RemoteLoads
  <2>3. dev.dc = dc
    BY <1>1, <1>3, <1>4 DEF device_config_load_file
  <2> HIDE DEF l, dev
  <2>4. CASE dev.ok /\ disk'["state"].is = "whole"
    <3>1. disk'["state"].data = dc.profile
      BY <1>1, <2>4 DEF SettingsInv, StateInForce
    <3>2. l.dc = [dc EXCEPT !.profile = dc.profile]
      BY <2>2, <2>3, <2>4, <3>1
    <3>3. dc.profile # Unset
      BY <1>2 DEF ConfigOK
    <3> QED
      BY <1>2, <3>2, <3>3, ProfileChosen
  <2>5. CASE ~(dev.ok /\ disk'["state"].is = "whole")
    BY <2>2, <2>3, <2>5
  <2> QED
    BY <2>4, <2>5
<1>11. DiskFollows'
  BY <1>1, <1>10 DEF DiskFollows, Saving
<1> QED
  BY <1>5, <1>6, <1>7, <1>8, <1>9, <1>11 DEF SettingsInv

\* The new state.toml changes the active profile and nothing else.
LEMMA RenameState ==
  ASSUME FilesInv, TypeInv, FilesInv', TypeInv', SettingsInv,
         Rename, job.file = "state"
  PROVE  SettingsInv'
<1> DEFINE name == job.text
           l == daemon_config_load_remote(disk)
           m == daemon_config_load_remote(disk')
           dev == device_config_load_file(disk["device"])
<1>1. /\ disk'["state"] = Whole(name) /\ disk'["device"] = disk["device"]
      /\ pc = "rename" /\ pc' = "saved" /\ stable' = stable /\ dc' = dc
      /\ job' = job /\ wanted' = wanted /\ (edited' => edited) /\ (edited => edited')
      /\ wanted = [dc EXCEPT !.profile = name] /\ acked = dc /\ Known(name)
  BY DEF Rename, FilesInv, TypeInv, SettingsInv, RequestRuns, SavingProfile,
         ProfileKnown, Saving, Files
<1>2. Whole(name).is = "whole" /\ Whole(name).data = name
  BY DEF Whole
<1>3. FilesOK(disk) /\ FilesOK(disk')
  BY DEF FilesInv, TypeInv, Complete, FilesOK
<1>4. l.ok /\ l.ok = dev.ok /\ ConfigOK(dev.dc)
  <2>1. l.ok
    BY DiskLoads DEF SettingsInv
  <2> QED
    BY <1>3, <2>1, RemoteLoads
<1>5. name # Unset
  BY <1>1 DEF TypeInv, DataOK, Saving
<1>6. m.dc = [dev.dc EXCEPT !.profile = name]
  <2>1. m.dc = IF dev.ok /\ disk'["state"].is = "whole"
               THEN [dev.dc EXCEPT !.profile = disk'["state"].data]
               ELSE dev.dc
    BY <1>1, <1>3, RemoteLoads
  <2> QED
    BY <1>1, <1>2, <1>4, <2>1
<1>7. [l.dc EXCEPT !.profile = name] = [dev.dc EXCEPT !.profile = name]
  <2>1. l.dc = IF dev.ok /\ disk["state"].is = "whole"
               THEN [dev.dc EXCEPT !.profile = disk["state"].data]
               ELSE dev.dc
    BY <1>3, RemoteLoads
  <2>2. disk["state"].is = "whole" => disk["state"].data # Unset
    BY <1>3 DEF FilesOK, Files, VersionOK, DataOK
  <2> DEFINE d == dev.dc
             old == disk["state"].data
  <2>3. ConfigOK(d) /\ (l.dc = d \/ (old # Unset /\ l.dc = [d EXCEPT !.profile = old]))
    BY <1>4, <2>1, <2>2
  <2> HIDE DEF d, old, l
  <2>4. CASE l.dc = [d EXCEPT !.profile = old] /\ old # Unset
    <3>1. \A n : [[d EXCEPT !.profile = old] EXCEPT !.profile = n]
                   = [d EXCEPT !.profile = n]
      BY <2>3, <2>4, ProfileChosen
    <3> QED
      BY <2>4, <3>1 DEF d
  <2> QED
    BY <2>3, <2>4 DEF d
<1> HIDE DEF name, l, m, dev
<1>8. AllLoad' /\ NamesStay'
  BY <1>1 DEF SettingsInv, AllLoad, Loads, NamesStay
<1>9. ProfileKnown'
  BY <1>1, <1>2 DEF SettingsInv, ProfileKnown, Known, Saving
<1>10. StateInForce'
  BY <1>1 DEF StateInForce
<1>11. RequestRuns'
  BY <1>1 DEF RequestRuns, SavingProfile, Saving
<1>12. DiskFollows'
  <2> SUFFICES ASSUME ~edited' PROVE m.dc = wanted'
    BY <1>1 DEF DiskFollows, Saving, m
  <2>1. l.dc = acked
    BY <1>1 DEF SettingsInv, DiskFollows, Saving, l
  <2> QED
    BY <1>1, <1>6, <1>7, <2>1
<1> QED
  BY <1>8, <1>9, <1>10, <1>11, <1>12 DEF SettingsInv

\* Every step of a save.
LEMMA SaveSettings ==
  ASSUME FilesInv, TypeInv, FilesInv', TypeInv', SettingsInv, Save
  PROVE  SettingsInv'
<1>1. CASE OpenTmp \/ WriteTmp \/ SyncTmp \/ SaveFails
  BY <1>1, WaitingSettings DEF OpenTmp, WriteTmp, SyncTmp, SaveFails, history, Saving
<1>2. CASE Rename
  BY <1>2, RenameDevice, RenameState DEF FilesInv, Files
<1> QED
  BY <1>1, <1>2 DEF Save

\* The ends of the bus methods, and loads.
LEMMA FinishSettings ==
  ASSUME FilesInv, TypeInv, SettingsInv, Finish \/ Reload \/ OpenRemote
  PROVE  SettingsInv'
<1>1. CASE ReplyProfile \/ remote_rollback \/ Reload
  BY <1>1, LoadedSettings DEF ReplyProfile, remote_rollback, Reload, Apply
<1>2. CASE OpenRemote
  BY <1>2, LoadedSettings DEF OpenRemote
<1>3. CASE ReplySaved \/ FailProfile
  <2>1. /\ disk' = disk /\ stable' = stable /\ dc' = dc /\ pc' = "idle"
        /\ edited' = edited /\ wanted' = dc /\ pc # "down"
        /\ ~(pc = "saved" /\ job.file = "state")
    BY <1>3 DEF ReplySaved, FailProfile, Apply, files
  <2>2. acked' = dc
    BY <1>3 DEF ReplySaved, FailProfile, Apply, SettingsInv, RequestRuns,
                SavingProfile
  <2>3. ~edited => daemon_config_load_remote(disk).dc = dc
    BY <1>3 DEF ReplySaved, FailProfile, SettingsInv, RequestRuns,
                SavingProfile, DiskFollows
  <2>4. AllLoad' /\ NamesStay'
    BY <2>1 DEF SettingsInv, AllLoad, Loads, NamesStay
  <2>5. ProfileKnown'
    BY <2>1 DEF SettingsInv, ProfileKnown, Known, Saving
  <2>6. StateInForce'
    BY <2>1 DEF SettingsInv, StateInForce
  <2>7. RequestRuns'
    BY <2>1, <2>2 DEF RequestRuns, SavingProfile, Saving
  <2>8. DiskFollows'
    BY <2>1, <2>2, <2>3 DEF DiskFollows, Saving
  <2> QED
    BY <2>4, <2>5, <2>6, <2>7, <2>8 DEF SettingsInv
<1> QED
  BY <1>1, <1>2, <1>3 DEF Finish

\* Crashes, power losses, flushes and edits.
LEMMA EnvironmentSettings ==
  ASSUME Careful, FilesInv, TypeInv, SettingsInv, Environment
  PROVE  SettingsInv'
<1>1. CASE Crash
  <2>1. /\ pc \in Saving \union {"idle", "failed", "saved"} /\ pc' = "down"
        /\ UNCHANGED <<disk, stable, dc, edited, acked, wanted>>
    BY <1>1 DEF Crash, files, history, TypeInv
  <2>2. AllLoad' /\ NamesStay'
    BY <2>1 DEF SettingsInv, AllLoad, Loads, NamesStay
  <2>3. ProfileKnown'
    BY <2>1 DEF SettingsInv, ProfileKnown, Known, Saving
  <2>4. StateInForce' /\ RequestRuns'
    BY <2>1 DEF StateInForce, RequestRuns, SavingProfile, Saving
  <2>5. DiskFollows'
    BY <2>1 DEF SettingsInv, DiskFollows, Saving
  <2> QED
    BY <2>2, <2>3, <2>4, <2>5 DEF SettingsInv
<1>2. CASE PowerLoss
  <2>1. /\ disk'["device"] = stable["device"] /\ disk'["state"] = stable["state"]
        /\ stable'["device"] = stable["device"] /\ stable'["state"] = stable["state"]
    BY <1>2 DEF PowerLoss, Survives, FilesInv, Complete, Files
  <2>2. pc' = "down" /\ dc' = dc /\ edited' = TRUE
    BY <1>2 DEF PowerLoss
  <2>3. AllLoad'
    BY <2>1, <2>2 DEF SettingsInv, AllLoad, Loads
  <2>4. NamesStay'
    BY <2>1, <2>2 DEF SettingsInv, NamesStay
  <2>5. ProfileKnown'
    BY <2>1, <2>2 DEF SettingsInv, ProfileKnown, Known, Saving
  <2>6. StateInForce' /\ RequestRuns' /\ DiskFollows'
    BY <2>2 DEF StateInForce, RequestRuns, SavingProfile, Saving, DiskFollows
  <2> QED
    BY <2>3, <2>4, <2>5, <2>6 DEF SettingsInv
<1>3. ASSUME NEW f \in Files, Flush(f) PROVE SettingsInv'
  <2>1. /\ stable'["device"] \in {stable["device"], disk["device"]}
        /\ stable'["state"] \in {stable["state"], disk["state"]}
    BY <1>3 DEF Flush, FilesInv, Files
  <2>2. UNCHANGED <<disk, dc, pc, job, edited, acked, wanted>>
    BY <1>3 DEF Flush, daemon, history
  <2>3. AllLoad'
    BY <2>1, <2>2 DEF SettingsInv, AllLoad, Loads
  <2>4. NamesStay'
    BY <2>1, <2>2 DEF SettingsInv, NamesStay
  <2>5. ProfileKnown'
    BY <2>1, <2>2 DEF SettingsInv, ProfileKnown, Known
  <2>6. StateInForce' /\ DiskFollows'
    BY <2>2 DEF SettingsInv, StateInForce, DiskFollows
  <2>7. RequestRuns'
    BY <2>2 DEF SettingsInv, RequestRuns, SavingProfile
  <2> QED
    BY <2>3, <2>4, <2>5, <2>6, <2>7 DEF SettingsInv
<1>4. ASSUME NEW text \in Texts, Edit(text) PROVE SettingsInv'
  <2>1. /\ disk'["device"] = Whole(text) /\ disk'["state"] = disk["state"]
        /\ stable'["device"] = Whole(text) /\ stable'["state"] = stable["state"]
    BY <1>4 DEF Edit, FilesInv, Files
  <2>2. UNCHANGED <<dc, pc, job, acked, wanted>> /\ edited' = TRUE
    BY <1>4 DEF Edit, daemon
  <2>3. Whole(text).is = "whole" /\ Whole(text).data = text
    BY DEF Whole
  <2>4. FileNames(disk'["device"]) = Names(text)
        /\ FileNames(stable'["device"]) = Names(text)
    BY <2>1, <2>3 DEF FileNames
  <2>5. AllLoad'
    BY <2>1, <2>2, <2>3 DEF SettingsInv, AllLoad, Loads, Careful
  <2>6. NamesStay'
    BY <2>2, <2>4 DEF SettingsInv, NamesStay, Careful
  <2>7. ProfileKnown'
    BY <2>1, <2>2 DEF SettingsInv, ProfileKnown, Known
  <2>8. StateInForce' /\ DiskFollows'
    BY <2>1, <2>2 DEF SettingsInv, StateInForce, DiskFollows
  <2>9. RequestRuns'
    BY <2>2 DEF SettingsInv, RequestRuns, SavingProfile
  <2> QED
    BY <2>5, <2>6, <2>7, <2>8, <2>9 DEF SettingsInv
<1>5. ASSUME NEW path, NEW cal, EditCalib(path, cal) PROVE SettingsInv'
  BY <1>5 DEF EditCalib, files, daemon, history, SettingsInv, AllLoad, Loads,
              NamesStay, ProfileKnown, Known, StateInForce, RequestRuns,
              SavingProfile, DiskFollows
<1> QED
  BY <1>1, <1>2, <1>3, <1>4, <1>5 DEF Environment

\* The machine starts with files that load.
LEMMA SettingsInvInit == Careful /\ Init => SettingsInv
<1> SUFFICES ASSUME Careful, Init PROVE SettingsInv
  OBVIOUS
<1>1. PICK d \in {Absent} \union {Whole(t) : t \in SeedTexts} :
        disk = [device |-> d, state |-> Absent]
  BY DEF Init
<1>2. disk["device"] = d /\ disk["state"].is = "absent" /\ stable = disk
  BY <1>1 DEF Init, Absent
<1>3. dc = device_config_init /\ pc = "down" /\ wanted = acked
      /\ acked = daemon_config_load_remote(disk).dc
  BY DEF Init
<1>4. Loads(d) /\ \A t \in Texts : FileNames(d) \subseteq Names(t) \union {Default}
  <2>1. CASE d = Absent
    BY <2>1 DEF Absent, Loads, FileNames
  <2>2. ASSUME NEW s \in SeedTexts, d = Whole(s)
        PROVE  Loads(d) /\ \A t \in Texts : FileNames(d) \subseteq Names(t) \union {Default}
    <3>1. d.is = "whole" /\ d.data = s
      BY <2>2 DEF Whole
    <3> QED
      BY <3>1 DEF Loads, FileNames, Careful
  <2> QED
    BY <1>1, <2>1, <2>2
<1>5. AllValid(dc) /\ Names(dc) = {} /\ dc.profile = Default
  <2>1. \A i \in 1..0 : FALSE
    OBVIOUS
  <2>2. device_config_init.profile = Default
    BY DEF device_config_init
  <2> QED
    BY <1>3, <2>1, <2>2, BuiltInConfig DEF AllValid, Names
<1>6. AllLoad /\ NamesStay
  BY <1>2, <1>4, <1>5 DEF AllLoad, NamesStay
<1>7. ProfileKnown /\ StateInForce
  BY <1>2, <1>3, <1>5 DEF ProfileKnown, Known, StateInForce, Saving
<1>8. RequestRuns /\ DiskFollows
  BY <1>3 DEF RequestRuns, SavingProfile, Saving, DiskFollows
<1> QED
  BY <1>6, <1>7, <1>8 DEF SettingsInv

\* The settings invariant is inductive.
LEMMA SettingsInvNext ==
  /\ Careful /\ FilesInv /\ TypeInv /\ SettingsInv
  /\ [Next]_vars /\ FilesInv' /\ TypeInv'
  => SettingsInv'
<1> SUFFICES ASSUME Careful, FilesInv, TypeInv, SettingsInv, [Next]_vars,
                    FilesInv', TypeInv'
             PROVE  SettingsInv'
  OBVIOUS
<1>1. CASE UNCHANGED vars
  BY <1>1 DEF vars, files, daemon, history, SettingsInv, AllLoad, Loads,
              NamesStay, ProfileKnown, Known, StateInForce, RequestRuns,
              SavingProfile, DiskFollows
<1> QED
  BY <1>1, RequestSettings, SaveSettings, FinishSettings, EnvironmentSettings
     DEF Next

\* The invariant holds in every reachable state.
THEOREM SettingsInvariant == Careful => (Spec => []SettingsInv)
<1> SUFFICES ASSUME Careful PROVE Spec => []SettingsInv
  OBVIOUS
<1>1. Init => SettingsInv
  BY SettingsInvInit
<1>2. /\ FilesInv /\ TypeInv /\ SettingsInv
      /\ [Next]_vars /\ FilesInv' /\ TypeInv'
      => SettingsInv'
  BY SettingsInvNext
<1> QED
  BY <1>1, <1>2, FilesInvariant, TypeInvariant, PTL DEF Spec

\* Between two requests the configuration in memory is the one the next start
\* loads, whatever saves failed and whenever the daemon or the machine died.
THEOREM SettingsArePersistent == Careful => (Spec => []SettingsPersist)
<1>1. SettingsInv => SettingsPersist
  BY DEF SettingsInv, DiskFollows, RequestRuns, SettingsPersist
<1> QED
  BY <1>1, SettingsInvariant, PTL

\* A daemon that dies in the middle of a request starts again with the
\* settings from before it or those it asked for.
THEOREM RestartsKeepSettings == Careful => (Spec => []RestartKeepsSettings)
<1>1. SettingsInv => RestartKeepsSettings
  BY DEF SettingsInv, DiskFollows, RestartKeepsSettings
<1> QED
  BY <1>1, SettingsInvariant, PTL
=============================================================================
