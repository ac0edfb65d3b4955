---------------------------- MODULE KernelDriver ----------------------------
(***************************************************************************)
(* The HID driver (kernel/lgmagic_main.c): lgmagic_raw_event decodes one   *)
(* report into key, wheel and pointer events of the keyboard device while  *)
(* module parameters, writable through sysfs (mode 0644), change under it. *)
(*                                                                         *)
(* A parameter is read where the code reads it, and a write may fall       *)
(* between two reads of one report: nothing locks them against each other. *)
(* The reads of key_0x8000 in lgmagic_btn_keycode are taken as one.        *)
(* probe and remove exclude raw_event (the HID core's driver_input_lock).  *)
(* The values of the IMU half of a report are passed on as they are; kept  *)
(* here is whether they reach a device that exists.                        *)
(***************************************************************************)
EXTENDS Integers

CONSTANTS
  Buttons, NoButton,     \* button codes of a report, and 0
  WheelPress, ModelDep,  \* LGMAGIC_CODE_WHEEL, LGMAGIC_CODE_MODELDEP
  Codes, NoKey,          \* key codes up to KEY_MAX, and KEY_RESERVED
  KeyUp, KeyDown, BtnLeft,
  Table,                 \* lg_btn_map: the first entry of each button it has
  Overrides              \* what is written to key_0x8000

ASSUME DriverAssumption ==
  /\ NoButton \notin Buttons /\ NoKey \notin Codes
  /\ {KeyUp, KeyDown, BtnLeft} \subseteq Codes
  /\ {WheelPress, ModelDep} \subseteq DOMAIN Table
  /\ WheelPress # ModelDep
  /\ DOMAIN Table \subseteq Buttons
  /\ \A b \in DOMAIN Table : Table[b] \in Codes

VARIABLES
  param,      \* raw_only, airmouse, imu_evdev and key_0x8000
  bound,      \* probed and not removed
  calibrated, \* drvdata->calib is not all zero
  keybit,     \* key codes the input device was registered with
  imuNode,    \* the IMU device is registered
  keys,       \* keys down, kept by the input core
  lastBtn, lastKey, mode,  \* drvdata
  pc, report, reporting,   \* lgmagic_raw_event and its locals
  pending,    \* events of the keyboard device not followed by a sync
  heldRaw,    \* raw_only has been on since the button last changed
  boundRaw,   \* raw_only has been on since the probe
  imuLost     \* the IMU half of a report since the probe reached no device

drvdata == <<bound, calibrated, keybit, imuNode>>
history == <<heldRaw, boundRaw, imuLost>>
vars == <<param, drvdata, keys, lastBtn, lastKey, mode, pc, report, reporting,
          pending, history>>

NoReport == [btn |-> NoButton, wheel |-> 0, big |-> FALSE, shift |-> FALSE]

\* An override that is no key code falls back to the table.
BtnKeycodeUnchecked(b) == IF b = ModelDep THEN param.model ELSE Table[b]
lgmagic_btn_keycode(b) ==
  IF b = ModelDep /\ param.model \in Codes \union {NoKey}
  THEN param.model ELSE Table[b]

\* input_report_key: the input core drops codes the device does not have.
Report(down, code, value) ==
  IF code \notin keybit THEN down
  ELSE IF value = 1 THEN down \union {code} ELSE down \ {code}

-----------------------------------------------------------------------------
(***************************************************************************)
(* Probe, remove, sysfs.                                                   *)
(***************************************************************************)

\* Mutant: the IMU device is registered for imu_evdev only.
ImuWantedByFlag == param.imu

\* Read at the probe for the registration, and for every report.
ImuWanted == param.imu \/ param.raw

\* The zeroed drvdata; the firmware blob of the remote's MAC, the generic one
\* when there is none; the two devices.  lgmagic_load_fw also answers 0
\* for a blob that is too short or not valid, so the generic one does not
\* stand in for it.  BTN_LEFT is in the table a second time; registration
\* clears KEY_RESERVED.
lgmagic_probe(own, generic) ==
  /\ ~bound
  /\ bound' = TRUE
  /\ calibrated' = ("valid" = IF own # "none" THEN own ELSE generic)
  /\ keybit' = ({lgmagic_btn_keycode(b) : b \in DOMAIN Table}
                  \union {BtnLeft}) \ {NoKey}
  /\ imuNode' = ImuWanted
  /\ lastBtn' = NoButton /\ lastKey' = NoKey /\ mode' = FALSE
  /\ heldRaw' = param.raw /\ boundRaw' = param.raw /\ imuLost' = FALSE
  /\ UNCHANGED <<param, keys, pc, report, reporting, pending>>

\* The input devices go, and with them the keys that are down.
lgmagic_remove ==
  /\ bound /\ pc = "idle"
  /\ bound' = FALSE
  /\ keys' = {}
  /\ lastBtn' = NoButton /\ lastKey' = NoKey
  /\ imuNode' = FALSE
  /\ UNCHANGED <<param, calibrated, keybit, mode, pc, report, reporting,
                 pending, history>>

WriteParam(p, v) ==
  /\ param' = [param EXCEPT ![p] = v]
  /\ heldRaw' = (heldRaw /\ param'.raw)
  /\ boundRaw' = (boundRaw /\ param'.raw)
  /\ UNCHANGED <<drvdata, keys, lastBtn, lastKey, mode, pc, report, reporting,
                 pending, imuLost>>

-----------------------------------------------------------------------------
(***************************************************************************)
(* lgmagic_raw_event: buttons, wheel, motion, IMU, one after the other.    *)
(***************************************************************************)

\* A report of 20 bytes; anything else is ignored.  What lgmagic_calc_mouse
\* makes of its gyroscope is open, except that a zeroed calibration yields
\* no motion.
Receive(b, w, big, shift) ==
  /\ bound /\ pc = "idle"
  /\ calibrated \/ (~big /\ ~shift)
  /\ report' = [btn |-> b, wheel |-> w, big |-> big, shift |-> shift]
  /\ reporting' = FALSE
  /\ pc' = "button"
  /\ UNCHANGED <<param, drvdata, keys, lastBtn, lastKey, mode, pending, history>>

SameButton ==
  /\ pc = "button" /\ report.btn = lastBtn
  /\ pc' = "wheel"
  /\ UNCHANGED <<param, drvdata, keys, lastBtn, lastKey, mode, report, reporting,
                 pending, history>>

\* The key reported last is released, whatever its button would be now.
ReleasedByButton ==
  IF lastBtn \in DOMAIN Table
  THEN Report(keys, lgmagic_btn_keycode(lastBtn), 0) ELSE keys
Released == Report(keys, lastKey, 0)

Changed ==
  /\ pc = "button" /\ report.btn # lastBtn
  /\ lastBtn' = report.btn
  /\ reporting' = TRUE
  /\ pending' = TRUE
  /\ heldRaw' = param.raw
  /\ pc' = "wheel"
  /\ UNCHANGED <<param, drvdata, report, boundRaw, imuLost>>

\* No button any more, or one that is not in the table.
ReleaseButton ==
  /\ Changed
  /\ report.btn \notin DOMAIN Table
  /\ keys' = Released
  /\ lastKey' = NoKey
  /\ UNCHANGED mode

\* A button of the table: the wheel clicks in mouse mode, every other button
\* leaves that mode.
PressButton ==
  /\ Changed
  /\ report.btn \in DOMAIN Table
  /\ LET click == report.btn = WheelPress /\ mode /\ ~param.raw
         code == IF click THEN BtnLeft ELSE lgmagic_btn_keycode(report.btn)
     IN  /\ keys' = Report(Released, code, 1)
         /\ lastKey' = code
         /\ mode' = click

Button == SameButton \/ ReleaseButton \/ PressButton

\* REL_WHEEL, or a stroke of the UP or DOWN key.
WheelWith(asKey) ==
  /\ pc = "wheel"
  /\ LET code == IF report.wheel > 0 THEN KeyUp ELSE KeyDown
     IN  keys' = IF report.wheel # 0 /\ asKey
                 THEN Report(Report(keys, code, 1), code, 0) ELSE keys
  /\ pending' = (pending \/ report.wheel # 0)
  /\ reporting' = (reporting \/ report.wheel # 0)
  /\ pc' = "motion"
  /\ UNCHANGED <<param, drvdata, lastBtn, lastKey, mode, report, history>>
WheelAlwaysKeys == WheelWith(~mode)
Wheel == WheelWith(~param.raw /\ ~mode)

\* The air mouse, then the sync of what was reported.
MotionWith(on, sync) ==
  /\ pc = "motion"
  /\ LET moved == on /\ report.shift
     IN  /\ mode' = (mode \/ (on /\ report.big))
         /\ reporting' = (reporting \/ moved)
         /\ pending' = ((pending \/ (moved /\ mode')) /\ ~(sync /\ reporting'))
  /\ pc' = "imu"
  /\ report' = NoReport
  /\ UNCHANGED <<param, drvdata, keys, lastBtn, lastKey, history>>
MotionIgnoresRaw == MotionWith(param.air, TRUE)
MotionSyncsMovesOnly == MotionWith(param.air /\ ~param.raw, report.shift)
Motion == MotionWith(param.air /\ ~param.raw, TRUE)

\* The IMU half: dropped, or sent to the IMU device, whether or not it is
\* registered.
Imu ==
  /\ pc = "imu"
  /\ imuLost' = (imuLost \/ ~(ImuWanted /\ imuNode))
  /\ pc' = "idle"
  /\ UNCHANGED <<param, drvdata, keys, lastBtn, lastKey, mode, report, reporting,
                 pending, heldRaw, boundRaw>>

Init ==
  /\ param \in [raw : BOOLEAN, air : BOOLEAN, imu : BOOLEAN, model : Overrides]
  /\ bound = FALSE /\ calibrated = FALSE /\ imuNode = FALSE /\ imuLost = FALSE
  /\ keybit = {} /\ keys = {}
  /\ lastBtn = NoButton /\ lastKey = NoKey /\ mode = FALSE
  /\ pc = "idle" /\ report = NoReport /\ reporting = FALSE /\ pending = FALSE
  /\ heldRaw = FALSE /\ boundRaw = FALSE

Blobs == {"none", "rejected", "valid"}

Sysfs ==
  \/ \E p \in {"raw", "air", "imu"}, v \in BOOLEAN : WriteParam(p, v)
  \/ \E v \in Overrides : WriteParam("model", v)

Next ==
  \/ \E own, generic \in Blobs : lgmagic_probe(own, generic)
  \/ lgmagic_remove
  \/ Sysfs
  \/ \E b \in Buttons \union {NoButton}, w \in {-1, 0, 1}, big, shift \in BOOLEAN :
       Receive(b, w, big, shift)
  \/ Button \/ Wheel \/ Motion \/ Imu

Spec == Init /\ [][Next]_vars

-----------------------------------------------------------------------------
(***************************************************************************)
(* Properties.                                                             *)
(***************************************************************************)

\* Types; in particular the driver never reports a value outside the key
\* codes, whatever is written to key_0x8000.
TypeOK ==
  /\ param \in [raw : BOOLEAN, air : BOOLEAN, imu : BOOLEAN, model : Overrides]
  /\ bound \in BOOLEAN /\ calibrated \in BOOLEAN
  /\ keybit \subseteq Codes /\ keys \subseteq keybit
  /\ lastBtn \in Buttons \union {NoButton}
  /\ lastKey \in Codes \union {NoKey}
  /\ mode \in BOOLEAN
  /\ pc \in {"idle", "button", "wheel", "motion", "imu"}
  /\ report \in [btn : Buttons \union {NoButton}, wheel : {-1, 0, 1},
                 big : BOOLEAN, shift : BOOLEAN]
  /\ reporting \in BOOLEAN /\ pending \in BOOLEAN
  /\ heldRaw \in BOOLEAN /\ boundRaw \in BOOLEAN
  /\ imuNode \in BOOLEAN /\ imuLost \in BOOLEAN

\* Whatever parameter changes while a button is down, the key that is down
\* is the one its release will name, and without a button no key is down.
KeyBelongsToButton ==
  /\ keys \subseteq {lastKey}
  /\ lastBtn = NoButton => keys = {}

\* With raw_only the wheel is never a key: turning it while UP or DOWN is
\* held does not release that key (the comment at the wheel branch).
HeldKeyStaysDown ==
  heldRaw /\ lastKey \in keybit => lastKey \in keys

\* keymap.c: "with raw_only=1 the mode never engages, so the daemon always
\* sees KEY_ENTER for the wheel press".
RawNeverMouse ==
  boundRaw => /\ ~mode
              /\ lastBtn = WheelPress => lastKey = Table[WheelPress]

\* When a report has been handled every event it caused has been synced: a
\* reader never waits for the next report to see a release or a detent.
ReportsAreSynced == pc = "idle" => ~pending

\* "The daemon needs the raw IMU stream": in raw mode since the probe, every
\* report that was handled has reached a registered IMU device, whatever
\* happened to imu_evdev meanwhile.  (Raw mode switched on later has no IMU
\* device: the registration is decided at the probe.)
RawImuComplete == bound /\ boundRaw => imuNode /\ ~imuLost
=============================================================================
