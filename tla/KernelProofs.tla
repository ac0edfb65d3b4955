---------------------------- MODULE KernelProofs ----------------------------
(***************************************************************************)
(* Proofs about KernelDriver, for any button table, key codes and values   *)
(* of key_0x8000.                                                          *)
(***************************************************************************)
EXTENDS KernelDriver, TLAPS

\* What is down is what lastKey names, and lastKey is set only while a
\* button of the table is down.
KeyRemembered ==
  /\ keys \subseteq {lastKey}
  /\ lastBtn \notin DOMAIN Table => lastKey = NoKey

\* raw_only is on as long as the two histories say so, and while it is the
\* driver neither takes a key away nor enters the mouse mode.
RawHistory ==
  /\ heldRaw \/ boundRaw => param.raw
  /\ heldRaw /\ lastKey \in keybit => lastKey \in keys
  /\ boundRaw => ~mode /\ (lastBtn = WheelPress => lastKey = Table[WheelPress])

\* An event that waits for its sync has set the local flag.
SyncOwed ==
  /\ pending => pc \notin {"idle", "imu"} /\ reporting
  /\ pc = "button" => ~reporting

\* A device that is not bound handles no report.
Unbound == ~bound => pc = "idle" /\ lastBtn = NoButton /\ keys = {}

\* What raw mode at the probe has promised of the IMU stream.
ImuKept == bound /\ boundRaw => imuNode /\ ~imuLost

IInv == TypeOK /\ KeyRemembered /\ RawHistory /\ SyncOwed /\ Unbound /\ ImuKept

\* input_report_key keeps to the codes of the device.
LEMMA ReportFacts ==
  ASSUME keybit \subseteq Codes, NEW down, down \subseteq keybit,
         NEW code, NEW value \in {0, 1}
  PROVE  /\ Report(down, code, value) \subseteq keybit
         /\ value = 0 => Report(down, code, value) = down \ {code}
         /\ value = 1 => /\ Report(down, code, value) \subseteq down \union {code}
                         /\ down \subseteq Report(down, code, value)
                         /\ code \in keybit => code \in Report(down, code, value)
  BY DEF Report

\* The keycode of a table button is a key code or KEY_RESERVED, the table's
\* own for every button but the model-dependent one.
LEMMA BtnKeycodeFacts ==
  ASSUME NEW b \in DOMAIN Table
  PROVE  /\ lgmagic_btn_keycode(b) \in Codes \union {NoKey}
         /\ b # ModelDep => lgmagic_btn_keycode(b) = Table[b]
  BY DriverAssumption DEF lgmagic_btn_keycode

\* NoButton is not in the table, NoKey not on the device.
LEMMA NothingFacts ==
  /\ NoButton \notin DOMAIN Table
  /\ NoButton # WheelPress
  /\ TypeOK => NoKey \notin keybit
  BY DriverAssumption DEF TypeOK

\* The driver starts unbound, with nothing down.
LEMMA IInvInit == Init => IInv
<1> SUFFICES ASSUME Init PROVE IInv
  OBVIOUS
<1>1. TypeOK
  BY DEF Init, TypeOK, NoReport
<1>2. KeyRemembered /\ RawHistory /\ SyncOwed /\ Unbound /\ ImuKept
  BY DEF Init, KeyRemembered, RawHistory, SyncOwed, Unbound, ImuKept
<1> QED
  BY <1>1, <1>2 DEF IInv

\* A probe starts from a zeroed drvdata and a device with no key down.
LEMMA ProbeStep ==
  ASSUME IInv, NEW own, NEW generic, lgmagic_probe(own, generic)
  PROVE  IInv'
<1>1. keybit' \subseteq Codes /\ keys' = {} /\ pc' = "idle"
  BY BtnKeycodeFacts, DriverAssumption DEF lgmagic_probe, IInv, Unbound
<1>2. TypeOK' /\ ImuKept'
  BY <1>1, ZenonT(40) DEF IInv, TypeOK, ImuKept, ImuWanted, lgmagic_probe
<1>3. KeyRemembered' /\ RawHistory' /\ SyncOwed' /\ Unbound'
  BY <1>1, DriverAssumption
     DEF IInv, TypeOK, KeyRemembered, RawHistory, SyncOwed, Unbound, lgmagic_probe
<1> QED
  BY <1>2, <1>3 DEF IInv

\* A remove takes the device and its keys away.
LEMMA RemoveStep ==
  ASSUME IInv, lgmagic_remove
  PROVE  IInv'
<1>1. TypeOK'
  <2>1. /\ bound' \in BOOLEAN /\ keys' \subseteq keybit'
        /\ lastBtn' \in Buttons \union {NoButton}
        /\ lastKey' \in Codes \union {NoKey} /\ imuNode' \in BOOLEAN
    BY DEF lgmagic_remove
  <2>2. UNCHANGED <<param, calibrated, keybit, mode, pc, report, reporting,
                    pending, heldRaw, boundRaw, imuLost>>
    BY DEF lgmagic_remove, history
  <2> QED
    BY <2>1, <2>2 DEF IInv, TypeOK
<1>2. KeyRemembered' /\ SyncOwed' /\ Unbound' /\ ImuKept'
  BY DEF IInv, KeyRemembered, SyncOwed, Unbound, ImuKept, lgmagic_remove
<1>3. RawHistory'
  BY NothingFacts DEF IInv, RawHistory, lgmagic_remove, history
<1> QED
  BY <1>1, <1>2, <1>3 DEF IInv

\* A parameter write changes no key; it can only end the raw histories.
LEMMA SysfsStep ==
  ASSUME IInv, Sysfs
  PROVE  IInv'
<1> USE DEF drvdata
<1>1. ASSUME NEW p \in {"raw", "air", "imu", "model"}, NEW v, WriteParam(p, v),
             p # "model" => v \in BOOLEAN, p = "model" => v \in Overrides
      PROVE  IInv'
  <2>1. TypeOK'
    <3>1. param' \in [raw : BOOLEAN, air : BOOLEAN, imu : BOOLEAN,
                      model : Overrides]
      BY <1>1 DEF IInv, TypeOK, WriteParam
    <3>2. heldRaw' \in BOOLEAN /\ boundRaw' \in BOOLEAN
      BY <1>1, Zenon DEF WriteParam
    <3>3. UNCHANGED <<bound, calibrated, keybit, imuNode, keys, lastBtn, lastKey,
                      mode, pc, report, reporting, pending, imuLost>>
      BY <1>1 DEF WriteParam
    <3> QED
      BY <3>1, <3>2, <3>3 DEF IInv, TypeOK
  <2>2. KeyRemembered' /\ SyncOwed' /\ Unbound'
    BY <1>1 DEF IInv, KeyRemembered, SyncOwed, Unbound, WriteParam
  <2>3. RawHistory' /\ ImuKept'
    BY <1>1 DEF IInv, TypeOK, RawHistory, ImuKept, WriteParam
  <2> QED
    BY <2>1, <2>2, <2>3 DEF IInv
<1> QED
  BY <1>1 DEF Sysfs

\* A report that arrives finds everything synced and resets the flag.
LEMMA ReceiveStep ==
  ASSUME IInv, NEW b \in Buttons \union {NoButton}, NEW w \in {-1, 0, 1},
         NEW big \in BOOLEAN, NEW shift \in BOOLEAN, Receive(b, w, big, shift)
  PROVE  IInv'
<1> USE DEF drvdata, history
<1>1. TypeOK'
  <2>1. report' \in [btn : Buttons \union {NoButton}, wheel : {-1, 0, 1},
                     big : BOOLEAN, shift : BOOLEAN]
    BY Zenon DEF Receive
  <2>2. reporting' \in BOOLEAN /\ pc' = "button"
    BY DEF Receive
  <2>3. UNCHANGED <<param, bound, calibrated, keybit, imuNode, keys, lastBtn,
                    lastKey, mode, pending, heldRaw, boundRaw, imuLost>>
    BY DEF Receive
  <2> QED
    BY <2>1, <2>2, <2>3 DEF IInv, TypeOK
<1>2. KeyRemembered' /\ RawHistory' /\ SyncOwed' /\ Unbound' /\ ImuKept'
  BY DEF IInv, TypeOK, KeyRemembered, RawHistory, SyncOwed, Unbound, ImuKept,
         Receive
<1> QED
  BY <1>1, <1>2 DEF IInv

\* The release names the one key that can be down, so only the new key is.
LEMMA ButtonStep ==
  ASSUME IInv, Button
  PROVE  IInv'
<1> USE DEF drvdata, history
<1>1. CASE SameButton
  BY <1>1 DEF IInv, TypeOK, KeyRemembered, RawHistory, SyncOwed, Unbound,
              ImuKept, SameButton
<1>2. Released \subseteq keybit /\ Released = {}
  <2>1. Released = keys \ {lastKey}
    BY ReportFacts DEF IInv, TypeOK, Released
  <2> QED
    BY <2>1 DEF IInv, KeyRemembered
<1>3. CASE ReleaseButton
  BY <1>2, <1>3, DriverAssumption
     DEF IInv, TypeOK, KeyRemembered, RawHistory, SyncOwed, Unbound, ImuKept,
         ReleaseButton, Changed
<1>4. CASE PressButton
  <2> DEFINE click == report.btn = WheelPress /\ mode /\ ~param.raw
             code == IF click THEN BtnLeft ELSE lgmagic_btn_keycode(report.btn)
  <2>1. code \in Codes \union {NoKey}
    BY <1>4, BtnKeycodeFacts, DriverAssumption DEF PressButton
  <2>2. /\ keys' \subseteq keybit /\ keys' \subseteq {code}
        /\ code \in keybit => code \in keys'
        /\ lastKey' = code /\ mode' = click
    <3>1. keys' = Report(Released, code, 1) /\ lastKey' = code /\ mode' = click
      BY <1>4 DEF PressButton
    <3>2. keybit \subseteq Codes
      BY DEF IInv, TypeOK
    <3> HIDE DEF code
    <3> QED
      BY <1>2, <3>1, <3>2, ReportFacts
  <2>3. TypeOK'
    BY <1>4, <2>1, <2>2, DriverAssumption DEF IInv, TypeOK, PressButton, Changed
  <2>4. KeyRemembered' /\ SyncOwed' /\ Unbound' /\ ImuKept'
    BY <1>4, <2>2, DriverAssumption
       DEF IInv, KeyRemembered, SyncOwed, Unbound, ImuKept, PressButton, Changed
  <2>5. RawHistory'
    BY <1>4, <2>2, BtnKeycodeFacts, DriverAssumption
       DEF IInv, TypeOK, RawHistory, Unbound, PressButton, Changed
  <2> QED
    BY <2>3, <2>4, <2>5 DEF IInv
<1> QED
  BY <1>1, <1>3, <1>4 DEF Button

\* An emulated stroke adds no key, and there is none in raw mode.
LEMMA WheelStep ==
  ASSUME IInv, Wheel
  PROVE  IInv'
<1> USE DEF drvdata, history
<1>1. /\ keys' \subseteq keys
      /\ param.raw => keys' = keys
  <2>1. ASSUME NEW code
        PROVE  Report(Report(keys, code, 1), code, 0) \subseteq keys
    <3>1. keybit \subseteq Codes /\ keys \subseteq keybit
      BY DEF IInv, TypeOK
    <3>2. Report(keys, code, 1) \subseteq keybit
          /\ Report(keys, code, 1) \subseteq keys \union {code}
      BY <3>1, ReportFacts
    <3> QED
      BY <3>1, <3>2, ReportFacts
  <2> QED
    BY <2>1 DEF Wheel, WheelWith
<1>2. TypeOK'
  BY <1>1 DEF IInv, TypeOK, Wheel, WheelWith
<1>3. KeyRemembered' /\ SyncOwed'
  BY <1>1 DEF IInv, TypeOK, KeyRemembered, SyncOwed, Wheel, WheelWith
<1>4. RawHistory' /\ Unbound' /\ ImuKept'
  BY <1>1 DEF IInv, RawHistory, Unbound, ImuKept, Wheel, WheelWith
<1> QED
  BY <1>2, <1>3, <1>4 DEF IInv

\* Motion enters the mouse mode only outside raw mode and syncs what waits.
LEMMA MotionStep ==
  ASSUME IInv, Motion
  PROVE  IInv'
<1> USE DEF drvdata, history, NoReport
<1>1. TypeOK'
  <2>1. mode' \in BOOLEAN /\ reporting' \in BOOLEAN /\ pending' \in BOOLEAN
    BY Zenon DEF Motion, MotionWith
  <2> QED
    BY <2>1 DEF IInv, TypeOK, Motion, MotionWith
<1>2. KeyRemembered' /\ SyncOwed'
  BY DEF IInv, TypeOK, KeyRemembered, SyncOwed, Motion, MotionWith
<1>3. RawHistory' /\ Unbound' /\ ImuKept'
  BY DEF IInv, TypeOK, RawHistory, Unbound, ImuKept, Motion, MotionWith
<1> QED
  BY <1>1, <1>2, <1>3 DEF IInv

\* In raw mode the IMU half is sent, to the device the probe registered.
LEMMA ImuStep ==
  ASSUME IInv, Imu
  PROVE  IInv'
<1> USE DEF drvdata
<1>1. TypeOK' /\ KeyRemembered' /\ SyncOwed' /\ RawHistory' /\ Unbound'
  BY DEF IInv, TypeOK, KeyRemembered, SyncOwed, RawHistory, Unbound, Imu
<1>2. ImuKept'
  <2>1. ASSUME bound, boundRaw PROVE ImuWanted /\ imuNode /\ ~imuLost
    BY <2>1 DEF IInv, RawHistory, ImuKept, ImuWanted
  <2> QED
    BY <2>1 DEF ImuKept, Imu
<1> QED
  BY <1>1, <1>2 DEF IInv

\* Every step keeps the invariant.
LEMMA IInvNext == IInv /\ [Next]_vars => IInv'
<1> SUFFICES ASSUME IInv, [Next]_vars PROVE IInv'
  OBVIOUS
<1>1. CASE Next
  BY <1>1, ProbeStep, RemoveStep, SysfsStep, ReceiveStep, ButtonStep, WheelStep,
     MotionStep, ImuStep DEF Next
<1>2. CASE UNCHANGED vars
  BY <1>2 DEF IInv, TypeOK, KeyRemembered, RawHistory, SyncOwed, Unbound,
              ImuKept, vars, drvdata, history
<1> QED
  BY <1>1, <1>2

\* The inductive invariant holds in every reachable state of the driver.
THEOREM Inductive == Spec => []IInv
  BY IInvInit, IInvNext, PTL DEF Spec

\* Type correctness of the driver: no value of key_0x8000 makes it report
\* anything but a key code.
THEOREM TypeCorrect == Spec => []TypeOK
<1>1. IInv => TypeOK
  BY DEF IInv
<1> QED
  BY <1>1, Inductive, PTL

\* No key sticks in the driver: a key is down only while its button is, and
\* the release of the button names it, whatever parameter changed meanwhile.
THEOREM NoKeySticksInDriver == Spec => []KeyBelongsToButton
<1>1. IInv => KeyBelongsToButton
  BY DriverAssumption DEF IInv, TypeOK, KeyRemembered, KeyBelongsToButton
<1> QED
  BY <1>1, Inductive, PTL

\* In raw mode the wheel takes no held key away.
THEOREM WheelKeepsKeys == Spec => []HeldKeyStaysDown
<1>1. IInv => HeldKeyStaysDown
  BY DEF IInv, RawHistory, HeldKeyStaysDown
<1> QED
  BY <1>1, Inductive, PTL

\* In raw mode the mouse mode never engages and the wheel press is the
\* table's key.
THEOREM RawModeIsRaw == Spec => []RawNeverMouse
<1>1. IInv => RawNeverMouse
  BY DEF IInv, RawHistory, RawNeverMouse
<1> QED
  BY <1>1, Inductive, PTL

\* Every report ends with its events synced.
THEOREM EventsAreSynced == Spec => []ReportsAreSynced
<1>1. IInv => ReportsAreSynced
  BY DEF IInv, SyncOwed, ReportsAreSynced
<1> QED
  BY <1>1, Inductive, PTL

\* In raw mode since the probe no report's IMU half is lost on its way to
\* the daemon's device, whatever is written to imu_evdev.
THEOREM RawImuReachesDaemon == Spec => []RawImuComplete
<1>1. IInv => RawImuComplete
  BY DEF IInv, ImuKept, RawImuComplete
<1> QED
  BY <1>1, Inductive, PTL
=============================================================================
