----------------------------- MODULE MCDevices -----------------------------
(***************************************************************************)
(* Remotes for TLC.  a is the first remote's keyboard, ai its IMU; b and   *)
(* bi belong to a second one, which shows no MAC.  Three nodes are enough  *)
(* for a keyboard that comes back elsewhere while its IMU stays.  Where    *)
(* both remotes are around there is a fourth: with both keyboards and an   *)
(* IMU open, b may come back at a path nobody had.                         *)
(***************************************************************************)
EXTENDS Devices, TLC

CONSTANTS a, ai, b, bi, macA, macB, e1, e2, e3, e4

\* One remote that may come back at another path.
OneInputs == {a, ai}
OneKind == a :> "kbd" @@ ai :> "imu"
OneUniq == a :> macA @@ ai :> macA
OneHomes == a :> {e1, e2} @@ ai :> {e2, e3}

AmbInputs == {a, b, ai, bi}
AmbKind == a :> "kbd" @@ b :> "kbd" @@ ai :> "imu" @@ bi :> "imu"
AmbUniq == a :> macA @@ ai :> macA @@ b :> NoUniq @@ bi :> NoUniq
AmbHomes == a :> {e1, e2} @@ b :> {e2, e4} @@ ai :> {e3} @@ bi :> {e3}

\* Two remotes told apart by MAC, the first with an IMU.
TwoInputs == {a, b, ai}
TwoKind == a :> "kbd" @@ b :> "kbd" @@ ai :> "imu"
TwoHomes == a :> {e1, e2} @@ b :> {e2} @@ ai :> {e3}
TwoUniq == a :> macA @@ b :> macB @@ ai :> macA

Order == <<e2, e1, e3>>
AmbOrder == <<e2, e1, e3, e4>>
=============================================================================
