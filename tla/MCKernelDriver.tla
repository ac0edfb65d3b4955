--------------------------- MODULE MCKernelDriver ---------------------------
(***************************************************************************)
(* The driver for TLC: the wheel press, the model-dependent button, UP,    *)
(* DOWN and a button that is not in the table; key_0x8000 can name a key   *)
(* of the table (UP), one that is not in it, KEY_RESERVED and no key code  *)
(* at all.                                                                 *)
(***************************************************************************)
EXTENDS KernelDriver, TLC

CONSTANTS wheel, power, up, dn, unknown, enter, channel, kpower, bad

MCTable == wheel :> enter @@ power :> kpower @@ up :> KeyUp @@ dn :> KeyDown
=============================================================================
