-------------------------- MODULE MCConfigDaemon ---------------------------
(***************************************************************************)
(* ConfigDaemon for TLC: two profiles, device files an administrator would *)
(* write.                                                                  *)
(***************************************************************************)
EXTENDS ConfigDaemon

Text(profile, airmouse, profiles) ==
  [profile |-> profile, calib |-> Unset, airmouse |-> airmouse,
   profiles |-> profiles]

Section(name, val) == [name |-> name, val |-> val, map |-> << >>]

Tv == Section("tv", [sens |-> 60, lpf |-> 50])
Plain == Section("default", [scroll |-> 3])

\* Two profiles, in either order, the second one active in one of them.
TwoProfiles ==
  {Text(Unset, Unset, <<Plain, Tv>>), Text("tv", FALSE, <<Tv, Plain>>)}

Nothing == {}

=============================================================================
