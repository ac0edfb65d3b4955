------------------------------ MODULE MCSetup ------------------------------
(***************************************************************************)
(* Small instances of Setup: two runs of the wizard on every kind of host, *)
(* and `lgmagic config` on every kind of configuration file, alone and     *)
(* beside one run of the wizard.                                           *)
(***************************************************************************)
EXTENDS Setup, TLC

MCBuiltin == ("alpha" :> 2) @@ ("mouse_k" :> 2) @@ ("mouse_scale" :> 3)
MCNumeral == ("1" :> 1) @@ ("nan" :> 7)

\* 5 has more than four digits, 6 more than fifteen; 7 is not finite.
MCFifteenDigits == [n \in 0..7 |-> IF n = 6 THEN 5 ELSE n]
MCFourDigits == [n \in 0..7 |-> IF n \in {5, 6} THEN 4 ELSE n]

MCExtras == {Missing, Table("mouse_scale" :> <<"int", 4>>)}

Host(hid, sysfs, evdev) == [hid |-> hid, sysfs |-> sysfs, evdev |-> evdev]

Hosts == {Host("none", FALSE, "none"), Host("mac", TRUE, "none"),
          Host("mac", TRUE, "mac"), Host("mac", FALSE, "none")}

Files(etc, root, user) == [loc \in Locations |-> IF loc = "etc" THEN etc
                                                ELSE IF loc = "root" THEN root ELSE user]

NoFiles == Files(Missing, Missing, Missing)
UserTable == Table(("accel_gate" :> <<"bool", FALSE>>) @@ ("alpha" :> <<"float", 5>>)
                         @@ ("mouse_scale" :> <<"float", 6>>))
SystemTable == Table(("default_calib" :> <<"str", "p">>) @@ ("accel_gate" :> <<"int", 0>>))
OddTable == Table(("mouse_scale" :> <<"str", "x">>) @@ ("default_calib" :> <<"str", "">>)
                      @@ ("mouse_k" :> <<"float", 7>>))
V1Table == Table(("alpha" :> <<"num", 6>>) @@ ("default_calib" :> <<"str", "q">>)
                     @@ ("mouse_k" :> <<"other", None>>))

Accounts == {<<"root", "root">>, <<"root", "user">>, <<"user", "user">>}

WizardTwice ==
    {[host |-> h, file |-> Files(Missing, Missing, UserTable), json |-> NoFiles,
      runs |-> 2, commands |-> 0, replugs |-> 1, running |-> on,
      accounts |-> {<<"user", "user">>}, answers |-> {}] : h \in Hosts, on \in BOOLEAN}

ConfigOnly ==
    {[host |-> Host("none", FALSE, "none"), file |-> Files(etc, Missing, user),
      json |-> Files(etcV1, Missing, userV1), runs |-> 0, commands |-> 2, replugs |-> 0,
      running |-> FALSE, accounts |-> {}, answers |-> {}] :
        etc \in {Missing, SystemTable}, user \in {Missing, Malformed, UserTable, OddTable},
        etcV1 \in {Missing, V1Table}, userV1 \in {Missing, Malformed, V1Table}}

\* One run from every account: beside a command, or with nan answered.
Together ==
    {[host |-> Host("none", FALSE, "none"), file |-> Files(SystemTable, Missing, UserTable),
      json |-> NoFiles, runs |-> 1, commands |-> beside, replugs |-> 0, running |-> TRUE,
      accounts |-> Accounts, answers |-> IF beside = 1 THEN {} ELSE {7}] : beside \in 0..1}

MCScenarios == WizardTwice \cup ConfigOnly \cup Together
=============================================================================
