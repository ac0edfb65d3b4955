----------------------------- MODULE DBusClient -----------------------------
(***************************************************************************)
(* The lgmagic tool as a client of the daemon: the connection and the call *)
(* of tools/src/dbus_client.c, the plumbing of cmd_bus.c, and the commands *)
(* device, profile, button, scroll and the wizard's reload as sequences of *)
(* calls.  The bus and the daemon on the other side answer when they like, *)
(* once per request, or not at all; a message arrives in two pieces, as    *)
(* the client reads it: the fixed header and the rest.                     *)
(*                                                                         *)
(* The client waits at most CALL_TIMEOUT_MS for the next piece.  Time is   *)
(* abstracted: the wait may end whenever nothing has arrived.              *)
(***************************************************************************)
EXTENDS Integers, Sequences

CONSTANTS Commands,    \* the commands that users run
          MaxRuns,     \* bound: how many commands are run
          MaxDevices,  \* bound: how many remotes the daemon may know
          None         \* no value

ASSUME CommandsAssumption ==
  Commands \subseteq {"device list", "device status", "profile list",
                      "profile show", "profile set", "button list",
                      "button map", "button reset", "scroll speed",
                      "scroll sensitivity", "scroll reset", "setup reload"}
ASSUME BoundsAssumption == MaxRuns \in Nat /\ MaxDevices \in Nat

VARIABLES
  cmd,      \* the command and whether it was given a MAC
  pc,       \* where the client is
  step,     \* the step of the command's script
  serial,   \* c->serial
  rc,       \* what the last bus_call returned
  answer,   \* the request that the last reply taken answers
  exit,     \* exit code of the last command
  runs,     \* commands run so far; names the connection
  reqs,     \* requests on their way to the daemon, oldest first
  net,      \* pieces sent to this connection that have not arrived
  stream,   \* pieces that arrived and have not been read
  applied   \* settings that the daemon carried out, as <<run, step>>

vars == <<cmd, pc, step, serial, rc, answer, exit, runs, reqs, net, stream, applied>>
bus == <<reqs, net, applied>>

-----------------------------------------------------------------------------
(* The commands.  "resolve" is cmd_bus_resolve_mac without a MAC, "load"   *)
(* is cmd_load_device; every other step is the method it calls.  Hello is  *)
(* the first call of every connection.                                     *)

Resolve(c) == IF c.mac THEN <<>> ELSE <<"resolve">>

cmd_device(c) ==
  IF c.name = "device list" THEN <<"ListDevices">> ELSE Resolve(c) \o <<"GetStatus">>

cmd_profile(c) ==
  CASE c.name = "profile list" -> <<"ListDevices", "load">>
    [] c.name = "profile show" -> Resolve(c) \o <<"load">>
    [] OTHER -> <<"SetProfile">>

cmd_button(c) ==
  CASE c.name = "button list" -> Resolve(c) \o <<"load">>
    [] c.name = "button map"  -> <<"MapButton">>
    [] OTHER -> <<"ResetButtons">>

cmd_scroll(c) ==
  CASE c.name = "scroll speed" -> <<"SetScrollSpeed">>
    [] c.name = "scroll sensitivity" -> <<"SetSensitivity">>
    [] OTHER -> <<"SetScrollSpeed", "SetSensitivity">>

Script(c) ==
  <<"Hello">> \o
    CASE c.name \in {"device list", "device status"} -> cmd_device(c)
      [] c.name \in {"profile list", "profile show", "profile set"} -> cmd_profile(c)
      [] c.name \in {"button list", "button map", "button reset"} -> cmd_button(c)
      [] c.name \in {"scroll speed", "scroll sensitivity", "scroll reset"} -> cmd_scroll(c)
      [] c.name = "setup reload" -> <<"Reload">>

\* Only these commands may be run without a MAC.
Optional == {"device status", "profile show", "button list"}

Settings == {"SetProfile", "MapButton", "ResetButtons", "SetScrollSpeed",
             "SetSensitivity", "Reload"}

Current == Script(cmd)[step]

-----------------------------------------------------------------------------
\* dbus_disconnect and the end of the process: nothing can be read any more.
Exit(code) ==
  /\ pc' = "idle"
  /\ exit' = code
  /\ net' = <<>> /\ stream' = <<>>
  /\ UNCHANGED <<cmd, step, serial, runs, reqs, applied>>

\* main, cmd_bus_connect, dbus_connect up to the AUTH line; the socket may not
\* be there.
Start(c) ==
  /\ pc = "idle" /\ runs < MaxRuns
  /\ cmd' = c
  /\ step' = 1 /\ serial' = 0
  /\ rc' = None /\ answer' = None
  /\ runs' = runs + 1
  /\ \/ pc' = "auth" /\ exit' = None
     \/ pc' = "idle" /\ exit' = 1
  /\ UNCHANGED <<reqs, net, stream, applied>>

\* The bus answers AUTH EXTERNAL with OK, and BEGIN is sent.
AuthOk ==
  /\ pc = "auth"
  /\ pc' = "send"
  /\ UNCHANGED <<cmd, step, serial, rc, answer, exit, runs, bus, stream>>

\* REJECTED, another line, a timeout or a closed socket.
AuthFails ==
  /\ pc = "auth"
  /\ Exit(1)
  /\ UNCHANGED <<rc, answer>>

\* Mutant: one step too many.
LastStepLate == step = Len(Script(cmd)) + 1

LastStep == step = Len(Script(cmd))

\* The step is done: the next one, or the end of the command.
Proceed(unread) ==
  IF LastStep THEN Exit(0)
  ELSE /\ pc' = "send"
       /\ step' = step + 1
       /\ stream' = unread
       /\ UNCHANGED <<cmd, serial, exit, runs, bus>>

\* cmd_load_device: a file that does not load ends the command, except in
\* profile list, which goes on with the next device.
LoadFile ==
  /\ pc = "send" /\ Current = "load"
  /\ \/ Proceed(stream)
     \/ cmd.name # "profile list" /\ Exit(1)
  /\ UNCHANGED <<rc, answer>>

\* do_set with a value that is no number, before anything is sent.
InvalidNumber ==
  /\ pc = "send" /\ cmd.name # "scroll reset"
  /\ Current \in {"SetScrollSpeed", "SetSensitivity"}
  /\ Exit(1)
  /\ UNCHANGED <<rc, answer>>

\* bus_call up to write_all.
Send ==
  /\ pc = "send" /\ Current # "load"
  /\ serial' = serial + 1
  /\ reqs' = Append(reqs, [run |-> runs, serial |-> serial + 1, method |-> Current])
  /\ rc' = None /\ answer' = None
  /\ pc' = "fixed"
  /\ UNCHANGED <<cmd, step, exit, runs, net, stream, applied>>

\* write_all fails.
SendFails ==
  /\ pc = "send" /\ Current # "load"
  /\ rc' = -1 /\ answer' = None
  /\ Exit(1)

-----------------------------------------------------------------------------
(* The other side: the bus answers Hello, the daemon everything else.      *)

\* A message on its way, in the pieces the client reads it in.
Pieces(m) == <<[part |-> "fixed", m |-> m], [part |-> "rest", m |-> m]>>

\* Messages to a connection that is gone are dropped by the bus.
Deliver(run, pieces) ==
  net' = IF run = runs /\ pc # "idle" THEN net \o pieces ELSE net

Message(type, q, n) == [type |-> type, reply |-> q.serial, run |-> q.run, devices |-> n]

\* The unique name, and the NameAcquired signal that follows it; or an error.
BusHello ==
  /\ reqs # <<>> /\ Head(reqs).method = "Hello"
  /\ LET q == Head(reqs)
     IN \/ Deliver(q.run, Pieces(Message("return", q, 0))
                             \o Pieces(Message("signal", q, 0)))
        \/ Deliver(q.run, Pieces(Message("error", q, 0)))
  /\ reqs' = Tail(reqs)
  /\ UNCHANGED <<cmd, pc, step, serial, rc, answer, exit, runs, stream, applied>>

Carry(q) == IF q.method \in Settings THEN applied \cup {<<q.run, q.serial>>} ELSE applied

\* The method succeeds: it is carried out and answered.
DaemonReturns ==
  /\ reqs # <<>> /\ Head(reqs).method # "Hello"
  /\ LET q == Head(reqs)
     IN /\ applied' = Carry(q)
        /\ \E n \in 0..MaxDevices : Deliver(q.run, Pieces(Message("return", q, n)))
  /\ reqs' = Tail(reqs)
  /\ UNCHANGED <<cmd, pc, step, serial, rc, answer, exit, runs, stream>>

\* It is refused, or there is no daemon, or the daemon dies before it answers:
\* then the bus sends the error, whether the method was carried out or not.
DaemonErrors ==
  /\ reqs # <<>> /\ Head(reqs).method # "Hello"
  /\ LET q == Head(reqs)
     IN /\ applied' \in {applied, Carry(q)}
        /\ Deliver(q.run, Pieces(Message("error", q, 0)))
  /\ reqs' = Tail(reqs)
  /\ UNCHANGED <<cmd, pc, step, serial, rc, answer, exit, runs, stream>>

Arrive ==
  /\ net # <<>>
  /\ stream' = Append(stream, Head(net))
  /\ net' = Tail(net)
  /\ UNCHANGED <<cmd, pc, step, serial, rc, answer, exit, runs, reqs, applied>>

-----------------------------------------------------------------------------
(* The reading half of bus_call.                                           *)

\* Mutant: only the rest of a message is waited for with a timeout.
TimeoutInRestOnly ==
  /\ pc = "rest" /\ stream = <<>>
  /\ rc' = -1 /\ answer' = None
  /\ Exit(1)

\* Mutant: a list that timed out is asked for once more.
TimeoutRetries ==
  /\ pc \in {"fixed", "rest"} /\ stream = <<>>
  /\ rc' = -1 /\ answer' = None
  /\ IF Current = "ListDevices" /\ serial = step
     THEN pc' = "send" /\ UNCHANGED <<cmd, step, serial, exit, runs, bus, stream>>
     ELSE Exit(1)

\* refill: nothing arrived in time, or the connection is closed.
Timeout ==
  /\ pc \in {"fixed", "rest"} /\ stream = <<>>
  /\ rc' = -1 /\ answer' = None
  /\ Exit(1)

\* readn of the fixed header; bytes from the middle of a message are not one.
ReadFixed ==
  /\ pc = "fixed" /\ stream # <<>>
  /\ IF Head(stream).part = "fixed"
     THEN /\ pc' = "rest"
          /\ stream' = Tail(stream)
          /\ UNCHANGED <<cmd, step, serial, rc, answer, exit, runs, bus>>
     ELSE /\ rc' = -1 /\ answer' = None
          /\ Exit(1)

\* cmd_bus_resolve_mac: exactly one remote.
Resolved(m) == Current = "resolve" => m.devices = 1

\* Mutant: an error is taken for an answer.
TakeErrorAsDone(m) ==
  /\ rc' = 0 /\ answer' = m
  /\ Proceed(Tail(stream))

\* An error reply is taken whatever request it answers; the command fails.
TakeError(m) ==
  /\ rc' = 1 /\ answer' = m
  /\ Exit(1)

\* A return has to answer this request; then the command goes on.
TakeReturn(m) ==
  /\ rc' = IF m.reply = serial THEN 0 ELSE -1
  /\ answer' = m
  /\ IF m.reply = serial /\ Resolved(m) THEN Proceed(Tail(stream)) ELSE Exit(1)

\* A signal is skipped.
Skip ==
  /\ pc' = "fixed"
  /\ stream' = Tail(stream)
  /\ UNCHANGED <<cmd, step, serial, rc, answer, exit, runs, bus>>

\* readn of the rest, and what is done with the message.
ReadRest ==
  /\ pc = "rest" /\ stream # <<>>
  /\ LET m == Head(stream).m
     IN \/ m.type = "signal" /\ Skip
        \/ m.type = "error" /\ TakeError(m)
        \/ m.type = "return" /\ TakeReturn(m)

-----------------------------------------------------------------------------
Init ==
  /\ cmd = None /\ pc = "idle" /\ step = 1 /\ serial = 0
  /\ rc = None /\ answer = None /\ exit = 0 /\ runs = 0
  /\ reqs = <<>> /\ net = <<>> /\ stream = <<>> /\ applied = {}

Invocations ==
  {c \in [name : Commands, mac : BOOLEAN] : c.mac \/ c.name \in Optional}
ASSUME NoneAssumption == None \notin Invocations \cup {0, 1, -1}

Client ==
  \/ AuthOk \/ AuthFails \/ LoadFile \/ InvalidNumber \/ Send \/ SendFails
  \/ Timeout \/ ReadFixed \/ ReadRest

Next ==
  \/ \E c \in Invocations : Start(c)
  \/ Client
  \/ BusHello \/ DaemonReturns \/ DaemonErrors \/ Arrive

(* The client's own steps are taken: the process runs, and the wait of     *)
(* poll ends by an arrival or by its timeout.  Nothing is assumed of the   *)
(* bus and of the daemon.                                                  *)
Spec == Init /\ [][Next]_vars /\ WF_vars(Client)

-----------------------------------------------------------------------------
(* The parts are of the kinds the code gives them; the script is never     *)
(* left behind, and only Hello, which every connection starts with, has    *)
(* serial 1.                                                               *)
TypeOK ==
  /\ cmd \in Invocations \cup {None}
  /\ pc \in {"idle", "auth", "send", "fixed", "rest"}
  /\ cmd # None => step \in 1..Len(Script(cmd)) /\ serial \in Nat
  /\ rc \in {None, 0, 1, -1} /\ exit \in {None, 0, 1}
  /\ exit = None <=> pc # "idle"
  /\ \A i \in DOMAIN reqs : reqs[i].method = "Hello" <=> reqs[i].serial = 1

(* A reply, error replies included, that bus_call takes answers the very   *)
(* request it is waiting for, although only the serial of a return is      *)
(* compared: no command makes a call on a connection on which an earlier   *)
(* one failed, so that no late reply can be in its way, and the stream is  *)
(* never read from the middle of a message.                                *)
AnswerIsOwn ==
  /\ rc \in {0, 1} => answer.run = runs /\ answer.reply = serial
  /\ pc = "fixed" /\ stream # <<>> => Head(stream).part = "fixed"

(* A command that is running ends, also when the bus or the daemon never   *)
(* answers: every wait of refill is bounded.                               *)
CommandEnds == (pc # "idle") ~> (pc = "idle")

\* The steps of a command's script that change a setting.
Wanted(c) == {i \in DOMAIN Script(c) : Script(c)[i] \in Settings}
Plan == IF cmd = None THEN {} ELSE Wanted(cmd)
\* What the exit code tells the user.
Status == IF pc # "idle" THEN "running" ELSE IF exit = 0 THEN "ok" ELSE "failed"
\* Those of the current command that were asked for, and carried out.
Asked == {i \in Plan : i <= serial}
Carried == {a[2] : a \in {b \in applied : b[1] = runs}}
\* Settings that earlier commands asked for and that are still on their way.
Outstanding ==
  {<<reqs[i].run, reqs[i].serial>> :
     i \in {k \in DOMAIN reqs : reqs[k].run # runs /\ reqs[k].method \in Settings}}

(* What a command promises about settings (RemoteCommand): one at a time,  *)
(* in order, success only when all were carried out, nothing asked for     *)
(* after a failure.                                                        *)
Promise == INSTANCE RemoteCommand WITH
  Plans <- {Wanted(c) : c \in Invocations},
  run <- runs,
  plan <- Plan,
  status <- Status,
  issued <- Asked,
  applied <- Carried,
  late <- Outstanding

ImplementsCommand == Promise!Spec
=============================================================================
