---------------------------- MODULE ClientProofs ----------------------------
(***************************************************************************)
(* Proofs about DBusClient and Wire, for any set of commands and every     *)
(* bound.                                                                  *)
(*                                                                         *)
(* A reply that bus_call takes answers the request it waits for.  The      *)
(* argument is about what is on its way to the client, arrived or not:     *)
(* whole messages, signals but for one reply at most, and that one only    *)
(* while the client waits for it.                                          *)
(*                                                                         *)
(* The calls are written and the replies read as the specification         *)
(* prescribes.  The argument takes a message apart as a concatenation: the *)
(* writer has put down a beginning of it and the padding that the next     *)
(* value asks for, the reader stands at the end of a beginning of it.      *)
(***************************************************************************)
EXTENDS MCDBusClient, SequenceTheorems, TLAPS

Messages == [type : {"return", "error", "signal"}, reply : Nat, run : Nat, devices : Nat]
PieceSet == [part : {"fixed", "rest"}, m : Messages]
\* The steps of a script after Hello.
Calls == {"resolve", "load", "ListDevices", "GetStatus", "Reload", "SetProfile",
          "MapButton", "ResetButtons", "SetScrollSpeed", "SetSensitivity"}
Requests == [run : Nat, serial : Nat, method : Calls \cup {"Hello"}]

\* Everything sent to this connection and not read, in order.
Incoming == stream \o net
\* Where there are replies in it.
ReplyAt(q, i) == q[i].part = "rest" /\ q[i].m.type # "signal"

Waiting == pc \in {"fixed", "rest"}

Shapes ==
  /\ pc \in {"idle", "auth", "send", "fixed", "rest"}
  /\ cmd \in Invocations \cup {None}
  /\ cmd = None => pc = "idle"
  /\ cmd # None => step \in 1..Len(Script(cmd))
  /\ serial \in Nat /\ runs \in Nat
  /\ rc \in {None, 0, 1, -1} /\ exit \in {None, 0, 1}
  /\ exit = None <=> pc # "idle"
  /\ reqs \in Seq(Requests)
  /\ net \in Seq(PieceSet) /\ stream \in Seq(PieceSet)

\* Hello is the first call and no other.
HelloFirst ==
  /\ pc = "auth" => step = 1 /\ serial = 0
  /\ pc = "send" => (step = 1 <=> serial = 0)
  /\ Waiting => serial # 0 /\ (step = 1 <=> serial = 1)
  /\ \A i \in 1..Len(reqs) : reqs[i].method = "Hello" <=> reqs[i].serial = 1

\* The fixed header of a message comes before its rest, and the rest comes;
\* a client in state p has read everything up to q.
Framed(q, p) ==
  /\ q = <<>> => p # "rest"
  /\ q # <<>> => /\ p # "idle"
                 /\ q[1].part = IF p = "rest" THEN "rest" ELSE "fixed"
                 /\ q[Len(q)].part = "rest"
  /\ \A i \in 1..(Len(q) - 1) : q[i].part # q[i + 1].part

\* This connection has asked for nothing but what it waits for.
OneRequest ==
  /\ \A i \in 1..Len(reqs) : reqs[i].run <= runs
  /\ \A i \in 1..Len(reqs) : pc # "idle" /\ reqs[i].run = runs =>
       Waiting /\ reqs[i].serial = serial /\ i = Len(reqs)

\* A reply on its way is the only one, it answers the request that the
\* client waits for, and nothing else has been asked for.
NoReply(q) == \A i \in 1..Len(q) : ~ReplyAt(q, i)
OwnReply(q) ==
  \A i \in 1..Len(q) : ReplyAt(q, i) =>
    /\ q[i].m.reply = serial /\ q[i].m.run = runs
    /\ \A j \in 1..Len(q) : ReplyAt(q, j) => j = i
OneReply ==
  /\ OwnReply(Incoming)
  /\ NoReply(Incoming) \/ (Waiting /\ \A k \in 1..Len(reqs) : reqs[k].run # runs)

Taken == rc \in {0, 1} => answer.run = runs /\ answer.reply = serial

IInv == Shapes /\ HelloFirst /\ Framed(Incoming, pc) /\ OneRequest /\ OneReply /\ Taken
-----------------------------------------------------------------------------
\* Every script begins with Hello and says it once.
LEMMA ScriptFacts ==
  ASSUME NEW c \in Invocations
  PROVE  /\ Script(c) \in Seq(Calls \cup {"Hello"})
         /\ Len(Script(c)) \in Nat /\ Len(Script(c)) >= 1
         /\ \A i \in 1..Len(Script(c)) : /\ Script(c)[i] \in Calls \cup {"Hello"}
                                         /\ Script(c)[i] = "Hello" <=> i = 1
<1> DEFINE body == CASE c.name \in {"device list", "device status"} -> cmd_device(c)
      [] c.name \in {"profile list", "profile show", "profile set"} -> cmd_profile(c)
      [] c.name \in {"button list", "button map", "button reset"} -> cmd_button(c)
      [] c.name \in {"scroll speed", "scroll sensitivity", "scroll reset"} -> cmd_scroll(c)
      [] c.name = "setup reload" -> <<"Reload">>
<1>1. c.name \in {"device list", "device status", "profile list",
                  "profile show", "profile set", "button list",
                  "button map", "button reset", "scroll speed",
                  "scroll sensitivity", "scroll reset", "setup reload"}
  BY CommandsAssumption DEF Invocations
<1>2. body \in Seq(Calls)
  <2>0. ASSUME NEW s \in Calls PROVE Resolve(c) \o <<s>> \in Seq(Calls)
    <3>1. <<>> \in Seq(Calls) /\ <<"resolve">> \in Seq(Calls) /\ <<s>> \in Seq(Calls)
      BY DEF Calls
    <3>2. Resolve(c) \in Seq(Calls)
      BY <3>1 DEF Resolve
    <3> QED
      BY <3>1, <3>2, ConcatProperties
  <2>1. cmd_device(c) \in Seq(Calls)
    <3>1. <<"ListDevices">> \in Seq(Calls) /\ "GetStatus" \in Calls
      BY DEF Calls
    <3> QED
      BY <2>0, <3>1 DEF cmd_device
  <2>2. cmd_profile(c) \in Seq(Calls)
    <3>1. /\ <<"ListDevices", "load">> \in Seq(Calls) /\ "load" \in Calls
          /\ <<"SetProfile">> \in Seq(Calls)
      BY DEF Calls
    <3> QED
      BY <2>0, <3>1 DEF cmd_profile
  <2>3. cmd_button(c) \in Seq(Calls)
    <3>1. /\ <<"MapButton">> \in Seq(Calls) /\ "load" \in Calls
          /\ <<"ResetButtons">> \in Seq(Calls)
      BY DEF Calls
    <3> QED
      BY <2>0, <3>1 DEF cmd_button
  <2>4. cmd_scroll(c) \in Seq(Calls)
    <3>1. /\ <<"SetScrollSpeed">> \in Seq(Calls) /\ <<"SetSensitivity">> \in Seq(Calls)
          /\ <<"SetScrollSpeed", "SetSensitivity">> \in Seq(Calls)
      BY DEF Calls
    <3> QED
      BY <3>1 DEF cmd_scroll
  <2>5. <<"Reload">> \in Seq(Calls)
    BY DEF Calls
  <2> QED
    BY <1>1, <2>1, <2>2, <2>3, <2>4, <2>5
<1>3. Script(c) = <<"Hello">> \o body
  BY DEF Script
<1>4. \A i \in 1..Len(body) : body[i] \in Calls /\ body[i] # "Hello"
  <2> HIDE DEF body
  <2>1. \A i \in 1..Len(body) : body[i] \in Calls
    BY <1>2
  <2>2. "Hello" \notin Calls
    BY DEF Calls
  <2> QED
    BY <2>1, <2>2
<1> HIDE DEF body
<1> QED
  BY <1>2, <1>3, <1>4

\* Reading takes the first piece of what is on its way, whether the rest of
\* it has arrived or not.
LEMMA ReadFacts ==
  ASSUME net \in Seq(PieceSet), stream \in Seq(PieceSet), stream # <<>>
  PROVE  /\ Head(stream) = Incoming[1] /\ Head(stream) \in PieceSet
         /\ Tail(stream) \in Seq(PieceSet)
         /\ Len(Incoming) \in Nat /\ Len(Incoming) >= 1
         /\ Len(Tail(stream) \o net) = Len(Incoming) - 1
         /\ \A i \in 1..(Len(Incoming) - 1) :
              (Tail(stream) \o net)[i] = Incoming[i + 1]
  BY DEF Incoming

\* An arrival changes nothing of what is on its way.
LEMMA ArriveFacts ==
  ASSUME net \in Seq(PieceSet), stream \in Seq(PieceSet), net # <<>>
  PROVE  /\ Append(stream, Head(net)) \in Seq(PieceSet)
         /\ Tail(net) \in Seq(PieceSet)
         /\ Append(stream, Head(net)) \o Tail(net) = Incoming
  BY DEF Incoming

\* A message arrives in pieces of its own.
LEMMA PiecesFacts ==
  ASSUME NEW m \in Messages
  PROVE  Pieces(m) \in Seq(PieceSet)
<1> DEFINE x == [part |-> "fixed", m |-> m]
           y == [part |-> "rest", m |-> m]
<1>1. x \in PieceSet /\ y \in PieceSet
  BY DEF PieceSet
<1>2. Pieces(m) = <<x, y>>
  BY DEF Pieces
<1> HIDE DEF x, y
<1> QED
  BY <1>1, <1>2

\* A message that is delivered comes after everything else, in two pieces.
LEMMA DeliverFacts ==
  ASSUME NEW s \in Seq(PieceSet), NEW n \in Seq(PieceSet), NEW m \in Messages
  PROVE  /\ n \o Pieces(m) \in Seq(PieceSet)
         /\ Len((s \o n)) \in Nat
         /\ Len(s \o (n \o Pieces(m))) = Len((s \o n)) + 2
         /\ \A i \in 1..Len((s \o n)) :
              (s \o (n \o Pieces(m)))[i] = (s \o n)[i]
         /\ (s \o (n \o Pieces(m)))[Len((s \o n)) + 1]
               = [part |-> "fixed", m |-> m]
         /\ (s \o (n \o Pieces(m)))[Len((s \o n)) + 2]
               = [part |-> "rest", m |-> m]
<1> DEFINE x == [part |-> "fixed", m |-> m]
           y == [part |-> "rest", m |-> m]
<1>1. x \in PieceSet /\ y \in PieceSet
  BY DEF PieceSet
<1>2. Pieces(m) = <<x, y>>
  BY DEF Pieces
<1> HIDE DEF x, y
<1>3. <<x, y>> \in Seq(PieceSet)
  BY <1>1
<1>4. (s \o n) \in Seq(PieceSet)
  BY ConcatProperties
<1>5. s \o (n \o <<x, y>>) = (s \o n) \o <<x, y>>
  BY <1>3, ConcatAssociative
<1>6. /\ n \o <<x, y>> \in Seq(PieceSet)
      /\ Len(s \o n \o <<x, y>>) = Len((s \o n)) + 2
      /\ \A i \in 1..(Len((s \o n)) + 2) : (s \o n \o <<x, y>>)[i]
            = IF i <= Len((s \o n)) THEN (s \o n)[i]
              ELSE <<x, y>>[i - Len((s \o n))]
  BY <1>3, <1>4, ConcatProperties
<1>7. <<x, y>>[1] = x /\ <<x, y>>[2] = y
  OBVIOUS
<1> DEFINE q == (s \o n) \o <<x, y>>
<1>8. /\ \A i \in 1..Len((s \o n)) : q[i] = (s \o n)[i]
      /\ q[Len((s \o n)) + 1] = x /\ q[Len((s \o n)) + 2] = y
  <2>1. Len((s \o n)) \in Nat
    BY <1>4
  <2> QED
    BY <1>6, <1>7, <2>1
<1> HIDE DEF q
<1> QED
  BY <1>2, <1>4, <1>5, <1>6, <1>8 DEF q, x, y

\* A message delivered to a connection that is in use keeps what is on its
\* way in whole messages; it adds a reply unless it is a signal.
LEMMA DeliverMessage ==
  ASSUME NEW s \in Seq(PieceSet), NEW n \in Seq(PieceSet), NEW m \in Messages,
         NEW p, p # "idle", Framed(s \o n, p), OwnReply(s \o n)
  PROVE  /\ n \o Pieces(m) \in Seq(PieceSet)
         /\ Framed(s \o (n \o Pieces(m)), p)
         /\ m.type = "signal" => /\ OwnReply(s \o (n \o Pieces(m)))
                                 /\ NoReply(s \o n) => NoReply(s \o (n \o Pieces(m)))
         /\ NoReply(s \o n) /\ m.reply = serial /\ m.run = runs
              => OwnReply(s \o (n \o Pieces(m)))
<1> DEFINE old == s \o n
           new == s \o (n \o Pieces(m))
           end == Len(old)
<1>1. /\ n \o Pieces(m) \in Seq(PieceSet)
      /\ end \in Nat /\ Len(new) = end + 2
      /\ \A i \in 1..end : new[i] = old[i]
      /\ new[end + 1].part = "fixed"
      /\ new[end + 2].part = "rest" /\ new[end + 2].m = m
  <2>1. /\ n \o Pieces(m) \in Seq(PieceSet)
        /\ end \in Nat /\ Len(new) = end + 2
        /\ \A i \in 1..end : new[i] = old[i]
        /\ new[end + 1] = [part |-> "fixed", m |-> m]
        /\ new[end + 2] = [part |-> "rest", m |-> m]
    BY DeliverFacts, ZenonT(40)
  <2> HIDE DEF old, new, end
  <2> QED
    BY <2>1
<1>2. old \in Seq(PieceSet) /\ (old = <<>> <=> end = 0) /\ new # <<>>
  <2>1. new \in Seq(PieceSet)
    BY <1>1, ConcatProperties
  <2> QED
    BY <1>1, <2>1, ConcatProperties
<1>3. Framed(old, p) /\ OwnReply(old)
  OBVIOUS
<1> HIDE DEF old, new, end
<1>4. Framed(new, p)
  <2>1. new[1].part = IF p = "rest" THEN "rest" ELSE "fixed"
    <3>1. CASE end = 0
      <4>1. old = <<>> /\ end + 1 = 1
        BY <1>2, <3>1
      <4>2. p # "rest"
        BY <1>3, <4>1 DEF Framed
      <4> QED
        BY <1>1, <4>1, <4>2
    <3>2. CASE end # 0
      <4>1. old # <<>> /\ 1 \in 1..end
        BY <1>1, <1>2, <3>2
      <4>2. old[1].part = IF p = "rest" THEN "rest" ELSE "fixed"
        BY <1>3, <4>1 DEF Framed
      <4> QED
        BY <1>1, <4>1, <4>2
    <3> QED
      BY <3>1, <3>2
  <2>2. ASSUME NEW i \in 1..(Len(new) - 1) PROVE new[i].part # new[i + 1].part
    <3>1. CASE i < end
      <4>1. i \in 1..(end - 1) /\ i \in 1..end /\ i + 1 \in 1..end
        BY <1>1, <3>1
      <4> QED
        BY <1>1, <1>3, <4>1 DEF Framed, end
    <3>2. CASE i = end
      <4>1. old[end].part = "rest" /\ new[end] = old[end]
        BY <1>1, <1>2, <1>3, <3>2 DEF Framed, end
      <4> QED
        BY <1>1, <3>2, <4>1
    <3>3. CASE i = end + 1
      <4>1. i + 1 = end + 2
        BY <1>1, <3>3
      <4> QED
        BY <1>1, <3>3, <4>1
    <3> QED
      BY <1>1, <3>1, <3>2, <3>3
  <2> QED
    BY <1>1, <1>2, <2>1, <2>2 DEF Framed
<1>5. \A i \in 1..Len(new) : ReplyAt(new, i) <=>
        \/ i \in 1..end /\ ReplyAt(old, i)
        \/ i = end + 2 /\ m.type # "signal"
  BY <1>1 DEF ReplyAt
<1>6. m.type = "signal" => OwnReply(new) /\ (NoReply(old) => NoReply(new))
  BY <1>1, <1>3, <1>5 DEF OwnReply, NoReply, end
<1>7. NoReply(old) /\ m.reply = serial /\ m.run = runs => OwnReply(new)
  BY <1>1, <1>5 DEF OwnReply, NoReply, end
<1> QED
  BY <1>1, <1>4, <1>6, <1>7 DEF old, new, end

\* Reading a piece, from a message's start or from its middle.
LEMMA ReadPiece ==
  ASSUME NEW q \in Seq(PieceSet), NEW r \in Seq(PieceSet), q # <<>>,
         Len(r) = Len(q) - 1, \A i \in 1..(Len(q) - 1) : r[i] = q[i + 1],
         OwnReply(q)
  PROVE  /\ Framed(q, "fixed") => q[1].part = "fixed" /\ Framed(r, "rest")
         /\ \A p \in {"fixed", "send"} : Framed(q, "rest") => Framed(r, p)
         /\ OwnReply(r)
         /\ NoReply(q) => NoReply(r)
         /\ ReplyAt(q, 1) => NoReply(r)
<1>1. Len(q) \in Nat /\ Len(q) >= 1 /\ (r = <<>> <=> Len(q) = 1)
  OBVIOUS
<1>2. \A i \in 1..Len(q) : q[i].part \in {"fixed", "rest"}
  <2>1. \A i \in 1..Len(q) : q[i] \in PieceSet
    OBVIOUS
  <2> QED
    BY <2>1 DEF PieceSet
<1>3. Framed(q, "fixed") => q[1].part = "fixed" /\ Framed(r, "rest")
  <2> SUFFICES ASSUME Framed(q, "fixed")
               PROVE  q[1].part = "fixed" /\ Framed(r, "rest")
    OBVIOUS
  <2>1. q[1].part = "fixed" /\ q[Len(q)].part = "rest"
    BY DEF Framed
  <2>2. Len(q) >= 2
    BY <1>1, <2>1
  <2>3. q[2].part = "rest"
    <3>1. q[1].part # q[2].part
      BY <1>1, <2>2 DEF Framed
    <3> QED
      BY <1>1, <1>2, <2>1, <2>2, <3>1
  <2>4. r # <<>> /\ r[1] = q[2] /\ r[Len(r)] = q[Len(q)]
    BY <1>1, <2>2
  <2>5. \A i \in 1..(Len(r) - 1) : r[i].part # r[i + 1].part
    BY <1>1 DEF Framed
  <2> QED
    BY <2>1, <2>3, <2>4, <2>5 DEF Framed
<1>4. \A p \in {"fixed", "send"} : Framed(q, "rest") => Framed(r, p)
  BY <1>1, <1>2, SMTT(30) DEF Framed
<1>5. \A i \in 1..Len(r) : i + 1 \in 1..Len(q) /\ (ReplyAt(r, i) <=> ReplyAt(q, i + 1))
  BY <1>1 DEF ReplyAt
<1>6. OwnReply(r) /\ (NoReply(q) => NoReply(r)) /\ (ReplyAt(q, 1) => NoReply(r))
  BY <1>1, <1>5 DEF OwnReply, NoReply
<1> QED
  BY <1>3, <1>4, <1>6
-----------------------------------------------------------------------------
\* Nothing has been asked for and nothing is on its way.
LEMMA InvInit == Init => IInv
<1> SUFFICES ASSUME Init PROVE IInv
  OBVIOUS
<1>1. Incoming = <<>> /\ Len(reqs) = 0
  BY DEF Init, Incoming
<1>2. Shapes /\ HelloFirst
  BY <1>1, NoneAssumption DEF Init, Shapes, HelloFirst, Waiting
<1>3. Framed(Incoming, pc) /\ OneRequest /\ OneReply /\ Taken
  BY <1>1, NoneAssumption
     DEF Init, Framed, OneRequest, OneReply, OwnReply, NoReply, Taken
<1> QED
  BY <1>2, <1>3 DEF IInv

\* The end of a command closes the connection.
LEMMA ExitStep ==
  ASSUME IInv, pc # "idle", NEW code \in {0, 1}, Exit(code),
         rc' \in {None, 0, 1, -1}, Taken'
  PROVE  IInv'
<1>1. Incoming' = <<>> /\ Len(Incoming') = 0
  BY DEF Exit, Incoming
<1>2. Shapes' /\ HelloFirst'
  BY NoneAssumption DEF IInv, Shapes, HelloFirst, Exit, Waiting
<1>3. Framed(Incoming, pc)' /\ OneRequest' /\ OneReply'
  BY <1>1 DEF IInv, OneRequest, Exit, Framed, OneReply, OwnReply, NoReply
<1> QED
  BY <1>2, <1>3 DEF IInv

\* A new connection: what was asked for on earlier ones is not its own.
LEMMA StartStep ==
  ASSUME IInv, NEW c \in Invocations, Start(c)
  PROVE  IInv'
<1>1. Incoming = <<>> /\ Incoming' = <<>> /\ Len(Incoming') = 0
  BY DEF IInv, Framed, Start, Incoming
<1>2. c # None
  BY NoneAssumption
<1>3. Shapes' /\ HelloFirst'
  <2>1. 1 \in 1..Len(Script(c))
    BY ScriptFacts
  <2> QED
    BY <1>2, <2>1, NoneAssumption DEF IInv, Shapes, HelloFirst, Start, Waiting
<1>4. OneRequest'
  <2>0. reqs \in Seq(Requests)
    BY DEF IInv, Shapes
  <2>1. \A i \in 1..Len(reqs) : reqs[i] \in Requests
    BY <2>0
  <2>2. \A i \in 1..Len(reqs) : reqs[i].run \in Nat
    BY <2>1 DEF Requests
  <2> QED
    BY <2>0, <2>2 DEF IInv, Shapes, OneRequest, Start
<1>5. Framed(Incoming, pc)' /\ OneReply' /\ Taken'
  BY <1>1, NoneAssumption
     DEF Start, Framed, OneReply, OwnReply, NoReply, Taken
<1> QED
  BY <1>3, <1>4, <1>5 DEF IInv

\* The next step of the script: the client has what it waited for.
LEMMA ProceedStep ==
  ASSUME IInv, pc # "idle", Proceed(stream'), stream' \in Seq(PieceSet),
         serial # 0, ~LastStep, rc' \in {None, 0, 1, -1}, Taken',
         Framed(stream' \o net, "send"), NoReply(stream' \o net),
         \A k \in 1..Len(reqs) : reqs[k].run # runs
  PROVE  IInv'
<1>1. /\ pc' = "send" /\ step' = step + 1
      /\ UNCHANGED <<cmd, serial, exit, runs, reqs, net, applied>>
  BY DEF Proceed, bus
<1>2. Incoming' = stream' \o net
  BY <1>1 DEF Incoming
<1>3. cmd # None /\ cmd \in Invocations
  BY DEF IInv, Shapes
<1>4. Len(Script(cmd)) \in Nat /\ step \in 1..Len(Script(cmd)) /\ step # Len(Script(cmd))
  BY <1>3, ScriptFacts DEF IInv, Shapes, LastStep
<1>5. Shapes'
  BY <1>1, <1>3, <1>4, NoneAssumption DEF IInv, Shapes
<1>6. HelloFirst'
  BY <1>1, <1>4 DEF IInv, Shapes, HelloFirst, Waiting
<1>7. OneRequest'
  BY <1>1 DEF IInv, OneRequest
<1>8. Framed(Incoming, pc)' /\ OneReply'
  BY <1>1, <1>2 DEF OneReply, OwnReply, NoReply
<1> QED
  BY <1>5, <1>6, <1>7, <1>8 DEF IInv

\* The answer to AUTH puts no message on its way.
LEMMA AuthStep == IInv /\ AuthOk => IInv'
  BY SMTT(30) DEF IInv, AuthOk, Shapes, HelloFirst, Waiting, Incoming, Framed, OneRequest, OneReply,
         OwnReply, NoReply, ReplyAt, Taken, bus

\* The one request of this connection: Hello when it is the first.
LEMMA SendStep ==
  ASSUME IInv, Send
  PROVE  IInv'
<1> DEFINE q == [run |-> runs, serial |-> serial + 1, method |-> Current]
<1>1. cmd # None /\ cmd \in Invocations /\ step \in 1..Len(Script(cmd))
  BY DEF IInv, Shapes, Send
<1>2. Current \in Calls \cup {"Hello"} /\ (Current = "Hello" <=> step = 1)
  BY <1>1, ScriptFacts DEF Current
<1>3. /\ reqs \in Seq(Requests) /\ serial \in Nat /\ runs \in Nat
      /\ pc = "send" /\ (step = 1 <=> serial = 0)
      /\ \A i \in 1..Len(reqs) : reqs[i].run <= runs /\ reqs[i].run # runs
  BY DEF IInv, Shapes, HelloFirst, OneRequest, Send, Waiting
<1>4. q \in Requests
  BY <1>2, <1>3 DEF Requests
<1>5. /\ q.run = runs /\ q.serial = serial + 1 /\ (q.method = "Hello" <=> serial = 0)
  BY <1>2, <1>3
<1>6. reqs' = Append(reqs, q)
  BY DEF Send
<1>7. /\ pc' = "fixed" /\ serial' = serial + 1 /\ rc' = None
      /\ UNCHANGED <<cmd, step, exit, runs, net, stream, applied>>
  BY DEF Send
<1> HIDE DEF q
<1>8. /\ reqs' \in Seq(Requests) /\ Len(reqs') = Len(reqs) + 1 /\ Len(reqs) \in Nat
      /\ \A i \in 1..Len(reqs) : reqs'[i] = reqs[i]
      /\ reqs'[Len(reqs) + 1] = q
  BY <1>3, <1>4, <1>6, AppendProperties
<1>9. Shapes'
  BY <1>1, <1>3, <1>7, <1>8 DEF IInv, Shapes
<1>10. HelloFirst'
  <2>1. \A i \in 1..Len(reqs) : reqs[i].method = "Hello" <=> reqs[i].serial = 1
    BY DEF IInv, HelloFirst
  <2>2. ASSUME NEW i \in 1..Len(reqs')
        PROVE  reqs'[i].method = "Hello" <=> reqs'[i].serial = 1
    <3>1. CASE i \in 1..Len(reqs)
      BY <1>8, <2>1, <3>1
    <3>2. CASE i = Len(reqs) + 1
      BY <1>3, <1>5, <1>8, <3>2
    <3> QED
      BY <1>8, <3>1, <3>2
  <2> QED
    BY <1>3, <1>7, <2>2 DEF HelloFirst, Waiting
<1>11. OneRequest'
  <2>1. ASSUME NEW i \in 1..Len(reqs')
        PROVE  /\ reqs'[i].run <= runs
               /\ reqs'[i].run = runs => reqs'[i].serial = serial + 1 /\ i = Len(reqs')
    <3>1. CASE i \in 1..Len(reqs)
      BY <1>3, <1>8, <3>1
    <3>2. CASE i = Len(reqs) + 1
      BY <1>3, <1>5, <1>8, <3>2
    <3> QED
      BY <1>8, <3>1, <3>2
  <2> QED
    BY <1>7, <2>1 DEF OneRequest, Waiting
<1>12. Incoming' = Incoming /\ NoReply(Incoming)
  BY <1>3, <1>7 DEF IInv, OneReply, Incoming, Waiting
<1>13. Framed(Incoming, pc)'
  BY <1>3, <1>7, <1>12 DEF IInv, Framed
<1>14. OneReply'
  BY <1>12 DEF OneReply, OwnReply, NoReply
<1>15. Taken'
  BY <1>7, NoneAssumption DEF Taken
<1> QED
  BY <1>9, <1>10, <1>11, <1>13, <1>14, <1>15 DEF IInv

\* A device file that was read: it is not the first step, and nothing else
\* is going on.
LEMMA LoadStep ==
  ASSUME IInv, LoadFile
  PROVE  IInv'
<1>1. /\ pc = "send" /\ Current = "load" /\ UNCHANGED <<rc, answer>>
      /\ \/ Proceed(stream)
         \/ Exit(1)
  BY DEF LoadFile
<1>2. cmd \in Invocations /\ step \in 1..Len(Script(cmd)) /\ pc # "idle"
      /\ rc' \in {None, 0, 1, -1}
  BY <1>1 DEF IInv, Shapes
<1>3. step # 1 /\ serial # 0
  <2>1. step # 1
    BY <1>1, <1>2, ScriptFacts DEF Current
  <2> QED
    BY <1>1, <2>1 DEF IInv, HelloFirst
<1>4. Taken'
  <2>1. runs' = runs /\ serial' = serial
    BY <1>1 DEF Exit, Proceed
  <2> QED
    BY <1>1, <2>1 DEF IInv, Taken
<1>5. CASE Exit(1)
  BY <1>1, <1>2, <1>4, <1>5, ExitStep
<1>6. CASE Proceed(stream) /\ LastStep
  <2>1. Exit(0)
    BY <1>6 DEF Proceed
  <2> QED
    BY <1>2, <1>4, <2>1, ExitStep
<1>7. CASE Proceed(stream) /\ ~LastStep
  <2>1. stream' = stream /\ stream \in Seq(PieceSet) /\ Proceed(stream')
    BY <1>7 DEF IInv, Shapes, Proceed
  <2>2. Framed(stream' \o net, "send") /\ NoReply(stream' \o net)
    BY <1>1, <2>1 DEF IInv, Incoming, OneReply, Waiting
  <2>3. \A k \in 1..Len(reqs) : reqs[k].run # runs
    BY <1>1 DEF IInv, OneRequest, Waiting
  <2> QED
    BY <1>2, <1>3, <1>4, <1>7, <2>1, <2>2, <2>3, ProceedStep
<1> QED
  BY <1>1, <1>5, <1>6, <1>7

\* A piece that arrives was on its way already.
LEMMA ArriveStep ==
  ASSUME IInv, Arrive
  PROVE  IInv'
<1>1. net \in Seq(PieceSet) /\ stream \in Seq(PieceSet) /\ net # <<>>
  BY DEF IInv, Shapes, Arrive
<1>2. Incoming' = Incoming /\ net' \in Seq(PieceSet) /\ stream' \in Seq(PieceSet)
  <2>1. Incoming' = Append(stream, Head(net)) \o Tail(net)
    BY DEF Arrive, Incoming
  <2> QED
    BY <1>1, <2>1, ArriveFacts DEF Arrive
<1>3. UNCHANGED <<cmd, pc, step, serial, rc, answer, exit, runs, reqs, applied>>
  BY DEF Arrive
<1>4. Shapes'
  BY <1>2, <1>3 DEF IInv, Shapes
<1>5. HelloFirst' /\ OneRequest' /\ Taken'
  BY <1>3 DEF IInv, HelloFirst, OneRequest, Taken, Waiting
<1>6. Framed(Incoming, pc)' /\ OneReply'
  BY <1>2, <1>3 DEF IInv, Framed, OneReply, OwnReply, NoReply, ReplyAt, Waiting
<1> QED
  BY <1>4, <1>5, <1>6 DEF IInv

\* The oldest request; when it is this connection's, it is the one waited for.
LEMMA OldestRequest ==
  ASSUME IInv, reqs # <<>>
  PROVE  /\ Head(reqs) \in Requests /\ Head(reqs) = reqs[1]
         /\ Len(reqs) \in Nat /\ Len(reqs) >= 1
         /\ Tail(reqs) \in Seq(Requests) /\ Len(Tail(reqs)) = Len(reqs) - 1
         /\ \A i \in 1..(Len(reqs) - 1) : Tail(reqs)[i] = reqs[i + 1]
         /\ Head(reqs).run = runs /\ pc # "idle" =>
              /\ Waiting /\ Head(reqs).serial = serial
              /\ Len(reqs) = 1 /\ NoReply(Incoming)
<1>1. reqs \in Seq(Requests)
  BY DEF IInv, Shapes
<1>2. /\ Head(reqs) \in Requests /\ Head(reqs) = reqs[1]
      /\ Len(reqs) \in Nat /\ Len(reqs) >= 1
      /\ Tail(reqs) \in Seq(Requests) /\ Len(Tail(reqs)) = Len(reqs) - 1
      /\ \A i \in 1..(Len(reqs) - 1) : Tail(reqs)[i] = reqs[i + 1]
  BY <1>1
<1>3. 1 \in 1..Len(reqs)
  BY <1>2
<1> QED
  BY <1>2, <1>3 DEF IInv, OneRequest, OneReply

\* The other side answers the oldest request with the given pieces.
LEMMA AnswerStep ==
  ASSUME IInv, reqs # <<>>, reqs' = Tail(reqs),
         UNCHANGED <<cmd, pc, step, serial, rc, answer, exit, runs, stream>>,
         NEW pieces, Deliver(Head(reqs).run, pieces),
         Head(reqs).run = runs /\ pc # "idle" =>
           /\ net \o pieces \in Seq(PieceSet)
           /\ Framed(stream \o (net \o pieces), pc)
           /\ OwnReply(stream \o (net \o pieces))
  PROVE  IInv'
<1>1. /\ Len(reqs) \in Nat /\ Len(reqs) >= 1
      /\ reqs' \in Seq(Requests) /\ Len(reqs') = Len(reqs) - 1
      /\ \A i \in 1..(Len(reqs) - 1) : reqs'[i] = reqs[i + 1]
  BY OldestRequest
<1>2. \A i \in 1..Len(reqs') : i + 1 \in 1..Len(reqs) /\ reqs'[i] = reqs[i + 1]
  BY <1>1
<1>3. HelloFirst' /\ OneRequest' /\ Taken'
  <2>1. HelloFirst'
    BY <1>2 DEF IInv, HelloFirst, Waiting
  <2>2. OneRequest'
    <3>1. \A i \in 1..Len(reqs') : reqs'[i].run <= runs'
      BY <1>2 DEF IInv, OneRequest
    <3>2. ASSUME NEW i \in 1..Len(reqs'), pc' # "idle", reqs'[i].run = runs'
          PROVE  Waiting' /\ reqs'[i].serial = serial' /\ i = Len(reqs')
      <4>1. Waiting /\ reqs[i + 1].serial = serial /\ i + 1 = Len(reqs)
        BY <1>2, <3>2 DEF IInv, OneRequest
      <4>2. i = Len(reqs')
        <5> DEFINE old == Len(reqs)
                   left == Len(reqs')
        <5>1. i \in 1..left /\ old \in Nat /\ left = old - 1 /\ i + 1 = old
          BY <1>1, <3>2, <4>1
        <5> HIDE DEF old, left
        <5>2. i = left
          BY <5>1
        <5> QED
          BY <5>2 DEF left
      <4>3. reqs'[i] = reqs[i + 1]
        BY <1>2
      <4>4. Waiting'
        BY <4>1 DEF Waiting
      <4> QED
        BY <4>1, <4>2, <4>3, <4>4
    <3> QED
      BY <3>1, <3>2 DEF OneRequest
  <2>3. Taken'
    BY DEF IInv, Taken
  <2> QED
    BY <2>1, <2>2, <2>3
<1>4. CASE Head(reqs).run = runs /\ pc # "idle"
  <2>1. net' = net \o pieces /\ Incoming' = stream \o (net \o pieces)
    BY <1>4 DEF Deliver, Incoming
  <2>2. Waiting' /\ Len(reqs') = 0
    BY <1>1, <1>4, OldestRequest DEF Waiting
  <2>3. Shapes'
    BY <1>1, <1>4, <2>1 DEF IInv, Shapes
  <2>4. Framed(Incoming, pc)' /\ OneReply'
    <3> DEFINE new == stream \o (net \o pieces)
    <3>1. Framed(new, pc) /\ OwnReply(new) /\ Incoming' = new
      BY <1>4, <2>1
    <3> HIDE DEF new
    <3>2. Framed(Incoming, pc)'
      BY <3>1 DEF Framed
    <3>3. OwnReply(Incoming)'
      BY <3>1 DEF OwnReply, ReplyAt
    <3>4. \A k \in 1..Len(reqs') : reqs'[k].run # runs'
      <4>1. \A k : k \notin 1..0
        OBVIOUS
      <4> QED
        BY <2>2, <4>1, Zenon
    <3> QED
      BY <2>2, <3>2, <3>3, <3>4 DEF OneReply
  <2> QED
    BY <1>3, <2>3, <2>4 DEF IInv
<1>5. CASE ~(Head(reqs).run = runs /\ pc # "idle")
  <2>1. net' = net /\ Incoming' = Incoming
    BY <1>5 DEF Deliver, Incoming
  <2>2. Shapes'
    BY <1>1, <2>1 DEF IInv, Shapes
  <2>3. Framed(Incoming, pc)' /\ OwnReply(Incoming)' /\ (NoReply(Incoming) => NoReply(Incoming)')
    BY <2>1 DEF IInv, OneReply, OwnReply, NoReply, Framed, ReplyAt
  <2>4. (\A k \in 1..Len(reqs) : reqs[k].run # runs) => \A k \in 1..Len(reqs') : reqs'[k].run # runs'
    BY <1>2
  <2>5. OneReply'
    BY <2>3, <2>4 DEF IInv, OneReply, Waiting
  <2> QED
    BY <1>3, <2>2, <2>3, <2>5 DEF IInv
<1> QED
  BY <1>4, <1>5

\* A reply to the oldest request is a message, and its own.
LEMMA ReplyMessage ==
  ASSUME NEW q \in Requests, NEW type \in {"return", "error", "signal"}, NEW n \in Nat
  PROVE  /\ Message(type, q, n) \in Messages
         /\ Message(type, q, n).type = type
         /\ Message(type, q, n).reply = q.serial /\ Message(type, q, n).run = q.run
<1>1. q.serial \in Nat /\ q.run \in Nat
  BY DEF Requests
<1> QED
  BY <1>1 DEF Message, Messages

\* One message answers it: a return or an error.
LEMMA ReplyStep ==
  ASSUME IInv, reqs # <<>>, reqs' = Tail(reqs),
         UNCHANGED <<cmd, pc, step, serial, rc, answer, exit, runs, stream>>,
         NEW type \in {"return", "error"}, NEW n \in Nat,
         Deliver(Head(reqs).run, Pieces(Message(type, Head(reqs), n)))
  PROVE  IInv'
<1> DEFINE m == Message(type, Head(reqs), n)
<1>1. m \in Messages /\ m.reply = Head(reqs).serial /\ m.run = Head(reqs).run
  BY OldestRequest, ReplyMessage
<1>2. Deliver(Head(reqs).run, Pieces(m))
  OBVIOUS
<1> HIDE DEF m
<1>3. net \in Seq(PieceSet) /\ stream \in Seq(PieceSet)
  BY DEF IInv, Shapes
<1>4. Framed(stream \o net, pc) /\ OwnReply(stream \o net)
  BY DEF IInv, Incoming, OneReply
<1>5. ASSUME Head(reqs).run = runs, pc # "idle"
      PROVE  /\ net \o Pieces(m) \in Seq(PieceSet)
             /\ Framed(stream \o (net \o Pieces(m)), pc)
             /\ OwnReply(stream \o (net \o Pieces(m)))
  <2>1. NoReply(stream \o net) /\ m.reply = serial /\ m.run = runs
    BY <1>1, <1>5, OldestRequest DEF Incoming
  <2> QED
    BY <1>1, <1>3, <1>4, <1>5, <2>1, DeliverMessage
<1> QED
  BY <1>2, <1>5, AnswerStep

\* A reply of the daemon answers the request it has taken.
LEMMA DaemonStep == IInv /\ (DaemonReturns \/ DaemonErrors) => IInv'
<1>1. ASSUME IInv, DaemonReturns PROVE IInv'
  <2>1. PICK n \in 0..MaxDevices : Deliver(Head(reqs).run, Pieces(Message("return", Head(reqs), n)))
    BY <1>1 DEF DaemonReturns
  <2>2. n \in Nat /\ "return" \in {"return", "error"}
    BY BoundsAssumption
  <2>3. /\ reqs # <<>> /\ reqs' = Tail(reqs)
        /\ UNCHANGED <<cmd, pc, step, serial, rc, answer, exit, runs, stream>>
    BY <1>1 DEF DaemonReturns
  <2> QED
    BY <1>1, <2>1, <2>2, <2>3, ReplyStep
<1>2. ASSUME IInv, DaemonErrors PROVE IInv'
  <2>1. Deliver(Head(reqs).run, Pieces(Message("error", Head(reqs), 0)))
    BY <1>2 DEF DaemonErrors
  <2>2. 0 \in Nat /\ "error" \in {"return", "error"}
    OBVIOUS
  <2>3. /\ reqs # <<>> /\ reqs' = Tail(reqs)
        /\ UNCHANGED <<cmd, pc, step, serial, rc, answer, exit, runs, stream>>
    BY <1>2 DEF DaemonErrors
  <2> QED
    BY <1>2, <2>1, <2>2, <2>3, ReplyStep
<1> QED
  BY <1>1, <1>2

\* Hello is answered by an error, or by a return and a signal after it.
LEMMA HelloStep ==
  ASSUME IInv, BusHello
  PROVE  IInv'
<1> DEFINE m == Message("return", Head(reqs), 0)
           sig == Message("signal", Head(reqs), 0)
<1>1. /\ reqs # <<>> /\ reqs' = Tail(reqs)
      /\ UNCHANGED <<cmd, pc, step, serial, rc, answer, exit, runs, stream>>
      /\ \/ Deliver(Head(reqs).run, Pieces(m) \o Pieces(sig))
         \/ Deliver(Head(reqs).run, Pieces(Message("error", Head(reqs), 0)))
  BY DEF BusHello
<1>2. /\ m \in Messages /\ m.reply = Head(reqs).serial /\ m.run = Head(reqs).run
      /\ sig \in Messages /\ sig.type = "signal"
  BY <1>1, OldestRequest, ReplyMessage
<1> HIDE DEF m, sig
<1>3. net \in Seq(PieceSet) /\ stream \in Seq(PieceSet)
  BY DEF IInv, Shapes
<1>4. Framed(stream \o net, pc) /\ OwnReply(stream \o net)
  BY DEF IInv, Incoming, OneReply
<1>5. CASE Deliver(Head(reqs).run, Pieces(m) \o Pieces(sig))
  <2>1. ASSUME Head(reqs).run = runs, pc # "idle"
        PROVE  /\ net \o (Pieces(m) \o Pieces(sig)) \in Seq(PieceSet)
               /\ Framed(stream \o (net \o (Pieces(m) \o Pieces(sig))), pc)
               /\ OwnReply(stream \o (net \o (Pieces(m) \o Pieces(sig))))
    <3>1. NoReply(stream \o net) /\ m.reply = serial /\ m.run = runs
      BY <1>1, <1>2, <2>1, OldestRequest DEF Incoming
    <3>2. /\ net \o Pieces(m) \in Seq(PieceSet)
          /\ Framed(stream \o (net \o Pieces(m)), pc)
          /\ OwnReply(stream \o (net \o Pieces(m)))
      BY <1>2, <1>3, <1>4, <2>1, <3>1, DeliverMessage
    <3>3. /\ (net \o Pieces(m)) \o Pieces(sig) \in Seq(PieceSet)
          /\ Framed(stream \o ((net \o Pieces(m)) \o Pieces(sig)), pc)
          /\ OwnReply(stream \o ((net \o Pieces(m)) \o Pieces(sig)))
      BY <1>2, <1>3, <2>1, <3>2, DeliverMessage
    <3>4. Pieces(m) \in Seq(PieceSet) /\ Pieces(sig) \in Seq(PieceSet)
      BY <1>2, PiecesFacts
    <3>5. (net \o Pieces(m)) \o Pieces(sig) = net \o (Pieces(m) \o Pieces(sig))
      BY <1>3, <3>4, ConcatAssociative, SMTT(30)
    <3> QED
      BY <3>3, <3>5
  <2> QED
    BY <1>1, <1>5, <2>1, AnswerStep
<1>6. CASE Deliver(Head(reqs).run, Pieces(Message("error", Head(reqs), 0)))
  <2>1. 0 \in Nat /\ "error" \in {"return", "error"}
    OBVIOUS
  <2> QED
    BY <1>1, <1>6, <2>1, ReplyStep
<1> QED
  BY <1>1, <1>5, <1>6

\* The fixed header of the next message.
LEMMA FixedStep ==
  ASSUME IInv, ReadFixed
  PROVE  IInv'
<1>1. /\ pc = "fixed" /\ stream # <<>> /\ net \in Seq(PieceSet) /\ stream \in Seq(PieceSet)
      /\ Framed(Incoming, "fixed") /\ OwnReply(Incoming)
  BY DEF IInv, Shapes, ReadFixed, OneReply
<1> DEFINE left == Tail(stream) \o net
<1>2. /\ Incoming \in Seq(PieceSet) /\ left \in Seq(PieceSet) /\ Incoming # <<>>
      /\ Tail(stream) \in Seq(PieceSet) /\ Head(stream) = Incoming[1]
      /\ Len(left) = Len(Incoming) - 1
      /\ \A i \in 1..(Len(Incoming) - 1) : left[i] = Incoming[i + 1]
  <2>1. Incoming \in Seq(PieceSet) /\ left \in Seq(PieceSet)
    BY <1>1, ReadFacts, ConcatProperties DEF Incoming
  <2>2. Incoming # <<>>
    BY <1>1, <2>1, ReadFacts
  <2> QED
    BY <1>1, <2>1, <2>2, ReadFacts
<1> HIDE DEF left
<1>3. /\ Incoming[1].part = "fixed" /\ Framed(left, "rest")
      /\ OwnReply(left) /\ (NoReply(Incoming) => NoReply(left))
  BY <1>1, <1>2, ReadPiece
<1>4. /\ pc' = "rest" /\ stream' = Tail(stream)
      /\ UNCHANGED <<cmd, step, serial, rc, answer, exit, runs, reqs, net, applied>>
  BY <1>2, <1>3 DEF ReadFixed, bus
<1>5. Incoming' = left
  BY <1>4 DEF Incoming, left
<1>6. Shapes' /\ HelloFirst' /\ OneRequest' /\ Taken'
  BY <1>1, <1>2, <1>4 DEF IInv, Shapes, HelloFirst, OneRequest, Taken, Waiting
<1>7. Framed(Incoming, pc)' /\ OneReply'
  <2>1. Framed(Incoming, pc)'
    BY <1>3, <1>4, <1>5 DEF Framed
  <2>2. OwnReply(Incoming)' /\ (NoReply(Incoming) => NoReply(Incoming)')
    BY <1>3, <1>4, <1>5 DEF OwnReply, NoReply, ReplyAt
  <2> QED
    BY <1>1, <1>4, <2>2, <2>1 DEF IInv, OneReply, Waiting
<1> QED
  BY <1>6, <1>7 DEF IInv

\* The rest of it: a signal is skipped, a reply is the client's own.
LEMMA RestStep ==
  ASSUME IInv, ReadRest
  PROVE  IInv'
<1>1. /\ pc = "rest" /\ stream # <<>> /\ net \in Seq(PieceSet) /\ stream \in Seq(PieceSet)
      /\ Framed(Incoming, "rest") /\ OwnReply(Incoming)
      /\ pc # "idle" /\ serial # 0
  BY DEF IInv, Shapes, ReadRest, OneReply, HelloFirst, Waiting
<1> DEFINE left == Tail(stream) \o net
           m == Head(stream).m
<1>2. /\ Incoming \in Seq(PieceSet) /\ left \in Seq(PieceSet) /\ Incoming # <<>>
      /\ Tail(stream) \in Seq(PieceSet) /\ Head(stream) = Incoming[1]
      /\ Len(left) = Len(Incoming) - 1 /\ 1 \in 1..Len(Incoming)
      /\ \A i \in 1..(Len(Incoming) - 1) : left[i] = Incoming[i + 1]
  <2>1. Incoming \in Seq(PieceSet) /\ left \in Seq(PieceSet)
    BY <1>1, ReadFacts, ConcatProperties DEF Incoming
  <2>2. Incoming # <<>> /\ 1 \in 1..Len(Incoming)
    BY <1>1, <2>1, ReadFacts
  <2> QED
    BY <1>1, <2>1, <2>2, ReadFacts
<1>3. m = Incoming[1].m
  BY <1>2
<1>4. \/ m.type = "signal" /\ Skip
      \/ m.type = "error" /\ TakeError(m)
      \/ m.type = "return" /\ TakeReturn(m)
  BY DEF ReadRest
<1> HIDE DEF left, m
<1>5. /\ \A p \in {"fixed", "send"} : Framed(left, p)
      /\ OwnReply(left) /\ (NoReply(Incoming) => NoReply(left))
      /\ ReplyAt(Incoming, 1) => NoReply(left)
  BY <1>1, <1>2, ReadPiece
<1>6. ASSUME m.type # "signal"
      PROVE  /\ m.reply = serial /\ m.run = runs /\ NoReply(left)
             /\ \A k \in 1..Len(reqs) : reqs[k].run # runs
  <2>1. ReplyAt(Incoming, 1)
    <3>1. Incoming[1].part = "rest"
      BY <1>1, <1>2 DEF Framed
    <3> QED
      BY <1>3, <1>6, <3>1 DEF ReplyAt
  <2>2. m.reply = serial /\ m.run = runs
    BY <1>1, <1>2, <1>3, <2>1 DEF OwnReply
  <2>3. ~NoReply(Incoming)
    BY <1>2, <2>1 DEF NoReply
  <2> QED
    BY <1>5, <2>1, <2>2, <2>3 DEF IInv, OneReply
<1>7. CASE m.type = "signal" /\ Skip
  <2>1. /\ pc' = "fixed" /\ stream' = Tail(stream)
        /\ UNCHANGED <<cmd, step, serial, rc, answer, exit, runs, reqs, net, applied>>
    BY <1>7 DEF Skip, bus
  <2>2. Incoming' = left
    BY <2>1 DEF Incoming, left
  <2>3. Shapes' /\ HelloFirst' /\ OneRequest' /\ Taken'
    BY <1>1, <1>2, <2>1 DEF IInv, Shapes, HelloFirst, OneRequest, Taken, Waiting
  <2>4. Framed(Incoming, pc)'
    BY <1>5, <2>1, <2>2 DEF Framed
  <2>5. OwnReply(Incoming)' /\ (NoReply(Incoming) => NoReply(Incoming)')
    BY <1>5, <2>1, <2>2 DEF OwnReply, NoReply, ReplyAt
  <2>6. OneReply'
    BY <1>1, <2>1, <2>5 DEF IInv, OneReply, Waiting
  <2> QED
    BY <2>3, <2>4, <2>6 DEF IInv
<1>8. CASE m.type = "error" /\ TakeError(m)
  <2>1. rc' = 1 /\ answer' = m /\ Exit(1) /\ runs' = runs /\ serial' = serial
    BY <1>8 DEF TakeError, Exit
  <2>2. Taken'
    BY <1>6, <1>8, <2>1 DEF Taken
  <2> QED
    BY <1>1, <2>1, <2>2, ExitStep
<1>9. CASE m.type = "return" /\ TakeReturn(m)
  <2>1. m.reply = serial /\ m.run = runs /\ NoReply(left)
    BY <1>6, <1>9
  <2>2. /\ rc' = 0 /\ answer' = m
        /\ IF Resolved(m) THEN Proceed(Tail(stream)) ELSE Exit(1)
    BY <1>9, <2>1 DEF TakeReturn
  <2>3. Taken'
    <3>1. runs' = runs /\ serial' = serial
      BY <2>2 DEF Proceed, Exit
    <3> QED
      BY <2>1, <2>2, <3>1 DEF Taken
  <2>4. CASE Exit(1)
    BY <1>1, <2>2, <2>3, <2>4, ExitStep
  <2>5. CASE Proceed(Tail(stream)) /\ LastStep
    <3>1. Exit(0)
      BY <2>5 DEF Proceed
    <3> QED
      BY <1>1, <2>2, <2>3, <3>1, ExitStep
  <2>6. CASE Proceed(Tail(stream)) /\ ~LastStep
    <3>1. stream' = Tail(stream) /\ Proceed(stream')
      BY <2>6 DEF Proceed
    <3>2. Framed(stream' \o net, "send") /\ NoReply(stream' \o net)
      BY <1>5, <2>1, <3>1 DEF left
    <3>3. \A k \in 1..Len(reqs) : reqs[k].run # runs
      BY <1>6, <1>9
    <3> QED
      BY <1>1, <1>2, <2>2, <2>3, <2>6, <3>1, <3>2, <3>3, ProceedStep
  <2> QED
    BY <2>2, <2>4, <2>5, <2>6
<1> QED
  BY <1>4, <1>7, <1>8, <1>9
-----------------------------------------------------------------------------

\* Every step keeps the invariant: one case per action.
LEMMA InvNext == IInv /\ [Next]_vars => IInv'
<1> SUFFICES ASSUME IInv, [Next]_vars PROVE IInv'
  OBVIOUS
<1>1. ASSUME NEW c \in Invocations, Start(c) PROVE IInv'
  BY <1>1, StartStep
<1>2. CASE AuthOk
  BY <1>2, AuthStep
<1>3. ASSUME pc # "idle", Exit(1), UNCHANGED <<rc, answer>> \/ rc' = -1
      PROVE  IInv'
  <2>1. rc' \in {None, 0, 1, -1}
    BY <1>3 DEF IInv, Shapes
  <2>2. Taken'
    BY <1>3 DEF IInv, Taken, Exit
  <2> QED
    BY <1>3, <2>1, <2>2, ExitStep
<1>4. CASE AuthFails \/ InvalidNumber \/ SendFails \/ Timeout
  BY <1>3, <1>4 DEF AuthFails, InvalidNumber, SendFails, Timeout
<1>5. CASE LoadFile
  BY <1>5, LoadStep
<1>6. CASE Send
  BY <1>6, SendStep
<1>7. CASE ReadFixed
  BY <1>7, FixedStep
<1>8. CASE ReadRest
  BY <1>8, RestStep
<1>9. CASE BusHello
  BY <1>9, HelloStep
<1>10. CASE DaemonReturns \/ DaemonErrors
  BY <1>10, DaemonStep
<1>11. CASE Arrive
  BY <1>11, ArriveStep
<1>12. CASE UNCHANGED vars
  BY <1>12, SMTT(30) DEF vars, IInv, Shapes, HelloFirst, Incoming, Framed, OneRequest, OneReply,
               OwnReply, NoReply, ReplyAt, Taken, Waiting
<1> QED
  BY <1>1, <1>2, <1>4, <1>5, <1>6, <1>7, <1>8, <1>9, <1>10, <1>11, <1>12 DEF Next, Client

\* Whatever the bus and the daemon do, what is on its way to the client is
\* whole messages in order, and answers the request it waits for (bus_call).
THEOREM Invariance == Spec => []IInv
  BY InvInit, InvNext, PTL DEF Spec

(* The client stays within the script of its command, whatever the         *)
(* commands and however many devices and runs.                             *)
THEOREM TypeCorrect == Spec => []TypeOK
<1>1. IInv => TypeOK
  BY NoneAssumption DEF IInv, Shapes, HelloFirst, TypeOK
<1> QED
  BY <1>1, Invariance, PTL

(* Every reply that bus_call takes, error replies included, answers the    *)
(* request that it waits for, and the stream is never read from the middle *)
(* of a message: for every command and any number of connections.          *)
THEOREM AnswersAreOwn == Spec => []AnswerIsOwn
<1>1. ASSUME IInv, pc = "fixed", stream # <<>> PROVE Head(stream).part = "fixed"
  <2>1. net \in Seq(PieceSet) /\ stream \in Seq(PieceSet) /\ Framed(Incoming, "fixed")
    BY <1>1 DEF IInv, Shapes
  <2>2. Head(stream) = Incoming[1] /\ Incoming # <<>>
    <3>1. Incoming \in Seq(PieceSet)
      BY <2>1, ConcatProperties DEF Incoming
    <3> QED
      BY <1>1, <2>1, <3>1, ReadFacts
  <2> QED
    BY <2>1, <2>2 DEF Framed
<1>2. IInv => AnswerIsOwn
  BY <1>1 DEF IInv, Taken, AnswerIsOwn
<1> QED
  BY <1>2, Invariance, PTL
-----------------------------------------------------------------------------
(* Settings: what the daemon has carried out follows what the client asks  *)
(* for, one step at a time.                                                *)

\* The steps of run r among the settings carried out.
Done(A, r) == {a[2] : a \in {b \in A : b[1] = r}}
\* The settings among the requests q of other runs than r.
LateOf(q, r) ==
  {<<q[i].run, q[i].serial>> :
     i \in {k \in DOMAIN q : q[k].run # r /\ q[k].method \in Settings}}
\* A return is on its way.
Returned(q) == \E i \in 1..Len(q) : q[i].part = "rest" /\ q[i].m.type = "return"

\* A command that changes settings makes one call per step.
InStep ==
  cmd # None /\ Wanted(cmd) # {} =>
    /\ serial \in {step - 1, step}
    /\ pc \in {"auth", "send"} => serial = step - 1
    /\ Waiting => serial = step

\* No request is made twice.
Distinct ==
  \A i, j \in 1..Len(reqs) :
    reqs[i].run = reqs[j].run /\ reqs[i].serial = reqs[j].serial => i = j

\* Nothing was carried out for a command that is still to come.
Past ==
  /\ applied \subseteq Nat \X Nat
  /\ \A a \in applied : a[1] <= runs
  /\ cmd = None => reqs = <<>> /\ applied = {} /\ runs = 0

\* Everything asked for was carried out, but for the last request.
Settled ==
  cmd # None =>
    /\ Carried \subseteq Asked
    /\ \A s \in Asked : s < serial => s \in Carried
    /\ pc \in {"auth", "send"} => Carried = Asked

\* The last request while it is on its way to the daemon.
Pending ==
  \A i \in 1..Len(reqs) : cmd # None /\ reqs[i].run = runs =>
    /\ reqs[i].serial = serial
    /\ reqs[i].method \in Settings <=> serial \in Wanted(cmd)
    /\ serial \notin Carried

\* A return on its way says that it was carried out.
Answered ==
  cmd # None /\ Returned(Incoming) /\ serial \in Wanted(cmd) => serial \in Carried

CInv == InStep /\ Distinct /\ Past /\ Settled /\ Pending /\ Answered

\* What run r has done, step by step.
LEMMA DoneFacts ==
  ASSUME NEW A, NEW r \in Nat, A \subseteq Nat \X Nat
  PROVE  \A s : s \in Done(A, r) <=> s \in Nat /\ <<r, s>> \in A
<1> SUFFICES ASSUME NEW s PROVE s \in Done(A, r) <=> s \in Nat /\ <<r, s>> \in A
  OBVIOUS
<1>1. ASSUME s \in Done(A, r) PROVE s \in Nat /\ <<r, s>> \in A
  <2>1. PICK a \in A : a[1] = r /\ s = a[2]
    BY <1>1 DEF Done
  <2>2. a \in Nat \X Nat
    OBVIOUS
  <2>3. a = <<a[1], a[2]>> /\ a[2] \in Nat
    BY <2>2
  <2> QED
    BY <2>1, <2>3
<1>2. ASSUME s \in Nat, <<r, s>> \in A PROVE s \in Done(A, r)
  <2>1. <<r, s>>[1] = r /\ <<r, s>>[2] = s
    OBVIOUS
  <2> QED
    BY <1>2, <2>1, Zenon DEF Done
<1> QED
  BY <1>1, <1>2

\* One more step of run k.
LEMMA DoneAdd ==
  ASSUME NEW A, NEW r \in Nat, NEW k \in Nat, NEW s \in Nat, A \subseteq Nat \X Nat
  PROVE  /\ k = r => Done(A \cup {<<k, s>>}, r) = Done(A, r) \cup {s}
         /\ k # r => Done(A \cup {<<k, s>>}, r) = Done(A, r)
<1> DEFINE B == A \cup {<<k, s>>}
<1>1. B \subseteq Nat \X Nat
  OBVIOUS
<1>2. \A t : t \in Done(B, r) <=> t \in Nat /\ <<r, t>> \in B
  BY <1>1, DoneFacts
<1>3. \A t : t \in Done(A, r) <=> t \in Nat /\ <<r, t>> \in A
  BY DoneFacts
<1>4. \A t \in Nat : <<r, t>> \in B <=> (<<r, t>> \in A \/ (r = k /\ t = s))
  OBVIOUS
<1> HIDE DEF B
<1>5. \A t : t \in Done(B, r) <=> (t \in Done(A, r) \/ (r = k /\ t = s))
  BY <1>2, <1>3, <1>4
<1>6. /\ k = r => Done(B, r) = Done(A, r) \cup {s}
      /\ k # r => Done(B, r) = Done(A, r)
  BY <1>5
<1> QED
  BY <1>6 DEF B

\* A run that has not begun has done nothing.
LEMMA DoneNothing ==
  ASSUME NEW A, NEW r \in Nat, A \subseteq Nat \X Nat, \A a \in A : a[1] < r
  PROVE  Done(A, r) = {}
<1>1. ASSUME NEW s \in Done(A, r) PROVE FALSE
  <2>1. PICK a \in A : a[1] = r
    BY <1>1 DEF Done
  <2>2. a[1] < r /\ a[1] \in Nat
    OBVIOUS
  <2> QED
    BY <2>1, <2>2
<1> QED
  BY <1>1

\* The settings of a command are none of its Hello and its file reads; a
\* command that has settings reads no file.
LEMMA WantedFacts ==
  ASSUME NEW c \in Invocations
  PROVE  /\ Wanted(c) = {i \in 1..Len(Script(c)) : Script(c)[i] \in Settings}
         /\ Wanted(c) \subseteq Nat /\ 1 \notin Wanted(c) /\ 0 \notin Wanted(c)
         /\ Wanted(c) # {} => \A i \in 1..Len(Script(c)) : Script(c)[i] # "load"
<1> DEFINE body == CASE c.name \in {"device list", "device status"} -> cmd_device(c)
      [] c.name \in {"profile list", "profile show", "profile set"} -> cmd_profile(c)
      [] c.name \in {"button list", "button map", "button reset"} -> cmd_button(c)
      [] c.name \in {"scroll speed", "scroll sensitivity", "scroll reset"} -> cmd_scroll(c)
      [] c.name = "setup reload" -> <<"Reload">>
           Reads == Calls \ Settings
<1>1. c.name \in {"device list", "device status", "profile list",
                  "profile show", "profile set", "button list",
                  "button map", "button reset", "scroll speed",
                  "scroll sensitivity", "scroll reset", "setup reload"}
  BY CommandsAssumption DEF Invocations
<1>2. body \in Seq(Reads) \/ body \in Seq(Settings)
  <2>0. ASSUME NEW s \in Reads PROVE Resolve(c) \o <<s>> \in Seq(Reads)
    <3>1. <<>> \in Seq(Reads) /\ <<"resolve">> \in Seq(Reads) /\ <<s>> \in Seq(Reads)
      BY DEF Calls, Settings
    <3>2. Resolve(c) \in Seq(Reads)
      BY <3>1 DEF Resolve
    <3> QED
      BY <3>1, <3>2, ConcatProperties
  <2>1. cmd_device(c) \in Seq(Reads)
    <3>1. <<"ListDevices">> \in Seq(Reads) /\ "GetStatus" \in Reads
      BY DEF Calls, Settings
    <3> QED
      BY <2>0, <3>1 DEF cmd_device
  <2>2. cmd_profile(c) \in Seq(Reads) \/ cmd_profile(c) \in Seq(Settings)
    <3>1. /\ <<"ListDevices", "load">> \in Seq(Reads) /\ "load" \in Reads
          /\ <<"SetProfile">> \in Seq(Settings)
      BY DEF Calls, Settings
    <3> QED
      BY <2>0, <3>1 DEF cmd_profile
  <2>3. cmd_button(c) \in Seq(Reads) \/ cmd_button(c) \in Seq(Settings)
    <3>1. /\ <<"MapButton">> \in Seq(Settings) /\ "load" \in Reads
          /\ <<"ResetButtons">> \in Seq(Settings)
      BY DEF Calls, Settings
    <3> QED
      BY <2>0, <3>1 DEF cmd_button
  <2>4. cmd_scroll(c) \in Seq(Settings)
    <3>1. /\ <<"SetScrollSpeed">> \in Seq(Settings) /\ <<"SetSensitivity">> \in Seq(Settings)
          /\ <<"SetScrollSpeed", "SetSensitivity">> \in Seq(Settings)
      BY DEF Settings
    <3> QED
      BY <3>1 DEF cmd_scroll
  <2>5. <<"Reload">> \in Seq(Settings)
    BY DEF Settings
  <2> HIDE DEF Reads
  <2> QED
    BY <1>1, <2>1, <2>2, <2>3, <2>4, <2>5
<1>3. Script(c) = <<"Hello">> \o body
  BY DEF Script
<1>4. /\ "load" \notin Settings /\ "Hello" \notin Settings
      /\ \A s \in Reads : s \notin Settings
  BY DEF Settings
<1> HIDE DEF body, Reads
<1>5. /\ Len(Script(c)) \in Nat /\ Script(c)[1] = "Hello"
      /\ DOMAIN Script(c) = 1..Len(Script(c))
      /\ \A i \in 2..Len(Script(c)) : i - 1 \in 1..Len(body) /\ Script(c)[i] = body[i - 1]
  BY <1>2, <1>3
<1>6. CASE body \in Seq(Reads)
  <2>1. \A i \in 1..Len(body) : body[i] \in Reads
    BY <1>6
  <2>2. \A i \in 1..Len(Script(c)) : Script(c)[i] \notin Settings
    BY <1>4, <1>5, <2>1
  <2> QED
    BY <1>5, <2>2 DEF Wanted
<1>7. CASE body \in Seq(Settings)
  <2>1. \A i \in 1..Len(body) : body[i] \in Settings
    BY <1>7
  <2>2. \A i \in 1..Len(Script(c)) : Script(c)[i] # "load"
    BY <1>4, <1>5, <2>1
  <2> QED
    BY <1>4, <1>5, <2>2 DEF Wanted
<1> QED
  BY <1>2, <1>6, <1>7

LEMMA CarriedInit == Init => CInv
<1> SUFFICES ASSUME Init PROVE CInv
  OBVIOUS
<1>1. cmd = None /\ reqs = <<>> /\ applied = {} /\ runs = 0 /\ Len(reqs) = 0
  BY DEF Init
<1>2. InStep /\ Distinct /\ Settled /\ Pending /\ Answered
  BY <1>1 DEF InStep, Distinct, Settled, Pending, Answered
<1>3. Past
  BY <1>1 DEF Past
<1> QED
  BY <1>2, <1>3 DEF CInv

\* The parts about requests and settings, of a step that touches neither.
LEMMA QuietStep ==
  ASSUME CInv, UNCHANGED <<cmd, serial, runs, reqs, applied>>, InStep',
         cmd # None /\ pc' \in {"auth", "send"} => Carried = Asked,
         Returned(Incoming)' => Returned(Incoming)
  PROVE  CInv'
<1>1. Asked' = Asked /\ Carried' = Carried
  BY DEF Asked, Plan, Carried
<1>2. Distinct' /\ Past'
  BY DEF CInv, Distinct, Past
<1>3. Settled'
  BY <1>1 DEF CInv, Settled
<1>4. Pending'
  BY <1>1 DEF CInv, Pending
<1>5. Answered'
  BY <1>1 DEF CInv, Answered
<1> QED
  BY <1>2, <1>3, <1>4, <1>5 DEF CInv

\* The end of a command.
LEMMA ExitQuiet ==
  ASSUME CInv, NEW code \in {0, 1}, Exit(code)
  PROVE  CInv'
<1>1. UNCHANGED <<cmd, step, serial, runs, reqs, applied>> /\ pc' = "idle"
  BY DEF Exit
<1>2. InStep'
  BY <1>1 DEF CInv, InStep, Waiting
<1>3. ~Returned(Incoming)'
  <2>1. Incoming' = <<>>
    BY DEF Exit, Incoming
  <2> QED
    BY <2>1 DEF Returned
<1> QED
  BY <1>1, <1>2, <1>3, QuietStep

\* The answer to AUTH, and a message that is read in part or skipped.
LEMMA WaitQuiet ==
  ASSUME IInv, CInv, AuthOk \/ ReadFixed \/ Arrive \/ (pc = "rest" /\ stream # <<>> /\ Skip)
  PROVE  CInv'
<1>0. net \in Seq(PieceSet) /\ stream \in Seq(PieceSet)
  BY DEF IInv, Shapes
<1>1. CASE AuthOk
  <2>1. /\ pc = "auth" /\ pc' = "send"
        /\ UNCHANGED <<cmd, step, serial, runs, reqs, applied, net, stream>>
    BY <1>1 DEF AuthOk, bus
  <2>2. InStep'
    BY <2>1 DEF CInv, InStep, Waiting
  <2>3. Returned(Incoming)' => Returned(Incoming)
    BY <2>1 DEF Incoming, Returned
  <2>4. cmd # None => Carried = Asked
    BY <2>1 DEF CInv, Settled
  <2> QED
    BY <2>1, <2>2, <2>3, <2>4, QuietStep
<1>2. CASE ReadFixed \/ (pc = "rest" /\ stream # <<>> /\ Skip)
  <2>1. stream # <<>>
    BY <1>2 DEF ReadFixed
  <2>2. CASE ReadFixed /\ Head(stream).part # "fixed"
    <3>1. Exit(1)
      BY <2>2 DEF ReadFixed
    <3> QED
      BY <3>1, ExitQuiet
  <2>3. CASE ~(ReadFixed /\ Head(stream).part # "fixed")
    <3>1. /\ pc \in {"fixed", "rest"} /\ pc' \in {"fixed", "rest"} /\ stream' = Tail(stream)
          /\ UNCHANGED <<cmd, step, serial, runs, reqs, applied, net>>
      BY <1>2, <2>3 DEF ReadFixed, Skip, bus
    <3>2. InStep'
      BY <3>1 DEF CInv, InStep, Waiting
    <3>3. Returned(Incoming)' => Returned(Incoming)
      <4> DEFINE left == Tail(stream) \o net
      <4>1. /\ Len(Incoming) \in Nat /\ Len(left) = Len(Incoming) - 1
            /\ \A i \in 1..(Len(Incoming) - 1) : left[i] = Incoming[i + 1]
        BY <1>0, <2>1, ReadFacts
      <4>2. Incoming' = left
        BY <3>1 DEF Incoming
      <4> HIDE DEF left
      <4>3. \A i \in 1..Len(left) : i + 1 \in 1..Len(Incoming) /\ left[i] = Incoming[i + 1]
        BY <4>1
      <4> QED
        BY <4>2, <4>3 DEF Returned
    <3> QED
      BY <3>1, <3>2, <3>3, QuietStep
  <2> QED
    BY <2>2, <2>3
<1>3. CASE Arrive
  <2>1. UNCHANGED <<cmd, pc, step, serial, runs, reqs, applied>> /\ net # <<>>
    BY <1>3 DEF Arrive
  <2>2. Incoming' = Incoming
    <3>1. Incoming' = Append(stream, Head(net)) \o Tail(net)
      BY <1>3 DEF Arrive, Incoming
    <3> QED
      BY <1>0, <2>1, <3>1, ArriveFacts
  <2>3. InStep' /\ (Returned(Incoming)' => Returned(Incoming))
    BY <2>1, <2>2 DEF CInv, InStep, Waiting, Returned
  <2>4. cmd # None /\ pc' \in {"auth", "send"} => Carried = Asked
    BY <2>1 DEF CInv, Settled
  <2> QED
    BY <2>1, <2>3, <2>4, QuietStep
<1> QED
  BY <1>1, <1>2, <1>3

\* The next step of a script, when all that was asked for is carried out and
\* either the answer to the last call was taken or a file was read.
LEMMA ProceedQuiet ==
  ASSUME IInv, CInv, Proceed(stream'), ~LastStep, pc # "idle", Carried = Asked,
         Returned(Incoming)' => Returned(Incoming),
         Waiting \/ Wanted(cmd) = {}
  PROVE  CInv'
<1>1. /\ pc' = "send" /\ step' = step + 1
      /\ UNCHANGED <<cmd, serial, runs, reqs, applied>>
  BY DEF Proceed, bus
<1>2. step \in Nat /\ serial \in Nat
  BY ScriptFacts, NoneAssumption DEF IInv, Shapes
<1>3. InStep'
  BY <1>1, <1>2 DEF CInv, InStep, Waiting
<1> QED
  BY <1>1, <1>3, QuietStep

\* The command and its settings while it runs.
LEMMA RunningFacts ==
  ASSUME IInv, pc # "idle"
  PROVE  /\ cmd # None /\ cmd \in Invocations
         /\ step \in 1..Len(Script(cmd)) /\ step \in Nat /\ serial \in Nat /\ runs \in Nat
         /\ Wanted(cmd) \subseteq Nat
         /\ Asked = {i \in Wanted(cmd) : i <= serial}
         /\ step \in Wanted(cmd) <=> Current \in Settings
         /\ Current = "load" => Wanted(cmd) = {}
<1>1. /\ cmd # None /\ cmd \in Invocations
      /\ step \in 1..Len(Script(cmd)) /\ serial \in Nat /\ runs \in Nat
  BY DEF IInv, Shapes
<1>2. step \in Nat
  BY <1>1, ScriptFacts
<1> QED
  BY <1>1, <1>2, WantedFacts DEF Asked, Plan, Current

\* A file is read only by commands that change nothing.
LEMMA LoadQuiet ==
  ASSUME IInv, CInv, LoadFile
  PROVE  CInv'
<1>1. pc = "send" /\ Wanted(cmd) = {} /\ (Proceed(stream) \/ Exit(1))
  BY RunningFacts DEF LoadFile
<1>2. CASE Exit(1) \/ (Proceed(stream) /\ LastStep)
  BY <1>2, ExitQuiet DEF Proceed
<1>3. CASE Proceed(stream) /\ ~LastStep
  <2>1. stream' = stream /\ net' = net /\ Proceed(stream')
    BY <1>3 DEF Proceed, bus
  <2>2. Returned(Incoming)' => Returned(Incoming)
    BY <2>1 DEF Incoming, Returned
  <2>3. Carried = Asked
    BY <1>1, RunningFacts DEF CInv, Settled
  <2> QED
    BY <1>1, <1>3, <2>1, <2>2, <2>3, ProceedQuiet
<1> QED
  BY <1>1, <1>2, <1>3

\* A return that is read tells that all that was asked for is carried out.
LEMMA ReturnTaken ==
  ASSUME IInv, CInv, ReadRest, Head(stream).m.type = "return"
  PROVE  /\ Carried = Asked /\ Waiting /\ pc # "idle"
         /\ TakeReturn(Head(stream).m) /\ Head(stream).m.reply = serial
<1>1. /\ pc = "rest" /\ stream # <<>> /\ net \in Seq(PieceSet) /\ stream \in Seq(PieceSet)
      /\ Framed(Incoming, "rest") /\ OwnReply(Incoming)
  BY DEF IInv, Shapes, ReadRest, OneReply
<1>2. /\ Head(stream) = Incoming[1] /\ 1 \in 1..Len(Incoming)
      /\ Incoming # <<>>
  <2>1. Incoming \in Seq(PieceSet)
    BY <1>1, ConcatProperties DEF Incoming
  <2> QED
    BY <1>1, <2>1, ReadFacts
<1>3. Incoming[1].part = "rest"
  BY <1>1, <1>2 DEF Framed
<1>4. Returned(Incoming) /\ Incoming[1].m.reply = serial
  <2>1. ReplyAt(Incoming, 1)
    BY <1>2, <1>3 DEF ReplyAt
  <2> QED
    BY <1>1, <1>2, <1>3, <2>1 DEF Returned, OwnReply
<1>5. Carried = Asked
  <2>1. /\ cmd # None /\ serial \in Nat /\ Wanted(cmd) \subseteq Nat
        /\ Asked = {i \in Wanted(cmd) : i <= serial}
    BY <1>1, RunningFacts
  <2>2. /\ Carried \subseteq Asked
        /\ \A s \in Asked : s < serial => s \in Carried
    BY <2>1 DEF CInv, Settled
  <2>3. serial \in Wanted(cmd) => serial \in Carried
    BY <1>4, <2>1 DEF CInv, Answered
  <2>4. \A s \in Asked : s < serial \/ (s = serial /\ serial \in Wanted(cmd))
    BY <2>1
  <2> QED
    BY <2>2, <2>3, <2>4
<1>6. TakeReturn(Head(stream).m)
  BY DEF ReadRest
<1> QED
  BY <1>1, <1>2, <1>4, <1>5, <1>6 DEF Waiting

\* The rest of a message.
LEMMA RestQuiet ==
  ASSUME IInv, CInv, ReadRest
  PROVE  CInv'
<1>0. /\ pc = "rest" /\ stream # <<>> /\ net \in Seq(PieceSet) /\ stream \in Seq(PieceSet)
      /\ \/ Skip
         \/ Exit(1)
         \/ Head(stream).m.type = "return"
  BY DEF IInv, Shapes, ReadRest, TakeError
<1>1. CASE Skip
  BY <1>0, <1>1, WaitQuiet
<1>2. CASE Exit(1)
  BY <1>2, ExitQuiet
<1>3. CASE Head(stream).m.type = "return"
  <2>1. /\ Carried = Asked /\ Waiting /\ pc # "idle"
        /\ TakeReturn(Head(stream).m)
    BY <1>3, ReturnTaken
  <2>2. Proceed(Tail(stream)) \/ Exit(1)
    BY <2>1 DEF TakeReturn
  <2>3. CASE Exit(1) \/ (Proceed(Tail(stream)) /\ LastStep)
    BY <2>3, ExitQuiet DEF Proceed
  <2>4. CASE Proceed(Tail(stream)) /\ ~LastStep
    <3>1. stream' = Tail(stream) /\ net' = net /\ Proceed(stream')
      BY <2>4 DEF Proceed, bus
    <3>2. Returned(Incoming)' => Returned(Incoming)
      <4> DEFINE left == Tail(stream) \o net
      <4>1. /\ Len(Incoming) \in Nat /\ Len(left) = Len(Incoming) - 1
            /\ \A i \in 1..(Len(Incoming) - 1) : left[i] = Incoming[i + 1]
        BY <1>0, ReadFacts
      <4>2. Incoming' = left
        BY <3>1 DEF Incoming
      <4> HIDE DEF left
      <4>3. \A i \in 1..Len(left) : i + 1 \in 1..Len(Incoming) /\ left[i] = Incoming[i + 1]
        BY <4>1
      <4> QED
        BY <4>2, <4>3 DEF Returned
    <3> QED
      BY <2>1, <2>4, <3>1, <3>2, ProceedQuiet
  <2> QED
    BY <2>2, <2>3, <2>4
<1> QED
  BY <1>0, <1>1, <1>2, <1>3

\* A new command has asked for nothing, and nothing was done for it.
LEMMA StartCarried ==
  ASSUME IInv, CInv, NEW c \in Invocations, Start(c)
  PROVE  CInv' /\ Asked' = {} /\ Carried' = {}
<1>1. /\ cmd' = c /\ c # None /\ step' = 1 /\ serial' = 0 /\ runs' = runs + 1
      /\ pc' \in {"auth", "idle"} /\ runs \in Nat
      /\ UNCHANGED <<reqs, net, stream, applied>>
  BY NoneAssumption DEF Start, IInv, Shapes
<1>2. Asked' = {}
  <2>1. \A i \in Wanted(c) : i \in Nat /\ i # 0
    BY WantedFacts
  <2>2. Asked' = {i \in Wanted(c) : i <= 0}
    BY <1>1 DEF Asked, Plan
  <2> QED
    BY <2>1, <2>2
<1>3. Carried' = {}
  <2>1. Carried' = Done(applied, runs + 1)
    BY <1>1 DEF Carried, Done
  <2>2. /\ applied \subseteq Nat \X Nat /\ runs + 1 \in Nat
        /\ \A a \in applied : a[1] <= runs /\ a[1] \in Nat
    BY <1>1 DEF CInv, Past
  <2>3. \A a \in applied : a[1] < runs + 1
    BY <1>1, <2>2
  <2> QED
    BY <2>1, <2>2, <2>3, DoneNothing
<1>4. InStep'
  BY <1>1 DEF InStep, Waiting
<1>5. Distinct'
  BY <1>1 DEF CInv, Distinct
<1>6. Past'
  <2>1. applied \subseteq Nat \X Nat /\ \A a \in applied : a[1] <= runs
    BY DEF CInv, Past
  <2>2. \A a \in applied : a[1] \in Nat
    BY <2>1
  <2>3. \A a \in applied : a[1] <= runs + 1
    BY <1>1, <2>1, <2>2
  <2> QED
    BY <1>1, <2>1, <2>3 DEF Past
<1>7. Settled'
  BY <1>1, <1>2, <1>3 DEF Settled
<1>8. Pending'
  <2>1. \A i \in 1..Len(reqs) : reqs[i].run <= runs /\ reqs[i].run \in Nat
    <3>1. reqs \in Seq(Requests)
      BY DEF IInv, Shapes
    <3>2. \A i \in 1..Len(reqs) : reqs[i] \in Requests
      BY <3>1
    <3> QED
      BY <3>2 DEF IInv, OneRequest, Requests
  <2>2. \A i \in 1..Len(reqs) : reqs[i].run # runs + 1
    BY <1>1, <2>1
  <2> QED
    BY <1>1, <2>2 DEF Pending
<1>9. Answered'
  <2>1. Incoming' = <<>>
    BY <1>1 DEF IInv, Framed, Start, Incoming
  <2> QED
    BY <2>1 DEF Answered, Returned
<1> QED
  BY <1>2, <1>3, <1>4, <1>5, <1>6, <1>7, <1>8, <1>9 DEF CInv

\* The request for the next step.
LEMMA SendCarried ==
  ASSUME IInv, CInv, Send
  PROVE  CInv' /\ Carried' = Carried /\ Carried = Asked
           /\ Asked' = {i \in Wanted(cmd) : i <= serial + 1}
           /\ (Wanted(cmd) # {} => step = serial + 1)
<1> DEFINE q == [run |-> runs, serial |-> serial + 1, method |-> Current]
<1>1. /\ pc = "send" /\ pc' = "fixed" /\ serial' = serial + 1 /\ reqs' = Append(reqs, q)
      /\ UNCHANGED <<cmd, step, runs, net, stream, applied>>
  BY DEF Send
<1>2. q.run = runs /\ q.serial = serial + 1 /\ q.method = Current
  OBVIOUS
<1> HIDE DEF q
<1>3. /\ cmd # None /\ cmd \in Invocations
      /\ step \in Nat /\ serial \in Nat /\ runs \in Nat
      /\ Wanted(cmd) \subseteq Nat
      /\ Asked = {i \in Wanted(cmd) : i <= serial}
      /\ step \in Wanted(cmd) <=> Current \in Settings
  BY <1>1, RunningFacts
<1>4. Carried = Asked /\ (Wanted(cmd) # {} => step = serial + 1)
  BY <1>1, <1>3 DEF CInv, Settled, InStep
<1>5. Carried' = Carried
  BY <1>1 DEF Carried
<1>6. Asked' = {i \in Wanted(cmd) : i <= serial + 1}
  BY <1>1, <1>3 DEF Asked, Plan
<1>7. /\ Len(reqs') = Len(reqs) + 1 /\ Len(reqs) \in Nat
      /\ \A i \in 1..Len(reqs) : reqs'[i] = reqs[i]
      /\ reqs'[Len(reqs) + 1] = q
      /\ \A i \in 1..Len(reqs) : reqs[i].run # runs
  <2>1. reqs \in Seq(Requests) /\ \A i \in 1..Len(reqs) : reqs[i].run # runs
    BY <1>1 DEF IInv, Shapes, OneRequest, Waiting
  <2> QED
    BY <1>1, <2>1
<1>8. \A i \in 1..Len(reqs') : i \in 1..Len(reqs) \/ i = Len(reqs) + 1
  BY <1>7
<1>9. InStep'
  BY <1>1, <1>3, <1>4 DEF InStep, Waiting
<1>10. Distinct'
  <2> SUFFICES ASSUME NEW i \in 1..Len(reqs'), NEW j \in 1..Len(reqs'),
                      reqs'[i].run = reqs'[j].run, reqs'[i].serial = reqs'[j].serial
               PROVE  i = j
    BY DEF Distinct
  <2>1. CASE i \in 1..Len(reqs) /\ j \in 1..Len(reqs)
    BY <1>7, <2>1 DEF CInv, Distinct
  <2>2. CASE i \in 1..Len(reqs) /\ j = Len(reqs) + 1
    BY <1>2, <1>7, <2>2
  <2>3. CASE j \in 1..Len(reqs) /\ i = Len(reqs) + 1
    BY <1>2, <1>7, <2>3
  <2> QED
    BY <1>8, <2>1, <2>2, <2>3
<1>11. Past'
  BY <1>1, <1>3 DEF CInv, Past
<1>12. Settled'
  <2>1. Asked \subseteq Asked' /\ \A s \in Asked' : s < serial + 1 => s \in Asked
    BY <1>3, <1>6
  <2> QED
    BY <1>1, <1>4, <1>5, <2>1 DEF Settled
<1>13. Pending'
  <2> SUFFICES ASSUME NEW i \in 1..Len(reqs'), reqs'[i].run = runs'
               PROVE  /\ reqs'[i].serial = serial'
                      /\ reqs'[i].method \in Settings <=> serial' \in Wanted(cmd')
                      /\ serial' \notin Carried'
    BY DEF Pending
  <2>1. reqs'[i] = q
    BY <1>1, <1>7, <1>8
  <2>2. Current \in Settings <=> serial + 1 \in Wanted(cmd)
    BY <1>3, <1>4
  <2>3. serial + 1 \notin Carried
    BY <1>3, <1>4
  <2> QED
    BY <1>1, <1>2, <1>5, <2>1, <2>2, <2>3
<1>14. Answered'
  <2>1. NoReply(Incoming) /\ Incoming' = Incoming
    BY <1>1 DEF IInv, OneReply, Waiting, Incoming
  <2>2. ~Returned(Incoming)
    BY <2>1 DEF NoReply, Returned, ReplyAt
  <2> QED
    BY <2>1, <2>2 DEF Answered, Returned
<1> QED
  BY <1>4, <1>5, <1>6, <1>9, <1>10, <1>11, <1>12, <1>13, <1>14 DEF CInv

\* The oldest request leaves for the daemon, carried out or not.
AnsweredBy(B) ==
  /\ reqs # <<>> /\ reqs' = Tail(reqs)
  /\ applied' \in {applied, B}
  /\ UNCHANGED <<cmd, pc, step, serial, runs, stream>>

\* What it changes: at most the step that the client waits for or gave up.
LEMMA CarryFacts ==
  ASSUME IInv, CInv, AnsweredBy(Carry(Head(reqs)))
  PROVE  /\ applied' \subseteq Nat \X Nat /\ \A a \in applied' : a[1] <= runs
         /\ cmd # None /\ cmd \in Invocations
         /\ Head(reqs).run # runs => Carried' = Carried
         /\ Head(reqs).run = runs =>
              /\ serial \notin Carried
              /\ Head(reqs).method \in Settings <=> serial \in Wanted(cmd)
              /\ applied' = applied => Carried' = Carried
              /\ applied' = Carry(Head(reqs)) =>
                   Carried' = IF serial \in Wanted(cmd) THEN Carried \cup {serial} ELSE Carried
<1> DEFINE q == Head(reqs)
<1>1. /\ q \in Requests /\ q = reqs[1] /\ 1 \in 1..Len(reqs)
      /\ runs \in Nat /\ runs' = runs /\ serial \in Nat
  BY OldestRequest DEF AnsweredBy, IInv, Shapes
<1>2. q.run \in Nat /\ q.serial \in Nat /\ q.run <= runs
  BY <1>1 DEF Requests, IInv, OneRequest
<1>3. applied \subseteq Nat \X Nat /\ \A a \in applied : a[1] <= runs
  BY DEF CInv, Past
<1>4. cmd # None /\ cmd \in Invocations
  BY DEF IInv, Shapes, CInv, Past, AnsweredBy
<1> HIDE DEF q
<1>5. Carried = Done(applied, runs) /\ Carried' = Done(applied', runs)
  BY <1>1 DEF Carried, Done
<1>6. q.run = runs => /\ q.serial = serial /\ serial \notin Carried
                      /\ q.method \in Settings <=> serial \in Wanted(cmd)
  BY <1>1, <1>4 DEF CInv, Pending
<1>7. /\ q.method \in Settings => Carry(q) = applied \cup {<<q.run, q.serial>>}
      /\ q.method \notin Settings => Carry(q) = applied
  BY DEF Carry
<1>8. applied' \in {applied, Carry(q)}
  BY DEF AnsweredBy, q
<1>9. /\ q.run = runs =>
           Done(applied \cup {<<q.run, q.serial>>}, runs) = Done(applied, runs) \cup {q.serial}
      /\ q.run # runs =>
           Done(applied \cup {<<q.run, q.serial>>}, runs) = Done(applied, runs)
  <2> DEFINE k == q.run
             s == q.serial
  <2>1. runs \in Nat /\ k \in Nat /\ s \in Nat /\ applied \subseteq Nat \X Nat
    BY <1>1, <1>2, <1>3
  <2> HIDE DEF k, s
  <2>2. /\ k = runs => Done(applied \cup {<<k, s>>}, runs) = Done(applied, runs) \cup {s}
        /\ k # runs => Done(applied \cup {<<k, s>>}, runs) = Done(applied, runs)
    BY <2>1, DoneAdd
  <2> QED
    BY <2>2 DEF k, s
<1>10. applied' \subseteq Nat \X Nat /\ \A a \in applied' : a[1] <= runs
  BY <1>2, <1>3, <1>7, <1>8
<1>11. q.run # runs => Carried' = Carried
  BY <1>5, <1>7, <1>8, <1>9
<1>12. applied' = applied => Carried' = Carried
  BY <1>5
<1>13. ASSUME q.run = runs, applied' = Carry(q)
       PROVE  Carried' = IF serial \in Wanted(cmd) THEN Carried \cup {serial} ELSE Carried
  BY <1>5, <1>6, <1>7, <1>9, <1>13
<1> QED
  BY <1>4, <1>6, <1>10, <1>11, <1>12, <1>13 DEF q

\* The answer to the oldest request leaves everything else settled.
LEMMA AnswerCarried ==
  ASSUME IInv, CInv, AnsweredBy(Carry(Head(reqs))),
         Returned(Incoming)' /\ serial \in Wanted(cmd) => serial \in Carried'
  PROVE  CInv'
<1> DEFINE q == Head(reqs)
<1>1. /\ Len(reqs) \in Nat /\ Len(reqs) >= 1 /\ q = reqs[1] /\ 1 \in 1..Len(reqs)
      /\ Len(reqs') = Len(reqs) - 1
      /\ \A i \in 1..(Len(reqs) - 1) : reqs'[i] = reqs[i + 1]
  BY OldestRequest DEF AnsweredBy
<1>2. \A i \in 1..Len(reqs') : i + 1 \in 1..Len(reqs) /\ i + 1 # 1 /\ reqs'[i] = reqs[i + 1]
  BY <1>1
<1>3. UNCHANGED <<cmd, pc, step, serial, runs, stream>>
  BY DEF AnsweredBy
<1>4. cmd # None /\ cmd \in Invocations /\ serial \in Nat
  BY CarryFacts DEF IInv, Shapes
<1>5. \/ Carried' = Carried
      \/ /\ Carried' = Carried \cup {serial} /\ serial \in Wanted(cmd)
         /\ q.run = runs
  BY CarryFacts DEF AnsweredBy
<1>6. Asked' = Asked /\ (serial \in Wanted(cmd) => serial \in Asked)
  BY <1>3, <1>4 DEF Asked, Plan
<1> HIDE DEF q
<1>7. InStep'
  BY <1>3 DEF CInv, InStep, Waiting
<1>8. Distinct'
  <2> SUFFICES ASSUME NEW i \in 1..Len(reqs'), NEW j \in 1..Len(reqs'),
                      reqs'[i].run = reqs'[j].run, reqs'[i].serial = reqs'[j].serial
               PROVE  i = j
    BY DEF Distinct
  <2>1. i + 1 = j + 1
    BY <1>2 DEF CInv, Distinct
  <2>2. i \in Int /\ j \in Int
    OBVIOUS
  <2> QED
    BY <2>1, <2>2
<1>9. Past'
  BY <1>3, <1>4, CarryFacts DEF Past
<1>10. Settled'
  <2>1. /\ Carried \subseteq Asked
        /\ \A s \in Asked : s < serial => s \in Carried
    BY <1>4 DEF CInv, Settled
  <2>2. Carried' \subseteq Asked /\ Carried \subseteq Carried'
    BY <1>5, <1>6, <2>1
  <2>3. ASSUME pc \in {"auth", "send"} PROVE Carried' = Asked
    <3>1. q.run # runs
      BY <1>1, <2>3 DEF IInv, OneRequest, Waiting
    <3> QED
      BY <1>4, <1>5, <2>3, <3>1 DEF CInv, Settled
  <2> QED
    BY <1>3, <1>6, <2>1, <2>2, <2>3 DEF Settled
<1>11. Pending'
  <2> SUFFICES ASSUME NEW i \in 1..Len(reqs'), reqs'[i].run = runs'
               PROVE  /\ reqs'[i].serial = serial'
                      /\ reqs'[i].method \in Settings <=> serial' \in Wanted(cmd')
                      /\ serial' \notin Carried'
    BY DEF Pending
  <2>1. /\ reqs[i + 1].serial = serial
        /\ reqs[i + 1].method \in Settings <=> serial \in Wanted(cmd)
        /\ serial \notin Carried
        /\ reqs'[i] = reqs[i + 1] /\ reqs[i + 1].run = runs
    BY <1>2, <1>3, <1>4 DEF CInv, Pending
  <2>2. q.run # runs
    <3> SUFFICES ASSUME q.run = runs PROVE FALSE
      OBVIOUS
    <3>1. reqs[1].serial = serial /\ reqs[1].run = runs
      BY <1>1, <1>4 DEF CInv, Pending
    <3>2. i + 1 = 1
      BY <1>1, <1>2, <2>1, <3>1 DEF CInv, Distinct
    <3> QED
      BY <1>2, <3>2
  <2> QED
    BY <1>3, <1>5, <2>1, <2>2
<1>12. Answered'
  BY <1>3 DEF Answered
<1> QED
  BY <1>7, <1>8, <1>9, <1>10, <1>11, <1>12 DEF CInv

\* A message that goes nowhere.
LEMMA Undelivered ==
  ASSUME IInv, CInv, AnsweredBy(Carry(Head(reqs))), NEW pieces,
         Deliver(Head(reqs).run, pieces), ~(Head(reqs).run = runs /\ pc # "idle")
  PROVE  Returned(Incoming)' /\ serial \in Wanted(cmd) => serial \in Carried'
<1>1. Incoming' = Incoming
  BY DEF Deliver, Incoming, AnsweredBy
<1>2. Carried \subseteq Carried' /\ cmd # None
  BY CarryFacts DEF AnsweredBy
<1>3. Returned(Incoming)' => Returned(Incoming)
  BY <1>1 DEF Returned
<1> QED
  BY <1>2, <1>3 DEF CInv, Answered

\* Hello changes nothing.
LEMMA HelloCarried ==
  ASSUME IInv, CInv, BusHello
  PROVE  CInv' /\ AnsweredBy(Carry(Head(reqs))) /\ applied' = applied
<1>1. AnsweredBy(Carry(Head(reqs))) /\ applied' = applied
  BY DEF BusHello, AnsweredBy
<1>2. PICK pieces : Deliver(Head(reqs).run, pieces)
  BY DEF BusHello
<1>3. CASE ~(Head(reqs).run = runs /\ pc # "idle")
  BY <1>1, <1>2, <1>3, Undelivered, AnswerCarried
<1>4. CASE Head(reqs).run = runs /\ pc # "idle"
  <2>1. Head(reqs).method \notin Settings
    BY DEF BusHello, Settings
  <2>2. serial \notin Wanted(cmd)
    BY <1>1, <1>4, <2>1, CarryFacts
  <2> QED
    BY <1>1, <2>2, AnswerCarried
<1> QED
  BY <1>1, <1>3, <1>4

\* The daemon carries a setting out before it returns; an error says nothing.
LEMMA DaemonCarried ==
  ASSUME IInv, CInv, DaemonReturns \/ DaemonErrors
  PROVE  CInv' /\ AnsweredBy(Carry(Head(reqs)))
<1>1. AnsweredBy(Carry(Head(reqs)))
  BY DEF DaemonReturns, DaemonErrors, AnsweredBy
<1>2. CASE DaemonReturns
  <2>1. PICK pieces : Deliver(Head(reqs).run, pieces)
    BY <1>2 DEF DaemonReturns
  <2>2. CASE ~(Head(reqs).run = runs /\ pc # "idle")
    BY <1>1, <2>1, <2>2, Undelivered, AnswerCarried
  <2>3. CASE Head(reqs).run = runs /\ pc # "idle"
    <3>1. applied' = Carry(Head(reqs))
      BY <1>2 DEF DaemonReturns
    <3>2. serial \in Wanted(cmd) => serial \in Carried'
      BY <1>1, <2>3, <3>1, CarryFacts
    <3> QED
      BY <1>1, <3>2, AnswerCarried
  <2> QED
    BY <1>1, <2>2, <2>3
<1>3. CASE DaemonErrors
  <2> DEFINE m == Message("error", Head(reqs), 0)
  <2>1. Deliver(Head(reqs).run, Pieces(m))
    BY <1>3 DEF DaemonErrors
  <2>2. m \in Messages /\ m.type = "error"
    BY <1>1, OldestRequest, ReplyMessage DEF AnsweredBy
  <2> HIDE DEF m
  <2>3. CASE ~(Head(reqs).run = runs /\ pc # "idle")
    BY <1>1, <2>1, <2>3, Undelivered, AnswerCarried
  <2>4. CASE Head(reqs).run = runs /\ pc # "idle"
    <3> DEFINE old == stream \o net
               new == stream \o (net \o Pieces(m))
    <3>1. NoReply(old)
      BY <1>1, <2>4, OldestRequest DEF AnsweredBy, Incoming
    <3>2. Incoming' = new
      BY <1>1, <2>1, <2>4 DEF Deliver, Incoming, AnsweredBy
    <3>3. stream \in Seq(PieceSet) /\ net \in Seq(PieceSet)
      BY DEF IInv, Shapes
    <3>4. /\ Len(old) \in Nat /\ Len(new) = Len(old) + 2
          /\ \A i \in 1..Len(old) : new[i] = old[i]
          /\ new[Len(old) + 1] = [part |-> "fixed", m |-> m]
          /\ new[Len(old) + 2] = [part |-> "rest", m |-> m]
      BY <2>2, <3>3, DeliverFacts, ZenonT(40)
    <3> HIDE DEF old, new
    <3>5. new[Len(old) + 1].part = "fixed" /\ new[Len(old) + 2].m.type = "error"
      BY <2>2, <3>4
    <3>6. \A i \in 1..Len(new) : i \in 1..Len(old) \/ i = Len(old) + 1 \/ i = Len(old) + 2
      BY <3>4
    <3>7. ~Returned(new)
      BY <3>1, <3>4, <3>5, <3>6 DEF Returned, NoReply, ReplyAt
    <3>8. ~Returned(Incoming)'
      BY <3>2, <3>7 DEF Returned
    <3> QED
      BY <1>1, <3>8, AnswerCarried
  <2> QED
    BY <1>1, <2>3, <2>4
<1> QED
  BY <1>1, <1>2, <1>3

\* Every step keeps what is asked for and what is carried out together.
LEMMA CarriedNext == IInv /\ CInv /\ [Next]_vars => CInv'
<1> SUFFICES ASSUME IInv, CInv, [Next]_vars PROVE CInv'
  OBVIOUS
<1>1. ASSUME NEW c \in Invocations, Start(c) PROVE CInv'
  BY <1>1, StartCarried
<1>2. CASE AuthOk \/ ReadFixed \/ Arrive
  BY <1>2, WaitQuiet
<1>3. CASE AuthFails \/ InvalidNumber \/ SendFails \/ Timeout
  BY <1>3, ExitQuiet DEF AuthFails, InvalidNumber, SendFails, Timeout
<1>4. CASE LoadFile
  BY <1>4, LoadQuiet
<1>5. CASE Send
  BY <1>5, SendCarried
<1>6. CASE ReadRest
  BY <1>6, RestQuiet
<1>7. CASE BusHello
  BY <1>7, HelloCarried
<1>8. CASE DaemonReturns \/ DaemonErrors
  BY <1>8, DaemonCarried
<1>9. CASE UNCHANGED vars
  <2>1. UNCHANGED <<cmd, pc, step, serial, runs, reqs, net, stream, applied>>
    BY <1>9 DEF vars
  <2>2. InStep' /\ (Returned(Incoming)' => Returned(Incoming))
    BY <2>1 DEF CInv, InStep, Waiting, Incoming, Returned
  <2>3. cmd # None /\ pc' \in {"auth", "send"} => Carried = Asked
    BY <2>1 DEF CInv, Settled
  <2> QED
    BY <2>1, <2>2, <2>3, QuietStep
<1> QED
  BY <1>1, <1>2, <1>3, <1>4, <1>5, <1>6, <1>7, <1>8, <1>9 DEF Next, Client

(* Whatever the bus and the daemon do, a command that changes settings has *)
(* had every setting before its last request carried out, and a return on  *)
(* its way says that the last one was too.                                 *)
THEOREM SettingsInOrder == Spec => [](IInv /\ CInv)
<1>1. IInv /\ CInv /\ [Next]_vars => (IInv /\ CInv)'
  BY InvNext, CarriedNext
<1>2. Init => IInv /\ CInv
  BY InvInit, CarriedInit
<1> QED
  BY <1>1, <1>2, PTL DEF Spec
-----------------------------------------------------------------------------
(* DBusClient implements RemoteCommand.  What is outstanding of earlier    *)
(* commands changes with the requests.                                     *)

\* The oldest request leaves.
LEMMA LateTail ==
  ASSUME NEW q \in Seq(Requests), NEW r, q # <<>>,
         \A i, j \in 1..Len(q) : q[i].run = q[j].run /\ q[i].serial = q[j].serial => i = j
  PROVE  /\ q[1].run = r \/ q[1].method \notin Settings => LateOf(Tail(q), r) = LateOf(q, r)
         /\ q[1].run # r /\ q[1].method \in Settings =>
              /\ <<q[1].run, q[1].serial>> \in LateOf(q, r)
              /\ LateOf(Tail(q), r) = LateOf(q, r) \ {<<q[1].run, q[1].serial>>}
<1> DEFINE t == Tail(q)
           Is(s, i, x) == /\ s[i].run # r /\ s[i].method \in Settings
                          /\ x = <<s[i].run, s[i].serial>>
<1>1. /\ Len(q) \in Nat /\ Len(q) >= 1 /\ Len(t) = Len(q) - 1
      /\ DOMAIN q = 1..Len(q) /\ DOMAIN t = 1..Len(t)
      /\ \A i \in 1..Len(t) : t[i] = q[i + 1]
  OBVIOUS
<1>2. \A x : x \in LateOf(q, r) <=> \E i \in 1..Len(q) : Is(q, i, x)
  BY <1>1 DEF LateOf
<1>3. \A x : x \in LateOf(t, r) <=> \E i \in 1..Len(t) : Is(t, i, x)
  BY <1>1 DEF LateOf
<1>4. /\ \A i \in 1..Len(t) : i + 1 \in 1..Len(q) /\ i + 1 # 1
      /\ \A k \in 1..Len(q) : k = 1 \/ (k - 1 \in 1..Len(t) /\ t[k - 1] = q[k])
  BY <1>1
<1>5. \A x : (\E i \in 1..Len(q) : Is(q, i, x))
               <=> Is(q, 1, x) \/ (\E i \in 1..Len(t) : Is(t, i, x))
  <2> SUFFICES ASSUME NEW x
               PROVE  (\E i \in 1..Len(q) : Is(q, i, x))
                        <=> Is(q, 1, x) \/ (\E i \in 1..Len(t) : Is(t, i, x))
    OBVIOUS
  <2> HIDE DEF t
  <2>1. ASSUME NEW i \in 1..Len(q), Is(q, i, x)
        PROVE  Is(q, 1, x) \/ (\E k \in 1..Len(t) : Is(t, k, x))
    BY <1>4, <2>1
  <2>2. ASSUME NEW i \in 1..Len(t), Is(t, i, x)
        PROVE  \E k \in 1..Len(q) : Is(q, k, x)
    BY <1>1, <1>4, <2>2
  <2>3. 1 \in 1..Len(q)
    BY <1>1
  <2> QED
    BY <2>1, <2>2, <2>3
<1>6. ASSUME NEW x, Is(q, 1, x), NEW i \in 1..Len(t), Is(t, i, x) PROVE FALSE
  <2>1. /\ i + 1 \in 1..Len(q) /\ i + 1 # 1 /\ 1 \in 1..Len(q)
        /\ t[i] = q[i + 1]
    BY <1>1, <1>4
  <2>2. q[1].run = t[i].run /\ q[1].serial = t[i].serial
    BY <1>6
  <2> HIDE DEF t, Is
  <2>3. q[1].run = q[i + 1].run /\ q[1].serial = q[i + 1].serial
    BY <2>1, <2>2
  <2> QED
    BY <2>1, <2>3
<1> HIDE DEF t
<1>7. ASSUME q[1].run = r \/ q[1].method \notin Settings PROVE LateOf(t, r) = LateOf(q, r)
  BY <1>2, <1>3, <1>5, <1>7
<1>8. ASSUME q[1].run # r, q[1].method \in Settings
      PROVE  /\ <<q[1].run, q[1].serial>> \in LateOf(q, r)
             /\ LateOf(t, r) = LateOf(q, r) \ {<<q[1].run, q[1].serial>>}
  <2> DEFINE h == <<q[1].run, q[1].serial>>
  <2>1. \A x : Is(q, 1, x) <=> x = h
    BY <1>8
  <2> HIDE DEF h, Is
  <2>2. \A x : x \in LateOf(t, r) <=> x \in LateOf(q, r) /\ x # h
    BY <1>2, <1>3, <1>5, <1>6, <2>1
  <2>3. h \in LateOf(q, r)
    BY <1>2, <1>5, <2>1
  <2>4. LateOf(t, r) = LateOf(q, r) \ {h}
    BY <2>2
  <2> QED
    BY <2>3, <2>4 DEF h
<1> QED
  BY <1>7, <1>8 DEF t

\* A request of this run is not of an earlier one.
LEMMA LateAppend ==
  ASSUME NEW q \in Seq(Requests), NEW r, NEW x, x.run = r
  PROVE  LateOf(Append(q, x), r) = LateOf(q, r)
<1> DEFINE t == Append(q, x)
<1>1. /\ Len(q) \in Nat /\ DOMAIN q = 1..Len(q) /\ DOMAIN t = 1..(Len(q) + 1)
      /\ \A i \in 1..Len(q) : t[i] = q[i]
      /\ t[Len(q) + 1] = x
  OBVIOUS
<1> HIDE DEF t
<1>2. {k \in DOMAIN t : t[k].run # r /\ t[k].method \in Settings}
        = {k \in DOMAIN q : q[k].run # r /\ q[k].method \in Settings}
  BY <1>1
<1> DEFINE K == {k \in DOMAIN q : q[k].run # r /\ q[k].method \in Settings}
<1>3. \A k \in K : t[k] = q[k]
  BY <1>1
<1>4. LateOf(t, r) = {<<t[i].run, t[i].serial>> : i \in K}
      /\ LateOf(q, r) = {<<q[i].run, q[i].serial>> : i \in K}
  BY <1>2 DEF LateOf
<1> HIDE DEF K
<1> QED
  BY <1>3, <1>4 DEF t

\* When the next command starts, the settings of run r are late too.
LEMMA LateNext ==
  ASSUME NEW q \in Seq(Requests), NEW r \in Nat, NEW s,
         \A i \in 1..Len(q) : q[i].run <= r,
         \A i \in 1..Len(q) : q[i].run = r => q[i].serial = s
  PROVE  /\ (\E i \in 1..Len(q) : q[i].run = r /\ q[i].method \in Settings)
              => LateOf(q, r + 1) = LateOf(q, r) \cup {<<r, s>>}
         /\ ~(\E i \in 1..Len(q) : q[i].run = r /\ q[i].method \in Settings)
              => LateOf(q, r + 1) = LateOf(q, r)
<1> DEFINE Key(i) == <<q[i].run, q[i].serial>>
           Mine == \E i \in 1..Len(q) : q[i].run = r /\ q[i].method \in Settings
<1>1. DOMAIN q = 1..Len(q) /\ \A i \in 1..Len(q) : q[i].run \in Nat
  <2>1. DOMAIN q = 1..Len(q) /\ \A i \in 1..Len(q) : q[i] \in Requests
    OBVIOUS
  <2> QED
    BY <2>1 DEF Requests
<1>2. \A i \in 1..Len(q) : q[i].run # r + 1
  BY <1>1
<1>3. \A x : x \in LateOf(q, r) <=>
        \E i \in 1..Len(q) : q[i].run # r /\ q[i].method \in Settings /\ x = Key(i)
  BY <1>1 DEF LateOf
<1>4. \A x : x \in LateOf(q, r + 1) <=>
        \E i \in 1..Len(q) : q[i].method \in Settings /\ x = Key(i)
  BY <1>1, <1>2 DEF LateOf
<1>5. \A i \in 1..Len(q) : q[i].run = r => Key(i) = <<r, s>>
  OBVIOUS
<1> HIDE DEF Key
<1>6. \A x : x \in LateOf(q, r + 1) <=> (x \in LateOf(q, r) \/ (Mine /\ x = <<r, s>>))
  <2> SUFFICES ASSUME NEW x
               PROVE  x \in LateOf(q, r + 1) <=> (x \in LateOf(q, r) \/ (Mine /\ x = <<r, s>>))
    OBVIOUS
  <2>1. ASSUME x \in LateOf(q, r + 1) PROVE x \in LateOf(q, r) \/ (Mine /\ x = <<r, s>>)
    BY <1>3, <1>4, <1>5, <2>1
  <2>2. ASSUME x \in LateOf(q, r) PROVE x \in LateOf(q, r + 1)
    BY <1>3, <1>4, <2>2
  <2>3. ASSUME Mine, x = <<r, s>> PROVE x \in LateOf(q, r + 1)
    BY <1>4, <1>5, <2>3
  <2> QED
    BY <2>1, <2>2, <2>3
<1>7. ASSUME Mine PROVE LateOf(q, r + 1) = LateOf(q, r) \cup {<<r, s>>}
  <2> HIDE DEF Mine
  <2> QED
    BY <1>6, <1>7
<1>8. ASSUME ~Mine PROVE LateOf(q, r + 1) = LateOf(q, r)
  <2> HIDE DEF Mine
  <2> QED
    BY <1>6, <1>8
<1> QED
  BY <1>7, <1>8

\* A step that the user and the daemon do not notice.
LEMMA Unnoticed ==
  ASSUME UNCHANGED <<cmd, serial, runs, reqs, applied>>, Status' = Status
  PROVE  UNCHANGED Promise!vars
<1>1. Plan' = Plan /\ Asked' = Asked /\ Carried' = Carried /\ Outstanding' = Outstanding
  BY DEF Asked, Plan, Carried, Outstanding
<1> QED
  BY <1>1 DEF Promise!vars

\* The end of a command: success is reported when all was carried out.
LEMMA ExitRefines ==
  ASSUME pc # "idle", NEW code \in {0, 1}, Exit(code), code = 0 => Carried = Plan
  PROVE  Promise!Next
<1>1. UNCHANGED <<cmd, serial, runs, reqs, applied>> /\ pc' = "idle" /\ exit' = code
  BY DEF Exit
<1>2. Plan' = Plan /\ Asked' = Asked /\ Carried' = Carried /\ Outstanding' = Outstanding
      /\ runs' = runs
  BY <1>1 DEF Asked, Plan, Carried, Outstanding
<1>3. Status = "running" /\ Status' = IF code = 0 THEN "ok" ELSE "failed"
  BY <1>1 DEF Status
<1>4. CASE code = 0
  <2>1. Promise!Succeed
    BY <1>2, <1>3, <1>4 DEF Promise!Succeed
  <2> QED
    BY <2>1 DEF Promise!Next
<1>5. CASE code = 1
  <2>1. Promise!Fail
    BY <1>2, <1>3, <1>5 DEF Promise!Fail
  <2> QED
    BY <2>1 DEF Promise!Next
<1> QED
  BY <1>4, <1>5

\* A step of the script is done: the next one is for later, and after the
\* last one everything is carried out.
LEMMA ProceedRefines ==
  ASSUME IInv, CInv, pc # "idle", NEW unread, Proceed(unread), Carried = Asked,
         Waiting \/ Wanted(cmd) = {}
  PROVE  [Promise!Next]_Promise!vars
<1>1. /\ cmd # None /\ cmd \in Invocations /\ serial \in Nat
      /\ Asked = {i \in Wanted(cmd) : i <= serial}
  BY RunningFacts
<1>2. CASE LastStep
  <2>1. Exit(0)
    BY <1>2 DEF Proceed
  <2>2. Carried = Plan
    <3>1. CASE Wanted(cmd) = {}
      BY <1>1, <3>1 DEF Plan
    <3>2. CASE Wanted(cmd) # {}
      <4>1. serial = Len(Script(cmd))
        BY <1>1, <1>2, <3>2 DEF CInv, InStep, LastStep
      <4>2. \A i \in Wanted(cmd) : i <= Len(Script(cmd))
        BY <1>1, WantedFacts
      <4> QED
        BY <1>1, <4>1, <4>2 DEF Plan
    <3> QED
      BY <3>1, <3>2
  <2> QED
    BY <2>1, <2>2, ExitRefines
<1>3. CASE ~LastStep
  <2>1. UNCHANGED <<cmd, serial, runs, reqs, applied>> /\ pc' = "send"
    BY <1>3 DEF Proceed, bus
  <2>2. Status' = Status
    BY <2>1 DEF Status
  <2> QED
    BY <2>1, <2>2, Unnoticed
<1> QED
  BY <1>2, <1>3

\* A return that was taken, and a file that was read.
LEMMA TakenRefines ==
  ASSUME IInv, CInv, ReadRest \/ LoadFile
  PROVE  [Promise!Next]_Promise!vars
<1>1. CASE LoadFile
  <2>1. pc # "idle" /\ Wanted(cmd) = {} /\ (Proceed(stream) \/ Exit(1))
    BY <1>1, RunningFacts DEF LoadFile
  <2>2. Carried = Asked
    BY <1>1, <2>1, RunningFacts DEF CInv, Settled, LoadFile
  <2> QED
    BY <2>1, <2>2, ProceedRefines, ExitRefines
<1>2. CASE ReadRest
  <2>1. \/ Skip
        \/ Exit(1)
        \/ Head(stream).m.type = "return"
    BY <1>2 DEF ReadRest, TakeError
  <2>2. CASE Skip
    <3>1. UNCHANGED <<cmd, serial, runs, reqs, applied>> /\ pc' = "fixed" /\ pc = "rest"
      BY <1>2, <2>2 DEF Skip, bus, ReadRest
    <3>2. Status' = Status
      BY <3>1 DEF Status
    <3> QED
      BY <3>1, <3>2, Unnoticed
  <2>3. CASE Exit(1)
    BY <1>2, <2>3, ExitRefines DEF ReadRest
  <2>4. CASE Head(stream).m.type = "return"
    <3>1. /\ Carried = Asked /\ Waiting /\ pc # "idle"
          /\ TakeReturn(Head(stream).m)
      BY <1>2, <2>4, ReturnTaken
    <3>2. Proceed(Tail(stream)) \/ Exit(1)
      BY <3>1 DEF TakeReturn
    <3> QED
      BY <3>1, <3>2, ProceedRefines, ExitRefines
  <2> QED
    BY <2>1, <2>2, <2>3, <2>4
<1> QED
  BY <1>1, <1>2

\* A request: the first setting that was not asked for, if it is for one.
LEMMA SendRefines ==
  ASSUME IInv, CInv, Send
  PROVE  [Promise!Next]_Promise!vars
<1>1. /\ pc = "send" /\ pc' = "fixed" /\ serial' = serial + 1
      /\ UNCHANGED <<cmd, runs, applied>>
      /\ reqs' = Append(reqs, [run |-> runs, serial |-> serial + 1, method |-> Current])
  BY DEF Send
<1>2. /\ cmd # None /\ serial \in Nat /\ Wanted(cmd) \subseteq Nat
      /\ Asked = {i \in Wanted(cmd) : i <= serial}
  BY <1>1, RunningFacts
<1>3. /\ Carried' = Carried /\ Carried = Asked
      /\ Asked' = {i \in Wanted(cmd) : i <= serial + 1}
  BY SendCarried
<1>4. Plan' = Plan /\ Plan = Wanted(cmd) /\ Status = "running" /\ Status' = "running"
  BY <1>1, <1>2 DEF Plan, Status
<1>5. Outstanding' = Outstanding
  <2> DEFINE x == [run |-> runs, serial |-> serial + 1, method |-> Current]
  <2>1. reqs \in Seq(Requests) /\ x.run = runs
    BY DEF IInv, Shapes
  <2>2. Outstanding' = LateOf(Append(reqs, x), runs) /\ Outstanding = LateOf(reqs, runs)
    BY <1>1 DEF Outstanding, LateOf
  <2> HIDE DEF x
  <2> QED
    BY <2>1, <2>2, LateAppend
<1>6. CASE serial + 1 \in Wanted(cmd)
  <2>1. /\ serial + 1 \in Plan \ Asked /\ Asked' = Asked \cup {serial + 1}
        /\ \A t \in Plan \ Asked : serial + 1 <= t
    BY <1>2, <1>3, <1>4, <1>6
  <2>2. Promise!Issue
    BY <1>1, <1>3, <1>4, <1>5, <2>1 DEF Promise!Issue
  <2> QED
    BY <2>2 DEF Promise!Next
<1>7. CASE serial + 1 \notin Wanted(cmd)
  <2>1. Asked' = Asked
    BY <1>2, <1>3, <1>7
  <2> QED
    BY <1>1, <1>3, <1>4, <1>5, <2>1 DEF Promise!vars
<1> QED
  BY <1>6, <1>7

\* A new command: what the last one waited for may be outstanding.
LEMMA StartRefines ==
  ASSUME IInv, CInv, NEW c \in Invocations, Start(c)
  PROVE  Promise!Next
<1>1. /\ pc = "idle" /\ cmd' = c /\ c # None /\ runs' = runs + 1 /\ runs \in Nat
      /\ serial \in Nat
      /\ (pc' = "auth" \/ (pc' = "idle" /\ exit' = 1)) /\ reqs' = reqs
  BY NoneAssumption DEF Start, IInv, Shapes
<1>2. Asked' = {} /\ Carried' = {}
  BY StartCarried
<1>3. Status # "running" /\ Status' \in {"running", "failed"}
  BY <1>1 DEF Status
<1>4. Plan' \in {Wanted(d) : d \in Invocations}
  BY <1>1 DEF Plan
<1> DEFINE Mine == \E i \in 1..Len(reqs) : reqs[i].run = runs /\ reqs[i].method \in Settings
<1>5. Outstanding' = LateOf(reqs, runs + 1) /\ Outstanding = LateOf(reqs, runs)
  BY <1>1 DEF Outstanding, LateOf
<1>6. /\ reqs \in Seq(Requests)
      /\ \A i \in 1..Len(reqs) : reqs[i].run <= runs
      /\ \A i \in 1..Len(reqs) : reqs[i].run = runs => reqs[i].serial = serial
      /\ Mine => cmd # None
  <2>1. reqs \in Seq(Requests) /\ \A i \in 1..Len(reqs) : reqs[i].run <= runs
    BY DEF IInv, Shapes, OneRequest
  <2>2. \A i \in 1..Len(reqs) : cmd # None
    BY DEF CInv, Past
  <2> QED
    BY <2>1, <2>2 DEF CInv, Pending
<1>7. /\ Mine => LateOf(reqs, runs + 1) = LateOf(reqs, runs) \cup {<<runs, serial>>}
      /\ ~Mine => LateOf(reqs, runs + 1) = LateOf(reqs, runs)
  BY <1>1, <1>6, LateNext
<1>8. ASSUME Mine PROVE Asked \ Carried = {serial}
  <2>1. cmd # None
    BY <1>6, <1>8
  <2>2. serial \in Wanted(cmd) /\ serial \notin Carried
    BY <1>8, <2>1 DEF CInv, Pending
  <2>3. cmd \in Invocations /\ Wanted(cmd) \subseteq Nat
    BY <2>1, WantedFacts DEF IInv, Shapes
  <2>4. Asked = {i \in Wanted(cmd) : i <= serial}
    BY <2>1 DEF Asked, Plan
  <2>5. \A s \in Asked : s < serial => s \in Carried
    BY <2>1 DEF CInv, Settled
  <2>6. \A s \in Asked : s < serial \/ s = serial
    BY <1>1, <2>3, <2>4
  <2>7. serial \in Asked
    BY <1>1, <2>2, <2>4
  <2>8. \A s : s \in Asked \ Carried <=> s = serial
    BY <2>2, <2>5, <2>6, <2>7
  <2> QED
    BY <2>8
<1>9. Outstanding' \in {Outstanding, Outstanding \cup {<<runs, s>> : s \in Asked \ Carried}}
  <2>1. CASE Mine
    <3>1. {<<runs, s>> : s \in Asked \ Carried} = {<<runs, serial>>}
      BY <1>8, <2>1
    <3> QED
      BY <1>5, <1>7, <2>1, <3>1
  <2>2. CASE ~Mine
    BY <1>5, <1>7, <2>2
  <2> QED
    BY <2>1, <2>2
<1>10. Promise!Begin
  BY <1>1, <1>2, <1>3, <1>4, <1>9 DEF Promise!Begin
<1> QED
  BY <1>10 DEF Promise!Next

\* The oldest request is answered: the setting in flight, a late one, or none.
LEMMA AnswerRefines ==
  ASSUME IInv, CInv, AnsweredBy(Carry(Head(reqs))), exit' = exit
  PROVE  [Promise!Next]_Promise!vars
<1> DEFINE q == Head(reqs)
<1>1. /\ UNCHANGED <<cmd, pc, serial, runs>> /\ reqs' = Tail(reqs) /\ reqs # <<>>
      /\ applied' \in {applied, Carry(q)}
  BY DEF AnsweredBy
<1>2. /\ cmd # None /\ (q.run # runs => Carried' = Carried)
      /\ q.run = runs =>
              /\ serial \notin Carried
              /\ q.method \in Settings <=> serial \in Wanted(cmd)
              /\ applied' = applied => Carried' = Carried
              /\ applied' = Carry(q) =>
                   Carried' = IF serial \in Wanted(cmd) THEN Carried \cup {serial} ELSE Carried
  BY CarryFacts
<1>3. Plan' = Plan /\ Asked' = Asked /\ Status' = Status
  BY <1>1 DEF Plan, Asked, Status
<1>4. /\ q.run = runs \/ q.method \notin Settings => Outstanding' = Outstanding
      /\ q.run # runs /\ q.method \in Settings =>
              /\ <<q.run, q.serial>> \in Outstanding
              /\ Outstanding' = Outstanding \ {<<q.run, q.serial>>}
  <2>1. reqs \in Seq(Requests) /\ q = reqs[1]
    BY <1>1, OldestRequest DEF IInv, Shapes
  <2>2. \A i, j \in 1..Len(reqs) :
          reqs[i].run = reqs[j].run /\ reqs[i].serial = reqs[j].serial => i = j
    BY DEF CInv, Distinct
  <2>3. Outstanding' = LateOf(Tail(reqs), runs) /\ Outstanding = LateOf(reqs, runs)
    BY <1>1 DEF Outstanding, LateOf
  <2> HIDE DEF q
  <2>4. /\ reqs[1].run = runs \/ reqs[1].method \notin Settings =>
             LateOf(Tail(reqs), runs) = LateOf(reqs, runs)
        /\ reqs[1].run # runs /\ reqs[1].method \in Settings =>
             /\ <<reqs[1].run, reqs[1].serial>> \in LateOf(reqs, runs)
             /\ LateOf(Tail(reqs), runs) = LateOf(reqs, runs) \ {<<reqs[1].run, reqs[1].serial>>}
    BY <1>1, <2>1, <2>2, LateTail
  <2> QED
    BY <2>1, <2>3, <2>4
<1> HIDE DEF q
<1>5. CASE Carried' = Carried
  <2>1. CASE q.run = runs \/ q.method \notin Settings
    BY <1>1, <1>3, <1>4, <1>5, <2>1 DEF Promise!vars
  <2>2. CASE q.run # runs /\ q.method \in Settings
    <3>1. Promise!Late
      BY <1>1, <1>3, <1>4, <1>5, <2>2 DEF Promise!Late
    <3> QED
      BY <3>1 DEF Promise!Next
  <2> QED
    BY <2>1, <2>2
<1>6. CASE Carried' # Carried
  <2>1. /\ q.run = runs /\ serial \in Wanted(cmd) /\ serial \notin Carried
        /\ Carried' = Carried \cup {serial}
    BY <1>1, <1>2, <1>6
  <2>2. serial \in Asked
    BY <1>2, <2>1 DEF Asked, Plan, IInv, Shapes
  <2>3. Outstanding' = Outstanding
    BY <1>4, <2>1
  <2>4. Promise!Apply
    BY <1>1, <1>3, <2>1, <2>2, <2>3 DEF Promise!Apply
  <2> QED
    BY <2>4 DEF Promise!Next
<1> QED
  BY <1>5, <1>6

\* Every step of the client, the bus and the daemon is a step of the promise
\* or one that nobody notices.
LEMMA PromiseNext == IInv /\ CInv /\ [Next]_vars => [Promise!Next]_Promise!vars
<1> SUFFICES ASSUME IInv, CInv, [Next]_vars PROVE [Promise!Next]_Promise!vars
  OBVIOUS
<1>1. ASSUME NEW c \in Invocations, Start(c) PROVE Promise!Next
  BY <1>1, StartRefines
<1>2. ASSUME UNCHANGED <<cmd, serial, runs, reqs, applied, exit>>,
             pc' = pc \/ (pc # "idle" /\ pc' # "idle")
      PROVE  UNCHANGED Promise!vars
  <2>1. Status' = Status
    BY <1>2 DEF Status
  <2> QED
    BY <1>2, <2>1, Unnoticed
<1>3. CASE AuthOk \/ Arrive \/ UNCHANGED vars
  <2>1. UNCHANGED Promise!vars
    BY <1>2, <1>3 DEF AuthOk, Arrive, vars, bus
  <2> QED
    BY <2>1
<1>4. CASE AuthFails \/ InvalidNumber \/ SendFails \/ Timeout
  <2>1. pc # "idle" /\ Exit(1)
    BY <1>4 DEF AuthFails, InvalidNumber, SendFails, Timeout
  <2>2. Promise!Next
    BY <2>1, ExitRefines
  <2> QED
    BY <2>2
<1>5. CASE ReadFixed
  <2>1. CASE Exit(1)
    BY <1>5, <2>1, ExitRefines DEF ReadFixed
  <2>2. CASE ~Exit(1)
    <3>1. UNCHANGED Promise!vars
      BY <1>2, <1>5, <2>2 DEF ReadFixed, bus
    <3> QED
      BY <3>1
  <2> QED
    BY <2>1, <2>2
<1>6. CASE ReadRest \/ LoadFile
  BY <1>6, TakenRefines
<1>7. CASE Send
  BY <1>7, SendRefines
<1>8. CASE BusHello \/ DaemonReturns \/ DaemonErrors
  <2>1. AnsweredBy(Carry(Head(reqs))) /\ exit' = exit
    BY <1>8 DEF BusHello, DaemonReturns, DaemonErrors, AnsweredBy
  <2> QED
    BY <2>1, AnswerRefines
<1> QED
  BY <1>1, <1>3, <1>4, <1>5, <1>6, <1>7, <1>8 DEF Next, Client

LEMMA PromiseInit == Init => Promise!Init
<1> SUFFICES ASSUME Init PROVE Promise!Init
  OBVIOUS
<1>1. cmd = None /\ reqs = <<>> /\ applied = {} /\ runs = 0 /\ pc = "idle" /\ exit = 0
  BY DEF Init
<1>2. Plan = {} /\ Status = "ok"
  BY <1>1 DEF Plan, Status
<1>3. Asked = {} /\ Carried = {} /\ Outstanding = {}
  <2>1. DOMAIN reqs = {}
    BY <1>1
  <2> QED
    BY <1>1, <1>2, <2>1 DEF Asked, Carried, Outstanding
<1> QED
  BY <1>1, <1>2, <1>3 DEF Promise!Init

(* The tool keeps its promise about settings, for any set of commands and  *)
(* any number of them, whatever the bus and the daemon do: settings are    *)
(* asked for in order, each after the one before it was carried out,       *)
(* success is reported only when all were, and a command that gave up      *)
(* leaves at most the one request it waited for behind.                    *)
THEOREM KeepsPromise == Spec => ImplementsCommand
<1>1. Spec => [](IInv /\ CInv)
  BY SettingsInOrder
<1>2. Spec => Init /\ [][Next]_vars
  BY PTL DEF Spec
<1>3. Init /\ [][Next]_vars /\ [](IInv /\ CInv) => Promise!Init /\ [][Promise!Next]_Promise!vars
  BY PromiseInit, PromiseNext, PTL
<1> QED
  BY <1>1, <1>2, <1>3, PTL DEF ImplementsCommand, Promise!Spec
-----------------------------------------------------------------------------
(* The wire format.  A message is taken apart as a concatenation.          *)
Loops == INSTANCE PairingProofs WITH NoUniq <- None

\* What a byte may hold: the numbers, and the names of the types and marks.
Cell == Nat \cup {Rest, "l", "s", "o", "g", "u", "d", "a", "v", "as", "c"}
Cells == Seq(Cell)

LEMMA Join ==
  ASSUME NEW s \in Cells, NEW t \in Cells
  PROVE  /\ s \o t \in Cells /\ Len(s) \in Nat /\ Len(t) \in Nat
         /\ Len(s \o t) = Len(s) + Len(t)
  BY ConcatProperties DEF Cells

LEMMA Regroup ==
  ASSUME NEW s \in Cells, NEW t \in Cells, NEW u \in Cells
  PROVE  (s \o t) \o u = s \o (t \o u)
  BY ConcatAssociative DEF Cells

\* Three pieces in a row are the same whichever two are joined first.
Same(s, t, u) == (s \o t) \o u = s \o (t \o u)

LEMMA Grouped ==
  ASSUME NEW s \in Cells, NEW t \in Cells, NEW u \in Cells
  PROVE  Same(s, t, u)
  BY Regroup DEF Same

LEMMA ZerosFacts ==
  ASSUME NEW m \in Nat
  PROVE  /\ Zeros(m) \in Cells /\ Len(Zeros(m)) = m /\ Zeros(0) = <<>>
         /\ \A i \in 1..m : Zeros(m)[i] = 0
<1>1. 0 \in Cell
  BY DEF Cell
<1> QED
  BY <1>1 DEF Zeros, Cells

LEMMA ZerosJoin ==
  ASSUME NEW m \in Nat, NEW n \in Nat
  PROVE  Zeros(m) \o Zeros(n) = Zeros(m + n)
<1> DEFINE x == Zeros(m)
           y == Zeros(n)
           z == Zeros(m + n)
           l == m + n
<1>1. l \in Nat
  OBVIOUS
<1>2. /\ x \in Seq(Cell) /\ Len(x) = m /\ \A i \in 1..m : x[i] = 0
      /\ y \in Seq(Cell) /\ Len(y) = n /\ \A i \in 1..n : y[i] = 0
  BY ZerosFacts DEF Cells
<1>3. z \in Seq(Cell) /\ Len(z) = l /\ \A i \in 1..l : z[i] = 0
  <2> HIDE DEF l
  <2>1. z = Zeros(l)
    BY DEF l
  <2> QED
    BY <1>1, <2>1, ZerosFacts DEF Cells
<1> HIDE DEF x, y, z
<1>4. /\ x \o y \in Seq(Cell) /\ Len(x \o y) = l
      /\ \A i \in 1..l : (x \o y)[i] = IF i <= m THEN x[i] ELSE y[i - m]
  BY <1>2, ConcatProperties, ZenonT(40)
<1>5. \A i \in 1..l : (x \o y)[i] = z[i]
  <2> TAKE i \in 1..l
  <2>1. CASE i <= m
    BY <1>2, <1>3, <1>4, <2>1
  <2>2. CASE i > m
    <3>1. i - m \in 1..n
      BY <2>2
    <3> QED
      BY <1>2, <1>3, <1>4, <2>2, <3>1
  <2>3. i <= m \/ i > m
    BY <1>1
  <2> QED
    BY <2>1, <2>2, <2>3
<1> HIDE DEF l
<1>6. x \o y = z
  BY <1>3, <1>4, <1>5, SeqEqual
<1> QED
  BY <1>6 DEF x, y, z, l

LEMMA PaddingRange ==
  ASSUME NEW n \in Nat
  PROVE  /\ Padding(n, 4) \in Nat /\ Padding(n, 4) <= 3
         /\ Padding(n, 8) \in Nat /\ Padding(n, 8) <= 7
  BY DEF Padding

\* Padding reaches the next multiple, and padding twice adds nothing.
LEMMA PaddingFacts ==
  ASSUME NEW n \in Nat
  PROVE  /\ Padding(n, 4) \in 0..3 /\ (n + Padding(n, 4)) % 4 = 0
         /\ Padding(n, 8) \in 0..7 /\ (n + Padding(n, 8)) % 8 = 0
         /\ n % 4 = 0 => Padding(n, 4) = 0
         /\ n % 8 = 0 => Padding(n, 8) = 0
         /\ Padding(n, 4) <= Padding(n, 8)
         /\ Padding(n + Padding(n, 4), 4) = 0
         /\ Padding(n, 4) + Padding(n + Padding(n, 4), 8) = Padding(n, 8)
  BY DEF Padding

LEMMA NumberFacts ==
  ASSUME NEW v \in Nat
  PROVE  /\ <<v>> \in Cells /\ Len(<<v>>) = 1
         /\ U32(v) \in Cells /\ Len(U32(v)) = 4
         /\ U64(v) \in Cells /\ Len(U64(v)) = 8
<1>1. v \in Cell /\ Rest \in Cell
  BY DEF Cell, Rest
<1>2. <<v>> \in Seq(Cell) /\ Len(<<v>>) = 1 /\ <<v>>[1] = v
  BY <1>1
<1>3. /\ [i \in 1..3 |-> Rest] \in Seq(Cell) /\ Len([i \in 1..3 |-> Rest]) = 3
      /\ [i \in 1..7 |-> Rest] \in Seq(Cell) /\ Len([i \in 1..7 |-> Rest]) = 7
  BY <1>1
<1> QED
  BY <1>2, <1>3, ConcatProperties DEF U32, U64, Cells

LEMMA StrFacts ==
  ASSUME NEW s \in Cells
  PROVE  /\ StrCells(s) \in Cells /\ Len(StrCells(s)) = Len(s) + 5 /\ Len(s) \in Nat
         /\ <<Len(s)>> \o s \o <<0>> \in Cells /\ Len(<<Len(s)>> \o s \o <<0>>) = Len(s) + 2
<1> DEFINE n == Len(s)
           u == U32(n)
           l == <<n>>
           z == <<0>>
<1>1. n \in Nat
  BY DEF Cells
<1>2. u \in Cells /\ Len(u) = 4 /\ l \in Cells /\ Len(l) = 1 /\ z \in Cells /\ Len(z) = 1
  <2> HIDE DEF n
  <2> QED
    BY <1>1, NumberFacts
<1>3. StrCells(s) = (u \o s) \o z
  BY DEF StrCells
<1> HIDE DEF u, l, z
<1>4. u \o s \in Cells /\ Len(u \o s) = 4 + n
  BY <1>2, Join, ZenonT(40)
<1>5. l \o s \in Cells /\ Len(l \o s) = 1 + n
  BY <1>2, Join
<1>6. (u \o s) \o z \in Cells /\ Len((u \o s) \o z) = 4 + n + 1
  BY <1>2, <1>4, Join
<1>7. (l \o s) \o z \in Cells /\ Len((l \o s) \o z) = 1 + n + 1
  BY <1>2, <1>5, Join
<1> QED
  BY <1>1, <1>3, <1>6, <1>7 DEF l, z

\* Cells that are placed after b.
LEMMA PlaceFacts ==
  ASSUME NEW b \in Cells, NEW align \in {4, 8}, NEW cells \in Cells
  PROVE  /\ Padding(Len(b), align) \in Nat /\ Zeros(Padding(Len(b), align)) \in Cells
         /\ Place(b, align, cells) \in Cells
         /\ Len(Place(b, align, cells)) = Len(b) + Padding(Len(b), align) + Len(cells)
         /\ Place(b, align, cells) = b \o (Zeros(Padding(Len(b), align)) \o cells)
<1> DEFINE n == Len(b)
           p == Padding(n, align)
           z == Zeros(p)
<1>1. n \in Nat
  BY DEF Cells
<1>2. p \in Nat
  <2> HIDE DEF n
  <2>1. Padding(n, 4) \in Nat /\ Padding(n, 8) \in Nat
    BY <1>1, PaddingRange
  <2> QED
    BY <2>1
<1> HIDE DEF p
<1>3. z \in Cells /\ Len(z) = p
  BY <1>2, ZerosFacts
<1> HIDE DEF z
<1>4. b \o z \in Cells /\ Len(b \o z) = n + p
  BY <1>3, Join
<1>5. (b \o z) \o cells \in Cells /\ Len((b \o z) \o cells) = n + p + Len(cells)
  BY <1>4, Join
<1>6. (b \o z) \o cells = b \o (z \o cells)
  BY <1>3, Regroup
<1>7. Place(b, align, cells) = (b \o z) \o cells
  BY DEF Place, z, p
<1> QED
  BY <1>2, <1>3, <1>5, <1>6, <1>7 DEF z, p

-----------------------------------------------------------------------------
(* The writer.  Its buffer is what the specification has placed so far and *)
(* the padding that the last string left behind it.                        *)
Written(b, p) == [b |-> b \o Zeros(p), nodepad |-> Len(b)]
Gaps(b) == {0, Padding(Len(b), 4)}

LEMMA WrittenFacts ==
  ASSUME NEW b \in Cells, NEW p \in Gaps(b)
  PROVE  /\ p \in Nat /\ Zeros(p) \in Cells /\ Len(Zeros(p)) = p
         /\ b \o Zeros(p) \in Cells /\ Len(b \o Zeros(p)) = Len(b) + p
         /\ Written(b, 0) = [b |-> b, nodepad |-> Len(b)]
<1> DEFINE n == Len(b)
<1>1. n \in Nat
  BY DEF Cells
<1>2. p \in Nat
  <2> HIDE DEF n
  <2>1. Padding(n, 4) \in Nat
    BY <1>1, PaddingRange
  <2> QED
    BY <2>1 DEF n, Gaps
<1>3. Zeros(p) \in Cells /\ Len(Zeros(p)) = p /\ Zeros(0) = <<>>
  BY <1>2, ZerosFacts
<1>4. b \o Zeros(p) \in Cells /\ Len(b \o Zeros(p)) = Len(b) + p
  BY <1>3, Join
<1>5. b \o <<>> = b
  BY ConcatEmptySeq DEF Cells
<1> QED
  BY <1>2, <1>3, <1>4, <1>5 DEF Written

\* Padding after padding.
LEMMA GapJoin ==
  ASSUME NEW b \in Cells, NEW p \in Gaps(b), NEW align \in {4, 8}
  PROVE  /\ Padding(Len(b) + p, align) \in Nat
         /\ p + Padding(Len(b) + p, align) = Padding(Len(b), align)
<1> DEFINE n == Len(b)
<1>1. n \in Nat
  BY DEF Cells
<1>2. p \in {0, Padding(n, 4)}
  BY DEF Gaps
<1> HIDE DEF n
<1>3. /\ Padding(n, 4) \in Nat /\ Padding(n, 8) \in Nat
  BY <1>1, PaddingRange
<1>4. n + p \in Nat
  BY <1>1, <1>2, <1>3
<1>5. Padding(n + p, 4) \in Nat /\ Padding(n + p, 8) \in Nat
  <2> DEFINE m == n + p
  <2> HIDE DEF m
  <2>1. Padding(m, 4) \in Nat /\ Padding(m, 8) \in Nat
    BY <1>4, PaddingRange DEF m
  <2> QED
    BY <2>1 DEF m
<1>6. /\ p + Padding(n + p, 4) = Padding(n, 4)
      /\ p + Padding(n + p, 8) = Padding(n, 8)
  <2>1. CASE p = 0
    BY <1>1, <1>3, <2>1
  <2>2. CASE p = Padding(n, 4)
    BY <1>1, <1>3, <2>2, PaddingFacts
  <2> QED
    BY <1>2, <2>1, <2>2
<1> QED
  BY <1>5, <1>6 DEF n

\* Aligned cells go where the specification places them.
LEMMA PadPut ==
  ASSUME NEW b \in Cells, NEW p \in Gaps(b), NEW align \in {4, 8}, NEW cells \in Cells
  PROVE  wb_put(wb_pad(Written(b, p), align), cells) = Written(Place(b, align, cells), 0)
<1> DEFINE n == Len(b)
           q == Padding(n + p, align)
           z == Zeros(Padding(n, align))
           x == b \o Zeros(p)
           all == Place(b, align, cells)
<1>1. /\ p \in Nat /\ Zeros(p) \in Cells /\ x \in Cells /\ Len(x) = n + p
  BY WrittenFacts
<1>2. q \in Nat /\ p + q = Padding(n, align)
  BY GapJoin
<1>3. Zeros(q) \in Cells /\ Zeros(p) \o Zeros(q) = z /\ z \in Cells
  <2> HIDE DEF q
  <2>1. Zeros(q) \in Cells
    BY <1>2, ZerosFacts
  <2>2. Zeros(p) \o Zeros(q) = Zeros(p + q)
    BY <1>1, <1>2, ZerosJoin
  <2> QED
    BY <1>2, <2>1, <2>2, PlaceFacts
<1>4. x \o Zeros(q) = b \o z
  <2> HIDE DEF q, z
  <2> QED
    BY <1>1, <1>3, Regroup, ZenonT(40)
<1>5. /\ b \o z \in Cells /\ (b \o z) \o cells = all /\ all \in Cells
      /\ Len(all) = Len(b \o z) + Len(cells)
  BY <1>3, Join DEF Place
<1>6. wb_pad(Written(b, p), align) = [b |-> b \o z, nodepad |-> n + p]
  <2> HIDE DEF z
  <2> QED
    BY <1>1, <1>4 DEF wb_pad, Written
<1>7. wb_put(wb_pad(Written(b, p), align), cells) = [b |-> all, nodepad |-> Len(all)]
  <2> DEFINE w == wb_pad(Written(b, p), align)
             y == b \o z
  <2>1. w.b = y
    BY <1>6
  <2> HIDE DEF w, y, all
  <2>2. wb_put(w, cells) = [b |-> y \o cells, nodepad |-> Len(y) + Len(cells)]
    BY <2>1 DEF wb_put
  <2>3. y \o cells = all /\ Len(all) = Len(y) + Len(cells)
    BY <1>5 DEF y
  <2> QED
    BY <2>2, <2>3 DEF w
<1>8. 0 \in Gaps(all)
  BY DEF Gaps
<1> QED
  BY <1>5, <1>7, <1>8, WrittenFacts

\* Padding adds nothing to what the specification has placed.
LEMMA PadAfter ==
  ASSUME NEW b \in Cells
  PROVE  wb_pad(Written(b, 0), 4) = Written(b, Padding(Len(b), 4))
<1> DEFINE w == Written(b, 0)
<1>1. w.b = b
  <2>1. 0 \in Gaps(b)
    BY DEF Gaps
  <2>2. w = [b |-> b, nodepad |-> Len(b)]
    BY <2>1, WrittenFacts
  <2> QED
    BY <2>2
<1> HIDE DEF w
<1>2. wb_pad(w, 4) = Written(b, Padding(Len(b), 4))
  BY <1>1 DEF wb_pad, Written
<1> QED
  BY <1>2 DEF w

\* A string.
LEMMA WriteString ==
  ASSUME NEW b \in Cells, NEW p \in Gaps(b), NEW s \in Cells
  PROVE  LET all == Place(b, 4, StrCells(s))
         IN  /\ all \in Cells
             /\ wb_str(wb_pad(Written(b, p), 4), s) = Written(all, Padding(Len(all), 4))
<1> DEFINE all == Place(b, 4, StrCells(s))
<1>1. StrCells(s) \in Cells
  BY StrFacts
<1>2. all \in Cells
  BY <1>1, PlaceFacts
<1>3. wb_put(wb_pad(Written(b, p), 4), StrCells(s)) = Written(all, 0)
  BY <1>1, PadPut
<1>4. wb_str(wb_pad(Written(b, p), 4), s) = wb_pad(Written(all, 0), 4)
  BY <1>3 DEF wb_str, StrCells
<1> HIDE DEF all
<1>5. wb_pad(Written(all, 0), 4) = Written(all, Padding(Len(all), 4))
  BY <1>2, PadAfter
<1> QED
  BY <1>2, <1>4, <1>5 DEF all

\* The padding left behind a value of type t.
Gap(t, b) == IF t \in {"s", "o"} THEN Padding(Len(b), 4) ELSE 0

\* The arguments the tool has: strings and numbers.
Arg == [type : {"s"}, v : Cells] \cup [type : {"d", "u"}, v : Nat]

\* One more argument.
LEMMA WriteArg ==
  ASSUME NEW b \in Cells, NEW p \in Gaps(b), NEW a \in Arg
  PROVE  LET all == TypedValue(b, a.type, a.v)
         IN  /\ all \in Cells /\ Gap(a.type, all) \in Gaps(all)
             /\ body_add_arg(Written(b, p), a) = Written(all, Gap(a.type, all))
<1> DEFINE all == TypedValue(b, a.type, a.v)
<1>1. CASE a.type = "s"
  <2>1. a.v \in Cells
    BY <1>1 DEF Arg
  <2>2. all = Place(b, 4, StrCells(a.v)) 
    BY <1>1 DEF TypedValue
  <2>3. body_add_arg(Written(b, p), a) = wb_str(wb_pad(Written(b, p), 4), a.v)
    BY <1>1 DEF body_add_arg
  <2>4. Gap(a.type, all) = Padding(Len(all), 4)
    BY <1>1 DEF Gap
  <2> HIDE DEF all
  <2>5. all \in Cells /\ body_add_arg(Written(b, p), a) = Written(all, Padding(Len(all), 4))
    BY <2>1, <2>2, <2>3, WriteString
  <2>6. Padding(Len(all), 4) \in Gaps(all)
    BY DEF Gaps
  <2> QED
    BY <2>4, <2>5, <2>6 DEF all
<1>2. CASE a.type \in {"d", "u"}
  <2> DEFINE align == IF a.type = "d" THEN 8 ELSE 4
             cells == IF a.type = "d" THEN U64(a.v) ELSE U32(a.v)
  <2>1. a.v \in Nat
    BY <1>2 DEF Arg
  <2>2. cells \in Cells /\ align \in {4, 8}
    BY <2>1, NumberFacts
  <2>3. all = Place(b, align, cells)
    BY <1>2 DEF TypedValue
  <2>4. body_add_arg(Written(b, p), a) = wb_put(wb_pad(Written(b, p), align), cells)
    BY <1>2 DEF body_add_arg
  <2>5. Gap(a.type, all) = 0
    BY <1>2 DEF Gap
  <2> HIDE DEF all, align, cells
  <2>6. all \in Cells /\ body_add_arg(Written(b, p), a) = Written(all, 0)
    <3>1. Place(b, align, cells) \in Cells
      BY <2>2, PlaceFacts
    <3>2. wb_put(wb_pad(Written(b, p), align), cells) = Written(Place(b, align, cells), 0)
      BY <2>2, PadPut
    <3> QED
      BY <2>3, <2>4, <3>1, <3>2
  <2>7. 0 \in Gaps(all)
    BY DEF Gaps
  <2> QED
    BY <2>5, <2>6, <2>7 DEF all
<1> QED
  BY <1>1, <1>2 DEF Arg

\* The start of a header field: its code and the type of its value.
Lead(code, sig) == <<code, 1, sig, 0>>

LEMMA LeadFacts ==
  ASSUME NEW code \in Nat, NEW sig \in {"s", "o", "g", "u"}
  PROVE  /\ Lead(code, sig) \in Cells /\ Len(Lead(code, sig)) = 4
         /\ Lead(code, sig)[1] = code /\ Lead(code, sig)[2] = 1
         /\ Lead(code, sig)[3] = sig /\ Lead(code, sig)[4] = 0
<1>1. code \in Cell /\ sig \in Cell /\ 1 \in Cell /\ 0 \in Cell
  BY DEF Cell
<1> QED
  BY <1>1 DEF Lead, Cells

\* One more header field.
LEMMA WriteField ==
  ASSUME NEW b \in Cells, NEW p \in Gaps(b), NEW code \in Nat,
         NEW sig \in {"s", "o", "g"}, NEW s \in Cells
  PROVE  LET all == Field(b, <<code, sig, s>>)
         IN  /\ all \in Cells /\ Gap(sig, all) \in Gaps(all)
             /\ hdr_field(Written(b, p), code, sig, s) = Written(all, Gap(sig, all))
<1> DEFINE all == Field(b, <<code, sig, s>>)
           lead == Lead(code, sig)
           c == Place(b, 8, lead)
           h == wb_put(wb_pad(Written(b, p), 8), lead)
<1>1. lead \in Cells
  BY LeadFacts
<1>2. c \in Cells
  <2> HIDE DEF lead
  <2> QED
    BY <1>1, PlaceFacts
<1>3. h = Written(c, 0)
  <2> HIDE DEF lead
  <2> QED
    BY <1>1, PadPut
<1>4. all = TypedValue(c, sig, s)
  BY DEF Field, Lead
<1>5. hdr_field(Written(b, p), code, sig, s) =
        IF sig = "g" THEN wb_sig(h, s) ELSE wb_str(wb_pad(h, 4), s)
  BY DEF hdr_field, Lead
<1> HIDE DEF all, c, h
<1>6. 0 \in Gaps(c) /\ 0 \in Gaps(all) /\ Padding(Len(all), 4) \in Gaps(all)
  BY DEF Gaps
<1>7. CASE sig = "g"
  <2> DEFINE cells == <<Len(s)>> \o s \o <<0>>
             l == <<Len(s)>>
             z == <<0>>
  <2>1. l \in Cells /\ z \in Cells /\ cells \in Cells
    <3>1. Len(s) \in Nat
      BY DEF Cells
    <3> QED
      BY <3>1, NumberFacts, StrFacts
  <2>2. all = ((c \o l) \o s) \o z
    BY <1>4, <1>7 DEF TypedValue
  <2>3. cells = (l \o s) \o z
    OBVIOUS
  <2> HIDE DEF l, z
  <2>4. all = c \o cells
    <3>1. l \o s \in Cells
      BY <2>1, Join
    <3>2. Same(c, l, s)
      BY <1>2, <2>1, Grouped
    <3>3. Same(c, l \o s, z)
      BY <1>2, <2>1, <3>1, Grouped
    <3> QED
      BY <2>2, <2>3, <3>2, <3>3 DEF Same
  <2>5. h.b = c
    BY <1>2, <1>3, <1>6, WrittenFacts
  <2>6. wb_sig(h, s) = wb_put(h, cells)
    BY DEF wb_sig, l, z
  <2> HIDE DEF cells
  <2>7. wb_put(h, cells) = [b |-> all, nodepad |-> Len(c) + Len(cells)]
    BY <2>4, <2>5 DEF wb_put
  <2>8. all \in Cells /\ Len(all) = Len(c) + Len(cells)
    BY <1>2, <2>1, <2>4, Join
  <2>9. Written(all, 0) = [b |-> all, nodepad |-> Len(all)]
    BY <1>6, <2>8, WrittenFacts
  <2> QED
    BY <1>5, <1>6, <1>7, <2>6, <2>7, <2>8, <2>9 DEF Gap, all
<1>8. CASE sig \in {"s", "o"}
  <2>1. all = Place(c, 4, StrCells(s))
    BY <1>4, <1>8 DEF TypedValue
  <2>2. all \in Cells /\ wb_str(wb_pad(Written(c, 0), 4), s) = Written(all, Padding(Len(all), 4))
    BY <1>2, <1>6, <2>1, WriteString
  <2> QED
    BY <1>3, <1>5, <1>6, <1>8, <2>2 DEF Gap, all
<1> QED
  BY <1>7, <1>8

-----------------------------------------------------------------------------
(* The specification, value by value.                                      *)
HdrField == (Nat \X {"s", "o", "g"} \X Cells) \cup (Nat \X {"u"} \X Nat)

ValueCells(t, v) ==
  CASE t \in {"s", "o"} -> StrCells(v)
    [] t = "u" -> U32(v)
    [] t = "g" -> <<Len(v)>> \o v \o <<0>>

LEMMA HdrFieldFacts ==
  ASSUME NEW f \in HdrField
  PROVE  /\ f[1] \in Nat /\ f[2] \in {"s", "o", "g", "u"}
         /\ f[2] \in {"s", "o", "g"} => f[3] \in Cells
         /\ f[2] = "u" => f[3] \in Nat
         /\ ValueCells(f[2], f[3]) \in Cells
         /\ Len(ValueCells(f[2], f[3])) \in Nat /\ Len(ValueCells(f[2], f[3])) > 0
<1>1. /\ f[1] \in Nat /\ f[2] \in {"s", "o", "g", "u"}
      /\ f[2] \in {"s", "o", "g"} => f[3] \in Cells
      /\ f[2] = "u" => f[3] \in Nat
  BY DEF HdrField
<1> DEFINE t == f[2]
           v == f[3]
           c == ValueCells(t, v)
<1> HIDE DEF t, v
<1>2. CASE t \in {"s", "o"}
  <2>1. v \in Cells /\ c = StrCells(v)
    BY <1>1, <1>2 DEF ValueCells, t, v
  <2>2. c \in Cells /\ Len(c) = Len(v) + 5 /\ Len(v) \in Nat
    BY <2>1, StrFacts
  <2> HIDE DEF c
  <2>3. Len(c) \in Nat /\ Len(c) > 0
    BY <2>2
  <2> QED
    BY <1>1, <2>2, <2>3 DEF c, t, v
<1>3. CASE t = "u"
  <2>1. v \in Nat /\ c = U32(v)
    BY <1>1, <1>3 DEF ValueCells, t, v
  <2>2. c \in Cells /\ Len(c) = 4
    BY <2>1, NumberFacts
  <2> HIDE DEF c
  <2>3. Len(c) \in Nat /\ Len(c) > 0
    BY <2>2
  <2> QED
    BY <1>1, <2>2, <2>3 DEF c, t, v
<1>4. CASE t = "g"
  <2>1. v \in Cells /\ c = <<Len(v)>> \o v \o <<0>>
    BY <1>1, <1>4 DEF ValueCells, t, v
  <2>2. c \in Cells /\ Len(c) = Len(v) + 2 /\ Len(v) \in Nat
    BY <2>1, StrFacts
  <2> HIDE DEF c
  <2>3. Len(c) \in Nat /\ Len(c) > 0
    BY <2>2
  <2> QED
    BY <1>1, <2>2, <2>3 DEF c, t, v
<1> QED
  BY <1>1, <1>2, <1>3, <1>4 DEF t

\* What is aligned already is appended.
LEMMA PlaceAligned ==
  ASSUME NEW b \in Cells, NEW align \in {4, 8}, NEW cells \in Cells, Padding(Len(b), align) = 0
  PROVE  Place(b, align, cells) = b \o cells
<1>1. Zeros(0) = <<>>
  BY ZerosFacts
<1>2. b \o <<>> = b
  BY ConcatEmptySeq DEF Cells
<1> QED
  BY <1>1, <1>2 DEF Place

\* Where a header field is, piece by piece.
FieldCells(b, f) ==
  Zeros(Padding(Len(b), 8)) \o (Lead(f[1], f[2]) \o ValueCells(f[2], f[3]))

LEMMA FieldShape ==
  ASSUME NEW b \in Cells, NEW f \in HdrField
  PROVE  /\ Field(b, f) \in Cells /\ FieldCells(b, f) \in Cells
         /\ Field(b, f) = b \o FieldCells(b, f)
         /\ Len(Field(b, f)) = Len(b) + Padding(Len(b), 8) + 4 + Len(ValueCells(f[2], f[3]))
<1> DEFINE lead == Lead(f[1], f[2])
           t == f[2]
           v == f[3]
           c == Place(b, 8, lead)
           value == ValueCells(t, v)
           z == Zeros(Padding(Len(b), 8))
           n == Len(b)
<1>1. lead \in Cells /\ Len(lead) = 4 /\ t \in {"s", "o", "g", "u"} /\ value \in Cells
  BY HdrFieldFacts, LeadFacts
<1>2. Field(b, f) = TypedValue(c, t, v)
  BY DEF Field, Lead
<1> HIDE DEF lead, value
<1>3. /\ c \in Cells /\ z \in Cells /\ c = b \o (z \o lead) /\ Padding(n, 8) \in Nat
      /\ Len(c) = n + Padding(n, 8) + 4
  BY <1>1, PlaceFacts
<1>4. Padding(Len(c), 4) = 0 /\ n \in Nat
  <2>1. n \in Nat
    BY DEF Cells
  <2> HIDE DEF n
  <2> DEFINE q == Padding(n, 8)
  <2>2. (n + q) % 8 = 0 /\ q \in Nat
    BY <2>1, PaddingFacts, PaddingRange
  <2> HIDE DEF q
  <2>3. Padding((n + q) + 4, 4) = 0
    BY <2>1, <2>2 DEF Padding
  <2> QED
    BY <1>3, <2>1, <2>3 DEF q
<1> HIDE DEF c
<1>5. TypedValue(c, t, v) = c \o value
  <2>1. CASE t \in {"s", "o"}
    <3>1. value = StrCells(v) /\ TypedValue(c, t, v) = Place(c, 4, StrCells(v))
      BY <2>1 DEF value, ValueCells, TypedValue
    <3> QED
      BY <1>1, <1>3, <1>4, <3>1, PlaceAligned
  <2>2. CASE t = "u"
    <3>1. value = U32(v) /\ TypedValue(c, t, v) = Place(c, 4, U32(v))
      BY <2>2 DEF value, ValueCells, TypedValue
    <3> QED
      BY <1>1, <1>3, <1>4, <3>1, PlaceAligned
  <2>3. CASE t = "g"
    <3> DEFINE l == <<Len(v)>>
               y == <<0>>
    <3>1. v \in Cells
      BY <2>3, HdrFieldFacts
    <3>2. l \in Cells /\ y \in Cells
      <4>1. Len(v) \in Nat
        BY <3>1 DEF Cells
      <4> QED
        BY <4>1, NumberFacts
    <3>3. value = (l \o v) \o y /\ TypedValue(c, t, v) = ((c \o l) \o v) \o y
      BY <2>3 DEF value, ValueCells, TypedValue
    <3> HIDE DEF l, y, v, z
    <3>7. c \in Cells
      BY <1>3
    <3>4. l \o v \in Cells
      BY <3>1, <3>2, Join
    <3>5. Same(c, l, v)
      BY <3>1, <3>2, <3>7, Grouped
    <3>6. Same(c, l \o v, y)
      BY <3>2, <3>4, <3>7, Grouped
    <3> QED
      BY <3>3, <3>5, <3>6 DEF Same
  <2> QED
    BY <1>1, <2>1, <2>2, <2>3
<1>6. c \o value \in Cells /\ Len(c \o value) = Len(c) + Len(value)
  BY <1>1, <1>3, Join
<1> HIDE DEF z
<1>7. z \o lead \in Cells /\ lead \o value \in Cells /\ z \o (lead \o value) \in Cells
  BY <1>1, <1>3, Join
<1>8. Same(z, lead, value)
  BY <1>1, <1>3, Grouped
<1>9. Same(b, z \o lead, value)
  BY <1>1, <1>7, Grouped
<1>10. FieldCells(b, f) = z \o (lead \o value)
  BY DEF FieldCells, z, lead, value
<1> QED
  BY <1>2, <1>3, <1>5, <1>6, <1>7, <1>8, <1>9, <1>10 DEF value, Same

\* The header after each of its fields.
FieldsFrom(start, fields) ==
  CHOOSE f : f = [i \in 0..Len(fields) |-> IF i = 0 THEN start ELSE Field(f[i - 1], fields[i])]

LEMMA FieldsFromFacts ==
  ASSUME NEW start \in Cells, NEW fields \in Seq(HdrField)
  PROVE  LET a == FieldsFrom(start, fields)
         IN  /\ Len(fields) \in Nat
             /\ \A i \in 0..Len(fields) : a[i] \in Cells
             /\ a[0] = start
             /\ \A i \in 1..Len(fields) : fields[i] \in HdrField /\ a[i] = Field(a[i - 1], fields[i])
<1> DEFINE n == Len(fields)
           Step == [i \in 1..n |-> [b \in Cells |-> Field(b, fields[i])]]
           Is(f) == f = [i \in 0..n |-> IF i = 0 THEN start ELSE Field(f[i - 1], fields[i])]
<1>1. n \in Nat /\ \A i \in 1..n : fields[i] \in HdrField
  OBVIOUS
<1>2. start \in Cells
  BY Zenon
<1>3. \A i \in 1..n, b \in Cells : Field(b, fields[i]) \in Cells
  BY <1>1, FieldShape
<1>4. Step \in [1..n -> [Cells -> Cells]]
  BY <1>3
<1>5. \A i \in 1..n, b \in Cells : Step[i][b] = Field(b, fields[i])
  OBVIOUS
<1> HIDE DEF n, Step
<1>6. PICK f : Loops!Loop(f, n, Cells, start, Step)
  BY <1>1, <1>2, <1>4, Loops!Recursion
<1>7. \A i \in 0..n : i # 0 => i \in 1..n /\ i - 1 \in 0..n
  BY <1>1
<1>8. Is(f)
  BY <1>5, <1>6, <1>7 DEF Loops!Loop
<1> DEFINE a == FieldsFrom(start, fields)
<1>9. Is(a)
  <2> HIDE DEF Is
  <2>1. a = CHOOSE g : Is(g)
    BY DEF FieldsFrom, Is, n
  <2> QED
    BY <1>8, <2>1
<1> HIDE DEF a
<1>10. a[0] = start /\ \A i \in 1..n : a[i] = Field(a[i - 1], fields[i])
  BY <1>1, <1>7, <1>9
<1>11. \A i \in 0..n : a[i] \in Cells
  <2> DEFINE T == {i \in 0..n : a[i] \in Cells}
  <2>1. 0 \in T
    BY <1>1, <1>2, <1>10
  <2>2. \A i \in 1..n : i - 1 \in T => i \in T
    BY <1>1, <1>3, <1>10
  <2> HIDE DEF T
  <2>3. \A i \in 0..n : i \in T
    BY <1>1, <2>1, <2>2, Loops!LoopInduction
  <2> QED
    BY <2>3 DEF T
<1> QED
  BY <1>1, <1>10, <1>11 DEF n, a

\* An array of strings after each of them.
ArrayFrom(strs) ==
  CHOOSE f : f = [i \in 0..Len(strs) |-> IF i = 0 THEN <<>> ELSE Place(f[i - 1], 4, StrCells(strs[i]))]

LEMMA ArrayFromFacts ==
  ASSUME NEW strs \in Seq(Cells)
  PROVE  LET a == ArrayFrom(strs)
         IN  /\ Len(strs) \in Nat
             /\ \A i \in 0..Len(strs) : a[i] \in Cells
             /\ a[0] = <<>>
             /\ \A i \in 1..Len(strs) : strs[i] \in Cells /\ a[i] = Place(a[i - 1], 4, StrCells(strs[i]))
<1> DEFINE n == Len(strs)
           Step == [i \in 1..n |-> [b \in Cells |-> Place(b, 4, StrCells(strs[i]))]]
           Is(f) == f = [i \in 0..n |-> IF i = 0 THEN <<>> ELSE Place(f[i - 1], 4, StrCells(strs[i]))]
<1>1. n \in Nat /\ \A i \in 1..n : strs[i] \in Cells
  OBVIOUS
<1>2. <<>> \in Cells
  BY EmptySeq DEF Cells
<1>3. \A i \in 1..n, b \in Cells : Place(b, 4, StrCells(strs[i])) \in Cells
  BY <1>1, StrFacts, PlaceFacts
<1>4. Step \in [1..n -> [Cells -> Cells]]
  BY <1>3
<1>5. \A i \in 1..n, b \in Cells : Step[i][b] = Place(b, 4, StrCells(strs[i]))
  OBVIOUS
<1> HIDE DEF n, Step
<1>6. PICK f : Loops!Loop(f, n, Cells, <<>>, Step)
  BY <1>1, <1>2, <1>4, Loops!Recursion
<1>7. \A i \in 0..n : i # 0 => i \in 1..n /\ i - 1 \in 0..n
  BY <1>1
<1>8. Is(f)
  BY <1>5, <1>6, <1>7 DEF Loops!Loop
<1> DEFINE a == ArrayFrom(strs)
<1>9. Is(a)
  <2> HIDE DEF Is
  <2>1. a = CHOOSE g : Is(g)
    BY DEF ArrayFrom, Is, n
  <2> QED
    BY <1>8, <2>1
<1> HIDE DEF a
<1>10. a[0] = <<>> /\ \A i \in 1..n : a[i] = Place(a[i - 1], 4, StrCells(strs[i]))
  BY <1>1, <1>7, <1>9
<1>11. \A i \in 0..n : a[i] \in Cells
  <2> DEFINE T == {i \in 0..n : a[i] \in Cells}
  <2>1. 0 \in T
    BY <1>1, <1>2, <1>10
  <2>2. \A i \in 1..n : i - 1 \in T => i \in T
    BY <1>1, <1>3, <1>10
  <2> HIDE DEF T
  <2>3. \A i \in 0..n : i \in T
    BY <1>1, <2>1, <2>2, Loops!LoopInduction
  <2> QED
    BY <2>3 DEF T
<1> QED
  BY <1>1, <1>10, <1>11 DEF n, a

LEMMA ArrayFacts ==
  ASSUME NEW strs \in Seq(Cells)
  PROVE  ArrayCells(strs) = ArrayFrom(strs)[Len(strs)] /\ ArrayCells(strs) \in Cells
<1>1. ArrayCells(strs) = ArrayFrom(strs)[Len(strs)]
  BY DEF ArrayCells, ArrayFrom
<1> QED
  BY <1>1, ArrayFromFacts

\* The values of a body.
Value == Arg \cup [type : {"v"}, v : Cells] \cup [type : {"as"}, v : Seq(Cells)]

LEMMA ValueFacts ==
  ASSUME NEW b \in Cells, NEW a \in Value
  PROVE  TypedValue(b, a.type, a.v) \in Cells
<1>1. CASE a \in Arg
  <2>1. 0 \in Gaps(b)
    BY DEF Gaps
  <2> QED
    BY <1>1, <2>1, WriteArg
<1>2. CASE a \in [type : {"v"}, v : Cells]
  <2> DEFINE m == <<1, "s", 0>>
  <2>1. m \in Cells
    <3>1. 1 \in Cell /\ "s" \in Cell /\ 0 \in Cell
      BY DEF Cell
    <3> QED
      BY <3>1 DEF Cells
  <2>2. TypedValue(b, a.type, a.v) = Place(b \o m, 4, StrCells(a.v))
    BY <1>2 DEF TypedValue
  <2> HIDE DEF m
  <2>3. b \o m \in Cells
    BY <2>1, Join
  <2>4. StrCells(a.v) \in Cells
    BY <1>2, StrFacts
  <2>5. 4 \in {4, 8}
    OBVIOUS
  <2> DEFINE c == b \o m
             s == StrCells(a.v)
  <2> HIDE DEF c, s
  <2>6. Place(c, 4, s) \in Cells
    BY <2>3, <2>4, <2>5, PlaceFacts DEF c, s
  <2> QED
    BY <2>2, <2>6 DEF c, s
<1>3. CASE a \in [type : {"as"}, v : Seq(Cells)]
  <2> DEFINE c == ArrayCells(a.v)
             u == U32(Len(c))
  <2>1. TypedValue(b, a.type, a.v) = Place(b, 4, u \o c)
    BY <1>3 DEF TypedValue
  <2>2. c \in Cells
    BY <1>3, ArrayFacts
  <2> HIDE DEF c
  <2>3. Len(c) \in Nat
    BY <2>2 DEF Cells
  <2>4. u \in Cells
    BY <2>3, NumberFacts
  <2> HIDE DEF u
  <2>5. u \o c \in Cells
    BY <2>2, <2>4, Join
  <2>6. 4 \in {4, 8}
    OBVIOUS
  <2> DEFINE w == u \o c
  <2> HIDE DEF w
  <2>7. Place(b, 4, w) \in Cells
    BY <2>5, <2>6, PlaceFacts DEF w
  <2> QED
    BY <2>1, <2>7 DEF w
<1> QED
  BY <1>1, <1>2, <1>3 DEF Value

\* The body after each of its values.
ValuesFrom(args) ==
  CHOOSE f : f = [i \in 0..Len(args) |-> IF i = 0 THEN <<>> ELSE TypedValue(f[i - 1], args[i].type, args[i].v)]

LEMMA ValuesFromFacts ==
  ASSUME NEW args \in Seq(Value)
  PROVE  LET a == ValuesFrom(args)
         IN  /\ Len(args) \in Nat
             /\ \A i \in 0..Len(args) : a[i] \in Cells
             /\ a[0] = <<>>
             /\ \A i \in 1..Len(args) : args[i] \in Value /\ a[i] = TypedValue(a[i - 1], args[i].type, args[i].v)
<1> DEFINE n == Len(args)
           Step == [i \in 1..n |-> [b \in Cells |-> TypedValue(b, args[i].type, args[i].v)]]
           Is(f) == f = [i \in 0..n |-> IF i = 0 THEN <<>> ELSE TypedValue(f[i - 1], args[i].type, args[i].v)]
<1>1. n \in Nat /\ \A i \in 1..n : args[i] \in Value
  OBVIOUS
<1>2. <<>> \in Cells
  BY EmptySeq DEF Cells
<1>3. \A i \in 1..n, b \in Cells : TypedValue(b, args[i].type, args[i].v) \in Cells
  BY <1>1, ValueFacts
<1>4. Step \in [1..n -> [Cells -> Cells]]
  BY <1>3
<1>5. \A i \in 1..n, b \in Cells : Step[i][b] = TypedValue(b, args[i].type, args[i].v)
  OBVIOUS
<1> HIDE DEF n, Step
<1>6. PICK f : Loops!Loop(f, n, Cells, <<>>, Step)
  BY <1>1, <1>2, <1>4, Loops!Recursion
<1>7. \A i \in 0..n : i # 0 => i \in 1..n /\ i - 1 \in 0..n
  BY <1>1
<1>8. Is(f)
  BY <1>5, <1>6, <1>7 DEF Loops!Loop
<1> DEFINE a == ValuesFrom(args)
<1>9. Is(a)
  <2> HIDE DEF Is
  <2>1. a = CHOOSE g : Is(g)
    BY DEF ValuesFrom, Is, n
  <2> QED
    BY <1>8, <2>1
<1> HIDE DEF a
<1>10. a[0] = <<>> /\ \A i \in 1..n : a[i] = TypedValue(a[i - 1], args[i].type, args[i].v)
  BY <1>1, <1>7, <1>9
<1>11. \A i \in 0..n : a[i] \in Cells
  <2> DEFINE T == {i \in 0..n : a[i] \in Cells}
  <2>1. 0 \in T
    BY <1>1, <1>2, <1>10
  <2>2. \A i \in 1..n : i - 1 \in T => i \in T
    BY <1>1, <1>3, <1>10
  <2> HIDE DEF T
  <2>3. \A i \in 0..n : i \in T
    BY <1>1, <2>1, <2>2, Loops!LoopInduction
  <2> QED
    BY <2>3 DEF T
<1> QED
  BY <1>1, <1>10, <1>11 DEF n, a

LEMMA AllFacts ==
  /\ \A args \in Seq(Value) : AllValues(args) = ValuesFrom(args)[Len(args)] /\ AllValues(args) \in Cells
  /\ \A fields : AllFields(fields) = FieldsFrom(Zeros(16), fields)[Len(fields)]
<1>1. \A args : AllValues(args) = ValuesFrom(args)[Len(args)]
  BY DEF AllValues, ValuesFrom
<1>2. \A fields : AllFields(fields) = FieldsFrom(Zeros(16), fields)[Len(fields)]
  BY DEF AllFields, FieldsFrom
<1>3. ASSUME NEW args \in Seq(Value) PROVE AllValues(args) \in Cells
  <2> DEFINE n == Len(args)
             a == ValuesFrom(args)
  <2>1. n \in Nat /\ \A i \in 0..n : a[i] \in Cells
    BY ValuesFromFacts
  <2> HIDE DEF n, a
  <2>2. a[n] \in Cells
    BY <2>1
  <2> QED
    BY <1>1, <2>2 DEF n, a
<1> QED
  BY <1>1, <1>2, <1>3

LEMMA WordFacts ==
  ASSUME NEW v \in Nat
  PROVE  U32(v)[1] = v /\ \A i \in 2..4 : U32(v)[i] = Rest
<1> DEFINE r == [i \in 1..3 |-> Rest]
<1>1. Rest \in Cell /\ v \in Cell
  BY DEF Cell, Rest
<1>2. r \in Seq(Cell) /\ Len(r) = 3 /\ \A i \in 1..3 : r[i] = Rest
  BY <1>1
<1>3. <<v>> \in Seq(Cell) /\ Len(<<v>>) = 1 /\ <<v>>[1] = v
  BY <1>1
<1>4. U32(v) = <<v>> \o r
  BY DEF U32
<1> HIDE DEF r
<1>5. \A i \in 1..4 : U32(v)[i] = IF i <= 1 THEN <<v>>[i] ELSE r[i - 1]
  BY <1>2, <1>3, <1>4, ConcatProperties
<1>6. \A i \in 2..4 : i - 1 \in 1..3 /\ i \in 1..4 /\ ~(i <= 1)
  OBVIOUS
<1> QED
  BY <1>2, <1>3, <1>5, <1>6

\* Pieces of a message by their place.
LEMMA Index ==
  ASSUME NEW s \in Cells, NEW t \in Cells
  PROVE  /\ \A i \in 1..Len(s) : (s \o t)[i] = s[i]
         /\ \A i \in 1..Len(t) : (s \o t)[Len(s) + i] = t[i]
<1> DEFINE m == Len(s)
           n == Len(t)
<1>1. m \in Nat /\ n \in Nat
  BY DEF Cells
<1>2. \A i \in 1..(m + n) : (s \o t)[i] = IF i <= m THEN s[i] ELSE t[i - m]
  BY ConcatProperties DEF Cells
<1> HIDE DEF m, n
<1>3. \A i \in 1..m : i \in 1..(m + n) /\ i <= m
  BY <1>1
<1>4. \A i \in 1..n : m + i \in 1..(m + n) /\ ~(m + i <= m) /\ (m + i) - m = i
  BY <1>1
<1>5. /\ \A i \in 1..m : (s \o t)[i] = s[i]
      /\ \A i \in 1..n : (s \o t)[m + i] = t[i]
  BY <1>2, <1>3, <1>4
<1> QED
  BY <1>5 DEF m, n

IsHeader(h, type, len, flen) ==
  /\ h \in Cells /\ Len(h) = 16
  /\ h[1] = "l" /\ h[2] = type /\ h[5] = len /\ h[13] = flen

\* The fixed header; its last number can be filled in later.
LEMMA HeaderFacts ==
  ASSUME NEW type \in Nat, NEW len \in Nat, NEW number \in Nat, NEW flen \in Nat
  PROVE  /\ IsHeader(FixedHeader(type, len, number, flen), type, len, flen)
         /\ \A i \in 1..16 : i # 13 =>
              FixedHeader(type, len, number, flen)[i] = FixedHeader(type, len, number, 0)[i]
<1> DEFINE a == <<"l", type, 0, 1>>
           b == U32(len)
           c == U32(number)
           d == U32(flen)
           e == U32(0)
           x == a \o b
           y == x \o c
           h == y \o d
           o == y \o e
<1>1. a \in Cells /\ Len(a) = 4
  <2>1. "l" \in Cell /\ type \in Cell /\ 0 \in Cell /\ 1 \in Cell
    BY DEF Cell
  <2> QED
    BY <2>1 DEF Cells
<1>2. a[1] = "l"
  OBVIOUS
<1>3. a[2] = type
  OBVIOUS
<1>4. b[1] = len /\ d[1] = flen
  BY WordFacts
<1>5. \A i \in 2..4 : d[i] = e[i]
  <2>1. \A i \in 2..4 : d[i] = Rest
    BY WordFacts
  <2>2. \A i \in 2..4 : e[i] = Rest
    BY WordFacts
  <2> QED
    BY <2>1, <2>2
<1>6. b \in Cells /\ Len(b) = 4
  BY NumberFacts
<1>19. c \in Cells /\ Len(c) = 4
  BY NumberFacts
<1>20. d \in Cells /\ Len(d) = 4
  BY NumberFacts
<1>21. e \in Cells /\ Len(e) = 4
  BY NumberFacts
<1>7. FixedHeader(type, len, number, flen) = h /\ FixedHeader(type, len, number, 0) = o
  BY DEF FixedHeader
<1> HIDE DEF a, b, c, d, e
<1>8. x \in Cells /\ Len(x) = 8
  <2>1. x \in Cells /\ Len(x) = Len(a) + Len(b)
    BY <1>1, <1>6, Join, Zenon
  <2> QED
    BY <1>1, <1>6, <2>1
<1>9. /\ \A i \in 1..4 : x[i] = a[i]
      /\ \A i \in 1..4 : x[4 + i] = b[i]
  <2>1. /\ \A i \in 1..Len(a) : x[i] = a[i]
        /\ \A i \in 1..Len(b) : x[Len(a) + i] = b[i]
    BY <1>1, <1>6, Index, Zenon
  <2> QED
    BY <1>1, <1>6, <2>1
<1> HIDE DEF x
<1>10. y \in Cells /\ Len(y) = 12
  <2>1. y \in Cells /\ Len(y) = Len(x) + Len(c)
    BY <1>8, <1>19, Join, Zenon
  <2> QED
    BY <1>8, <1>19, <2>1
<1>11. \A i \in 1..8 : y[i] = x[i]
  <2>1. \A i \in 1..Len(x) : y[i] = x[i]
    BY <1>8, <1>19, Index, Zenon
  <2> QED
    BY <1>8, <2>1
<1> HIDE DEF y
<1>12. h \in Cells /\ Len(h) = 16
  <2>1. h \in Cells /\ Len(h) = Len(y) + Len(d)
    BY <1>10, <1>20, Join, Zenon
  <2> QED
    BY <1>10, <1>20, <2>1
<1>22. /\ \A i \in 1..12 : h[i] = y[i]
       /\ \A i \in 1..4 : h[12 + i] = d[i]
  <2>1. /\ \A i \in 1..Len(y) : h[i] = y[i]
        /\ \A i \in 1..Len(d) : h[Len(y) + i] = d[i]
    BY <1>10, <1>20, Index, Zenon
  <2> QED
    BY <1>10, <1>20, <2>1
<1>23. /\ \A i \in 1..12 : o[i] = y[i]
       /\ \A i \in 1..4 : o[12 + i] = e[i]
  <2>1. /\ \A i \in 1..Len(y) : o[i] = y[i]
        /\ \A i \in 1..Len(e) : o[Len(y) + i] = e[i]
    BY <1>10, <1>21, Index, Zenon
  <2> QED
    BY <1>10, <1>21, <2>1
<1>13. /\ \A i \in 1..12 : h[i] = y[i] /\ o[i] = y[i]
       /\ \A i \in 1..4 : h[12 + i] = d[i] /\ o[12 + i] = e[i]
  BY <1>22, <1>23
<1> HIDE DEF h, o
<1>14. x[4 + 1] = b[1] /\ h[12 + 1] = d[1] /\ x[1] = a[1] /\ x[2] = a[2]
  BY <1>9, <1>13
<1>15. h[1] = a[1] /\ h[2] = a[2] /\ h[5] = b[1] /\ h[13] = d[1]
  BY <1>11, <1>13, <1>14
<1>16. ASSUME NEW i \in 1..16, i # 13 PROVE h[i] = o[i]
  <2>1. CASE i \in 1..12
    BY <1>13, <2>1
  <2>2. CASE i \in 14..16
    <3> DEFINE j == i - 12
    <3>1. j \in 1..4 /\ j \in 2..4 /\ 12 + j = i
      BY <2>2
    <3> HIDE DEF j
    <3>2. h[12 + j] = o[12 + j]
      BY <1>5, <1>13, <3>1
    <3> QED
      BY <3>1, <3>2
  <2> QED
    BY <1>16, <2>1, <2>2
<1>17. h[1] = "l"
  BY <1>2, <1>15
<1>18. h[2] = type /\ h[5] = len /\ h[13] = flen
  BY <1>3, <1>4, <1>15
<1> QED
  BY <1>7, <1>12, <1>16, <1>17, <1>18, Zenon DEF IsHeader

LEMMA Patch ==
  ASSUME NEW type \in Nat, NEW len \in Nat, NEW number \in Nat, NEW flen \in Nat,
         NEW rest \in Cells
  PROVE  [FixedHeader(type, len, number, 0) \o rest EXCEPT ![13] = flen]
           = FixedHeader(type, len, number, flen) \o rest
<1> DEFINE o == FixedHeader(type, len, number, 0)
           h == FixedHeader(type, len, number, flen)
           x == o \o rest
           y == h \o rest
           n == Len(rest)
<1>0. /\ IsHeader(o, type, len, 0) /\ IsHeader(h, type, len, flen)
      /\ \A i \in 1..16 : i # 13 => h[i] = o[i]
  BY HeaderFacts
<1> HIDE DEF o, h
<1>1. o \in Cells /\ Len(o) = 16
  BY <1>0, Zenon DEF IsHeader
<1>11. h \in Cells /\ Len(h) = 16
  BY <1>0, Zenon DEF IsHeader
<1>2. h[13] = flen /\ \A i \in 1..16 : i # 13 => h[i] = o[i]
  BY <1>0, Zenon DEF IsHeader
<1>12. n \in Nat /\ x \in Cells /\ Len(x) = 16 + n
  <2>1. n \in Nat /\ x \in Cells /\ Len(x) = Len(o) + n
    BY <1>1, Join, Zenon
  <2> QED
    BY <1>1, <2>1
<1>13. y \in Cells /\ Len(y) = 16 + n
  <2>1. y \in Cells /\ Len(y) = Len(h) + n
    BY <1>11, Join, Zenon
  <2> QED
    BY <1>11, <2>1
<1>3. n \in Nat /\ x \in Cells /\ Len(x) = 16 + n /\ y \in Cells /\ Len(y) = 16 + n
  BY <1>12, <1>13
<1>14. /\ \A i \in 1..16 : x[i] = o[i]
       /\ \A i \in 1..n : x[16 + i] = rest[i]
  <2>1. /\ \A i \in 1..Len(o) : x[i] = o[i]
        /\ \A i \in 1..n : x[Len(o) + i] = rest[i]
    BY <1>1, Index, Zenon
  <2> QED
    BY <1>1, <2>1
<1>15. /\ \A i \in 1..16 : y[i] = h[i]
       /\ \A i \in 1..n : y[16 + i] = rest[i]
  <2>1. /\ \A i \in 1..Len(h) : y[i] = h[i]
        /\ \A i \in 1..n : y[Len(h) + i] = rest[i]
    BY <1>11, Index, Zenon
  <2> QED
    BY <1>11, <2>1
<1>4. \A i \in 1..16 : x[i] = o[i] /\ y[i] = h[i]
  BY <1>14, <1>15
<1>5. \A i \in 1..n : x[16 + i] = rest[i] /\ y[16 + i] = rest[i]
  BY <1>14, <1>15
<1> HIDE DEF x, y
<1>6. /\ DOMAIN x = 1..(16 + n) /\ DOMAIN y = 1..(16 + n)
      /\ x = [i \in 1..(16 + n) |-> x[i]] /\ y = [i \in 1..(16 + n) |-> y[i]]
  BY <1>3, LenProperties DEF Cells
<1> HIDE DEF n
<1>7. ASSUME NEW i \in 1..(16 + n), i # 13 PROVE x[i] = y[i]
  <2>1. CASE i <= 16
    <3>1. i \in 1..16
      BY <1>3, <2>1
    <3> QED
      BY <1>2, <1>4, <1>7, <3>1
  <2>2. CASE i > 16
    <3> DEFINE j == i - 16
    <3>1. j \in 1..n /\ 16 + j = i
      BY <1>3, <2>2
    <3> HIDE DEF j
    <3>2. x[16 + j] = y[16 + j]
      BY <1>5, <3>1
    <3> QED
      BY <3>1, <3>2
  <2> QED
    BY <1>3, <2>1, <2>2
<1>8. 13 \in 1..(16 + n) /\ y[13] = flen
  BY <1>2, <1>3, <1>4
<1>9. [x EXCEPT ![13] = flen] = [i \in 1..(16 + n) |-> IF i = 13 THEN flen ELSE x[i]]
  BY <1>6
<1>10. [x EXCEPT ![13] = flen] = y
  BY <1>6, <1>7, <1>8, <1>9
<1> QED
  BY <1>10 DEF x, y, o, h

\* The fields do not depend on what the fixed header holds.
Shifted(x, y, s, t) == \E h \in Cells : x = s \o h /\ y = t \o h

LEMMA FieldShift ==
  ASSUME NEW s \in Cells, NEW t \in Cells, Len(s) = Len(t), NEW f \in HdrField,
         NEW x, NEW y, Shifted(x, y, s, t)
  PROVE  Shifted(Field(x, f), Field(y, f), s, t)
<1>1. PICK h \in Cells : x = s \o h /\ y = t \o h
  BY DEF Shifted
<1>2. x \in Cells /\ Len(x) = Len(s) + Len(h)
  BY <1>1, Join
<1>3. y \in Cells /\ Len(y) = Len(t) + Len(h)
  BY <1>1, Join
<1>4. Len(x) = Len(y)
  BY <1>2, <1>3
<1> DEFINE c == FieldCells(x, f)
<1>5. c = FieldCells(y, f)
  BY <1>4 DEF FieldCells
<1>6. c \in Cells /\ Field(x, f) = x \o c
  BY <1>2, FieldShape
<1>7. Field(y, f) = y \o c
  BY <1>3, <1>5, FieldShape
<1> HIDE DEF c
<1>8. h \o c \in Cells
  BY <1>6, Join
<1>9. (s \o h) \o c = s \o (h \o c)
  BY <1>6, Regroup
<1>10. (t \o h) \o c = t \o (h \o c)
  BY <1>6, Regroup
<1> QED
  BY <1>1, <1>6, <1>7, <1>8, <1>9, <1>10 DEF Shifted

LEMMA FieldsShift ==
  ASSUME NEW s \in Cells, NEW t \in Cells, Len(s) = Len(t), NEW fields \in Seq(HdrField),
         NEW i \in 0..Len(fields)
  PROVE  Shifted(FieldsFrom(s, fields)[i], FieldsFrom(t, fields)[i], s, t)
<1> DEFINE n == Len(fields)
           x == FieldsFrom(s, fields)
           y == FieldsFrom(t, fields)
<1>1. /\ n \in Nat /\ x[0] = s
      /\ \A j \in 1..n : fields[j] \in HdrField /\ x[j] = Field(x[j - 1], fields[j])
  BY FieldsFromFacts
<1>2. y[0] = t /\ \A j \in 1..n : y[j] = Field(y[j - 1], fields[j])
  BY FieldsFromFacts
<1>3. Shifted(s, t, s, t)
  <2>1. <<>> \in Cells /\ s \o <<>> = s /\ t \o <<>> = t
    BY EmptySeq, ConcatEmptySeq DEF Cells
  <2> QED
    BY <2>1 DEF Shifted
<1> HIDE DEF x, y, n
<1> DEFINE T == {j \in 0..n : Shifted(x[j], y[j], s, t)}
<1>4. 0 \in T
  BY <1>1, <1>2, <1>3
<1>5. ASSUME NEW j \in 1..n, j - 1 \in T PROVE j \in T
  <2>1. Shifted(x[j - 1], y[j - 1], s, t)
    BY <1>5
  <2> DEFINE u == x[j - 1]
             v == y[j - 1]
             f == fields[j]
  <2>2. f \in HdrField /\ x[j] = Field(u, f) /\ y[j] = Field(v, f)
    BY <1>1, <1>2
  <2> HIDE DEF u, v, f
  <2>3. Shifted(Field(u, f), Field(v, f), s, t)
    BY <2>1, <2>2, FieldShift DEF u, v
  <2>4. j \in 0..n
    BY <1>1
  <2> QED
    BY <2>2, <2>3, <2>4
<1> HIDE DEF T
<1>6. \A j \in 0..n : j \in T
  BY <1>1, <1>4, <1>5, Loops!LoopInduction
<1>7. i \in T
  BY <1>6 DEF n
<1> QED
  BY <1>7 DEF T, x, y

\* What follows a prefix.
LEMMA Suffix ==
  ASSUME NEW s \in Cells, NEW h \in Cells
  PROVE  /\ SubSeq(s \o h, Len(s) + 1, Len(s) + Len(h)) = h
         /\ SubSeq(s \o h, 1, Len(s)) = s
<1> DEFINE m == Len(s)
           n == Len(h)
           x == s \o h
           y == SubSeq(x, m + 1, m + n)
           z == SubSeq(x, 1, m)
<1>1. m \in Nat /\ n \in Nat
  BY DEF Cells
<1>2. /\ \A i \in 1..m : x[i] = s[i]
      /\ \A i \in 1..n : x[m + i] = h[i]
  BY Index
<1>3. x \in Seq(Cell) /\ Len(x) = m + n /\ s \in Seq(Cell) /\ h \in Seq(Cell)
  BY Join DEF Cells
<1> HIDE DEF x, m, n
<1>4. \A i \in 1..(m + n) : x[i] \in Cell
  BY <1>3, ElementOfSeq
<1>5. \A i \in (m + 1)..(m + n) : x[i] \in Cell
  BY <1>1, <1>4
<1>6. \A i \in 1..m : x[i] \in Cell
  BY <1>1, <1>4
<1> DEFINE k == m + 1
           l == m + n
<1>7. k \in Int /\ l \in Int /\ 1 \in Int /\ m \in Int
  BY <1>1
<1>8. y = h
  <2> HIDE DEF k, l
  <2>1. \A i \in k..l : x[i] \in Cell
    BY <1>5 DEF k, l
  <2>2. /\ SubSeq(x, k, l) \in Seq(Cell)
        /\ Len(SubSeq(x, k, l)) = IF k <= l THEN l - k + 1 ELSE 0
        /\ \A i \in 1..(l - k + 1) : SubSeq(x, k, l)[i] = x[k + i - 1]
    BY <1>7, <2>1, SubSeqProperties
  <2>3. l - k + 1 = n /\ (k <= l <=> n # 0)
    BY <1>1 DEF k, l
  <2>4. Len(SubSeq(x, k, l)) = n
    BY <1>1, <2>2, <2>3
  <2>5. ASSUME NEW i \in 1..n PROVE SubSeq(x, k, l)[i] = h[i]
    <3>1. k + i - 1 = m + i
      BY <1>1 DEF k
    <3> QED
      BY <1>2, <2>2, <2>3, <3>1
  <2> DEFINE q == SubSeq(x, k, l)
  <2> HIDE DEF q
  <2>6. q \in Seq(Cell) /\ Len(q) = Len(h) /\ \A i \in 1..Len(q) : q[i] = h[i]
    BY <2>2, <2>4, <2>5 DEF q, n
  <2>7. q = h
    BY <1>3, <2>6, SeqEqual
  <2> QED
    BY <2>7 DEF q, k, l
<1>9. z = s
  <2>2. /\ SubSeq(x, 1, m) \in Seq(Cell)
        /\ Len(SubSeq(x, 1, m)) = IF 1 <= m THEN m - 1 + 1 ELSE 0
        /\ \A i \in 1..(m - 1 + 1) : SubSeq(x, 1, m)[i] = x[1 + i - 1]
    BY <1>6, <1>7, SubSeqProperties
  <2>4. Len(SubSeq(x, 1, m)) = m
    BY <1>1, <2>2
  <2>5. ASSUME NEW i \in 1..m PROVE SubSeq(x, 1, m)[i] = s[i]
    <3>1. 1 + i - 1 = i /\ m - 1 + 1 = m
      BY <1>1
    <3> QED
      BY <1>2, <2>2, <3>1
  <2> DEFINE q == SubSeq(x, 1, m)
  <2> HIDE DEF q
  <2>6. q \in Seq(Cell) /\ Len(q) = Len(s) /\ \A i \in 1..Len(q) : q[i] = s[i]
    BY <2>2, <2>4, <2>5 DEF q, m
  <2>7. q = s
    BY <1>3, <2>6, SeqEqual
  <2> QED
    BY <2>7 DEF q
<1> QED
  BY <1>8, <1>9 DEF m, n, x

\* The header fields, without the fixed header before them.
Tails(fields) == SubSeq(AllFields(fields), 17, Len(AllFields(fields)))

LEMMA TailsFacts ==
  ASSUME NEW s \in Cells, Len(s) = 16, NEW fields \in Seq(HdrField)
  PROVE  /\ Tails(fields) \in Cells /\ Len(Tails(fields)) \in Nat
         /\ Len(AllFields(fields)) = 16 + Len(Tails(fields))
         /\ FieldsFrom(s, fields)[Len(fields)] = s \o Tails(fields)
<1> DEFINE z == Zeros(16)
           n == Len(fields)
           all == AllFields(fields)
           x == FieldsFrom(s, fields)[n]
<1>1. z \in Cells /\ Len(z) = 16 /\ n \in Nat
  <2>1. z \in Cells /\ Len(z) = 16
    BY ZerosFacts
  <2>2. n \in Nat
    OBVIOUS
  <2> QED
    BY <2>1, <2>2
<1>2. all = FieldsFrom(z, fields)[n]
  BY AllFacts
<1>3. n \in 0..Len(fields)
  BY <1>1
<1> HIDE DEF z
<1>4. Shifted(all, x, z, s)
  <2> DEFINE k == n
  <2>1. k \in 0..Len(fields)
    BY <1>3
  <2> HIDE DEF k
  <2>2. Shifted(FieldsFrom(z, fields)[k], FieldsFrom(s, fields)[k], z, s)
    BY <1>1, <2>1, FieldsShift
  <2> QED
    BY <1>2, <2>2 DEF k
<1> HIDE DEF all, x
<1>5. PICK h \in Cells : all = z \o h /\ x = s \o h
  BY <1>4 DEF Shifted
<1>6. Len(all) = Len(z) + Len(h) /\ Len(h) \in Nat
  BY <1>1, <1>5, Join, Zenon
<1>7. SubSeq(z \o h, Len(z) + 1, Len(z) + Len(h)) = h
  BY <1>1, Suffix, Zenon
<1>8. Len(z) + 1 = 17
  BY <1>1
<1>9. Tails(fields) = h
  <2>1. Tails(fields) = SubSeq(all, 17, Len(all))
    BY DEF Tails, all
  <2> QED
    BY <1>5, <1>6, <1>7, <1>8, <2>1, Zenon
<1>10. Len(all) = 16 + Len(h)
  BY <1>1, <1>6
<1> QED
  BY <1>5, <1>6, <1>9, <1>10 DEF all, x

\* A whole message, piece by piece.
LEMMA EncodeShape ==
  ASSUME NEW type \in Nat, NEW number \in Nat, NEW fields \in Seq(HdrField),
         NEW args \in Seq(Value)
  PROVE  LET body == AllValues(args)
             h == Tails(fields)
             start == FixedHeader(type, Len(body), number, Len(h))
         IN  /\ body \in Cells /\ Len(body) \in Nat
             /\ IsHeader(start, type, Len(body), Len(h))
             /\ start \o h \in Cells /\ Len(start \o h) = 16 + Len(h)
             /\ FieldsFrom(start, fields)[Len(fields)] = start \o h
             /\ Encode(type, number, fields, args)
                  = ((start \o h) \o Zeros(Padding(16 + Len(h), 8))) \o body
<1> DEFINE body == AllValues(args)
           h == Tails(fields)
           start == FixedHeader(type, Len(body), number, Len(h))
           all == AllFields(fields)
<1>1. body \in Cells
  BY AllFacts
<1>2. Len(body) \in Nat
  BY <1>1 DEF Cells
<1>3. h \in Cells /\ Len(h) \in Nat /\ Len(all) = 16 + Len(h)
  <2>1. Zeros(16) \in Cells /\ Len(Zeros(16)) = 16
    BY ZerosFacts
  <2> QED
    BY <2>1, TailsFacts
<1>4. IsHeader(start, type, Len(body), Len(h))
  <2> DEFINE m == Len(body)
             k == Len(h)
  <2> HIDE DEF m, k
  <2>1. IsHeader(FixedHeader(type, m, number, k), type, m, k)
    BY <1>2, <1>3, HeaderFacts DEF m, k
  <2> QED
    BY <2>1 DEF m, k
<1>5. Encode(type, number, fields, args) =
        ((FixedHeader(type, Len(body), number, Len(all) - 16) \o h) \o Zeros(Padding(Len(all), 8))) \o body
  BY DEF Encode, Tails
<1>6. Len(all) - 16 = Len(h)
  BY <1>3
<1>7. Encode(type, number, fields, args) = ((start \o h) \o Zeros(Padding(16 + Len(h), 8))) \o body
  <2> HIDE DEF body, h, all
  <2> QED
    BY <1>3, <1>5, <1>6
<1> HIDE DEF start
<1>8. start \in Cells /\ Len(start) = 16
  BY <1>4, Zenon DEF IsHeader
<1>9. FieldsFrom(start, fields)[Len(fields)] = start \o h
  BY <1>8, TailsFacts
<1>10. start \o h \in Cells /\ Len(start \o h) = Len(start) + Len(h)
  BY <1>3, <1>8, Join, Zenon
<1>11. Len(start \o h) = 16 + Len(h)
  BY <1>8, <1>10
<1> QED
  BY <1>1, <1>2, <1>4, <1>7, <1>9, <1>10, <1>11, Zenon DEF start

\* The arguments as the client writes them.
LEMMA WriteBody ==
  ASSUME NEW args \in Seq(Arg)
  PROVE  \E p \in Gaps(AllValues(args)) : Body(args) = Written(AllValues(args), p)
<1> DEFINE n == Len(args)
           v == ValuesFrom(args)
           P == [i \in 0..n |-> IF i = 0 THEN 0 ELSE Gap(args[i].type, v[i])]
           g == [i \in 0..n |-> Written(v[i], P[i])]
           Is(f) == f = [i \in 0..n |-> IF i = 0 THEN EmptyWb ELSE body_add_arg(f[i - 1], args[i])]
           a == CHOOSE f : Is(f)
<1>1. n \in Nat /\ args \in Seq(Value) /\ \A i \in 1..n : args[i] \in Arg
  <2>1. Arg \subseteq Value
    BY DEF Value
  <2> QED
    BY <2>1, SeqMonotonic
<1>2. /\ \A i \in 0..n : v[i] \in Cells
      /\ v[0] = <<>>
      /\ \A i \in 1..n : v[i] = TypedValue(v[i - 1], args[i].type, args[i].v)
  BY <1>1, ValuesFromFacts
<1>3. AllValues(args) = v[n]
  BY <1>1, AllFacts
<1> HIDE DEF n, v
<1>4. P[0] = 0 /\ \A i \in 1..n : P[i] = Gap(args[i].type, v[i])
  BY <1>1
<1> HIDE DEF P
<1>5. ASSUME NEW i \in 1..n, P[i - 1] \in Gaps(v[i - 1])
      PROVE  P[i] \in Gaps(v[i]) /\ body_add_arg(Written(v[i - 1], P[i - 1]), args[i]) = Written(v[i], P[i])
  <2> DEFINE b == v[i - 1]
             p == P[i - 1]
             x == args[i]
             w == v[i]
  <2>1. b \in Cells /\ p \in Gaps(b) /\ x \in Arg /\ w = TypedValue(b, x.type, x.v)
    BY <1>1, <1>2, <1>5
  <2>2. P[i] = Gap(x.type, w)
    BY <1>4
  <2> HIDE DEF b, p, x, w
  <2>3. Gap(x.type, w) \in Gaps(w) /\ body_add_arg(Written(b, p), x) = Written(w, Gap(x.type, w))
    BY <2>1, WriteArg
  <2> QED
    BY <2>2, <2>3 DEF b, p, x, w
<1>6. \A i \in 0..n : P[i] \in Gaps(v[i])
  <2> DEFINE T == {i \in 0..n : P[i] \in Gaps(v[i])}
  <2>1. 0 \in T
    BY <1>1, <1>4 DEF Gaps
  <2>2. \A i \in 1..n : i - 1 \in T => i \in T
    BY <1>1, <1>5
  <2> HIDE DEF T
  <2>3. \A i \in 0..n : i \in T
    BY <1>1, <2>1, <2>2, Loops!LoopInduction
  <2> QED
    BY <2>3 DEF T
<1>7. Written(v[0], P[0]) = EmptyWb
  <2>1. <<>> \in Cells /\ 0 \in Gaps(<<>>) /\ Len(<<>>) = 0
    BY EmptySeq DEF Gaps, Cells
  <2>2. Written(<<>>, 0) = [b |-> <<>>, nodepad |-> 0]
    BY <2>1, WrittenFacts
  <2> QED
    BY <1>2, <1>4, <2>2 DEF EmptyWb
<1>8. g[0] = EmptyWb /\ \A i \in 1..n : g[i] = body_add_arg(g[i - 1], args[i])
  <2>1. \A i \in 0..n : g[i] = Written(v[i], P[i])
    OBVIOUS
  <2> HIDE DEF g
  <2>2. ASSUME NEW i \in 1..n PROVE g[i] = body_add_arg(g[i - 1], args[i])
    <3>1. i \in 0..n /\ i - 1 \in 0..n
      BY <1>1
    <3>2. g[i] = Written(v[i], P[i]) /\ g[i - 1] = Written(v[i - 1], P[i - 1])
      BY <2>1, <3>1
    <3>3. P[i - 1] \in Gaps(v[i - 1])
      BY <1>6, <3>1
    <3> QED
      BY <1>5, <3>2, <3>3
  <2>3. g[0] = EmptyWb
    BY <1>1, <1>7, <2>1
  <2> QED
    BY <2>2, <2>3
<1>9. g = [i \in 0..n |-> g[i]]
  OBVIOUS
<1> HIDE DEF g
<1>10. \A i \in 0..n : i # 0 => i \in 1..n /\ i - 1 \in 0..n
  BY <1>1
<1>11. Is(g)
  BY <1>8, <1>9, <1>10
<1>12. Is(a)
  <2> HIDE DEF Is
  <2> QED
    BY <1>11
<1>13. Body(args) = a[n]
  BY DEF Body, n
<1> HIDE DEF a
<1>14. a[0] = EmptyWb /\ \A i \in 1..n : a[i] = body_add_arg(a[i - 1], args[i])
  BY <1>1, <1>10, <1>12
<1>15. \A i \in 0..n : a[i] = g[i]
  <2> DEFINE T == {i \in 0..n : a[i] = g[i]}
  <2>1. 0 \in T
    BY <1>1, <1>8, <1>14
  <2>2. \A i \in 1..n : i - 1 \in T => i \in T
    BY <1>1, <1>8, <1>14
  <2> HIDE DEF T
  <2>3. \A i \in 0..n : i \in T
    BY <1>1, <2>1, <2>2, Loops!LoopInduction
  <2> QED
    BY <2>3 DEF T
<1>16. a[n] = Written(v[n], P[n]) /\ P[n] \in Gaps(v[n])
  <2>1. n \in 0..n
    BY <1>1
  <2>2. g[n] = Written(v[n], P[n])
    BY <2>1 DEF g
  <2> QED
    BY <1>6, <1>15, <2>1, <2>2
<1> QED
  BY <1>3, <1>13, <1>16

-----------------------------------------------------------------------------
(* The requests that the tool makes.                                       *)
Call == [dest : Cells, path : Cells, iface : Cells, member : Cells, args : Seq(Arg)]

CallFields(r) ==
  << <<FieldPath, "o", r.path>>, <<FieldInterface, "s", r.iface>>,
     <<FieldMember, "s", r.member>>, <<FieldDestination, "s", r.dest>> >>
  \o IF r.args = <<>> THEN <<>> ELSE << <<FieldSignature, "g", Signature(r.args)>> >>

LEMMA SignatureFacts ==
  ASSUME NEW args \in Seq(Arg)
  PROVE  Signature(args) \in Cells
<1> DEFINE n == Len(args)
<1>1. n \in Nat /\ DOMAIN args = 1..n /\ \A i \in 1..n : args[i] \in Arg
  OBVIOUS
<1>2. \A x \in Arg : x.type \in {"s", "d", "u"}
  BY DEF Arg
<1>3. {"s", "d", "u"} \subseteq Cell
  BY DEF Cell
<1>4. \A i \in 1..n : args[i].type \in Cell
  BY <1>1, <1>2, <1>3
<1>5. Signature(args) = [i \in 1..n |-> args[i].type]
  BY <1>1 DEF Signature
<1> HIDE DEF n
<1> QED
  BY <1>1, <1>4, <1>5 DEF Cells

LEMMA CallFieldsFacts ==
  ASSUME NEW r \in Call
  PROVE  /\ CallFields(r) \in Seq(HdrField)
         /\ Len(CallFields(r)) = IF r.args = <<>> THEN 4 ELSE 5
         /\ CallFields(r)[1] = <<FieldPath, "o", r.path>>
         /\ CallFields(r)[2] = <<FieldInterface, "s", r.iface>>
         /\ CallFields(r)[3] = <<FieldMember, "s", r.member>>
         /\ CallFields(r)[4] = <<FieldDestination, "s", r.dest>>
         /\ r.args # <<>> => CallFields(r)[5] = <<FieldSignature, "g", Signature(r.args)>>
<1> DEFINE f == <<FieldPath, "o", r.path>>
           g == <<FieldInterface, "s", r.iface>>
           h == <<FieldMember, "s", r.member>>
           k == <<FieldDestination, "s", r.dest>>
           l == <<FieldSignature, "g", Signature(r.args)>>
           x == <<f, g, h, k>>
           y == <<l>>
<1>1. /\ r.path \in Cells /\ r.iface \in Cells /\ r.member \in Cells /\ r.dest \in Cells
      /\ Signature(r.args) \in Cells
  BY SignatureFacts DEF Call
<1>2. f \in HdrField
  BY <1>1 DEF HdrField, FieldPath
<1>3. g \in HdrField
  BY <1>1 DEF HdrField, FieldInterface
<1>4. h \in HdrField
  BY <1>1 DEF HdrField, FieldMember
<1>5. k \in HdrField
  BY <1>1 DEF HdrField, FieldDestination
<1>6. l \in HdrField
  BY <1>1 DEF HdrField, FieldSignature
<1>7. CallFields(r) = x \o IF r.args = <<>> THEN <<>> ELSE y
  BY DEF CallFields
<1> HIDE DEF f, g, h, k, l
<1>8. x \in Seq(HdrField) /\ Len(x) = 4 /\ x[1] = f /\ x[2] = g /\ x[3] = h /\ x[4] = k
  BY <1>2, <1>3, <1>4, <1>5
<1>9. y \in Seq(HdrField) /\ Len(y) = 1 /\ y[1] = l
  BY <1>6
<1> HIDE DEF x, y
<1>10. CASE r.args = <<>>
  <2>1. CallFields(r) = x
    BY <1>7, <1>8, <1>10, ConcatEmptySeq
  <2> QED
    BY <1>8, <1>10, <2>1 DEF f, g, h, k
<1>11. CASE r.args # <<>>
  <2>1. CallFields(r) = x \o y
    BY <1>7, <1>11
  <2>2. /\ x \o y \in Seq(HdrField) /\ Len(x \o y) = 5
        /\ (x \o y)[1] = x[1] /\ (x \o y)[2] = x[2] /\ (x \o y)[3] = x[3] /\ (x \o y)[4] = x[4]
        /\ (x \o y)[5] = y[1]
    <3>1. x \in Seq(HdrField) /\ y \in Seq(HdrField) /\ Len(x) = 4 /\ Len(y) = 1
      BY <1>8, <1>9
    <3>2. /\ x \o y \in Seq(HdrField) /\ Len(x \o y) = Len(x) + Len(y)
          /\ \A i \in 1..(Len(x) + Len(y)) :
               (x \o y)[i] = IF i <= Len(x) THEN x[i] ELSE y[i - Len(x)]
      BY <3>1, ConcatProperties, Zenon
    <3> QED
      BY <3>1, <3>2
  <2> QED
    BY <1>8, <1>9, <1>11, <2>1, <2>2 DEF f, g, h, k, l
<1> QED
  BY <1>10, <1>11

\* The header fields as the client writes them.
LEMMA WriteFields ==
  ASSUME NEW r \in Call, NEW start \in Cells
  PROVE  LET all == FieldsFrom(start, CallFields(r))[Len(CallFields(r))]
         IN  \E p \in Gaps(all) : HeaderFields(Written(start, 0), r) = Written(all, p)
<1> DEFINE fs == CallFields(r)
           x == FieldsFrom(start, fs)
           n == Len(fs)
           Is(w, i) == \E p \in Gaps(x[i]) : w = Written(x[i], p)
<1>1. /\ r.path \in Cells /\ r.iface \in Cells /\ r.member \in Cells /\ r.dest \in Cells
      /\ Signature(r.args) \in Cells
  BY SignatureFacts DEF Call
<1>2. fs \in Seq(HdrField)
  BY CallFieldsFacts
<1>3. n = IF r.args = <<>> THEN 4 ELSE 5
  BY CallFieldsFacts
<1>4. /\ \A i \in 0..n : x[i] \in Cells
      /\ x[0] = start
      /\ \A i \in 1..n : x[i] = Field(x[i - 1], fs[i])
  BY <1>2, FieldsFromFacts
<1>5. ASSUME NEW i \in 1..n, NEW w, Is(w, i - 1), NEW code \in Nat,
             NEW sig \in {"s", "o", "g"}, NEW s \in Cells, fs[i] = <<code, sig, s>>
      PROVE  Is(hdr_field(w, code, sig, s), i)
  <2> DEFINE b == x[i - 1]
             c == x[i]
  <2>1. i - 1 \in 0..n
    BY <1>3
  <2>2. b \in Cells /\ c = Field(b, <<code, sig, s>>)
    BY <1>4, <1>5, <2>1
  <2>3. PICK p \in Gaps(b) : w = Written(b, p)
    BY <1>5
  <2> HIDE DEF b, c
  <2>4. Gap(sig, c) \in Gaps(c) /\ hdr_field(w, code, sig, s) = Written(c, Gap(sig, c))
    BY <2>2, <2>3, WriteField
  <2> QED
    BY <2>4 DEF c
<1> DEFINE w0 == Written(start, 0)
           w1 == hdr_field(w0, FieldPath, "o", r.path)
           w2 == hdr_field(w1, FieldInterface, "s", r.iface)
           w3 == hdr_field(w2, FieldMember, "s", r.member)
           w4 == hdr_field(w3, FieldDestination, "s", r.dest)
           w5 == hdr_field(w4, FieldSignature, "g", Signature(r.args))
<1>6. HeaderFields(w0, r) = IF r.args = <<>> THEN w4 ELSE w5
  BY DEF HeaderFields
<1>7. Is(w0, 0)
  <2>1. 0 \in Gaps(start)
    BY DEF Gaps
  <2> QED
    BY <1>4, <2>1
<1>8. /\ FieldPath \in Nat /\ FieldInterface \in Nat /\ FieldMember \in Nat
      /\ FieldDestination \in Nat /\ FieldSignature \in Nat
  BY DEF FieldPath, FieldInterface, FieldMember, FieldDestination, FieldSignature
<1>9. 1 \in 1..n /\ 2 \in 1..n /\ 3 \in 1..n /\ 4 \in 1..n /\ (r.args # <<>> => 5 \in 1..n)
  BY <1>3
<1>10. /\ fs[1] = <<FieldPath, "o", r.path>>
       /\ fs[2] = <<FieldInterface, "s", r.iface>>
       /\ fs[3] = <<FieldMember, "s", r.member>>
       /\ fs[4] = <<FieldDestination, "s", r.dest>>
       /\ r.args # <<>> => fs[5] = <<FieldSignature, "g", Signature(r.args)>>
  BY CallFieldsFacts, Zenon
<1>20. 1 - 1 = 0 /\ 2 - 1 = 1 /\ 3 - 1 = 2 /\ 4 - 1 = 3 /\ 5 - 1 = 4
  OBVIOUS
<1> HIDE DEF fs, x, n, Is, w0
<1>11. Is(w1, 1)
  BY <1>1, <1>5, <1>7, <1>8, <1>9, <1>10, <1>20, Zenon
<1> HIDE DEF w1
<1>12. Is(w2, 2)
  BY <1>1, <1>5, <1>11, <1>8, <1>9, <1>10, <1>20, Zenon
<1> HIDE DEF w2
<1>13. Is(w3, 3)
  BY <1>1, <1>5, <1>12, <1>8, <1>9, <1>10, <1>20, Zenon
<1> HIDE DEF w3
<1>14. Is(w4, 4)
  BY <1>1, <1>5, <1>13, <1>8, <1>9, <1>10, <1>20, Zenon
<1> HIDE DEF w4
<1>15. r.args # <<>> => Is(w5, 5)
  BY <1>1, <1>5, <1>14, <1>8, <1>9, <1>10, <1>20, Zenon
<1> HIDE DEF w5
<1>16. Is(HeaderFields(w0, r), n)
  BY <1>3, <1>6, <1>14, <1>15
<1> QED
  BY <1>16 DEF Is, x, n, fs, w0

\* What the specification makes of a request.
LEMMA CallShape ==
  ASSUME NEW r \in Call, NEW number
  PROVE  EncodedCall(number, r) = Encode(MsgCall, number, CallFields(r), r.args)
  BY DEF EncodedCall, CallFields

\* Padding the header.
LEMMA PadEnd ==
  ASSUME NEW b \in Cells, NEW p \in Gaps(b)
  PROVE  wb_pad([b |-> b \o Zeros(p), nodepad |-> Len(b)], 8).b = b \o Zeros(Padding(Len(b), 8))
<1> DEFINE n == Len(b)
           x == b \o Zeros(p)
           q == Padding(n + p, 8)
           w == [b |-> x, nodepad |-> n]
<1>1. p \in Nat /\ Zeros(p) \in Cells /\ Len(x) = n + p
  BY WrittenFacts
<1>2. q \in Nat /\ p + q = Padding(n, 8)
  BY GapJoin
<1>3. wb_pad(w, 8).b = x \o Zeros(q)
  BY <1>1 DEF wb_pad
<1>4. Zeros(q) \in Cells
  BY <1>2, ZerosFacts
<1>5. Zeros(p) \o Zeros(q) = Zeros(p + q)
  <2> HIDE DEF q
  <2> QED
    BY <1>1, <1>2, ZerosJoin
<1> HIDE DEF q
<1>6. x \o Zeros(q) = b \o (Zeros(p) \o Zeros(q))
  <2> DEFINE y == Zeros(p)
             z == Zeros(q)
  <2> HIDE DEF y, z
  <2>1. (b \o y) \o z = b \o (y \o z)
    BY <1>1, <1>4, Regroup DEF y, z
  <2> QED
    BY <2>1 DEF y, z
<1> QED
  BY <1>2, <1>3, <1>5, <1>6

(* build_call makes the message that the specification prescribes, for any *)
(* strings and any number of arguments.                                    *)
THEOREM CallsAreWellFormed ==
  ASSUME NEW r \in Call, NEW number \in Nat
  PROVE  build_call(number, r) = EncodedCall(number, r)
<1> DEFINE body == AllValues(r.args)
           len == Len(body)
           fs == CallFields(r)
           h == Tails(fs)
           flen == Len(h)
           o == FixedHeader(MsgCall, len, number, 0)
           s == FixedHeader(MsgCall, len, number, flen)
           all == o \o h
           hdr == HeaderFields(wb_put(EmptyWb, o), r)
<1>1. r.args \in Seq(Arg) /\ r.args \in Seq(Value) /\ MsgCall \in Nat
  <2>1. Arg \subseteq Value
    BY DEF Value
  <2>2. r.args \in Seq(Arg)
    BY DEF Call
  <2> QED
    BY <2>1, <2>2, SeqMonotonic DEF MsgCall
<1>2. fs \in Seq(HdrField)
  BY CallFieldsFacts
<1>3. /\ body \in Cells /\ len \in Nat
      /\ EncodedCall(number, r) = ((s \o h) \o Zeros(Padding(16 + flen, 8))) \o body
      /\ s \o h \in Cells /\ Len(s \o h) = 16 + flen
  <2> HIDE DEF fs
  <2>1. EncodedCall(number, r) = Encode(MsgCall, number, fs, r.args)
    BY CallShape DEF fs
  <2> QED
    BY <1>1, <1>2, <2>1, EncodeShape, ZenonT(40)
<1>4. PICK p \in Gaps(body) : Body(r.args) = Written(body, p)
  BY <1>1, WriteBody
<1> HIDE DEF body, fs
<1>5. Body(r.args).nodepad = len /\ SubSeq(Body(r.args).b, 1, len) = body
  <2>1. Zeros(p) \in Cells
    BY <1>3, WrittenFacts
  <2>2. SubSeq(body \o Zeros(p), 1, Len(body)) = body
    BY <1>3, <2>1, Suffix
  <2> QED
    BY <1>4, <2>2 DEF Written
<1>6. IsHeader(o, MsgCall, len, 0)
  BY <1>1, <1>3, HeaderFacts
<1>7. o \in Cells /\ Len(o) = 16
  BY <1>6, Zenon DEF IsHeader
<1>8. build_call(number, r) =
        wb_pad([b |-> [hdr.b EXCEPT ![13] = hdr.nodepad - 16], nodepad |-> hdr.nodepad], 8).b \o body
  <2> DEFINE bd == Body(r.args)
  <2>1. bd.nodepad = len /\ SubSeq(bd.b, 1, bd.nodepad) = body
    BY <1>5
  <2>2. build_call(number, r) =
          LET hh == HeaderFields(wb_put(EmptyWb, FixedHeader(MsgCall, bd.nodepad, number, 0)), r)
          IN  wb_pad([b |-> [hh.b EXCEPT ![13] = hh.nodepad - 16], nodepad |-> hh.nodepad], 8).b
                \o SubSeq(bd.b, 1, bd.nodepad)
    BY DEF build_call
  <2> HIDE DEF bd
  <2> QED
    BY <2>1, <2>2, Zenon
<1>9. h \in Cells /\ flen \in Nat /\ FieldsFrom(o, fs)[Len(fs)] = all
  BY <1>2, <1>7, TailsFacts
<1> HIDE DEF h, o
<1>10. all \in Cells /\ Len(all) = 16 + flen
  <2>1. all \in Cells /\ Len(all) = Len(o) + Len(h)
    BY <1>7, <1>9, Join, Zenon
  <2> QED
    BY <1>7, <2>1
<1>11. wb_put(EmptyWb, o) = Written(o, 0)
  <2>1. 0 \in Gaps(o)
    BY DEF Gaps
  <2>2. Written(o, 0) = [b |-> o, nodepad |-> Len(o)]
    BY <1>7, <2>1, WrittenFacts
  <2>3. <<>> \o o = o /\ Len(<<>>) = 0
    BY <1>7, ConcatEmptySeq DEF Cells
  <2>4. 0 + Len(o) = Len(o)
    BY <1>7
  <2>5. wb_put(EmptyWb, o) = [b |-> <<>> \o o, nodepad |-> Len(<<>>) + Len(o)]
    BY DEF wb_put, EmptyWb
  <2> QED
    BY <2>2, <2>3, <2>4, <2>5
<1>12. PICK q \in Gaps(all) : hdr = Written(all, q)
  BY <1>7, <1>9, <1>11, WriteFields DEF fs
<1> HIDE DEF hdr
<1> DEFINE z == Zeros(q)
<1>13. z \in Cells /\ q \in Nat
  BY <1>10, <1>12, WrittenFacts
<1>14. hdr.b = all \o z /\ hdr.nodepad = 16 + flen
  BY <1>10, <1>12 DEF Written
<1>15. hdr.nodepad - 16 = flen
  BY <1>9, <1>14
<1> HIDE DEF z
<1>16. all \o z = o \o (h \o z) /\ (s \o h) \o z = s \o (h \o z) /\ h \o z \in Cells
  <2>1. IsHeader(s, MsgCall, len, flen)
    BY <1>1, <1>3, <1>9, HeaderFacts
  <2>2. s \in Cells
    BY <2>1, Zenon DEF IsHeader
  <2> HIDE DEF s
  <2>3. h \o z \in Cells
    BY <1>9, <1>13, Join
  <2>4. (o \o h) \o z = o \o (h \o z)
    BY <1>7, <1>9, <1>13, Regroup, Zenon
  <2>5. (s \o h) \o z = s \o (h \o z)
    BY <1>9, <1>13, <2>2, Regroup, Zenon
  <2> QED
    BY <2>3, <2>4, <2>5
<1>17. [hdr.b EXCEPT ![13] = hdr.nodepad - 16] = (s \o h) \o z
  <2> DEFINE t == h \o z
  <2>1. [o \o t EXCEPT ![13] = flen] = s \o t
    <3>1. t \in Cells /\ len \in Nat /\ flen \in Nat /\ MsgCall \in Nat
      BY <1>1, <1>3, <1>9, <1>16
    <3> HIDE DEF t, len, flen
    <3>2. [FixedHeader(MsgCall, len, number, 0) \o t EXCEPT ![13] = flen]
            = FixedHeader(MsgCall, len, number, flen) \o t
      BY <3>1, Patch, SMTT(30)
    <3> QED
      BY <3>2 DEF o
  <2>2. hdr.b = o \o t
    BY <1>14, <1>16
  <2> HIDE DEF t, s
  <2> QED
    BY <1>15, <1>16, <2>1, <2>2, Zenon DEF t
<1> DEFINE b == s \o h
<1>18. b \in Cells /\ Len(b) = 16 + flen
  BY <1>3
<1>19. q \in Gaps(b)
  BY <1>10, <1>12, <1>18 DEF Gaps
<1> HIDE DEF b
<1>20. wb_pad([b |-> b \o Zeros(q), nodepad |-> Len(b)], 8).b = b \o Zeros(Padding(Len(b), 8))
  BY <1>18, <1>19, PadEnd
<1>21. build_call(number, r) = (b \o Zeros(Padding(Len(b), 8))) \o body
  <2> DEFINE y == [hdr.b EXCEPT ![13] = hdr.nodepad - 16]
             k == hdr.nodepad
  <2>1. y = b \o Zeros(q) /\ k = Len(b)
    BY <1>14, <1>17, <1>18 DEF b, z
  <2>2. build_call(number, r) = wb_pad([b |-> y, nodepad |-> k], 8).b \o body
    BY <1>8
  <2> HIDE DEF y, k
  <2> QED
    BY <1>20, <2>1, <2>2, Zenon
<1> QED
  BY <1>3, <1>18, <1>21 DEF b

-----------------------------------------------------------------------------
(* The reader, at a place of a message.                                    *)

\* What stands between two parts of a message.
LEMMA Middle ==
  ASSUME NEW a \in Cells, NEW s \in Cells, NEW y \in Cells
  PROVE  /\ SubSeq(a \o (s \o y), Len(a) + 1, Len(a) + Len(s)) = s
         /\ \A i \in 1..Len(s) : (a \o (s \o y))[Len(a) + i] = s[i]
         /\ a \o (s \o y) \in Cells
         /\ Len(a \o (s \o y)) = Len(a) + Len(s) + Len(y)
<1> DEFINE c == a \o s
           m == Len(a)
           n == Len(s)
<1>1. c \in Cells /\ m \in Nat /\ n \in Nat /\ Len(c) = m + n
  BY Join
<1>2. a \o (s \o y) = c \o y
  BY Regroup
<1>3. SubSeq(c, m + 1, m + n) = s
  BY Suffix
<1>4. \A i \in 1..n : c[m + i] = s[i]
  BY Index
<1> HIDE DEF c
<1> DEFINE x == c \o y
<1>5. x \in Cells /\ Len(x) = Len(c) + Len(y) /\ Len(y) \in Nat
  BY <1>1, Join
<1>6. \A i \in 1..Len(c) : x[i] = c[i]
  BY <1>1, Index
<1>7. \A i \in 1..n : x[m + i] = s[i]
  <2> HIDE DEF m, n, x
  <2>1. \A i \in 1..n : m + i \in 1..Len(c)
    BY <1>1
  <2> QED
    BY <1>4, <1>6, <2>1
<1>8. SubSeq(x, m + 1, m + n) = s
  <2>1. CASE n = 0
    <3>1. m + n < m + 1 /\ m + n \in Int /\ m + 1 \in Int
      BY <1>1, <2>1
    <3>2. SubSeq(x, m + 1, m + n) = <<>> /\ SubSeq(c, m + 1, m + n) = <<>>
      <4> HIDE DEF x, m, n
      <4> DEFINE k == m + 1
                 l == m + n
      <4>1. k \in Int /\ l \in Int /\ l < k
        BY <3>1
      <4> HIDE DEF k, l
      <4>2. SubSeq(x, k, l) = <<>> /\ SubSeq(c, k, l) = <<>>
        BY <4>1, SubSeqEmpty
      <4> QED
        BY <4>2 DEF k, l
    <3> QED
      BY <1>3, <3>2
  <2>2. CASE n > 0
    <3> HIDE DEF m, n
    <3> DEFINE k == m + 1
               l == m + n
    <3>1. k \in 1..Len(c) /\ l \in 1..Len(c)
      BY <1>1, <2>2
    <3>2. c \in Seq(Cell) /\ y \in Seq(Cell)
      BY <1>1 DEF Cells
    <3> HIDE DEF k, l
    <3>3. SubSeq(c \o y, k, l) = SubSeq(c, k, l)
      BY <3>1, <3>2, SubSeqOfConcat1
    <3> QED
      BY <1>3, <3>3 DEF k, l, m, n
  <2> QED
    BY <1>1, <2>1, <2>2
<1>9. Len(x) = m + n + Len(y)
  BY <1>1, <1>5
<1> QED
  BY <1>2, <1>5, <1>7, <1>8, <1>9

LEMMA PartAt ==
  ASSUME NEW a \in Cells, NEW s \in Cells, NEW y \in Cells, Len(s) > 0
  PROVE  (a \o (s \o y))[Len(a) + 1] = s[1]
<1>1. 1 \in 1..Len(s)
  BY DEF Cells
<1> DEFINE x == a \o (s \o y)
<1>2. \A i \in 1..Len(s) : x[Len(a) + i] = s[i]
  BY Middle
<1> HIDE DEF x
<1>3. x[Len(a) + 1] = s[1]
  BY <1>1, <1>2
<1> QED
  BY <1>3 DEF x

\* A string is read back.
LEMMA ReadString ==
  ASSUME NEW a \in Cells, NEW s \in Cells, NEW y \in Cells,
         NEW end \in Nat, Len(a) + 5 + Len(s) <= end
  PROVE  rd_str(a \o (StrCells(s) \o y), Len(a), end) =
           [ok |-> TRUE, v |-> s, next |-> rd_pad(Len(a) + 5 + Len(s), end, 4)]
<1> DEFINE p == Len(a)
           n == Len(s)
           u == U32(n)
           z == <<0>>
           b == a \o u
           t == s \o z
           msg == a \o (StrCells(s) \o y)
<1>0. msg = a \o (StrCells(s) \o y)
  OBVIOUS
<1> HIDE DEF msg
<1>1. p \in Nat /\ n \in Nat
  BY DEF Cells
<1>2. z \in Cells /\ Len(z) = 1 /\ z[1] = 0
  BY NumberFacts
<1>3. u \in Cells /\ Len(u) = 4 /\ u[1] = n
  <2> HIDE DEF n
  <2> QED
    BY <1>1, NumberFacts, WordFacts
<1>4. StrCells(s) = (u \o s) \o z
  BY DEF StrCells
<1> HIDE DEF u, z
<1>5. s \o z \in Cells /\ (u \o s) \o z = u \o (s \o z)
  BY <1>2, <1>3, Join, Regroup
<1>6. b \in Cells /\ Len(b) = p + Len(u)
  BY <1>3, Join, Zenon
<1>20. t \in Cells /\ t \o y \in Cells
  BY <1>5, Join
<1>7. msg = b \o (s \o (z \o y))
  <2>1. msg = a \o ((u \o t) \o y)
    BY <1>0, <1>4, <1>5
  <2> HIDE DEF t
  <2>2. (u \o t) \o y = u \o (t \o y)
    BY <1>3, <1>20, Regroup, Zenon
  <2>3. a \o (u \o (t \o y)) = (a \o u) \o (t \o y)
    <3> DEFINE w == t \o y
    <3>1. w \in Cells
      BY <1>20 DEF t
    <3> HIDE DEF w
    <3>2. a \o (u \o w) = (a \o u) \o w
      <4>1. Same(a, u, w)
        BY <1>3, <3>1, Grouped
      <4> QED
        BY <4>1, Zenon DEF Same
    <3> QED
      BY <3>2 DEF w
  <2>4. (s \o z) \o y = s \o (z \o y)
    <3>1. Same(s, z, y)
      BY <1>2, Grouped
    <3> QED
      BY <3>1, Zenon DEF Same
  <2> QED
    BY <2>1, <2>2, <2>3, <2>4 DEF t
<1>8. msg = a \o (u \o (t \o y))
  <2> HIDE DEF t
  <2>1. (u \o t) \o y = u \o (t \o y)
    BY <1>3, <1>20, Regroup, Zenon
  <2>2. msg = a \o ((u \o t) \o y)
    BY <1>0, <1>4, <1>5 DEF t
  <2> QED
    BY <2>1, <2>2
<1>9. msg[p + 1] = n
  <2> DEFINE w == t \o y
  <2>1. w \in Cells /\ msg = a \o (u \o w) /\ Len(u) > 0 /\ u \in Cells
    BY <1>3, <1>8, <1>20
  <2> HIDE DEF w
  <2>2. (a \o (u \o w))[Len(a) + 1] = u[1]
    BY <2>1, PartAt
  <2> QED
    BY <1>3, <2>1, <2>2, Zenon
<1>10. SubSeq(msg, p + 5, p + 4 + n) = s
  <2> HIDE DEF b
  <2>1. SubSeq(b \o (s \o (z \o y)), Len(b) + 1, Len(b) + Len(s)) = s
    <3>1. z \o y \in Cells
      BY <1>2, Join
    <3> QED
      BY <1>6, <3>1, Middle, Zenon
  <2>2. Len(b) + 1 = p + 5 /\ Len(b) + Len(s) = p + 4 + n
    BY <1>1, <1>3, <1>6
  <2> QED
    BY <1>7, <2>1, <2>2
<1>11. msg[p + 5 + n] = 0
  <2> DEFINE d == b \o s
  <2>1. d \in Cells /\ Len(d) = Len(b) + Len(s)
    BY <1>6, Join, Zenon
  <2>2. msg = d \o (z \o y)
    <3>1. z \o y \in Cells
      BY <1>2, Join
    <3>2. (b \o s) \o (z \o y) = b \o (s \o (z \o y))
      <4> DEFINE w == z \o y
      <4> HIDE DEF b, w
      <4>1. (b \o s) \o w = b \o (s \o w)
        BY <1>6, <3>1, Regroup DEF w
      <4> QED
        BY <4>1 DEF w
    <3> QED
      BY <1>7, <3>2
  <2> HIDE DEF d
  <2>3. Len(z) > 0
    BY <1>2
  <2>4. (d \o (z \o y))[Len(d) + 1] = z[1]
    BY <1>2, <2>1, <2>3, PartAt
  <2>5. Len(d) + 1 = p + 5 + n
    BY <1>1, <1>3, <1>6, <2>1
  <2> QED
    BY <1>2, <2>2, <2>4, <2>5, Zenon
<1>12. ~(p + 4 > end \/ n > end - p - 5) /\ p + 4 + n + 1 = p + 5 + n /\ p + 5 + n = p + 5 + n
  BY <1>1
<1> HIDE DEF p, n
<1>13. At(msg, p) = n /\ At(msg, p + 4 + n) = 0
  BY <1>9, <1>11, <1>12 DEF At
<1>14. rd_str(msg, p, end) = [ok |-> TRUE, v |-> SubSeq(msg, p + 5, p + 4 + n),
                              next |-> rd_pad(p + 5 + n, end, 4)]
  BY <1>12, <1>13 DEF rd_str
<1> QED
  BY <1>10, <1>14 DEF p, n, msg

\* A number is read back.
LEMMA ReadNumber ==
  ASSUME NEW a \in Cells, NEW n \in Nat, NEW y \in Cells, NEW msg,
         msg = a \o (U32(n) \o y), NEW end \in Nat, Len(a) + 4 <= end
  PROVE  rd_u32(msg, Len(a), end) = [ok |-> TRUE, v |-> n, next |-> Len(a) + 4]
<1> DEFINE u == U32(n)
           p == Len(a)
<1>1. u \in Cells /\ Len(u) > 0 /\ u[1] = n /\ p \in Nat
  <2>1. u \in Cells /\ Len(u) = 4 /\ u[1] = n
    BY NumberFacts, WordFacts
  <2>2. p \in Nat
    BY DEF Cells
  <2> QED
    BY <2>1, <2>2
<1>2. msg = a \o (u \o y)
  OBVIOUS
<1> HIDE DEF u
<1>3. (a \o (u \o y))[Len(a) + 1] = u[1]
  BY <1>1, PartAt
<1>4. msg[p + 1] = n
  BY <1>1, <1>2, <1>3, Zenon
<1>5. ~(p + 4 > end)
  BY <1>1
<1> HIDE DEF p
<1>6. rd_u32(msg, p, end) = [ok |-> TRUE, v |-> n, next |-> p + 4]
  BY <1>4, <1>5 DEF rd_u32, At
<1> QED
  BY <1>6 DEF p

\* Where the value of a type that ends at e is left.
EndOf(t, e, fend) == IF t \in {"s", "o"} THEN rd_pad(e, fend, 4) ELSE e

\* The value of a header field is read back.
LEMMA ReadValue ==
  ASSUME NEW a \in Cells, NEW f \in HdrField, NEW y \in Cells, NEW fend \in Nat,
         Len(a) + Len(ValueCells(f[2], f[3])) <= fend, Padding(Len(a), 4) = 0
  PROVE  FieldValue(a \o (ValueCells(f[2], f[3]) \o y), f[2], Len(a), fend) =
           [ok |-> TRUE, v |-> f[3],
            next |-> EndOf(f[2], Len(a) + Len(ValueCells(f[2], f[3])), fend)]
<1> DEFINE p == Len(a)
           t == f[2]
           v == f[3]
           c == ValueCells(t, v)
           msg == a \o (c \o y)
<1>1. /\ t \in {"s", "o", "g", "u"} /\ c \in Cells /\ Len(c) \in Nat /\ Len(c) > 0
      /\ t \in {"s", "o", "g"} => v \in Cells
      /\ t = "u" => v \in Nat
  BY HdrFieldFacts
<1>2. p \in Nat /\ rd_pad(p, fend, 4) = p
  <2>1. p \in Nat
    BY DEF Cells
  <2>2. p + 0 < fend /\ p + 0 = p
    BY <1>1, <2>1
  <2> QED
    BY <2>1, <2>2 DEF rd_pad
<1>3. msg = a \o (c \o y) /\ p + Len(c) <= fend
  OBVIOUS
<1> HIDE DEF t, v, msg
<1>4. CASE t \in {"s", "o"}
  <2>1. c = StrCells(v) /\ v \in Cells
    BY <1>1, <1>4 DEF ValueCells
  <2>2. Len(c) = Len(v) + 5 /\ Len(v) \in Nat
    BY <2>1, StrFacts
  <2>3. p + 5 + Len(v) = p + Len(c)
    BY <1>2, <2>2
  <2>4. FieldValue(msg, t, p, fend) = rd_str(msg, p, fend)
    BY <1>2, <1>4 DEF FieldValue
  <2> HIDE DEF c
  <2>5. msg = a \o (StrCells(v) \o y) /\ Len(a) + 5 + Len(v) <= fend
    BY <1>3, <2>1, <2>3
  <2>6. rd_str(msg, Len(a), fend) = [ok |-> TRUE, v |-> v, next |-> rd_pad(Len(a) + 5 + Len(v), fend, 4)]
    <3>1. v \in Cells
      BY <2>1
    <3>2. rd_str(a \o (StrCells(v) \o y), Len(a), fend) =
            [ok |-> TRUE, v |-> v, next |-> rd_pad(Len(a) + 5 + Len(v), fend, 4)]
      BY <2>5, <3>1, ReadString
    <3> QED
      BY <2>5, <3>2, Zenon
  <2>7. EndOf(t, p + Len(c), fend) = rd_pad(p + Len(c), fend, 4)
    BY <1>4 DEF EndOf
  <2>8. FieldValue(msg, t, p, fend) = [ok |-> TRUE, v |-> v, next |-> EndOf(t, p + Len(c), fend)]
    <3> DEFINE e == p + Len(c)
    <3>1. Len(a) + 5 + Len(v) = e
      BY <2>3
    <3> HIDE DEF e
    <3>2. rd_str(msg, p, fend) = [ok |-> TRUE, v |-> v, next |-> rd_pad(e, fend, 4)]
      BY <2>6, <3>1, Zenon
    <3> QED
      BY <2>4, <2>7, <3>2, Zenon DEF e
  <2> QED
    BY <2>8 DEF c, t, v, msg
<1>5. CASE t = "u"
  <2>1. c = U32(v) /\ v \in Nat
    BY <1>1, <1>5 DEF ValueCells
  <2>2. Len(c) = 4
    BY <2>1, NumberFacts
  <2>3. FieldValue(msg, t, p, fend) = rd_u32(msg, p, fend)
    BY <1>2, <1>5 DEF FieldValue
  <2> HIDE DEF c
  <2>4. rd_u32(msg, Len(a), fend) = [ok |-> TRUE, v |-> v, next |-> Len(a) + 4]
    BY <1>3, <2>1, <2>2, ReadNumber, ZenonT(40)
  <2>5. EndOf(t, p + Len(c), fend) = p + 4
    BY <1>5, <2>2 DEF EndOf
  <2>6. FieldValue(msg, t, p, fend) = [ok |-> TRUE, v |-> v, next |-> EndOf(t, p + Len(c), fend)]
    BY <2>3, <2>4, <2>5, Zenon
  <2> QED
    BY <2>6 DEF c, t, v, msg
<1>6. CASE t = "g"
  <2> DEFINE n == Len(v)
             l == <<n>>
             z == <<0>>
             b == a \o l
  <2>1. v \in Cells /\ c = (l \o v) \o z
    BY <1>1, <1>6 DEF ValueCells
  <2>2. n \in Nat
    BY <2>1 DEF Cells
  <2>3. l \in Cells /\ Len(l) = 1 /\ l[1] = n /\ z \in Cells
    BY <2>2, NumberFacts
  <2>4. Len(c) = n + 2
    BY <2>1, StrFacts
  <2> HIDE DEF l, z, c
  <2> DEFINE w == z \o y
             x == v \o w
  <2>5. w \in Cells
    BY <2>3, Join
  <2>6. c \o y = l \o x
    <3>1. l \o v \in Cells
      BY <2>1, <2>3, Join
    <3>2. ((l \o v) \o z) \o y = (l \o v) \o (z \o y)
      BY <2>3, <3>1, Regroup, Zenon
    <3>4. l \in Cells /\ v \in Cells /\ w \in Cells
      BY <2>1, <2>3, <2>5
    <3> HIDE DEF w
    <3>3. (l \o v) \o w = l \o (v \o w)
      <4>1. Same(l, v, w)
        BY <3>4, Grouped
      <4> QED
        BY <4>1, Zenon DEF Same
    <3> QED
      BY <2>1, <3>2, <3>3 DEF w
  <2> HIDE DEF w
  <2>7. x \in Cells
    BY <2>1, <2>5, Join
  <2>8. msg = a \o (l \o x)
    BY <1>3, <2>6
  <2>9. msg[p + 1] = n
    <3>1. Len(l) > 0
      BY <2>3
    <3> HIDE DEF x
    <3>2. (a \o (l \o x))[Len(a) + 1] = l[1]
      BY <2>3, <2>7, <3>1, PartAt
    <3> QED
      BY <2>3, <2>8, <3>2, Zenon
  <2>10. b \in Cells /\ Len(b) = p + Len(l)
    BY <2>3, Join, Zenon
  <2>11. SubSeq(msg, p + 2, p + 1 + n) = v
    <3>1. (a \o l) \o x = a \o (l \o x)
      <4> HIDE DEF x
      <4>1. Same(a, l, x)
        BY <2>3, <2>7, Grouped
      <4> QED
        BY <4>1, Zenon DEF Same
    <3>2. msg = b \o (v \o w)
      BY <2>8, <3>1
    <3> HIDE DEF b
    <3>3. SubSeq(b \o (v \o w), Len(b) + 1, Len(b) + Len(v)) = v
      BY <2>1, <2>5, <2>10, Middle
    <3>4. Len(b) + 1 = p + 2 /\ Len(b) + Len(v) = p + 1 + n
      BY <1>2, <2>2, <2>3, <2>10
    <3> QED
      BY <3>2, <3>3, <3>4, Zenon
  <2>12. p + 1 <= fend /\ p + n + 2 <= fend /\ p + Len(c) = p + n + 2
    BY <1>2, <1>3, <2>2, <2>4
  <2>13. At(msg, p) = n
    BY <2>9 DEF At
  <2> HIDE DEF n, p
  <2>14. FieldValue(msg, t, p, fend) = [ok |-> TRUE, v |-> v, next |-> p + n + 2]
    BY <1>6, <2>11, <2>12, <2>13 DEF FieldValue
  <2>15. EndOf(t, p + Len(c), fend) = p + n + 2
    BY <1>6, <2>12 DEF EndOf
  <2>16. FieldValue(msg, t, p, fend) = [ok |-> TRUE, v |-> v, next |-> EndOf(t, p + Len(c), fend)]
    BY <2>14, <2>15, Zenon
  <2> QED
    BY <2>16 DEF c, t, v, p, msg
<1> QED
  BY <1>1, <1>4, <1>5, <1>6

\* The reader between two fields: where it is and what it has kept.
At16(fp, name, sig, number) ==
  [ok |-> TRUE, fp |-> fp, error_name |-> name, sig |-> sig, reply_serial |-> number]

Keep(f, code, v) == IF f[1] = code THEN f[3] ELSE v

LEMMA TakeFieldFacts ==
  ASSUME NEW f, NEW fp, NEW name, NEW sig, NEW number, NEW next, NEW x,
         x = [ok |-> TRUE, v |-> f[3], next |-> next]
  PROVE  TakeField(At16(fp, name, sig, number), f[1], x)
           = At16(next, Keep(f, FieldErrorName, name), Keep(f, FieldSignature, sig),
                  Keep(f, FieldReplySerial, number))
<1> DEFINE st == At16(fp, name, sig, number)
           c == f[1]
           v == f[3]
<1>1. x.ok = TRUE /\ x.next = next /\ x.v = v
  OBVIOUS
<1>2. st = [ok |-> TRUE, fp |-> fp, error_name |-> name, sig |-> sig, reply_serial |-> number]
  BY DEF At16
<1> HIDE DEF st, v, c
<1>3. CASE c = FieldErrorName
  <2>0. c # FieldSignature /\ c # FieldReplySerial
    BY <1>3 DEF FieldErrorName, FieldSignature, FieldReplySerial
  <2>1. TakeField(st, c, x) = [st EXCEPT !.fp = x.next, !.error_name = x.v]
    BY <1>1, <1>3, <2>0 DEF TakeField
  <2>4. TakeField(st, c, x) = [st EXCEPT !.fp = next, !.error_name = v]
    BY <1>1, <2>1, Zenon
  <2>2. TakeField(st, c, x) = At16(next, v, sig, number)
    BY <1>2, <2>4 DEF At16
  <2>3. /\ Keep(f, FieldErrorName, name) = v /\ Keep(f, FieldSignature, sig) = sig
        /\ Keep(f, FieldReplySerial, number) = number
    BY <1>3 DEF Keep, FieldErrorName, FieldSignature, FieldReplySerial, c, v
  <2> QED
    BY <2>2, <2>3 DEF st, c
<1>4. CASE c = FieldSignature
  <2>0. c # FieldErrorName /\ c # FieldReplySerial
    BY <1>4 DEF FieldErrorName, FieldSignature, FieldReplySerial
  <2>1. TakeField(st, c, x) = [st EXCEPT !.fp = x.next, !.sig = x.v]
    BY <1>1, <1>4, <2>0 DEF TakeField
  <2>4. TakeField(st, c, x) = [st EXCEPT !.fp = next, !.sig = v]
    BY <1>1, <2>1, Zenon
  <2>2. TakeField(st, c, x) = At16(next, name, v, number)
    BY <1>2, <2>4 DEF At16
  <2>3. /\ Keep(f, FieldErrorName, name) = name /\ Keep(f, FieldSignature, sig) = v
        /\ Keep(f, FieldReplySerial, number) = number
    BY <1>4 DEF Keep, FieldErrorName, FieldSignature, FieldReplySerial, c, v
  <2> QED
    BY <2>2, <2>3 DEF st, c
<1>5. CASE c = FieldReplySerial
  <2>0. c # FieldErrorName /\ c # FieldSignature
    BY <1>5 DEF FieldErrorName, FieldSignature, FieldReplySerial
  <2>1. TakeField(st, c, x) = [st EXCEPT !.fp = x.next, !.reply_serial = x.v]
    BY <1>1, <1>5, <2>0 DEF TakeField
  <2>4. TakeField(st, c, x) = [st EXCEPT !.fp = next, !.reply_serial = v]
    BY <1>1, <2>1, Zenon
  <2>2. TakeField(st, c, x) = At16(next, name, sig, v)
    BY <1>2, <2>4 DEF At16
  <2>3. /\ Keep(f, FieldErrorName, name) = name /\ Keep(f, FieldSignature, sig) = sig
        /\ Keep(f, FieldReplySerial, number) = v
    BY <1>5 DEF Keep, FieldErrorName, FieldSignature, FieldReplySerial, c, v
  <2> QED
    BY <2>2, <2>3 DEF st, c
<1>6. CASE c \notin {FieldErrorName, FieldSignature, FieldReplySerial}
  <2>1. TakeField(st, c, x) = [st EXCEPT !.fp = next]
    BY <1>1, <1>6 DEF TakeField
  <2>2. TakeField(st, c, x) = At16(next, name, sig, number)
    BY <1>1, <1>2, <2>1, ZenonT(40) DEF At16
  <2>3. /\ Keep(f, FieldErrorName, name) = name /\ Keep(f, FieldSignature, sig) = sig
        /\ Keep(f, FieldReplySerial, number) = number
    BY <1>6 DEF Keep, c
  <2> QED
    BY <2>2, <2>3 DEF st, c
<1> QED
  BY <1>3, <1>4, <1>5, <1>6

\* A header field is read back.
LEMMA ReadField ==
  ASSUME NEW b \in Cells, NEW f \in HdrField, NEW y \in Cells, NEW fend \in Nat,
         Len(Field(b, f)) <= fend,
         NEW fp \in {Len(b), rd_pad(Len(b), fend, 4)}, NEW name, NEW sig, NEW number
  PROVE  NextField(At16(fp, name, sig, number), Field(b, f) \o y, fend)
           = At16(EndOf(f[2], Len(Field(b, f)), fend),
                  Keep(f, FieldErrorName, name), Keep(f, FieldSignature, sig),
                  Keep(f, FieldReplySerial, number))
<1> DEFINE n == Len(b)
           q == Padding(n, 8)
           z == Zeros(q)
           lead == Lead(f[1], f[2])
           value == ValueCells(f[2], f[3])
           a == b \o z
           c == a \o lead
           p == n + q
           e == Len(Field(b, f))
           msg == Field(b, f) \o y
           st == At16(fp, name, sig, number)
<1>1. /\ f[1] \in Nat /\ f[2] \in {"s", "o", "g", "u"}
      /\ value \in Cells /\ Len(value) \in Nat /\ Len(value) > 0
  BY HdrFieldFacts
<1>2. lead \in Cells /\ Len(lead) = 4
  BY <1>1, LeadFacts
<1>3. n \in Nat
  BY DEF Cells
<1>4. q \in Nat /\ Padding(n, 4) \in Nat
  <2> HIDE DEF n
  <2> QED
    BY <1>3, PaddingRange
<1>5. z \in Cells /\ Len(z) = q
  <2> HIDE DEF q
  <2> QED
    BY <1>4, ZerosFacts
<1>6. /\ Field(b, f) = b \o (z \o (lead \o value)) /\ Field(b, f) \in Cells
      /\ e = p + 4 + Len(value)
  BY <1>1, FieldShape DEF FieldCells
<1> HIDE DEF z, lead, value, e, q
<1>7. a \in Cells /\ Len(a) = p
  <2>1. a \in Cells /\ Len(a) = Len(b) + Len(z)
    BY <1>5, Join, Zenon
  <2> QED
    BY <1>5, <2>1
<1>8. msg = a \o (lead \o (value \o y))
  <2> DEFINE x == lead \o value
             w == value \o y
  <2>1. x \in Cells /\ w \in Cells
    BY <1>1, <1>2, Join
  <2>2. (lead \o value) \o y = lead \o (value \o y)
    BY <1>1, <1>2, Regroup, Zenon
  <2> HIDE DEF x, w
  <2>3. b \o (z \o x) = (b \o z) \o x
    <3>1. Same(b, z, x)
      BY <1>5, <2>1, Grouped
    <3> QED
      BY <3>1, Zenon DEF Same
  <2> HIDE DEF a
  <2>4. (a \o x) \o y = a \o (x \o y)
    BY <1>7, <2>1, Regroup, Zenon
  <2> QED
    BY <1>6, <2>2, <2>3, <2>4 DEF a, x, w
<1>9. c \in Cells /\ Len(c) = p + 4
  <2> HIDE DEF a
  <2>1. c \in Cells /\ Len(c) = Len(a) + Len(lead)
    BY <1>2, <1>7, Join, Zenon
  <2> QED
    BY <1>2, <1>7, <2>1
<1>10. msg = c \o (value \o y)
  <2> DEFINE w == value \o y
  <2>1. w \in Cells
    BY <1>1, Join
  <2> HIDE DEF w, a
  <2>2. (a \o lead) \o w = a \o (lead \o w)
    <3>1. Same(a, lead, w)
      BY <1>2, <1>7, <2>1, Grouped
    <3> QED
      BY <3>1, Zenon DEF Same
  <2> QED
    BY <1>8, <2>2 DEF w
<1>11. Padding(p + 4, 4) = 0 /\ p + 4 \in Nat
  <2> HIDE DEF n
  <2>1. (n + q) % 8 = 0
    BY <1>3, PaddingFacts DEF q
  <2> QED
    BY <1>3, <1>4, <2>1 DEF Padding
<1>12. /\ msg[p + 1] = f[1] /\ msg[p + 2] = 1 /\ msg[p + 3] = f[2] /\ msg[p + 4] = 0
  <2> DEFINE w == value \o y
             x == a \o (lead \o w)
  <2>1. w \in Cells
    BY <1>1, Join
  <2> HIDE DEF w, a
  <2>2. \A i \in 1..Len(lead) : x[Len(a) + i] = lead[i]
    BY <1>2, <1>7, <2>1, Middle, ZenonT(40)
  <2>3. msg = x
    BY <1>8 DEF w
  <2> HIDE DEF x
  <2>4. x[p + 1] = lead[1] /\ x[p + 2] = lead[2] /\ x[p + 3] = lead[3] /\ x[p + 4] = lead[4]
    BY <1>2, <1>7, <2>2
  <2>5. lead[1] = f[1] /\ lead[2] = 1 /\ lead[3] = f[2] /\ lead[4] = 0
    <3> DEFINE code == f[1]
               t == f[2]
    <3>1. code \in Nat /\ t \in {"s", "o", "g", "u"}
      BY <1>1
    <3> HIDE DEF code, t
    <3>2. /\ Lead(code, t)[1] = code /\ Lead(code, t)[2] = 1
          /\ Lead(code, t)[3] = t /\ Lead(code, t)[4] = 0
      BY <3>1, LeadFacts, ZenonT(40)
    <3> QED
      BY <3>2, Zenon DEF lead, code, t
  <2> QED
    BY <2>3, <2>4, <2>5, Zenon
<1>13. rd_pad(fp, fend, 8) = p /\ fp < fend
  <2> HIDE DEF n
  <2>1. Padding(n, 4) <= q /\ p + 5 <= fend
    <3>1. Padding(n, 4) <= q
      BY <1>3, PaddingFacts DEF q
    <3>2. p + 4 + Len(value) <= fend
      BY <1>6 DEF e
    <3> QED
      BY <1>1, <1>3, <1>4, <3>1, <3>2
  <2>2. CASE fp = n
    <3>1. fp + Padding(fp, 8) = p
      BY <2>2 DEF q
    <3> QED
      BY <1>3, <1>4, <2>1, <2>2, <3>1 DEF rd_pad
  <2>3. CASE fp = rd_pad(n, fend, 4)
    <3>1. fp = n + Padding(n, 4)
      BY <1>3, <1>4, <2>1, <2>3 DEF rd_pad
    <3>2. Padding(n, 4) + Padding(n + Padding(n, 4), 8) = q
      BY <1>3, PaddingFacts DEF q
    <3>3. fp \in Nat
      BY <1>3, <1>4, <3>1
    <3>4. Padding(fp, 8) \in Nat
      BY <3>3, PaddingRange
    <3>5. fp + Padding(fp, 8) = p
      <4> DEFINE k == Padding(n, 4)
                 j == Padding(fp, 8)
      <4>1. k + j = q /\ k \in Nat /\ j \in Nat /\ fp = n + k
        BY <1>4, <3>1, <3>2, <3>4
      <4> HIDE DEF k, j
      <4>2. fp + j = n + q
        BY <1>3, <4>1
      <4> QED
        BY <4>2 DEF j
    <3> QED
      BY <1>3, <1>4, <2>1, <3>1, <3>5 DEF rd_pad
  <2> QED
    BY <2>2, <2>3 DEF n
<1>14. st.fp = fp /\ st.ok = TRUE
  BY DEF At16
<1> HIDE DEF msg, st, p, c
<1>15. NextField(st, msg, fend) = HeaderField(st, msg, p, fend)
  <2>1. ~(st.fp >= fend \/ ~st.ok)
    <3>1. fp \in Int
      <4>1. fp = Len(b) \/ fp = rd_pad(Len(b), fend, 4)
        OBVIOUS
      <4>2. rd_pad(n, fend, 4) \in Int
        <5> HIDE DEF n
        <5> QED
          BY <1>3, <1>4 DEF rd_pad
      <4> QED
        BY <1>3, <4>1, <4>2
    <3> QED
      BY <1>13, <1>14, <3>1
  <2> QED
    BY <1>13, <1>14, <2>1 DEF NextField
<1>16. /\ At(msg, p) = f[1] /\ At(msg, p + 1) = 1 /\ At(msg, p + 2) = f[2] /\ At(msg, p + 3) = 0
       /\ ~(p + 4 > fend)
  <2>1. p \in Nat /\ p + 4 <= fend
    BY <1>1, <1>3, <1>4, <1>6 DEF p, e
  <2>2. p + 1 + 1 = p + 2 /\ p + 2 + 1 = p + 3 /\ p + 3 + 1 = p + 4 /\ ~(p + 4 > fend)
    BY <2>1
  <2> QED
    BY <1>12, <2>2, Zenon DEF At
<1>17. HeaderField(st, msg, p, fend) = TakeField(st, f[1], FieldValue(msg, f[2], p + 4, fend))
  BY <1>16, Zenon DEF HeaderField
<1> DEFINE x == [ok |-> TRUE, v |-> f[3], next |-> EndOf(f[2], e, fend)]
<1>18. FieldValue(msg, f[2], p + 4, fend) = x
  <2>1. Padding(Len(c), 4) = 0 /\ Len(c) + Len(value) = e /\ e <= fend /\ Len(c) = p + 4
    BY <1>6, <1>9, <1>11 DEF e
  <2>2. FieldValue(c \o (value \o y), f[2], Len(c), fend) =
          [ok |-> TRUE, v |-> f[3], next |-> EndOf(f[2], Len(c) + Len(value), fend)]
    BY <1>9, <2>1, ReadValue DEF value
  <2> QED
    BY <1>10, <2>1, <2>2, Zenon
<1>19. TakeField(st, f[1], x) = At16(EndOf(f[2], e, fend),
                  Keep(f, FieldErrorName, name), Keep(f, FieldSignature, sig),
                  Keep(f, FieldReplySerial, number))
  BY TakeFieldFacts DEF st
<1> QED
  BY <1>15, <1>17, <1>18, <1>19, Zenon DEF msg, st, e

\* One message begins with another.
Begins(t, x) == \E y \in Cells : t = x \o y

LEMMA BeginsFacts ==
  ASSUME NEW t \in Cells, NEW x \in Cells, NEW c \in Cells
  PROVE  Begins(t, t) /\ (Begins(t, x) => Begins(t \o c, x))
<1>1. Begins(t, t)
  <2>1. <<>> \in Cells /\ t \o <<>> = t
    BY EmptySeq, ConcatEmptySeq DEF Cells
  <2> QED
    BY <2>1 DEF Begins
<1>2. ASSUME Begins(t, x) PROVE Begins(t \o c, x)
  <2>1. PICK y \in Cells : t = x \o y
    BY <1>2 DEF Begins
  <2>2. y \o c \in Cells
    BY Join, Zenon
  <2>3. (x \o y) \o c = x \o (y \o c)
    <3>1. Same(x, y, c)
      BY Grouped
    <3> QED
      BY <3>1, Zenon DEF Same
  <2> QED
    BY <2>1, <2>2, <2>3 DEF Begins
<1> QED
  BY <1>1, <1>2

\* What only grows begins with everything it has been.
LEMMA Growing ==
  ASSUME NEW n \in Nat, NEW x, \A i \in 0..n : x[i] \in Cells,
         \A j \in 1..n : Begins(x[j], x[j - 1])
  PROVE  \A i \in 0..n : Begins(x[n], x[i])
<1> DEFINE T == {j \in 0..n : \A i \in 0..j : Begins(x[j], x[i])}
<1>1. 0 \in T
  <2>1. 0 \in 0..n /\ \A i \in 0..0 : i = 0
    OBVIOUS
  <2>2. Begins(x[0], x[0])
    BY <2>1, BeginsFacts
  <2> QED
    BY <2>1, <2>2
<1>2. ASSUME NEW j \in 1..n, j - 1 \in T PROVE j \in T
  <2> DEFINE b == x[j - 1]
             t == x[j]
  <2>1. b \in Cells /\ t \in Cells /\ Begins(t, b) /\ j \in 0..n
    OBVIOUS
  <2>2. \A i \in 0..(j - 1) : Begins(b, x[i]) /\ x[i] \in Cells
    BY <1>2
  <2> HIDE DEF b, t
  <2>3. PICK c \in Cells : t = b \o c
    BY <2>1 DEF Begins
  <2>4. \A i \in 0..(j - 1) : Begins(t, x[i])
    BY <2>1, <2>2, <2>3, BeginsFacts
  <2>5. Begins(t, t)
    BY <2>1, BeginsFacts
  <2>6. \A i \in 0..j : i = j \/ i \in 0..(j - 1)
    OBVIOUS
  <2> QED
    BY <2>1, <2>4, <2>5, <2>6 DEF t
<1> HIDE DEF T
<1>3. \A i \in 0..n : i \in T
  BY <1>1, <1>2, Loops!LoopInduction
<1>4. n \in T
  BY <1>3
<1> QED
  BY <1>4 DEF T

\* A field starts at a multiple of 8 and takes more than 4 bytes.
LEMMA FieldRoom ==
  ASSUME NEW b \in Cells, NEW f \in HdrField, NEW i \in Nat, Len(b) > 8 * i
  PROVE  Len(Field(b, f)) > 8 * (i + 1)
<1> DEFINE n == Len(b)
           q == Padding(n, 8)
           m == Len(ValueCells(f[2], f[3]))
<1>1. n \in Nat /\ m \in Nat
  <2>1. n \in Nat
    BY DEF Cells
  <2> QED
    BY <2>1, HdrFieldFacts
<1>2. Len(Field(b, f)) = n + q + 4 + m
  BY FieldShape
<1> HIDE DEF n, m
<1>3. q \in Nat
  BY <1>1, PaddingRange
<1>4. (n + q) % 8 = 0
  BY <1>1, PaddingFacts
<1> HIDE DEF q
<1>5. n > 8 * i
  BY DEF n
<1>6. n + q >= 8 * i + 8
  BY <1>1, <1>3, <1>4, <1>5
<1> QED
  BY <1>1, <1>2, <1>3, <1>6

\* The message begins with the header up to any field.
LEMMA FieldsPrefix ==
  ASSUME NEW start \in Cells, Len(start) = 16, NEW fields \in Seq(HdrField)
  PROVE  LET x == FieldsFrom(start, fields)
         IN  \A i \in 0..Len(fields) : Begins(x[Len(fields)], x[i]) /\ Len(x[i]) > 8 * (i + 1)
<1> DEFINE n == Len(fields)
           x == FieldsFrom(start, fields)
<1>1. /\ n \in Nat /\ x[0] = start /\ \A i \in 0..n : x[i] \in Cells
      /\ \A j \in 1..n : fields[j] \in HdrField /\ x[j] = Field(x[j - 1], fields[j])
  BY FieldsFromFacts
<1> HIDE DEF x, n
<1>2. \A i \in 0..n : Len(x[i]) > 8 * (i + 1)
  <2> DEFINE T == {i \in 0..n : Len(x[i]) > 8 * (i + 1)}
  <2>1. 0 \in T
    <3>1. Len(x[0]) = 16 /\ 0 \in 0..n
      BY <1>1
    <3>2. Len(x[0]) > 8 * (0 + 1)
      BY <3>1
    <3> QED
      BY <3>1, <3>2
  <2>2. ASSUME NEW i \in 1..n, i - 1 \in T PROVE i \in T
    <3> DEFINE b == x[i - 1]
               f == fields[i]
    <3>1. b \in Cells /\ f \in HdrField /\ x[i] = Field(b, f) /\ i \in Nat /\ i \in 0..n
      BY <1>1
    <3>2. Len(b) > 8 * i
      BY <2>2
    <3> HIDE DEF b, f
    <3>3. Len(Field(b, f)) > 8 * (i + 1)
      BY <3>1, <3>2, FieldRoom
    <3> QED
      BY <3>1, <3>3
  <2> HIDE DEF T
  <2>3. \A i \in 0..n : i \in T
    BY <1>1, <2>1, <2>2, Loops!LoopInduction
  <2> QED
    BY <2>3 DEF T
<1>3. ASSUME NEW j \in 1..n PROVE Begins(x[j], x[j - 1])
  <2> DEFINE b == x[j - 1]
             f == fields[j]
  <2>1. b \in Cells /\ f \in HdrField /\ x[j] = Field(b, f)
    BY <1>1
  <2> HIDE DEF b, f
  <2> QED
    BY <2>1, FieldShape DEF Begins, b
<1>4. \A i \in 0..n : Begins(x[n], x[i])
  BY <1>1, <1>3, Growing
<1> QED
  BY <1>2, <1>4 DEF x, n

\* What the reader has kept of a code after i fields; a code occurs once.
Once(fields) == \A i, j \in 1..Len(fields) : fields[i][1] = fields[j][1] => i = j
Kept(fields, i, code, none) ==
  IF \E j \in 1..i : fields[j][1] = code
  THEN fields[CHOOSE j \in 1..i : fields[j][1] = code][3] ELSE none

LEMMA KeptFacts ==
  ASSUME NEW fields, Len(fields) \in Nat, Once(fields), NEW code, NEW none, NEW i \in 0..Len(fields)
  PROVE  /\ \A j \in 1..i : fields[j][1] = code => Kept(fields, i, code, none) = fields[j][3]
         /\ (\A j \in 1..i : fields[j][1] # code) => Kept(fields, i, code, none) = none
<1>1. ASSUME NEW j \in 1..i, fields[j][1] = code PROVE Kept(fields, i, code, none) = fields[j][3]
  <2> DEFINE k == CHOOSE l \in 1..i : fields[l][1] = code
  <2>1. k \in 1..i /\ fields[k][1] = code
    BY <1>1
  <2>2. Kept(fields, i, code, none) = fields[k][3]
    BY <1>1 DEF Kept
  <2> HIDE DEF k
  <2>3. k \in 1..Len(fields) /\ j \in 1..Len(fields)
    BY <2>1
  <2>4. k = j
    BY <1>1, <2>1, <2>3 DEF Once
  <2> QED
    BY <2>2, <2>4
<1>2. ASSUME \A j \in 1..i : fields[j][1] # code PROVE Kept(fields, i, code, none) = none
  BY <1>2 DEF Kept
<1> QED
  BY <1>1, <1>2

LEMMA KeptStep ==
  ASSUME NEW fields, Len(fields) \in Nat, Once(fields), NEW code, NEW none, NEW i \in 1..Len(fields)
  PROVE  Kept(fields, i, code, none) = Keep(fields[i], code, Kept(fields, i - 1, code, none))
<1> DEFINE K(j) == Kept(fields, j, code, none)
<1>1. i \in 0..Len(fields) /\ i - 1 \in 0..Len(fields) /\ i \in 1..i
  OBVIOUS
<1>2. /\ \A j \in 1..i : fields[j][1] = code => K(i) = fields[j][3]
      /\ (\A j \in 1..i : fields[j][1] # code) => K(i) = none
  BY <1>1, KeptFacts
<1>3. /\ \A j \in 1..(i - 1) : fields[j][1] = code => K(i - 1) = fields[j][3]
      /\ (\A j \in 1..(i - 1) : fields[j][1] # code) => K(i - 1) = none
  BY <1>1, KeptFacts
<1>4. \A j \in 1..i : j = i \/ j \in 1..(i - 1)
  OBVIOUS
<1>5. \A j \in 1..(i - 1) : j \in 1..i
  OBVIOUS
<1> HIDE DEF K
<1>6. K(i) = Keep(fields[i], code, K(i - 1))
  <2>1. CASE fields[i][1] = code
    BY <1>1, <1>2, <2>1 DEF Keep
  <2>2. CASE fields[i][1] # code
    <3>1. K(i) = K(i - 1)
      BY <1>2, <1>3, <1>4, <1>5, <2>2
    <3> QED
      BY <2>2, <3>1 DEF Keep
  <2> QED
    BY <2>1, <2>2
<1> QED
  BY <1>6 DEF K

\* The loop over the header fields keeps what they hold and ends where they end.
LEMMA ReadFields ==
  ASSUME NEW start \in Cells, Len(start) = 16, NEW fields \in Seq(HdrField), Once(fields),
         NEW y \in Cells
  PROVE  LET n == Len(fields)
             all == FieldsFrom(start, fields)[n]
         IN  parse_header_fields(all \o y, Len(all))
               = At16(Len(all), Kept(fields, n, FieldErrorName, <<>>),
                      Kept(fields, n, FieldSignature, <<>>), Kept(fields, n, FieldReplySerial, 0))
<1> DEFINE n == Len(fields)
           x == FieldsFrom(start, fields)
           all == x[n]
           fend == Len(all)
           msg == all \o y
           rounds == (fend - 16) \div 8 + 1
           FP(i) == IF i = 0 THEN 16 ELSE EndOf(fields[i][2], Len(x[i]), fend)
           K(i) == At16(FP(i), Kept(fields, i, FieldErrorName, <<>>),
                        Kept(fields, i, FieldSignature, <<>>), Kept(fields, i, FieldReplySerial, 0))
           g == [i \in 0..rounds |-> IF i <= n THEN K(i) ELSE K(n)]
           Is(f) == f = [i \in 0..rounds |-> IF i = 0 THEN NoFields ELSE NextField(f[i - 1], msg, fend)]
           a == CHOOSE f : Is(f)
<1>1. /\ n \in Nat /\ x[0] = start /\ \A i \in 0..n : x[i] \in Cells
      /\ \A j \in 1..n : fields[j] \in HdrField /\ x[j] = Field(x[j - 1], fields[j])
  BY FieldsFromFacts
<1>2. \A i \in 0..n : Begins(all, x[i]) /\ Len(x[i]) > 8 * (i + 1)
  BY FieldsPrefix
<1>3. parse_header_fields(msg, fend) = a[rounds]
  BY DEF parse_header_fields
<1> HIDE DEF n, x
<1>4. n \in 0..n /\ all \in Cells
  BY <1>1
<1>5. fend \in Nat /\ fend > 8 * (n + 1)
  <2>1. fend > 8 * (n + 1)
    BY <1>2, <1>4
  <2> HIDE DEF all
  <2>2. fend \in Nat
    BY <1>4 DEF Cells
  <2> QED
    BY <2>1, <2>2
<1>6. ASSUME NEW i \in 0..n
      PROVE  Len(x[i]) \in Nat /\ Len(x[i]) <= fend /\ \E z \in Cells : msg = x[i] \o z
  <2> DEFINE b == x[i]
  <2>1. b \in Cells /\ Begins(all, b)
    BY <1>1, <1>2
  <2> HIDE DEF b, all
  <2>2. PICK w \in Cells : all = b \o w
    BY <2>1 DEF Begins
  <2>3. Len(all) = Len(b) + Len(w) /\ Len(b) \in Nat /\ Len(w) \in Nat
    <3>1. Len(b) \in Nat /\ Len(w) \in Nat
      BY <2>1 DEF Cells
    <3>2. Len(b \o w) = Len(b) + Len(w)
      BY <2>1, Join, Zenon
    <3> QED
      BY <2>2, <3>1, <3>2, Zenon
  <2>4. w \o y \in Cells
    BY Join, Zenon
  <2>5. (b \o w) \o y = b \o (w \o y)
    <3>1. Same(b, w, y)
      BY <2>1, Grouped
    <3> QED
      BY <3>1, Zenon DEF Same
  <2>6. \E z \in Cells : msg = b \o z
    BY <2>2, <2>4, <2>5
  <2>7. Len(b) <= fend
    BY <2>3
  <2> QED
    BY <2>3, <2>6, <2>7 DEF b
<1> HIDE DEF all, fend, msg
<1>7. \A i \in 0..n : FP(i) \in {Len(x[i]), rd_pad(Len(x[i]), fend, 4)}
  <2>1. FP(0) = Len(x[0])
    BY <1>1
  <2>2. \A i \in 1..n : FP(i) \in {Len(x[i]), rd_pad(Len(x[i]), fend, 4)}
    BY <1>1 DEF EndOf
  <2>3. \A i \in 0..n : i = 0 \/ i \in 1..n
    BY <1>1
  <2> QED
    BY <2>1, <2>2, <2>3
<1>8. FP(n) = fend
  <2>1. Len(x[n]) = fend
    BY DEF fend, all
  <2>2. Padding(fend, 4) \in Nat
    BY <1>5, PaddingRange
  <2>3. rd_pad(fend, fend, 4) = fend
    BY <1>5, <2>2 DEF rd_pad
  <2> HIDE DEF FP
  <2> QED
    BY <1>4, <1>7, <2>1, <2>3
<1> HIDE DEF FP
<1>9. ASSUME NEW i \in 1..n
      PROVE  K(i) = NextField(K(i - 1), msg, fend)
  <2> DEFINE b == x[i - 1]
             f == fields[i]
             fp == FP(i - 1)
             k1 == Kept(fields, i - 1, FieldErrorName, <<>>)
             k2 == Kept(fields, i - 1, FieldSignature, <<>>)
             k3 == Kept(fields, i - 1, FieldReplySerial, 0)
  <2>1. i \in 0..n /\ i - 1 \in 0..n /\ i # 0
    BY <1>1
  <2>2. b \in Cells /\ f \in HdrField /\ x[i] = Field(b, f) /\ fp \in {Len(b), rd_pad(Len(b), fend, 4)}
    BY <1>1, <1>7, <2>1
  <2>3. Len(x[i]) <= fend
    BY <1>6, <2>1
  <2>4. PICK z \in Cells : msg = x[i] \o z
    BY <1>6, <2>1
  <2>5. /\ Kept(fields, i, FieldErrorName, <<>>) = Keep(f, FieldErrorName, k1)
        /\ Kept(fields, i, FieldSignature, <<>>) = Keep(f, FieldSignature, k2)
        /\ Kept(fields, i, FieldReplySerial, 0) = Keep(f, FieldReplySerial, k3)
    BY <1>1, KeptStep DEF n
  <2>6. FP(i) = EndOf(f[2], Len(x[i]), fend)
    BY <2>1 DEF FP
  <2>7. K(i - 1) = At16(fp, k1, k2, k3)
    OBVIOUS
  <2> HIDE DEF b, f, fp, k1, k2, k3
  <2>8. NextField(At16(fp, k1, k2, k3), Field(b, f) \o z, fend)
           = At16(EndOf(f[2], Len(Field(b, f)), fend),
                  Keep(f, FieldErrorName, k1), Keep(f, FieldSignature, k2),
                  Keep(f, FieldReplySerial, k3))
    BY <1>5, <2>2, <2>3, ReadField
  <2> QED
    BY <2>2, <2>4, <2>5, <2>6, <2>7, <2>8
<1>10. K(0) = NoFields
  <2>1. \A code, none : Kept(fields, 0, code, none) = none
    BY DEF Kept
  <2>2. FP(0) = 16
    BY DEF FP
  <2> QED
    BY <2>1, <2>2 DEF At16, NoFields
<1>11. K(n) = NextField(K(n), msg, fend)
  <2> DEFINE st == K(n)
  <2>1. st.fp = fend
    BY <1>8 DEF At16
  <2> HIDE DEF st
  <2>2. st = NextField(st, msg, fend)
    BY <1>5, <2>1 DEF NextField
  <2> QED
    BY <2>2 DEF st
<1>12. rounds \in Nat /\ n <= rounds
  BY <1>1, <1>5
<1> HIDE DEF K, rounds
<1>13. g[0] = NoFields /\ \A i \in 1..rounds : g[i] = NextField(g[i - 1], msg, fend)
  <2>1. \A i \in 0..rounds : g[i] = IF i <= n THEN K(i) ELSE K(n)
    OBVIOUS
  <2> HIDE DEF g
  <2>2. g[0] = NoFields
    BY <1>1, <1>10, <1>12, <2>1
  <2>3. ASSUME NEW i \in 1..rounds PROVE g[i] = NextField(g[i - 1], msg, fend)
    <3>1. i \in 0..rounds /\ i - 1 \in 0..rounds
      BY <1>12
    <3>2. CASE i <= n
      <4>1. i \in 1..n /\ i - 1 <= n
        BY <1>1, <1>12, <3>2
      <4> QED
        BY <1>9, <2>1, <3>1, <3>2, <4>1
    <3>3. CASE ~(i <= n)
      <4>1. g[i] = K(n)
        BY <2>1, <3>1, <3>3
      <4>2. i - 1 <= n => i - 1 = n
        BY <1>1, <1>12, <3>3
      <4>3. g[i - 1] = K(n)
        BY <2>1, <3>1, <4>2
      <4> QED
        BY <1>11, <4>1, <4>3
    <3> QED
      BY <3>2, <3>3
  <2> QED
    BY <2>2, <2>3
<1>14. g = [i \in 0..rounds |-> g[i]] /\ g[rounds] = K(n)
  <2>1. g = [i \in 0..rounds |-> g[i]]
    OBVIOUS
  <2>2. rounds <= n => rounds = n
    BY <1>1, <1>12
  <2>3. rounds \in 0..rounds
    BY <1>12
  <2>4. g[rounds] = IF rounds <= n THEN K(rounds) ELSE K(n)
    BY <2>3
  <2> HIDE DEF g
  <2> QED
    BY <2>1, <2>2, <2>4
<1> HIDE DEF g
<1>15. \A i \in 0..rounds : i # 0 => i \in 1..rounds /\ i - 1 \in 0..rounds
  BY <1>12
<1>16. Is(g)
  BY <1>13, <1>14, <1>15
<1>17. Is(a)
  <2> HIDE DEF Is
  <2> QED
    BY <1>16
<1> HIDE DEF a
<1>18. a[0] = NoFields /\ \A i \in 1..rounds : a[i] = NextField(a[i - 1], msg, fend)
  BY <1>12, <1>15, <1>17
<1>19. \A i \in 0..rounds : a[i] = g[i]
  <2> DEFINE T == {i \in 0..rounds : a[i] = g[i]}
  <2>1. 0 \in T
    BY <1>12, <1>13, <1>18
  <2>2. \A i \in 1..rounds : i - 1 \in T => i \in T
    BY <1>12, <1>13, <1>18
  <2> HIDE DEF T
  <2>3. \A i \in 0..rounds : i \in T
    BY <1>12, <2>1, <2>2, Loops!LoopInduction
  <2> QED
    BY <2>3 DEF T
<1>20. a[rounds] = K(n)
  BY <1>12, <1>14, <1>19
<1> QED
  BY <1>3, <1>8, <1>20 DEF K, msg, fend, all, x, n

\* Padding by 4 does not see what a multiple of 4 before it adds.
LEMMA PaddingShift ==
  ASSUME NEW m \in Nat, NEW n \in Nat, m % 4 = 0
  PROVE  Padding(m + n, 4) = Padding(n, 4)
  BY DEF Padding

\* The reader of an array between two strings.
InArray(strs, next) == [ok |-> TRUE, v |-> strs, next |-> next]

\* A string of an array is read back.
LEMMA ReadElement ==
  ASSUME NEW pre \in Cells, Len(pre) % 4 = 0, NEW b \in Cells, NEW s \in Cells, NEW y \in Cells,
         NEW end \in Nat, Len(pre) + Len(Place(b, 4, StrCells(s))) <= end, NEW v
  PROVE  NextString(InArray(v, rd_pad(Len(pre) + Len(b), end, 4)),
                    pre \o (Place(b, 4, StrCells(s)) \o y), end)
           = InArray(Append(v, s), rd_pad(Len(pre) + Len(Place(b, 4, StrCells(s))), end, 4))
<1> DEFINE p == Len(pre)
           n == Len(b)
           q == Padding(n, 4)
           z == Zeros(q)
           c == StrCells(s)
           w == Place(b, 4, c)
           msg == pre \o (w \o y)
           d == pre \o b
           a == d \o z
           st == InArray(v, rd_pad(p + n, end, 4))
<1>1. p \in Nat /\ n \in Nat /\ Len(s) \in Nat
  BY DEF Cells
<1>2. c \in Cells /\ Len(c) = Len(s) + 5
  BY StrFacts
<1>3. 4 \in {4, 8}
  OBVIOUS
<1> HIDE DEF c
<1>4. q \in Nat /\ z \in Cells /\ w \in Cells /\ Len(w) = n + q + Len(c) /\ w = b \o (z \o c)
  BY <1>2, <1>3, PlaceFacts
<1>5. Len(z) = q
  <2> HIDE DEF q
  <2> QED
    BY <1>4, ZerosFacts
<1>6. p + Len(w) <= end
  BY DEF w, c
<1>7. p % 4 = 0
  OBVIOUS
<1>8. Padding(p + n, 4) = q
  <2> HIDE DEF p, n
  <2> QED
    BY <1>1, <1>7, PaddingShift
<1> HIDE DEF w, z, q, n
<1>9. rd_pad(p + n, end, 4) = p + n + q /\ p + n + q < end
  <2> HIDE DEF p
  <2> QED
    BY <1>1, <1>2, <1>4, <1>6, <1>8 DEF rd_pad
<1>10. d \in Cells /\ Len(d) = p + n
  BY Join, Zenon DEF n
<1>11. a \in Cells /\ Len(a) = Len(d) + Len(z)
  <2> HIDE DEF d
  <2> QED
    BY <1>4, <1>10, Join, Zenon
<1>12. msg = a \o (c \o y)
  <2> DEFINE e == c \o y
             k == z \o c
             l == z \o e
  <2>0. z \in Cells /\ c \in Cells
    BY <1>2, <1>4
  <2>1. e \in Cells /\ k \in Cells
    BY <2>0, Join
  <2>2. Same(z, c, y)
    BY <2>0, Grouped
  <2> HIDE DEF k
  <2>3. (b \o k) \o y = b \o (k \o y)
    <3>1. Same(b, k, y)
      BY <2>1, Grouped
    <3> QED
      BY <3>1, Zenon DEF Same
  <2> HIDE DEF e
  <2>4. l \in Cells
    BY <1>4, <2>1, Join
  <2>5. w \o y = b \o l
    BY <1>4, <2>2, <2>3 DEF k, e, Same
  <2>8. d \in Cells
    BY <1>10
  <2>6. Same(d, z, e)
    <3> HIDE DEF d
    <3> QED
      BY <2>0, <2>8, <2>1, Grouped
  <2> HIDE DEF l
  <2>7. (pre \o b) \o l = pre \o (b \o l)
    <3>1. Same(pre, b, l)
      BY <2>4, Grouped
    <3> QED
      BY <3>1, Zenon DEF Same
  <2> QED
    BY <2>5, <2>6, <2>7 DEF l, e, Same
<1>13. Len(a) + 5 + Len(s) = p + Len(w) /\ Len(a) = p + n + q
  <2> HIDE DEF a, d, p
  <2> QED
    BY <1>1, <1>2, <1>4, <1>5, <1>10, <1>11
<1>14. rd_str(a \o (c \o y), Len(a), end) = [ok |-> TRUE, v |-> s, next |-> rd_pad(Len(a) + 5 + Len(s), end, 4)]
  <2>1. Len(a) + 5 + Len(s) <= end
    BY <1>6, <1>13
  <2>2. a \in Cells
    BY <1>11
  <2> HIDE DEF a, d
  <2>3. rd_str(a \o (StrCells(s) \o y), Len(a), end) =
          [ok |-> TRUE, v |-> s, next |-> rd_pad(Len(a) + 5 + Len(s), end, 4)]
    BY <2>1, <2>2, ReadString
  <2> QED
    BY <2>3 DEF c
<1> DEFINE r == rd_str(msg, p + n + q, end)
           e == rd_pad(p + Len(w), end, 4)
<1>15. r = [ok |-> TRUE, v |-> s, next |-> e]
  BY <1>12, <1>13, <1>14, Zenon
<1>16. st.next = p + n + q /\ st.ok = TRUE /\ st.v = v
  BY <1>9 DEF InArray
<1> HIDE DEF st, msg, p, e
<1>17. NextString(st, msg, end) = IF r.ok THEN [ok |-> TRUE, v |-> Append(st.v, r.v), next |-> r.next] ELSE Malformed
  <2>1. ~(st.next >= end \/ ~st.ok)
    BY <1>1, <1>4, <1>9, <1>16
  <2> QED
    BY <1>16, <2>1, Zenon DEF NextString
<1>18. r.ok = TRUE /\ r.v = s /\ r.next = e
  BY <1>15
<1> HIDE DEF r
<1>19. NextString(st, msg, end) = [ok |-> TRUE, v |-> Append(v, s), next |-> e]
  BY <1>16, <1>17, <1>18, Zenon
<1> QED
  BY <1>19 DEF InArray, st, msg, e, p, w, c, n

\* The first strings of a sequence.
First(strs, i) == [j \in 1..i |-> strs[j]]

LEMMA FirstFacts ==
  ASSUME NEW strs \in Seq(Cells)
  PROVE  /\ First(strs, 0) = <<>> /\ First(strs, Len(strs)) = strs
         /\ \A i \in 1..Len(strs) : First(strs, i) = Append(First(strs, i - 1), strs[i])
<1> DEFINE n == Len(strs)
<1>1. n \in Nat /\ \A j \in 1..n : strs[j] \in Cells
  OBVIOUS
<1>2. First(strs, 0) = <<>>
  BY DEF First
<1>3. First(strs, n) = strs
  BY DEF First
<1>4. ASSUME NEW i \in 1..n PROVE First(strs, i) = Append(First(strs, i - 1), strs[i])
  <2> DEFINE a == First(strs, i - 1)
             e == strs[i]
             b == First(strs, i)
  <2>1. \A j \in 1..(i - 1) : strs[j] \in Cells
    BY <1>1
  <2>2. \A j \in 1..i : strs[j] \in Cells
    BY <1>1
  <2>3. a \in Seq(Cells) /\ Len(a) = i - 1 /\ \A j \in 1..(i - 1) : a[j] = strs[j]
    BY <1>1, <2>1 DEF First
  <2>4. b \in Seq(Cells) /\ Len(b) = i /\ \A j \in 1..i : b[j] = strs[j]
    BY <1>1, <2>2 DEF First
  <2>5. e \in Cells
    BY <1>1
  <2> HIDE DEF a, b, e
  <2>6. /\ Append(a, e) \in Seq(Cells) /\ Len(Append(a, e)) = Len(a) + 1
        /\ \A j \in 1..Len(a) : Append(a, e)[j] = a[j]
        /\ Append(a, e)[Len(a) + 1] = e
    BY <2>3, <2>5, AppendProperties
  <2> DEFINE c == Append(a, e)
  <2> HIDE DEF c
  <2>7. c \in Seq(Cells) /\ Len(c) = i /\ c[i] = e /\ \A j \in 1..(i - 1) : c[j] = strs[j]
    <3>1. Len(a) + 1 = i
      BY <2>3
    <3> QED
      BY <2>3, <2>6, <3>1 DEF c
  <2>8. ASSUME NEW j \in 1..i PROVE b[j] = c[j]
    <3>1. j = i \/ j \in 1..(i - 1)
      OBVIOUS
    <3> QED
      BY <2>4, <2>7, <3>1 DEF e
  <2>9. b = c
    BY <2>4, <2>7, <2>8, SeqEqual
  <2> QED
    BY <2>9 DEF a, b, c, e
<1> QED
  BY <1>2, <1>3, <1>4

\* Every string of an array takes at least 5 bytes, and the array only grows.
LEMMA ArrayPrefix ==
  ASSUME NEW strs \in Seq(Cells)
  PROVE  LET x == ArrayFrom(strs)
         IN  \A i \in 0..Len(strs) : Begins(x[Len(strs)], x[i]) /\ Len(x[i]) >= 5 * i
<1> DEFINE n == Len(strs)
           x == ArrayFrom(strs)
<1>1. /\ n \in Nat /\ x[0] = <<>> /\ \A i \in 0..n : x[i] \in Cells
      /\ \A j \in 1..n : strs[j] \in Cells /\ x[j] = Place(x[j - 1], 4, StrCells(strs[j]))
  BY ArrayFromFacts
<1> HIDE DEF x, n
<1>2. ASSUME NEW j \in 1..n
      PROVE  Begins(x[j], x[j - 1]) /\ Len(x[j]) >= Len(x[j - 1]) + 5 /\ Len(x[j - 1]) \in Nat
  <2> DEFINE b == x[j - 1]
             c == StrCells(strs[j])
             q == Padding(Len(b), 4)
             w == Zeros(q) \o c
  <2>1. b \in Cells /\ x[j] = Place(b, 4, c) /\ strs[j] \in Cells
    BY <1>1
  <2> HIDE DEF b
  <2>2. c \in Cells /\ Len(c) = Len(strs[j]) + 5 /\ Len(strs[j]) \in Nat
    BY <2>1, StrFacts
  <2> HIDE DEF c
  <2>3. 4 \in {4, 8}
    OBVIOUS
  <2> DEFINE u == x[j]
  <2>4. q \in Nat /\ Zeros(q) \in Cells /\ Len(u) = Len(b) + q + Len(c) /\ u = b \o w
    <3> DEFINE k == Place(b, 4, c)
    <3>1. u = k /\ b \in Cells /\ c \in Cells
      BY <2>1, <2>2
    <3>2. q \in Nat /\ Zeros(q) \in Cells /\ Len(k) = Len(b) + q + Len(c) /\ k = b \o w
      BY <2>3, <3>1, PlaceFacts
    <3> HIDE DEF k, u, w, q
    <3> QED
      BY <3>1, <3>2
  <2> HIDE DEF u
  <2>5. Len(b) \in Nat
    BY <2>1 DEF Cells
  <2> HIDE DEF q
  <2>6. w \in Cells
    BY <2>2, <2>4, Join
  <2> HIDE DEF w
  <2>7. Len(u) >= Len(b) + 5
    <3> DEFINE k == Len(c)
               m == Len(strs[j])
               l == Len(b)
    <3>1. Len(u) = l + q + k /\ k = m + 5 /\ m \in Nat /\ l \in Nat /\ q \in Nat
      BY <2>2, <2>4, <2>5
    <3> HIDE DEF k, m, l
    <3>2. Len(u) >= l + 5
      BY <3>1
    <3> QED
      BY <3>2 DEF l
  <2> QED
    BY <2>4, <2>5, <2>6, <2>7 DEF Begins, b, u
<1>3. \A i \in 0..n : Begins(x[n], x[i])
  BY <1>1, <1>2, Growing
<1>4. \A i \in 0..n : Len(x[i]) >= 5 * i
  <2> DEFINE T == {i \in 0..n : Len(x[i]) >= 5 * i}
  <2>1. 0 \in T
    <3>1. Len(x[0]) = 0 /\ 0 \in 0..n
      BY <1>1
    <3>2. Len(x[0]) >= 5 * 0
      BY <3>1
    <3> QED
      BY <3>1, <3>2
  <2>2. ASSUME NEW i \in 1..n, i - 1 \in T PROVE i \in T
    <3>1. Len(x[i - 1]) >= 5 * (i - 1) /\ i \in 0..n
      BY <1>1, <2>2
    <3>2. x[i] \in Cells
      BY <1>1, <3>1
    <3>3. Len(x[i]) \in Nat
      BY <3>2 DEF Cells
    <3>4. Len(x[i]) >= Len(x[i - 1]) + 5 /\ Len(x[i - 1]) \in Nat
      BY <1>2
    <3>5. Len(x[i]) >= 5 * i
      BY <3>1, <3>3, <3>4
    <3> QED
      BY <3>1, <3>5
  <2> HIDE DEF T
  <2>3. \A i \in 0..n : i \in T
    BY <1>1, <2>1, <2>2, Loops!LoopInduction
  <2> QED
    BY <2>3 DEF T
<1> QED
  BY <1>3, <1>4 DEF x, n

\* An array of strings is read back.
LEMMA ReadArray ==
  ASSUME NEW pre \in Cells, Len(pre) % 4 = 0, NEW strs \in Seq(Cells), NEW y \in Cells
  PROVE  LET a == ArrayCells(strs)
             end == Len(pre) + Len(a)
         IN  ReadStrings(pre \o (a \o y), Len(pre), end) = InArray(strs, end)
<1> DEFINE n == Len(strs)
           x == ArrayFrom(strs)
           all == x[n]
           p == Len(pre)
           end == p + Len(all)
           msg == pre \o (all \o y)
           rounds == (end - p) \div 5
           N(i) == rd_pad(p + Len(x[i]), end, 4)
           K(i) == InArray(First(strs, i), N(i))
           g == [i \in 0..rounds |-> IF i <= n THEN K(i) ELSE K(n)]
           base == [ok |-> TRUE, v |-> <<>>, next |-> p]
           Is(f) == f = [i \in 0..rounds |-> IF i = 0 THEN base ELSE NextString(f[i - 1], msg, end)]
           a == CHOOSE f : Is(f)
<1>1. /\ n \in Nat /\ x[0] = <<>> /\ \A i \in 0..n : x[i] \in Cells
      /\ \A j \in 1..n : strs[j] \in Cells /\ x[j] = Place(x[j - 1], 4, StrCells(strs[j]))
  BY ArrayFromFacts
<1>2. \A i \in 0..n : Begins(all, x[i]) /\ Len(x[i]) >= 5 * i
  BY ArrayPrefix
<1>3. ReadStrings(msg, p, end) = a[rounds]
  BY DEF ReadStrings
<1>4. /\ First(strs, 0) = <<>> /\ First(strs, n) = strs
      /\ \A i \in 1..n : First(strs, i) = Append(First(strs, i - 1), strs[i])
  BY FirstFacts
<1>5. ArrayCells(strs) = all
  BY ArrayFacts
<1> HIDE DEF n, x
<1>6. n \in 0..n /\ all \in Cells
  BY <1>1
<1>7. p \in Nat /\ Len(all) \in Nat /\ end \in Nat /\ Len(all) >= 5 * n
  <2>1. Len(all) >= 5 * n
    BY <1>2, <1>6
  <2> HIDE DEF all
  <2>2. p \in Nat /\ Len(all) \in Nat
    BY <1>6 DEF Cells
  <2> QED
    BY <2>1, <2>2
<1>8. ASSUME NEW i \in 0..n
      PROVE  p + Len(x[i]) <= end /\ \E z \in Cells : msg = pre \o (x[i] \o z)
  <2> DEFINE b == x[i]
  <2>1. b \in Cells /\ Begins(all, b)
    BY <1>1, <1>2
  <2> HIDE DEF b, all
  <2>2. PICK w \in Cells : all = b \o w
    BY <2>1 DEF Begins
  <2>3. Len(all) = Len(b) + Len(w) /\ Len(b) \in Nat /\ Len(w) \in Nat
    <3>1. Len(b) \in Nat /\ Len(w) \in Nat
      BY <2>1 DEF Cells
    <3>2. Len(b \o w) = Len(b) + Len(w)
      BY <2>1, Join, Zenon
    <3> QED
      BY <2>2, <3>1, <3>2, Zenon
  <2>4. w \o y \in Cells
    BY Join, Zenon
  <2>5. Same(b, w, y)
    BY <2>1, Grouped
  <2>6. \E z \in Cells : msg = pre \o (b \o z)
    BY <2>2, <2>4, <2>5 DEF Same
  <2> HIDE DEF p
  <2>7. p + Len(b) <= end
    BY <1>7, <2>3
  <2> QED
    BY <2>6, <2>7 DEF b
<1>9. p % 4 = 0
  OBVIOUS
<1> HIDE DEF all, msg
<1>10. N(n) = end
  <2>1. p + Len(x[n]) = end
    BY DEF all
  <2> HIDE DEF end
  <2>2. Padding(end, 4) \in Nat
    BY <1>7, PaddingRange
  <2> QED
    BY <1>7, <2>1, <2>2 DEF rd_pad
<1>11. K(0) = base
  <2>1. p + Len(x[0]) = p
    BY <1>1, <1>7
  <2>2. p <= end
    BY <1>7
  <2>3. Padding(p, 4) = 0
    <3> HIDE DEF p
    <3> QED
      BY <1>7, <1>9, PaddingFacts
  <2> HIDE DEF end, p
  <2>4. N(0) = p
    BY <1>7, <2>1, <2>2, <2>3 DEF rd_pad
  <2> HIDE DEF N
  <2> QED
    BY <1>4, <2>4 DEF InArray
<1> HIDE DEF end
<1>12. ASSUME NEW i \in 1..n
       PROVE  K(i) = NextString(K(i - 1), msg, end)
  <2> DEFINE b == x[i - 1]
             s == strs[i]
             v == First(strs, i - 1)
             w == Place(b, 4, StrCells(s))
  <2>1. i \in 0..n /\ i - 1 \in 0..n
    BY <1>1
  <2>2. b \in Cells /\ s \in Cells /\ x[i] = w /\ First(strs, i) = Append(v, s)
    BY <1>1, <1>4, <2>1
  <2>3. p + Len(x[i]) <= end
    BY <1>8, <2>1
  <2>4. PICK z \in Cells : msg = pre \o (x[i] \o z)
    BY <1>8, <2>1
  <2>5. p + Len(w) <= end
    BY <2>2, <2>3
  <2> HIDE DEF b, s, v
  <2>6. NextString(InArray(v, rd_pad(p + Len(b), end, 4)), pre \o (w \o z), end)
          = InArray(Append(v, s), rd_pad(p + Len(w), end, 4))
    BY <1>7, <2>2, <2>5, ReadElement
  <2> HIDE DEF w
  <2>7. K(i - 1) = InArray(v, rd_pad(p + Len(b), end, 4))
    BY DEF v, b
  <2> QED
    BY <2>2, <2>4, <2>6, <2>7
<1>13. K(n) = NextString(K(n), msg, end)
  <2> DEFINE st == K(n)
  <2>1. st.next = end
    BY <1>10 DEF InArray
  <2> HIDE DEF st
  <2>2. st = NextString(st, msg, end)
    BY <1>7, <2>1 DEF NextString
  <2> QED
    BY <2>2 DEF st
<1>14. rounds \in Nat /\ n <= rounds
  <2>1. end - p = Len(all)
    BY <1>7 DEF end
  <2> QED
    BY <1>1, <1>7, <2>1
<1> HIDE DEF K, rounds, base
<1>15. g[0] = base /\ \A i \in 1..rounds : g[i] = NextString(g[i - 1], msg, end)
  <2>1. \A i \in 0..rounds : g[i] = IF i <= n THEN K(i) ELSE K(n)
    OBVIOUS
  <2> HIDE DEF g
  <2>2. g[0] = base
    BY <1>1, <1>11, <1>14, <2>1
  <2>3. ASSUME NEW i \in 1..rounds PROVE g[i] = NextString(g[i - 1], msg, end)
    <3>1. i \in 0..rounds /\ i - 1 \in 0..rounds
      BY <1>14
    <3>2. CASE i <= n
      <4>1. i \in 1..n /\ i - 1 <= n
        BY <1>1, <1>14, <3>2
      <4> QED
        BY <1>12, <2>1, <3>1, <3>2, <4>1
    <3>3. CASE ~(i <= n)
      <4>1. g[i] = K(n)
        BY <2>1, <3>1, <3>3
      <4>2. i - 1 <= n => i - 1 = n
        BY <1>1, <1>14, <3>3
      <4>3. g[i - 1] = K(n)
        BY <2>1, <3>1, <4>2
      <4> QED
        BY <1>13, <4>1, <4>3
    <3> QED
      BY <3>2, <3>3
  <2> QED
    BY <2>2, <2>3
<1>16. g = [i \in 0..rounds |-> g[i]] /\ g[rounds] = K(n)
  <2>1. g = [i \in 0..rounds |-> g[i]]
    OBVIOUS
  <2>2. rounds <= n => rounds = n
    BY <1>1, <1>14
  <2>3. rounds \in 0..rounds
    BY <1>14
  <2>4. g[rounds] = IF rounds <= n THEN K(rounds) ELSE K(n)
    BY <2>3
  <2> HIDE DEF g
  <2> QED
    BY <2>1, <2>2, <2>4
<1> HIDE DEF g
<1>17. \A i \in 0..rounds : i # 0 => i \in 1..rounds /\ i - 1 \in 0..rounds
  BY <1>14
<1>18. Is(g)
  BY <1>15, <1>16, <1>17
<1>19. Is(a)
  <2> HIDE DEF Is
  <2> QED
    BY <1>18
<1> HIDE DEF a
<1>20. a[0] = base /\ \A i \in 1..rounds : a[i] = NextString(a[i - 1], msg, end)
  BY <1>14, <1>17, <1>19
<1>21. \A i \in 0..rounds : a[i] = g[i]
  <2> DEFINE T == {i \in 0..rounds : a[i] = g[i]}
  <2>1. 0 \in T
    BY <1>14, <1>15, <1>20
  <2>2. \A i \in 1..rounds : i - 1 \in T => i \in T
    BY <1>14, <1>15, <1>20
  <2> HIDE DEF T
  <2>3. \A i \in 0..rounds : i \in T
    BY <1>14, <2>1, <2>2, Loops!LoopInduction
  <2> QED
    BY <2>3 DEF T
<1>22. a[rounds] = K(n)
  BY <1>14, <1>16, <1>21
<1>23. K(n) = InArray(strs, end)
  BY <1>4, <1>10 DEF K
<1>24. ReadStrings(msg, p, end) = InArray(strs, end)
  BY <1>3, <1>22, <1>23
<1> QED
  BY <1>5, <1>24 DEF msg, end

\* The bodies a reply may have.
VariantLead == <<1, "s", 0>> \o Zeros(1)

LEMMA VariantLeadFacts ==
  /\ VariantLead \in Cells /\ Len(VariantLead) = 4
  /\ VariantLead[1] = 1 /\ VariantLead[2] = "s"
<1> DEFINE m == <<1, "s", 0>>
           z == Zeros(1)
<1>1. m \in Cells
  <2>1. 1 \in Cell /\ "s" \in Cell /\ 0 \in Cell
    BY DEF Cell
  <2> QED
    BY <2>1 DEF Cells
<1>2. Len(m) = 3
  OBVIOUS
<1>3. m[1] = 1
  BY Zenon
<1>4. m[2] = "s"
  BY Zenon
<1>5. z \in Cells /\ Len(z) = 1
  BY ZerosFacts
<1> HIDE DEF m, z
<1>6. m \o z \in Cells /\ Len(m \o z) = Len(m) + Len(z)
  BY <1>1, <1>5, Join, Zenon
<1>7. \A i \in 1..Len(m) : (m \o z)[i] = m[i]
  BY <1>1, <1>5, Index
<1>8. 1 \in 1..Len(m) /\ 2 \in 1..Len(m) /\ Len(m) + Len(z) = 4
  BY <1>2, <1>5
<1>9. (m \o z)[1] = 1
  BY <1>3, <1>7, <1>8, Zenon
<1>10. (m \o z)[2] = "s"
  BY <1>4, <1>7, <1>8, Zenon
<1> QED
  BY <1>6, <1>8, <1>9, <1>10, Zenon DEF VariantLead, m, z

LEMMA OneValue ==
  ASSUME NEW a \in Value
  PROVE  AllValues(<<a>>) = TypedValue(<<>>, a.type, a.v)
<1> DEFINE args == <<a>>
           x == ValuesFrom(args)
<1>1. args \in Seq(Value) /\ Len(args) = 1 /\ args[1] = a
  OBVIOUS
<1> HIDE DEF args
<1>2. x[0] = <<>> /\ \A i \in 1..Len(args) : x[i] = TypedValue(x[i - 1], args[i].type, args[i].v)
  BY <1>1, ValuesFromFacts
<1>3. AllValues(args) = x[Len(args)]
  BY <1>1, AllFacts
<1> HIDE DEF x
<1>4. 1 \in 1..Len(args) /\ 1 - 1 = 0
  BY <1>1
<1>5. x[1] = TypedValue(x[1 - 1], args[1].type, args[1].v)
  BY <1>2, <1>4
<1> QED
  BY <1>1, <1>2, <1>3, <1>4, <1>5 DEF args

LEMMA NoValue == AllValues(<<>>) = <<>>
<1>1. <<>> \in Seq(Value) /\ Len(<<>>) = 0
  OBVIOUS
<1>2. ValuesFrom(<<>>)[0] = <<>>
  BY <1>1, ValuesFromFacts
<1> QED
  BY <1>1, <1>2, AllFacts

LEMMA StringBody ==
  ASSUME NEW s \in Cells
  PROVE  AllValues(<<[type |-> "s", v |-> s]>>) = StrCells(s)
<1> DEFINE a == [type |-> "s", v |-> s]
           c == StrCells(s)
<1>1. a \in Value /\ a.type = "s" /\ a.v = s
  BY DEF Value, Arg
<1> HIDE DEF a
<1>2. AllValues(<<a>>) = TypedValue(<<>>, "s", s)
  BY <1>1, OneValue
<1>3. TypedValue(<<>>, "s", s) = Place(<<>>, 4, StrCells(s))
  BY DEF TypedValue
<1>4. c \in Cells
  BY StrFacts
<1> HIDE DEF c
<1>5. <<>> \in Cells /\ Padding(Len(<<>>), 4) = 0 /\ 4 \in {4, 8}
  BY EmptySeq DEF Cells, Padding
<1>6. Place(<<>>, 4, c) = <<>> \o c
  BY <1>4, <1>5, PlaceAligned
<1>7. <<>> \o c = c
  BY <1>4, ConcatEmptySeq DEF Cells
<1> QED
  BY <1>2, <1>3, <1>6, <1>7 DEF a, c

LEMMA VariantBody ==
  ASSUME NEW s \in Cells
  PROVE  AllValues(<<[type |-> "v", v |-> s]>>) = VariantLead \o StrCells(s)
<1> DEFINE a == [type |-> "v", v |-> s]
           c == StrCells(s)
           m == <<1, "s", 0>>
           z == Zeros(1)
<1>1. a \in Value /\ a.type = "v" /\ a.v = s
  BY DEF Value
<1> HIDE DEF a
<1>2. AllValues(<<a>>) = TypedValue(<<>>, "v", s)
  BY <1>1, OneValue
<1>3. TypedValue(<<>>, "v", s) = Place(<<>> \o m, 4, c)
  BY DEF TypedValue
<1>4. c \in Cells
  BY StrFacts
<1> HIDE DEF c
<1>5. m \in Cells
  <2>1. 1 \in Cell /\ "s" \in Cell /\ 0 \in Cell
    BY DEF Cell
  <2> QED
    BY <2>1 DEF Cells
<1>6. Len(m) = 3
  OBVIOUS
<1>7. VariantLead = m \o z
  BY DEF VariantLead
<1> HIDE DEF m
<1>8. <<>> \o m = m
  BY <1>5, ConcatEmptySeq DEF Cells
<1>9. Padding(Len(m), 4) = 1
  BY <1>6 DEF Padding
<1>10. Place(m, 4, c) = (m \o z) \o c
  BY <1>9 DEF Place
<1> QED
  BY <1>2, <1>3, <1>7, <1>8, <1>10 DEF a, c

LEMMA ArrayBody ==
  ASSUME NEW strs \in Seq(Cells)
  PROVE  AllValues(<<[type |-> "as", v |-> strs]>>) = U32(Len(ArrayCells(strs))) \o ArrayCells(strs)
<1> DEFINE a == [type |-> "as", v |-> strs]
           c == ArrayCells(strs)
           u == U32(Len(c))
           w == u \o c
<1>1. a \in Value /\ a.type = "as" /\ a.v = strs
  BY DEF Value
<1> HIDE DEF a
<1>2. AllValues(<<a>>) = TypedValue(<<>>, "as", strs)
  BY <1>1, OneValue
<1>3. TypedValue(<<>>, "as", strs) = Place(<<>>, 4, w)
  BY DEF TypedValue
<1>4. c \in Cells
  BY ArrayFacts
<1> HIDE DEF c
<1>5. Len(c) \in Nat
  BY <1>4 DEF Cells
<1>6. u \in Cells
  BY <1>5, NumberFacts
<1> HIDE DEF u
<1>7. w \in Cells
  BY <1>4, <1>6, Join
<1> HIDE DEF w
<1>8. <<>> \in Cells /\ Padding(Len(<<>>), 4) = 0 /\ 4 \in {4, 8}
  BY EmptySeq DEF Cells, Padding
<1>9. Place(<<>>, 4, w) = <<>> \o w
  BY <1>7, <1>8, PlaceAligned
<1>10. <<>> \o w = w
  BY <1>7, ConcatEmptySeq DEF Cells
<1> QED
  BY <1>2, <1>3, <1>9, <1>10 DEF a, c, u, w

\* A reader that has reached the end stays there.
LEMMA PadAtEnd ==
  ASSUME NEW e \in Nat
  PROVE  rd_pad(e, e, 4) = e
<1>1. Padding(e, 4) \in Nat
  BY PaddingRange
<1> QED
  BY <1>1 DEF rd_pad

\* A string that ends the message is read back.
LEMMA ReadLast ==
  ASSUME NEW a \in Cells, NEW s \in Cells
  PROVE  rd_str(a \o StrCells(s), Len(a), Len(a \o StrCells(s)))
           = [ok |-> TRUE, v |-> s, next |-> Len(a \o StrCells(s))]
<1> DEFINE c == StrCells(s)
           e == Len(a) + 5 + Len(s)
<1>1. c \in Cells /\ Len(c) = Len(s) + 5 /\ Len(s) \in Nat /\ Len(a) \in Nat
  <2>1. Len(a) \in Nat
    BY DEF Cells
  <2> QED
    BY <2>1, StrFacts
<1>2. <<>> \in Cells /\ c \o <<>> = c
  BY <1>1, EmptySeq, ConcatEmptySeq DEF Cells
<1>3. e \in Nat /\ Len(a) + 5 + Len(s) <= e
  BY <1>1
<1> HIDE DEF e
<1>4. rd_str(a \o (StrCells(s) \o <<>>), Len(a), e)
        = [ok |-> TRUE, v |-> s, next |-> rd_pad(Len(a) + 5 + Len(s), e, 4)]
  BY <1>2, <1>3, ReadString
<1>5. rd_pad(e, e, 4) = e
  BY <1>3, PadAtEnd
<1> HIDE DEF c
<1>6. Len(a \o c) = e
  <2>1. Len(a \o c) = Len(a) + Len(c)
    BY <1>1, Join, Zenon
  <2> QED
    BY <1>1, <2>1 DEF e
<1>7. rd_str(a \o c, Len(a), e) = [ok |-> TRUE, v |-> s, next |-> e]
  BY <1>2, <1>4, <1>5 DEF c, e
<1> QED
  BY <1>6, <1>7 DEF c

(* What a reply may carry: nothing, a string, a variant that holds a       *)
(* string or an array of strings; an error carries its text.               *)
Carries(type, sig, args, v) ==
  \/ type = MsgReturn /\ sig = <<>> /\ args = <<>> /\ v = <<>>
  \/ /\ type \in {MsgReturn, MsgError} /\ sig = <<"s">> /\ v \in Cells
     /\ args = <<[type |-> "s", v |-> v]>>
  \/ /\ type = MsgReturn /\ sig = <<"v">> /\ v \in Cells
     /\ args = <<[type |-> "v", v |-> v]>>
  \/ /\ type = MsgReturn /\ sig = <<"a", "s">> /\ v \in Seq(Cells)
     /\ args = <<[type |-> "as", v |-> v]>>

LEMMA SignaturesDiffer ==
  /\ <<"s">> # <<"v">> /\ <<"s">> # <<"a", "s">> /\ <<"v">> # <<"a", "s">>
  /\ <<>> # <<"s">> /\ <<>> # <<"v">> /\ <<>> # <<"a", "s">>
<1>1. Len(<<"s">>) = 1 /\ Len(<<"v">>) = 1 /\ Len(<<"a", "s">>) = 2 /\ Len(<<>>) = 0
  OBVIOUS
<1>2. <<"s">> # <<"v">>
  <2>1. <<"s">>[1] = "s" /\ <<"v">>[1] = "v"
    BY Zenon
  <2>2. "s" # "v"
    OBVIOUS
  <2> QED
    BY <2>1, <2>2, Zenon
<1> QED
  BY <1>1, <1>2

LEMMA ReadVariant ==
  ASSUME NEW b \in Cells, Len(b) % 8 = 0, NEW s \in Cells
  PROVE  LET msg == b \o (VariantLead \o StrCells(s))
         IN  rd_value(msg, Len(b), Len(msg), <<"v">>) = [ok |-> TRUE, v |-> s, next |-> Len(msg)]
<1> DEFINE l == VariantLead
           c == StrCells(s)
           msg == b \o (l \o c)
           a == b \o l
           p == Len(b)
           end == Len(msg)
<1>1. c \in Cells /\ Len(c) = Len(s) + 5 /\ Len(s) \in Nat
  BY StrFacts
<1>2. l \in Cells /\ Len(l) = 4
  BY VariantLeadFacts
<1>3. l[1] = 1 /\ l[2] = "s"
  BY VariantLeadFacts, Zenon
<1>4. p \in Nat /\ p % 8 = 0
  BY DEF Cells
<1> HIDE DEF c, l
<1>5. \A i \in 1..Len(l) : msg[p + i] = l[i]
  BY <1>1, <1>2, Middle, ZenonT(40)
<1>6. end = p + Len(l) + Len(c)
  BY <1>1, <1>2, Middle, ZenonT(40)
<1>7. a \in Cells /\ Len(a) = p + Len(l)
  BY <1>2, Join, Zenon
<1>8. msg = a \o c
  <2>1. Same(b, l, c)
    BY <1>1, <1>2, Grouped
  <2> QED
    BY <2>1 DEF Same
<1> HIDE DEF a
<1>9. rd_str(a \o c, Len(a), Len(a \o c)) = [ok |-> TRUE, v |-> s, next |-> Len(a \o c)]
  BY <1>7, ReadLast DEF c
<1>10. rd_str(msg, Len(a), end) = [ok |-> TRUE, v |-> s, next |-> end]
  BY <1>8, <1>9
<1>11. 1 \in 1..Len(l) /\ 2 \in 1..Len(l)
  BY <1>2
<1>12. msg[p + 1] = 1
  BY <1>3, <1>5, <1>11, Zenon
<1>13. msg[p + 2] = "s"
  BY <1>3, <1>5, <1>11, Zenon
<1> HIDE DEF msg, end, p
<1>14. p + 1 + 1 = p + 2 /\ p + 3 <= end /\ Len(a) = p + 4
  BY <1>1, <1>2, <1>4, <1>6, <1>7
<1>15. At(msg, p) = 1 /\ At(msg, p + 1) = "s"
  BY <1>12, <1>13, <1>14, Zenon DEF At
<1>16. rd_pad(p + 3, end, 4) = p + 4
  <2>1. Padding(p + 3, 4) = 1
    BY <1>4 DEF Padding
  <2>2. p + 3 + 1 = p + 4 /\ p + 4 < end
    BY <1>1, <1>2, <1>4, <1>6
  <2> QED
    BY <2>1, <2>2 DEF rd_pad
<1>17. rd_value(msg, p, end, <<"v">>) = rd_str(msg, rd_pad(p + 3, end, 4), end)
  BY <1>14, <1>15, SignaturesDiffer DEF rd_value
<1>18. rd_value(msg, p, end, <<"v">>) = [ok |-> TRUE, v |-> s, next |-> end]
  BY <1>10, <1>14, <1>16, <1>17, Zenon
<1> QED
  BY <1>18 DEF msg, end, p, l, c

LEMMA ReadArrayBody ==
  ASSUME NEW b \in Cells, Len(b) % 8 = 0, NEW strs \in Seq(Cells)
  PROVE  LET msg == b \o (U32(Len(ArrayCells(strs))) \o ArrayCells(strs))
         IN  rd_value(msg, Len(b), Len(msg), <<"a", "s">>) = InArray(strs, Len(msg))
<1> DEFINE c == ArrayCells(strs)
           n == Len(c)
           u == U32(n)
           msg == b \o (u \o c)
           a == b \o u
           p == Len(b)
           end == Len(msg)
<1>1. c \in Cells
  BY ArrayFacts
<1>2. p \in Nat /\ p % 8 = 0 /\ n \in Nat
  BY <1>1 DEF Cells
<1>3. u \in Cells /\ Len(u) = 4 /\ u[1] = n
  <2> HIDE DEF n
  <2> QED
    BY <1>2, NumberFacts, WordFacts
<1> HIDE DEF c, u, n
<1>4. msg[p + 1] = u[1]
  <2>1. Len(u) > 0
    BY <1>3
  <2> QED
    BY <1>1, <1>3, <2>1, PartAt
<1>5. end = p + Len(u) + Len(c)
  BY <1>1, <1>3, Middle
<1>6. a \in Cells /\ Len(a) = p + Len(u)
  BY <1>3, Join, Zenon
<1>7. <<>> \in Cells /\ c \o <<>> = c
  BY <1>1, EmptySeq, ConcatEmptySeq DEF Cells
<1>8. msg = a \o c
  <2>1. Same(b, u, c)
    BY <1>1, <1>3, Grouped
  <2> QED
    BY <2>1 DEF Same
<1> HIDE DEF a
<1>9. Len(a) = p + 4 /\ Len(a) % 4 = 0 /\ end = p + 4 + n /\ Len(a) + n = end
  <2> HIDE DEF p, end
  <2>1. Len(a) = p + 4
    BY <1>3, <1>6
  <2>2. Len(c) = n
    BY DEF n
  <2>3. end = p + 4 + n
    BY <1>3, <1>5, <2>2
  <2>4. (p + 4) % 4 = 0
    BY <1>2
  <2> QED
    BY <1>2, <2>1, <2>3, <2>4
<1>10. ReadStrings(a \o (c \o <<>>), Len(a), Len(a) + Len(c)) = InArray(strs, Len(a) + Len(c))
  BY <1>6, <1>7, <1>9, ReadArray DEF c
<1>11. ReadStrings(msg, p + 4, p + 4 + n) = InArray(strs, end)
  BY <1>7, <1>8, <1>9, <1>10 DEF n
<1> HIDE DEF msg, end, p
<1>12. At(msg, p) = n
  BY <1>3, <1>4 DEF At
<1>13. p + 4 <= end /\ n <= end - p - 4
  BY <1>2, <1>9
<1>14. rd_value(msg, p, end, <<"a", "s">>) = ReadStrings(msg, p + 4, p + 4 + At(msg, p))
  BY <1>12, <1>13, SignaturesDiffer DEF rd_value
<1>15. rd_value(msg, p, end, <<"a", "s">>) = InArray(strs, end)
  BY <1>11, <1>12, <1>14, Zenon
<1> QED
  BY <1>15 DEF msg, end, p, u, n, c

\* The body is read back and used up.
LEMMA ReadReplyBody ==
  ASSUME NEW b \in Cells, Len(b) % 8 = 0, NEW type, NEW sig, NEW args, NEW v,
         Carries(type, sig, args, v), At(b \o AllValues(args), 1) = type
  PROVE  LET msg == b \o AllValues(args)
         IN  BodyValue(msg, Len(b), sig) = [ok |-> TRUE, v |-> v, next |-> Len(msg)]
<1> DEFINE body == AllValues(args)
           msg == b \o body
           p == Len(b)
           end == Len(msg)
           result == [ok |-> TRUE, v |-> v, next |-> end]
<1>1. At(msg, 1) = type
  OBVIOUS
<1>2. MsgReturn # MsgError
  BY DEF MsgReturn, MsgError
<1>3. CASE type = MsgReturn /\ sig = <<>> /\ args = <<>> /\ v = <<>>
  <2> HIDE DEF msg
  <2> QED
    BY <1>1, <1>2, <1>3 DEF BodyValue
<1>4. CASE /\ type \in {MsgReturn, MsgError} /\ sig = <<"s">> /\ v \in Cells
           /\ args = <<[type |-> "s", v |-> v]>>
  <2>1. body = StrCells(v)
    BY <1>4, StringBody
  <2>2. rd_str(b \o StrCells(v), Len(b), Len(b \o StrCells(v))) = [ok |-> TRUE, v |-> v, next |-> Len(b \o StrCells(v))]
    BY <1>4, ReadLast
  <2> HIDE DEF body
  <2>3. rd_str(msg, p, end) = result
    BY <2>1, <2>2
  <2> HIDE DEF msg, p, end
  <2>4. rd_value(msg, p, end, <<"s">>) = rd_str(msg, p, end)
    BY SignaturesDiffer DEF rd_value
  <2>5. BodyValue(msg, p, sig) = rd_str(msg, p, end)
    <3>1. CASE type = MsgError
      BY <1>1, <1>2, <3>1 DEF BodyValue, end
    <3>2. CASE type = MsgReturn
      <4>1. BodyValue(msg, p, sig) = rd_value(msg, p, end, sig)
        BY <1>1, <1>2, <1>4, <3>2, SignaturesDiffer DEF BodyValue, end
      <4> QED
        BY <1>4, <2>4, <4>1
    <3> QED
      BY <1>4, <3>1, <3>2
  <2> QED
    BY <2>3, <2>5 DEF msg, p, end, body
<1>5. CASE /\ type = MsgReturn /\ sig = <<"v">> /\ v \in Cells
           /\ args = <<[type |-> "v", v |-> v]>>
  <2>1. body = VariantLead \o StrCells(v)
    BY <1>5, VariantBody
  <2> DEFINE w == VariantLead \o StrCells(v)
  <2>2. rd_value(b \o w, Len(b), Len(b \o w), <<"v">>) = [ok |-> TRUE, v |-> v, next |-> Len(b \o w)]
    BY <1>5, ReadVariant
  <2> HIDE DEF body, w
  <2>3. rd_value(msg, p, end, sig) = result
    BY <1>5, <2>1, <2>2 DEF w
  <2> HIDE DEF msg, p
  <2>4. BodyValue(msg, p, sig) = rd_value(msg, p, Len(msg), sig)
    BY <1>1, <1>2, <1>5, SignaturesDiffer DEF BodyValue
  <2> QED
    BY <2>3, <2>4 DEF msg, p, body
<1>6. CASE /\ type = MsgReturn /\ sig = <<"a", "s">> /\ v \in Seq(Cells)
           /\ args = <<[type |-> "as", v |-> v]>>
  <2>1. body = U32(Len(ArrayCells(v))) \o ArrayCells(v)
    BY <1>6, ArrayBody
  <2> DEFINE w == U32(Len(ArrayCells(v))) \o ArrayCells(v)
  <2>2. rd_value(b \o w, Len(b), Len(b \o w), <<"a", "s">>) = InArray(v, Len(b \o w))
    BY <1>6, ReadArrayBody
  <2> HIDE DEF body, w
  <2>3. rd_value(msg, p, end, sig) = result
    BY <1>6, <2>1, <2>2 DEF w, InArray
  <2> HIDE DEF msg, p
  <2>4. BodyValue(msg, p, sig) = rd_value(msg, p, Len(msg), sig)
    BY <1>1, <1>2, <1>6, SignaturesDiffer DEF BodyValue
  <2> QED
    BY <2>3, <2>4 DEF msg, p, body
<1> QED
  BY <1>3, <1>4, <1>5, <1>6 DEF Carries

LEMMA CarriesValues ==
  ASSUME NEW type, NEW sig, NEW args, NEW v, Carries(type, sig, args, v)
  PROVE  args \in Seq(Value) /\ type \in Nat
<1>1. type \in Nat
  BY DEF Carries, MsgReturn, MsgError
<1>2. args = <<>> \/ \E a \in Value : args = <<a>>
  BY DEF Carries, Value, Arg
<1>3. <<>> \in Seq(Value) /\ \A a \in Value : <<a>> \in Seq(Value)
  OBVIOUS
<1> QED
  BY <1>1, <1>2, <1>3, Zenon

(* Every reply that the specification allows is read back as what was      *)
(* sent: its type, the number it answers, the name of an error and the     *)
(* value of the body.                                                      *)
THEOREM RepliesAreReadBack ==
  ASSUME NEW number \in Nat, NEW fields \in Seq(HdrField), Once(fields),
         NEW type, NEW args, NEW v,
         Carries(type, Kept(fields, Len(fields), FieldSignature, <<>>), args, v)
  PROVE  ReadMessage(Encode(type, number, fields, args)) =
           [ok |-> TRUE, type |-> type,
            reply_serial |-> Kept(fields, Len(fields), FieldReplySerial, 0),
            error_name |-> Kept(fields, Len(fields), FieldErrorName, <<>>), v |-> v]
<1> DEFINE n == Len(fields)
           sig == Kept(fields, n, FieldSignature, <<>>)
           answers == Kept(fields, n, FieldReplySerial, 0)
           name == Kept(fields, n, FieldErrorName, <<>>)
           body == AllValues(args)
           h == Tails(fields)
           start == FixedHeader(type, Len(body), number, Len(h))
           all == start \o h
           fend == 16 + Len(h)
           q == Padding(fend, 8)
           z == Zeros(q)
           b == all \o z
           msg == b \o body
<1>1. args \in Seq(Value) /\ type \in Nat
  BY CarriesValues
<1>2. /\ body \in Cells /\ Len(body) \in Nat
      /\ IsHeader(start, type, Len(body), Len(h))
      /\ all \in Cells /\ Len(all) = fend
      /\ FieldsFrom(start, fields)[n] = all
      /\ Encode(type, number, fields, args) = msg
  BY <1>1, EncodeShape
<1>3. start \in Cells /\ Len(start) = 16
  BY <1>2, Zenon DEF IsHeader
<1>4. h \in Cells /\ Len(h) \in Nat
  <2> HIDE DEF start
  <2> QED
    BY <1>3, TailsFacts
<1>5. fend \in Nat
  BY <1>4
<1>6. q \in Nat /\ (fend + q) % 8 = 0
  <2> HIDE DEF fend
  <2> QED
    BY <1>5, PaddingRange, PaddingFacts
<1>7. z \in Cells /\ Len(z) = q
  <2> HIDE DEF q
  <2> QED
    BY <1>6, ZerosFacts
<1>8. parse_header_fields(all \o (z \o body), Len(all)) = At16(Len(all), name, sig, answers)
  <2> DEFINE y == z \o body
  <2>1. y \in Cells
    <3> HIDE DEF z, body
    <3> QED
      BY <1>2, <1>7, Join
  <2> HIDE DEF y, start
  <2>2. LET m == Len(fields)
            x == FieldsFrom(start, fields)[m]
        IN  parse_header_fields(x \o y, Len(x))
               = At16(Len(x), Kept(fields, m, FieldErrorName, <<>>),
                      Kept(fields, m, FieldSignature, <<>>), Kept(fields, m, FieldReplySerial, 0))
    BY <1>3, <2>1, ReadFields
  <2> QED
    BY <1>2, <2>2 DEF y
<1>9. \A i \in 1..16 : msg[i] = start[i]
  <2> HIDE DEF start, h, z, body
  <2>1. \A i \in 1..Len(start) : all[i] = start[i]
    BY <1>3, <1>4, Index
  <2>2. all \in Cells /\ b \in Cells
    <3>1. all \in Cells
      BY <1>2
    <3> HIDE DEF all
    <3> QED
      BY <1>7, <3>1, Join
  <2> HIDE DEF all
  <2>3. \A i \in 1..Len(all) : b[i] = all[i]
    BY <1>7, <2>2, Index
  <2> HIDE DEF b
  <2>4. \A i \in 1..Len(b) : msg[i] = b[i]
    BY <1>2, <2>2, Index
  <2>5. Len(b) = Len(all) + Len(z)
    BY <1>7, <2>2, Join, Zenon DEF b
  <2>6. \A i \in 1..16 : i \in 1..Len(start) /\ i \in 1..Len(all) /\ i \in 1..Len(b)
    BY <1>2, <1>3, <1>4, <1>6, <1>7, <2>5
  <2> HIDE DEF msg
  <2> QED
    BY <2>1, <2>3, <2>4, <2>6
<1>10. /\ At(msg, 0) = "l" /\ At(msg, 1) = type /\ At(msg, 4) = Len(body) /\ At(msg, 12) = Len(h)
  <2>1. msg[1] = start[1] /\ msg[2] = start[2] /\ msg[5] = start[5] /\ msg[13] = start[13]
    <3> HIDE DEF msg, start
    <3> QED
      BY <1>9
  <2> HIDE DEF msg, start, body, h
  <2>2. start[1] = "l" /\ start[2] = type /\ start[5] = Len(body) /\ start[13] = Len(h)
    BY <1>2, Zenon DEF IsHeader
  <2>3. 0 + 1 = 1 /\ 1 + 1 = 2 /\ 4 + 1 = 5 /\ 12 + 1 = 13
    OBVIOUS
  <2> QED
    BY <2>1, <2>2, <2>3, Zenon DEF At
<1>11. b \in Cells /\ Len(b) = fend + q /\ Len(msg) = fend + q + Len(body)
  <2>1. all \in Cells /\ Len(all) = fend
    BY <1>2
  <2> HIDE DEF all, z, body, fend, q
  <2>2. b \in Cells /\ Len(b) = Len(all) + Len(z)
    BY <1>7, <2>1, Join, Zenon
  <2> HIDE DEF b
  <2>3. Len(msg) = Len(b) + Len(body)
    BY <1>2, <2>2, Join, Zenon
  <2> QED
    BY <1>7, <2>1, <2>2, <2>3
<1>12. msg = all \o (z \o body)
  <2> HIDE DEF all, z, body
  <2>1. Same(all, z, body)
    BY <1>2, <1>7, Grouped
  <2> QED
    BY <2>1 DEF Same
<1> DEFINE p == Len(b)
           x == BodyValue(msg, p, sig)
<1>13. x = [ok |-> TRUE, v |-> v, next |-> Len(msg)]
  <2>1. p % 8 = 0
    <3> HIDE DEF q, fend, b
    <3> QED
      BY <1>6, <1>11
  <2>2. Carries(type, sig, args, v)
    OBVIOUS
  <2> HIDE DEF b, sig
  <2>3. At(b \o AllValues(args), 1) = type
    BY <1>10
  <2> QED
    BY <1>11, <2>1, <2>2, <2>3, ReadReplyBody
<1>14. parse_header_fields(msg, fend) = At16(fend, name, sig, answers)
  <2> HIDE DEF all, z, body, fend, name, sig, answers, msg
  <2> QED
    BY <1>2, <1>8, <1>12
<1> DEFINE st == At16(fend, name, sig, answers)
<1>15. st.ok = TRUE /\ st.sig = sig /\ st.reply_serial = answers /\ st.error_name = name
  <2> HIDE DEF fend, name, sig, answers
  <2> QED
    BY DEF At16
<1>16. p = fend + Padding(fend, 8)
  BY <1>11
<1>17. ReadMessage(msg) = ReadBody(msg, st, p)
  <2>1. Len(msg) = p + At(msg, 4) /\ fend = 16 + At(msg, 12)
    <3> HIDE DEF fend, q, msg, b, body
    <3>1. Len(msg) = p + At(msg, 4)
      BY <1>10, <1>11
    <3> QED
      BY <1>10, <3>1 DEF fend
  <2> HIDE DEF fend, q, msg, p, st
  <2> QED
    BY <1>10, <1>14, <1>16, <2>1 DEF ReadMessage, st
<1>18. x.ok = TRUE /\ x.v = v /\ x.next = Len(msg)
  <2> HIDE DEF x, msg
  <2> QED
    BY <1>13
<1>19. ReadBody(msg, st, p) = Reply(msg, st, x)
  <2> HIDE DEF msg, p, st, sig
  <2> QED
    BY <1>15 DEF ReadBody
<1>20. Reply(msg, st, x) = [ok |-> TRUE, type |-> type, reply_serial |-> answers, error_name |-> name, v |-> v]
  <2> HIDE DEF msg, st, x, sig, name, answers
  <2> QED
    BY <1>10, <1>15, <1>18 DEF Reply
<1>21. ReadMessage(msg) = [ok |-> TRUE, type |-> type, reply_serial |-> answers, error_name |-> name, v |-> v]
  <2> HIDE DEF msg, st, x, p, name, answers
  <2> QED
    BY <1>17, <1>19, <1>20
<1> QED
  <2> HIDE DEF msg, name, answers
  <2>1. ReadMessage(Encode(type, number, fields, args))
          = [ok |-> TRUE, type |-> type, reply_serial |-> answers, error_name |-> name, v |-> v]
    BY <1>2, <1>21
  <2> QED
    BY <2>1 DEF name, answers

\* A command makes no more calls than its script has steps, and waits at the
\* step it has called for.
Paced ==
  cmd # None => serial <= step /\ (pc \in {"auth", "send"} => serial < step)

LEMMA PacedNext == IInv /\ Paced /\ [Next]_vars => Paced'
<1> SUFFICES ASSUME IInv, Paced, [Next]_vars PROVE Paced'
  OBVIOUS
<1>1. /\ serial \in Nat
      /\ cmd # None => step \in Int
      /\ cmd = None => pc = "idle"
  <2>1. serial \in Nat /\ (cmd = None => pc = "idle") /\ cmd \in Invocations \cup {None}
        /\ (cmd # None => step \in 1..Len(Script(cmd)))
    BY DEF IInv, Shapes
  <2>2. cmd # None => Len(Script(cmd)) \in Nat
    BY <2>1, ScriptFacts
  <2> QED
    BY <2>1, <2>2
<1>2. \A code : Exit(code) => Paced'
  BY <1>1 DEF Exit, Paced
<1>3. ASSUME NEW unread, Proceed(unread), pc # "idle" PROVE Paced'
  <2>1. CASE LastStep
    BY <1>2, <1>3, <2>1 DEF Proceed
  <2>2. CASE ~LastStep
    BY <1>1, <1>3, <2>2 DEF Proceed, Paced
  <2> QED
    BY <2>1, <2>2
<1>4. CASE UNCHANGED vars
  BY <1>4 DEF vars, Paced
<1>5. CASE \E c \in Invocations : Start(c)
  BY <1>5 DEF Start, Paced
<1>6. CASE AuthOk \/ AuthFails \/ InvalidNumber \/ SendFails \/ Timeout
  BY <1>1, <1>2, <1>6 DEF AuthOk, AuthFails, InvalidNumber, SendFails, Timeout, Paced
<1>7. CASE LoadFile
  BY <1>2, <1>3, <1>7 DEF LoadFile
<1>8. CASE Send
  BY <1>1, <1>8 DEF Send, Paced
<1>9. CASE ReadFixed
  BY <1>1, <1>2, <1>9 DEF ReadFixed, Paced
<1>10. CASE ReadRest
  <2>1. \A m : TakeError(m) => Paced'
    BY <1>2 DEF TakeError
  <2>2. \A m : pc = "rest" /\ TakeReturn(m) => Paced'
    BY <1>2, <1>3 DEF TakeReturn
  <2>3. pc = "rest" /\ Skip => Paced'
    BY <1>1 DEF Skip, Paced
  <2> QED
    BY <1>10, <2>1, <2>2, <2>3 DEF ReadRest
<1>11. CASE BusHello \/ DaemonReturns \/ DaemonErrors \/ Arrive
  BY <1>11 DEF BusHello, DaemonReturns, DaemonErrors, Arrive, Paced
<1> QED
  BY <1>4, <1>5, <1>6, <1>7, <1>8, <1>9, <1>10, <1>11 DEF Next, Client

LEMMA ScriptLength ==
  ASSUME NEW c \in Invocations
  PROVE  Len(Script(c)) <= 3
<1> DEFINE body == CASE c.name \in {"device list", "device status"} -> cmd_device(c)
      [] c.name \in {"profile list", "profile show", "profile set"} -> cmd_profile(c)
      [] c.name \in {"button list", "button map", "button reset"} -> cmd_button(c)
      [] c.name \in {"scroll speed", "scroll sensitivity", "scroll reset"} -> cmd_scroll(c)
      [] c.name = "setup reload" -> <<"Reload">>
           Short(s) == s \in Seq(Calls) /\ Len(s) <= 2
<1>1. c.name \in {"device list", "device status", "profile list",
                  "profile show", "profile set", "button list",
                  "button map", "button reset", "scroll speed",
                  "scroll sensitivity", "scroll reset", "setup reload"}
  BY CommandsAssumption DEF Invocations
<1>2. Short(body)
  <2>0. "resolve" \in Calls
    BY DEF Calls
  <2>1. ASSUME NEW s \in Calls PROVE Short(Resolve(c) \o <<s>>) /\ Short(<<s>>)
    <3>1. <<>> \in Seq(Calls) /\ <<"resolve">> \in Seq(Calls) /\ Len(<<>>) = 0 /\ Len(<<"resolve">>) = 1
      BY <2>0
    <3>2. Resolve(c) \in Seq(Calls) /\ Len(Resolve(c)) \in 0..1
      BY <3>1 DEF Resolve
    <3>3. <<s>> \in Seq(Calls) /\ Len(<<s>>) = 1
      OBVIOUS
    <3> HIDE DEF Short
    <3>4. Short(<<s>>)
      BY <3>3 DEF Short
    <3> DEFINE r == Resolve(c)
               t == <<s>>
    <3> HIDE DEF r, t
    <3>5. r \o t \in Seq(Calls) /\ Len(r \o t) = Len(r) + Len(t)
      BY <3>2, <3>3, ConcatProperties DEF r, t
    <3>6. Len(r) \in 0..1 /\ Len(t) = 1
      BY <3>2, <3>3 DEF r, t
    <3>7. Short(r \o t)
      BY <3>5, <3>6 DEF Short
    <3> QED
      BY <3>4, <3>7 DEF r, t
  <2>2. \A s, t \in Calls : Short(<<s, t>>)
    OBVIOUS
  <2> HIDE DEF Short
  <2>3. Short(cmd_device(c))
    BY <2>1 DEF cmd_device, Calls
  <2>4. Short(cmd_profile(c))
    BY <2>1, <2>2 DEF cmd_profile, Calls
  <2>5. Short(cmd_button(c))
    BY <2>1 DEF cmd_button, Calls
  <2>6. Short(cmd_scroll(c))
    BY <2>1, <2>2 DEF cmd_scroll, Calls
  <2>7. Short(<<"Reload">>)
    BY <2>1 DEF Calls
  <2> QED
    BY <1>1, <2>3, <2>4, <2>5, <2>6, <2>7
<1>3. Script(c) = <<"Hello">> \o body
  BY DEF Script
<1>4. body \in Seq(Calls \cup {"Hello"})
  BY <1>2, SeqMonotonic
<1>5. <<"Hello">> \in Seq(Calls \cup {"Hello"}) /\ Len(<<"Hello">>) = 1
  OBVIOUS
<1> HIDE DEF body
<1>6. Len(Script(c)) = Len(<<"Hello">>) + Len(body) /\ Len(body) \in Nat
  BY <1>3, <1>4, <1>5, ConcatProperties
<1> QED
  BY <1>2, <1>5, <1>6

\* The methods that a command calls, and the number of its calls.
LEMMA CallFacts ==
  ASSUME IInv, Paced
  PROVE  /\ pc = "send" /\ Current # "load" => Current \in Methods /\ serial + 1 \in Serials
         /\ pc = "rest" => serial \in Serials
<1>1. serial \in Nat /\ (cmd = None => pc = "idle") /\ cmd \in Invocations \cup {None}
      /\ (cmd # None => step \in 1..Len(Script(cmd)))
      /\ (pc = "rest" => serial # 0)
  BY DEF IInv, Shapes, HelloFirst, Waiting
<1>2. ASSUME pc \in {"send", "rest"}
      PROVE  /\ cmd \in Invocations /\ step \in DOMAIN Script(cmd)
             /\ serial <= 3 /\ (pc = "send" => serial < 3)
  <2>1. cmd \in Invocations /\ cmd # None /\ step \in 1..Len(Script(cmd))
    BY <1>1, <1>2, NoneAssumption
  <2>2. Len(Script(cmd)) \in Nat /\ Len(Script(cmd)) <= 3 /\ DOMAIN Script(cmd) = 1..Len(Script(cmd))
    BY <2>1, ScriptFacts, ScriptLength
  <2>3. serial <= step /\ (pc = "send" => serial < step)
    BY <2>1 DEF Paced
  <2> QED
    BY <1>1, <2>1, <2>2, <2>3
<1>3. ASSUME pc = "send", Current # "load" PROVE Current \in Methods
  BY <1>2, <1>3 DEF Methods, Current
<1> QED
  BY <1>1, <1>2, <1>3 DEF Serials

LEMMA StrIsCells ==
  ASSUME NEW n \in Nat
  PROVE  Str(n) \in Cells
<1>1. "c" \in Cell
  BY DEF Cell
<1> QED
  BY <1>1 DEF Str, Cells

\* The requests of the commands are requests.
LEMMA RequestFacts ==
  ASSUME NEW method \in Methods, NEW n \in Nat, NEW k \in Nat
  PROVE  Request(method, n, k) \in Call
<1>1. method \in (Calls \cup {"Hello"}) \ {"load"}
  BY ScriptFacts DEF Methods
<1>2. method \in {"Hello", "resolve", "ListDevices", "GetStatus", "Reload", "SetProfile",
                  "MapButton", "ResetButtons", "SetScrollSpeed", "SetSensitivity"}
  BY <1>1 DEF Calls
<1>3. \A m \in Nat : Str(m) \in Cells /\ S(m) \in Arg
  BY StrIsCells DEF S, Arg
<1>4. [type |-> "d", v |-> k] \in Arg
  BY DEF Arg
<1>5. MemberLength(method) \in Nat
  BY <1>2 DEF MemberLength
<1>6. Arguments(method, n, k) \in Seq(Arg)
  <2> DEFINE a == S(n)
             b == S(k)
             c == S(n + k)
             d == [type |-> "d", v |-> k]
  <2>1. a \in Arg /\ b \in Arg /\ c \in Arg /\ d \in Arg
    BY <1>3, <1>4
  <2>2. Arguments(method, n, k) \in {<<>>, <<a>>, <<a, b>>, <<a, b, c>>, <<a, d>>}
    BY <1>2 DEF Arguments
  <2> HIDE DEF a, b, c, d
  <2>3. /\ <<>> \in Seq(Arg) /\ <<a>> \in Seq(Arg) /\ <<a, b>> \in Seq(Arg)
        /\ <<a, b, c>> \in Seq(Arg) /\ <<a, d>> \in Seq(Arg)
    BY <2>1
  <2> QED
    BY <2>2, <2>3
<1>7. /\ Str(20) \in Cells /\ Str(21) \in Cells /\ Str(5) \in Cells /\ Str(11) \in Cells
      /\ Str(19) \in Cells /\ Str(MemberLength(method)) \in Cells /\ <<>> \in Seq(Arg)
  BY <1>3, <1>5
<1> QED
  BY <1>6, <1>7 DEF Request, Call

(* Every call that a command makes is the message that the specification   *)
(* prescribes, whatever the lengths of the names and values the user gave. *)
THEOREM RequestsUnderstood == Spec => []RequestUnderstood
<1>1. Init => Paced
  BY DEF Init, Paced
<1>2. IInv /\ Paced => RequestUnderstood
  <2> SUFFICES ASSUME IInv, Paced, pc = "send", Current # "load"
               PROVE  MarshalFaults[Current][serial + 1] = {}
    BY DEF RequestUnderstood
  <2> DEFINE method == Current
             q == serial + 1
  <2>1. method \in Methods /\ q \in Serials
    BY CallFacts
  <2> HIDE DEF method, q
  <2>2. ASSUME NEW p \in Lengths \X Lengths
        PROVE  build_call(q, Request(method, p[1], p[2])) = EncodedCall(q, Request(method, p[1], p[2]))
    <3> DEFINE n == p[1]
               k == p[2]
               r == Request(method, n, k)
    <3>1. n \in Nat /\ k \in Nat
      BY MaxLenAssumption DEF Lengths
    <3> HIDE DEF n, k
    <3>2. r \in Call
      BY <2>1, <3>1, RequestFacts
    <3>3. q \in Nat
      BY <2>1 DEF Serials
    <3> HIDE DEF r
    <3>4. build_call(q, r) = EncodedCall(q, r)
      BY <3>2, <3>3, CallsAreWellFormed
    <3> QED
      BY <3>4 DEF r, n, k
  <2>3. MarshalFaults[method][q] =
          {p \in Lengths \X Lengths :
             build_call(q, Request(method, p[1], p[2])) # EncodedCall(q, Request(method, p[1], p[2]))}
    BY <2>1 DEF MarshalFaults
  <2>4. MarshalFaults[method][q] = {}
    BY <2>2, <2>3
  <2> QED
    BY <2>4 DEF method, q
<1> QED
  BY <1>1, <1>2, PacedNext, Invariance, PTL DEF Spec

LEMMA JoinFields ==
  ASSUME NEW s \in Seq(HdrField), NEW t \in Seq(HdrField)
  PROVE  /\ s \o t \in Seq(HdrField) /\ Len(s) \in Nat /\ Len(t) \in Nat
         /\ Len(s \o t) = Len(s) + Len(t)
         /\ \A i \in 1..Len(s) : (s \o t)[i] = s[i]
         /\ \A i \in 1..Len(t) : (s \o t)[Len(s) + i] = t[i]
<1>1. Len(s) \in Nat /\ Len(t) \in Nat
  OBVIOUS
<1>2. /\ s \o t \in Seq(HdrField) /\ Len(s \o t) = Len(s) + Len(t)
      /\ \A i \in 1..(Len(s) + Len(t)) :
           (s \o t)[i] = IF i <= Len(s) THEN s[i] ELSE t[i - Len(s)]
  BY ConcatProperties, Zenon
<1>3. ASSUME NEW i \in 1..Len(s) PROVE (s \o t)[i] = s[i]
  <2>1. i \in 1..(Len(s) + Len(t)) /\ i <= Len(s)
    BY <1>1
  <2> QED
    BY <1>2, <2>1
<1>4. ASSUME NEW i \in 1..Len(t) PROVE (s \o t)[Len(s) + i] = t[i]
  <2>1. Len(s) + i \in 1..(Len(s) + Len(t)) /\ ~(Len(s) + i <= Len(s)) /\ (Len(s) + i) - Len(s) = i
    BY <1>1
  <2>2. (s \o t)[Len(s) + i] = t[(Len(s) + i) - Len(s)]
    BY <1>2, <2>1
  <2> QED
    BY <2>1, <2>2
<1> QED
  BY <1>1, <1>2, <1>3, <1>4

\* The fields of a reply: no code twice, and those that the client keeps.
IsReply(f, q, sig, k) ==
  /\ f \in Seq(HdrField) /\ Once(f) /\ Len(f) = (IF sig = <<>> THEN 3 ELSE 4)
  /\ f[1] = <<FieldDestination, "s", Str(k)>> /\ f[2] = <<FieldReplySerial, "u", q>>
  /\ sig # <<>> => f[3] = <<FieldSignature, "g", sig>>
  /\ f[Len(f)] = <<FieldSender, "s", Str(k)>>

LEMMA ReplyFieldsFacts ==
  ASSUME NEW q \in Nat, NEW sig \in Cells, NEW k \in Nat
  PROVE  IsReply(ReplyFields(q, sig, k), q, sig, k)
<1> DEFINE a == <<FieldDestination, "s", Str(k)>>
           b == <<FieldReplySerial, "u", q>>
           c == <<FieldSignature, "g", sig>>
           d == <<FieldSender, "s", Str(k)>>
           f == ReplyFields(q, sig, k)
           x == <<a, b>>
           y == IF sig = <<>> THEN <<>> ELSE <<c>>
           z == <<d>>
<1>1. a \in HdrField /\ b \in HdrField /\ c \in HdrField /\ d \in HdrField
  BY StrIsCells DEF HdrField, FieldDestination, FieldReplySerial, FieldSignature, FieldSender
<1>2. a[1] = 6 /\ b[1] = 5 /\ c[1] = 8 /\ d[1] = 7
  BY DEF FieldDestination, FieldReplySerial, FieldSignature, FieldSender
<1>3. f = (x \o y) \o z
  BY DEF ReplyFields
<1> HIDE DEF a, b, c, d, f
<1>4. x \in Seq(HdrField) /\ Len(x) = 2 /\ x[1] = a /\ x[2] = b
  BY <1>1
<1>5. y \in Seq(HdrField) /\ (sig = <<>> => Len(y) = 0) /\ (sig # <<>> => Len(y) = 1 /\ y[1] = c)
  BY <1>1
<1>6. z \in Seq(HdrField) /\ Len(z) = 1 /\ z[1] = d
  BY <1>1
<1> HIDE DEF x, y, z
<1> DEFINE w == x \o y
<1>7. /\ w \in Seq(HdrField) /\ Len(w) = 2 + Len(y)
      /\ \A i \in 1..2 : w[i] = x[i]
      /\ \A i \in 1..Len(y) : w[2 + i] = y[i]
  <2>1. /\ w \in Seq(HdrField) /\ Len(w) = Len(x) + Len(y)
        /\ \A i \in 1..Len(x) : w[i] = x[i]
        /\ \A i \in 1..Len(y) : w[Len(x) + i] = y[i]
    BY <1>4, <1>5, JoinFields, Zenon
  <2> QED
    BY <1>4, <2>1, Zenon
<1> HIDE DEF w
<1>8. /\ f \in Seq(HdrField) /\ Len(f) = Len(w) + 1
      /\ \A i \in 1..Len(w) : f[i] = w[i]
      /\ \A i \in 1..1 : f[Len(w) + i] = z[i]
  <2>1. f = w \o z
    BY <1>3 DEF w
  <2>2. /\ f \in Seq(HdrField) /\ Len(f) = Len(w) + Len(z)
        /\ \A i \in 1..Len(w) : f[i] = w[i]
        /\ \A i \in 1..Len(z) : f[Len(w) + i] = z[i]
    BY <1>6, <1>7, <2>1, JoinFields, Zenon
  <2> QED
    BY <1>6, <2>2, Zenon
<1>9. CASE sig = <<>>
  <2>1. Len(w) = 2 /\ Len(f) = 3
    BY <1>5, <1>7, <1>8, <1>9
  <2>2. 1 \in 1..2 /\ 2 \in 1..2 /\ 1 \in 1..1 /\ 2 + 1 = 3
    OBVIOUS
  <2>3. f[1] = a /\ f[2] = b /\ f[3] = d
    <3>1. w[1] = a /\ w[2] = b
      BY <1>4, <1>7, <2>2, Zenon
    <3>2. f[1] = w[1] /\ f[2] = w[2]
      BY <1>8, <2>1, <2>2, Zenon
    <3>3. f[3] = d
      BY <1>6, <1>8, <2>1, <2>2, Zenon
    <3> QED
      BY <3>1, <3>2, <3>3, Zenon
  <2>4. Once(f)
    BY <1>2, <2>1, <2>3 DEF Once
  <2> QED
    BY <1>8, <1>9, <2>1, <2>3, <2>4 DEF IsReply, a, b, d, f
<1>10. CASE sig # <<>>
  <2>0. Len(y) = 1
    BY <1>5, <1>10, Zenon
  <2>1. Len(w) = 3 /\ Len(f) = 4 /\ Len(y) = 1
    <3>1. Len(w) = 2 + Len(y) /\ Len(f) = Len(w) + 1
      BY <1>7, <1>8, Zenon
    <3> QED
      BY <2>0, <3>1
  <2>2. 1 \in 1..2 /\ 2 \in 1..2 /\ 1 \in 1..1 /\ 2 + 1 = 3 /\ 3 + 1 = 4
        /\ 1 \in 1..3 /\ 2 \in 1..3 /\ 3 \in 1..3
    OBVIOUS
  <2>3. w[1] = a /\ w[2] = b /\ w[3] = c
    BY <1>4, <1>5, <1>7, <1>10, <2>1, <2>2, Zenon
  <2>4. f[1] = a /\ f[2] = b /\ f[3] = c /\ f[4] = d
    BY <1>6, <1>8, <2>1, <2>2, <2>3, Zenon
  <2>5. Once(f)
    BY <1>2, <2>1, <2>4 DEF Once
  <2> QED
    BY <1>8, <1>10, <2>1, <2>4, <2>5 DEF IsReply, a, b, c, d, f
<1> QED
  BY <1>9, <1>10

\* What the client keeps of them.
KeptOfReply(f, q, sig) ==
  /\ Kept(f, Len(f), FieldSignature, <<>>) = sig
  /\ Kept(f, Len(f), FieldReplySerial, 0) = q
  /\ Kept(f, Len(f), FieldErrorName, <<>>) = <<>>
  /\ \A j \in 1..Len(f) : f[j][1] # FieldErrorName

LEMMA ReplyKept ==
  ASSUME NEW q \in Nat, NEW sig \in Cells, NEW k \in Nat
  PROVE  KeptOfReply(ReplyFields(q, sig, k), q, sig)
<1> DEFINE f == ReplyFields(q, sig, k)
           n == Len(f)
<1>0. IsReply(f, q, sig, k)
  BY ReplyFieldsFacts
<1> HIDE DEF f
<1>1. /\ Once(f) /\ n = (IF sig = <<>> THEN 3 ELSE 4)
      /\ f[1] = <<FieldDestination, "s", Str(k)>> /\ f[2] = <<FieldReplySerial, "u", q>>
      /\ sig # <<>> => f[3] = <<FieldSignature, "g", sig>>
      /\ f[n] = <<FieldSender, "s", Str(k)>>
  BY <1>0, Zenon DEF IsReply
<1>2. n \in 3..4 /\ n \in 0..Len(f) /\ Len(f) \in Nat
  <2>1. n \in {3, 4}
    BY <1>1, Zenon
  <2> QED
    BY <2>1
<1>3. /\ f[1][1] = 6 /\ f[2][1] = 5 /\ (sig # <<>> => f[3][1] = 8) /\ f[n][1] = 7
  BY <1>1 DEF FieldDestination, FieldReplySerial, FieldSignature, FieldSender
<1>4. f[2][3] = q
  BY <1>1
<1>5. sig # <<>> => f[3][3] = sig
  BY <1>1
<1>6. \A j \in 1..n : j \in {1, 2, n} \/ (j = 3 /\ sig # <<>>)
  BY <1>1, <1>2
<1>7. \A j \in 1..n : f[j][1] # FieldErrorName
  BY <1>3, <1>6 DEF FieldErrorName
<1>8. sig = <<>> => \A j \in 1..n : f[j][1] # FieldSignature
  BY <1>3, <1>6 DEF FieldSignature
<1>9. f[2][1] = FieldReplySerial /\ (sig # <<>> => f[3][1] = FieldSignature)
  BY <1>3 DEF FieldReplySerial, FieldSignature
<1>10. 2 \in 1..n /\ 3 \in 1..n
  BY <1>2
<1>11. \A code, none : /\ \A j \in 1..n : f[j][1] = code => Kept(f, n, code, none) = f[j][3]
                       /\ (\A j \in 1..n : f[j][1] # code) => Kept(f, n, code, none) = none
  BY <1>1, <1>2, KeptFacts
<1> HIDE DEF n
<1>12. Kept(f, n, FieldReplySerial, 0) = q
  BY <1>4, <1>9, <1>10, <1>11
<1>13. Kept(f, n, FieldErrorName, <<>>) = <<>>
  BY <1>7, <1>11
<1>14. Kept(f, n, FieldSignature, <<>>) = sig
  <2>1. CASE sig = <<>>
    BY <1>8, <1>11, <2>1
  <2>2. CASE sig # <<>>
    BY <1>5, <1>9, <1>10, <1>11, <2>2
  <2> QED
    BY <2>1, <2>2
<1> QED
  BY <1>7, <1>12, <1>13, <1>14 DEF KeptOfReply, f, n

\* A field in front of the others adds what it carries and nothing else.
LEMMA KeptBehind ==
  ASSUME NEW f \in Seq(HdrField), Once(f), NEW e \in HdrField,
         \A j \in 1..Len(f) : f[j][1] # e[1]
  PROVE  LET g == <<e>> \o f
         IN  /\ g \in Seq(HdrField) /\ Once(g)
             /\ \A none : Kept(g, Len(g), e[1], none) = e[3]
             /\ \A code, none : code # e[1] =>
                  Kept(g, Len(g), code, none) = Kept(f, Len(f), code, none)
<1> DEFINE x == <<e>>
           g == x \o f
           n == Len(f)
<1>1. x \in Seq(HdrField) /\ Len(x) = 1 /\ x[1] = e
  OBVIOUS
<1> HIDE DEF x
<1>2. /\ g \in Seq(HdrField) /\ n \in Nat /\ Len(g) = 1 + n
      /\ g[1] = e /\ \A i \in 1..n : g[1 + i] = f[i]
  <2>1. /\ g \in Seq(HdrField) /\ n \in Nat /\ Len(g) = Len(x) + Len(f)
        /\ \A i \in 1..Len(x) : g[i] = x[i]
        /\ \A i \in 1..Len(f) : g[Len(x) + i] = f[i]
    BY <1>1, JoinFields, Zenon
  <2>2. 1 \in 1..1
    OBVIOUS
  <2> QED
    BY <1>1, <2>1, <2>2, Zenon
<1> HIDE DEF g
<1>3. \A i \in 1..Len(g) : i = 1 \/ \E j \in 1..n : i = 1 + j
  <2> SUFFICES ASSUME NEW i \in 1..Len(g), i # 1 PROVE \E j \in 1..n : i = 1 + j
    OBVIOUS
  <2>1. i - 1 \in 1..n /\ i = 1 + (i - 1)
    BY <1>2
  <2> QED
    BY <2>1
<1>4. \A j \in 1..n : f[j][1] # e[1]
  OBVIOUS
<1>5. Once(g)
  <2> SUFFICES ASSUME NEW i \in 1..Len(g), NEW j \in 1..Len(g), g[i][1] = g[j][1] PROVE i = j
    BY DEF Once
  <2>1. CASE i = 1 /\ j = 1
    BY <2>1
  <2>2. CASE i = 1 /\ j # 1
    BY <1>2, <1>3, <1>4, <2>2
  <2>3. CASE i # 1 /\ j = 1
    BY <1>2, <1>3, <1>4, <2>3
  <2>4. CASE i # 1 /\ j # 1
    <3>1. PICK k \in 1..n : i = 1 + k
      BY <1>3, <2>4
    <3>2. PICK l \in 1..n : j = 1 + l
      BY <1>3, <2>4
    <3>3. f[k][1] = f[l][1]
      BY <1>2, <3>1, <3>2
    <3>4. k = l
      BY <3>3 DEF Once
    <3> QED
      BY <3>1, <3>2, <3>4
  <2> QED
    BY <2>1, <2>2, <2>3, <2>4
<1>6. Len(g) \in Nat /\ 1 \in 1..Len(g) /\ Len(g) \in 0..Len(g) /\ n \in 0..Len(f) /\ Len(f) \in Nat
  BY <1>2
<1>7. \A none : Kept(g, Len(g), e[1], none) = e[3]
  BY <1>2, <1>5, <1>6, KeptFacts
<1>8. ASSUME NEW code, NEW none, code # e[1]
      PROVE  Kept(g, Len(g), code, none) = Kept(f, n, code, none)
  <2>1. CASE \E j \in 1..n : f[j][1] = code
    <3>1. PICK j \in 1..n : f[j][1] = code
      BY <2>1
    <3>2. Kept(f, n, code, none) = f[j][3]
      BY <1>6, <3>1, KeptFacts
    <3>3. 1 + j \in 1..Len(g) /\ g[1 + j] = f[j]
      BY <1>2
    <3>4. Kept(g, Len(g), code, none) = g[1 + j][3]
      BY <1>5, <1>6, <3>1, <3>3, KeptFacts
    <3> QED
      BY <3>2, <3>3, <3>4
  <2>2. CASE \A j \in 1..n : f[j][1] # code
    <3>1. Kept(f, n, code, none) = none
      BY <1>6, <2>2, KeptFacts
    <3>2. \A i \in 1..Len(g) : g[i][1] # code
      BY <1>2, <1>3, <1>8, <2>2
    <3>3. Kept(g, Len(g), code, none) = none
      BY <1>5, <1>6, <3>2, KeptFacts
    <3> QED
      BY <3>1, <3>3
  <2> QED
    BY <2>1, <2>2
<1> QED
  BY <1>2, <1>5, <1>7, <1>8 DEF g, x

LEMMA SignatureCells == <<>> \in Cells /\ <<"s">> \in Cells /\ <<"v">> \in Cells /\ <<"a", "s">> \in Cells
<1>1. "s" \in Cell /\ "v" \in Cell /\ "a" \in Cell
  BY DEF Cell
<1> QED
  BY <1>1 DEF Cells

\* A reply that carries a value is read back, whatever it carries.
LEMMA ReturnIsRead ==
  ASSUME NEW q \in Nat, NEW k \in Nat, NEW a, a.sig \in Cells, Carries(MsgReturn, a.sig, a.args, a.v)
  PROVE  ReturnRead(q, k, a)
<1> DEFINE f == ReplyFields(q, a.sig, k)
           n == Len(f)
<1>1. /\ f \in Seq(HdrField) /\ Once(f)
  BY ReplyFieldsFacts DEF IsReply
<1>2. /\ Kept(f, n, FieldSignature, <<>>) = a.sig
      /\ Kept(f, n, FieldReplySerial, 0) = q
      /\ Kept(f, n, FieldErrorName, <<>>) = <<>>
  BY ReplyKept DEF KeptOfReply
<1> HIDE DEF f
<1>3. Carries(MsgReturn, Kept(f, n, FieldSignature, <<>>), a.args, a.v)
  BY <1>2
<1> DEFINE number == 9
           type == MsgReturn
           args == a.args
           v == a.v
<1>4. number \in Nat
  OBVIOUS
<1>5. Carries(type, Kept(f, Len(f), FieldSignature, <<>>), args, v)
  BY <1>3
<1> HIDE DEF number, type, args, v
<1>6. ReadMessage(Encode(type, number, f, args)) =
        [ok |-> TRUE, type |-> type, reply_serial |-> Kept(f, Len(f), FieldReplySerial, 0),
         error_name |-> Kept(f, Len(f), FieldErrorName, <<>>), v |-> v]
  BY <1>1, <1>4, <1>5, RepliesAreReadBack
<1> QED
  BY <1>2, <1>6, Zenon DEF ReturnRead, f, number, type, args, v

LEMMA ErrorIsRead ==
  ASSUME NEW q \in Nat, NEW n \in Nat, NEW k \in Nat
  PROVE  ErrorRead(q, n, k)
<1> DEFINE sig == <<"s">>
           f == ReplyFields(q, sig, k)
           e == <<FieldErrorName, "s", Str(k)>>
           g == <<e>> \o f
           args == <<S(n)>>
<1>1. sig \in Cells
  BY SignatureCells
<1>2. Str(k) \in Cells /\ Str(n) \in Cells
  BY StrIsCells
<1>3. e \in HdrField /\ e[1] = FieldErrorName /\ e[3] = Str(k)
  BY <1>2 DEF HdrField, FieldErrorName
<1>4. Carries(MsgError, sig, args, Str(n))
  BY <1>2 DEF Carries, S
<1>5. FieldSignature # FieldErrorName /\ FieldReplySerial # FieldErrorName
  BY DEF FieldSignature, FieldErrorName, FieldReplySerial
<1> HIDE DEF sig, e, args
<1>6. f \in Seq(HdrField) /\ Once(f)
  BY <1>1, ReplyFieldsFacts DEF IsReply
<1>7. /\ Kept(f, Len(f), FieldSignature, <<>>) = sig
      /\ Kept(f, Len(f), FieldReplySerial, 0) = q
      /\ \A j \in 1..Len(f) : f[j][1] # FieldErrorName
  BY <1>1, ReplyKept DEF KeptOfReply
<1> HIDE DEF f
<1>8. \A j \in 1..Len(f) : f[j][1] # e[1]
  BY <1>3, <1>7, Zenon
<1>9. /\ g \in Seq(HdrField) /\ Once(g)
      /\ \A none : Kept(g, Len(g), e[1], none) = e[3]
      /\ \A code, none : code # e[1] =>
           Kept(g, Len(g), code, none) = Kept(f, Len(f), code, none)
  BY <1>3, <1>6, <1>8, KeptBehind, ZenonT(40)
<1> HIDE DEF g
<1>10. /\ g \in Seq(HdrField) /\ Once(g)
       /\ \A none : Kept(g, Len(g), FieldErrorName, none) = e[3]
       /\ \A code, none : code # FieldErrorName =>
            Kept(g, Len(g), code, none) = Kept(f, Len(f), code, none)
  BY <1>3, <1>9, Zenon
<1>11. /\ Kept(g, Len(g), FieldSignature, <<>>) = sig
       /\ Kept(g, Len(g), FieldReplySerial, 0) = q
       /\ Kept(g, Len(g), FieldErrorName, <<>>) = Str(k)
  BY <1>3, <1>5, <1>7, <1>10, Zenon
<1>12. Carries(MsgError, Kept(g, Len(g), FieldSignature, <<>>), args, Str(n))
  BY <1>4, <1>11, Zenon
<1> DEFINE number == 9
           type == MsgError
           v == Str(n)
<1>13. number \in Nat /\ Carries(type, Kept(g, Len(g), FieldSignature, <<>>), args, v)
  BY <1>12
<1> HIDE DEF number, type, v
<1>14. ReadMessage(Encode(type, number, g, args)) =
        [ok |-> TRUE, type |-> type, reply_serial |-> Kept(g, Len(g), FieldReplySerial, 0),
         error_name |-> Kept(g, Len(g), FieldErrorName, <<>>), v |-> v]
  BY <1>10, <1>13, RepliesAreReadBack
<1> QED
  BY <1>11, <1>14, Zenon DEF ErrorRead, g, e, f, args, sig, number, type, v

\* The replies of the interface carry their values.
LEMMA RepliesCarry ==
  ASSUME NEW n \in Nat, NEW k \in Nat, NEW i \in DOMAIN Replies(n, k)
  PROVE  LET a == Replies(n, k)[i]
         IN  a.sig \in Cells /\ Carries(MsgReturn, a.sig, a.args, a.v)
<1> DEFINE Fit(a) == a.sig \in Cells /\ Carries(MsgReturn, a.sig, a.args, a.v)
           none == <<>>
           both == <<Str(n), Str(k)>>
           a1 == [sig |-> none, args |-> none, v |-> none]
           a2 == [sig |-> <<"s">>, args |-> <<S(n)>>, v |-> Str(n)]
           a3 == [sig |-> <<"v">>, args |-> <<[type |-> "v", v |-> Str(n)]>>, v |-> Str(n)]
           a4 == [sig |-> <<"a", "s">>, args |-> <<[type |-> "as", v |-> none]>>, v |-> none]
           a5 == [sig |-> <<"a", "s">>, args |-> <<[type |-> "as", v |-> both]>>, v |-> both]
<1>1. Str(n) \in Cells /\ Str(k) \in Cells
  BY StrIsCells
<1>2. none \in Seq(Cells) /\ both \in Seq(Cells)
  BY <1>1
<1>3. Fit(a1)
  BY SignatureCells DEF Carries
<1>4. Fit(a2)
  BY <1>1, SignatureCells DEF Carries, S
<1>5. Fit(a3)
  BY <1>1, SignatureCells DEF Carries
<1>6. Fit(a4)
  BY <1>2, SignatureCells DEF Carries
<1> HIDE DEF both
<1>7. Fit(a5)
  BY <1>2, SignatureCells DEF Carries
<1>8. Replies(n, k) = <<a1, a2, a3, a4, a5>>
  BY Zenon DEF Replies, both
<1> HIDE DEF Fit, a1, a2, a3, a4, a5
<1>9. Replies(n, k)[i] \in {a1, a2, a3, a4, a5}
  BY <1>8
<1>10. Fit(Replies(n, k)[i])
  BY <1>3, <1>4, <1>5, <1>6, <1>7, <1>9
<1> QED
  BY <1>10 DEF Fit

(* The client reads back every answer to the call that it waits for, with   *)
(* the number of the call and the error's name, whatever the lengths of the *)
(* strings that the daemon and the bus put in.                              *)
THEOREM RepliesUnderstood == Spec => []ReplyUnderstood
<1>1. Init => Paced
  BY DEF Init, Paced
<1>2. IInv /\ Paced => ReplyUnderstood
  <2> SUFFICES ASSUME IInv, Paced, pc = "rest"
               PROVE  ReadFaults[serial] = {}
    BY DEF ReplyUnderstood
  <2> DEFINE q == serial
  <2>1. q \in Serials
    BY CallFacts
  <2>2. q \in Nat
    BY <2>1 DEF Serials
  <2> HIDE DEF q
  <2>3. ASSUME NEW p \in Lengths \X Lengths
        PROVE  /\ \A i \in DOMAIN Replies(p[1], p[2]) : ReturnRead(q, p[2], Replies(p[1], p[2])[i])
               /\ ErrorRead(q, p[1], p[2])
    <3> DEFINE n == p[1]
               k == p[2]
    <3>1. n \in Nat /\ k \in Nat
      BY MaxLenAssumption DEF Lengths
    <3> HIDE DEF n, k
    <3>2. ErrorRead(q, n, k)
      BY <2>2, <3>1, ErrorIsRead
    <3>3. ASSUME NEW i \in DOMAIN Replies(n, k) PROVE ReturnRead(q, k, Replies(n, k)[i])
      <4> DEFINE a == Replies(n, k)[i]
      <4>1. a.sig \in Cells /\ Carries(MsgReturn, a.sig, a.args, a.v)
        BY <3>1, RepliesCarry
      <4> HIDE DEF a
      <4>2. ReturnRead(q, k, a)
        BY <2>2, <3>1, <4>1, ReturnIsRead
      <4> QED
        BY <4>2 DEF a
    <3> QED
      BY <3>2, <3>3 DEF n, k
  <2>4. ReadFaults[q] =
          {p \in Lengths \X Lengths :
             \/ \E i \in DOMAIN Replies(p[1], p[2]) : ~ReturnRead(q, p[2], Replies(p[1], p[2])[i])
             \/ ~ErrorRead(q, p[1], p[2])}
    BY <2>1 DEF ReadFaults
  <2>5. ReadFaults[q] = {}
    BY <2>3, <2>4, Zenon
  <2> QED
    BY <2>5 DEF q
<1> QED
  BY <1>1, <1>2, PacedNext, Invariance, PTL DEF Spec
=============================================================================
