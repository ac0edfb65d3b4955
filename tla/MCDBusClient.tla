---------------------------- MODULE MCDBusClient ----------------------------
(* Model checking of the D-Bus client with its wire format. *)
EXTENDS DBusClient, Wire

CONSTANTS MaxLen     \* bound: length of the strings given by the user
ASSUME MaxLenAssumption == MaxLen \in Nat

Str(n) == [i \in 1..n |-> "c"]
Lengths == 0..MaxLen

S(n) == [type |-> "s", v |-> Str(n)]

\* The lengths of the names are the lengths of the names in the code.
MemberLength(method) ==
  CASE method = "Hello" -> 5
    [] method = "resolve" -> 11
    [] method = "ListDevices" -> 11
    [] method = "GetStatus" -> 9
    [] method = "SetProfile" -> 10
    [] method = "MapButton" -> 9
    [] method = "ResetButtons" -> 12
    [] method = "SetScrollSpeed" -> 14
    [] method = "SetSensitivity" -> 14
    [] method = "Reload" -> 6

Arguments(method, n, k) ==
  CASE method \in {"Hello", "resolve", "ListDevices", "Reload"} -> <<>>
    [] method \in {"GetStatus", "ResetButtons"} -> <<S(n)>>
    [] method = "SetProfile" -> <<S(n), S(k)>>
    [] method = "MapButton" -> <<S(n), S(k), S(n + k)>>
    [] method \in {"SetScrollSpeed", "SetSensitivity"} ->
         <<S(n), [type |-> "d", v |-> k]>>

Request(method, n, k) ==
  IF method = "Hello"
  THEN [dest |-> Str(20), path |-> Str(21), iface |-> Str(20),
        member |-> Str(5), args |-> <<>>]
  ELSE [dest |-> Str(11), path |-> Str(20), iface |-> Str(19),
        member |-> Str(MemberLength(method)), args |-> Arguments(method, n, k)]

Methods ==
  (UNION {{Script(c)[i] : i \in DOMAIN Script(c)} : c \in Invocations}) \ {"load"}

\* A command makes at most three calls.
Serials == 1..3

\* The lengths for which the call is not the message that is prescribed.
MarshalFaults ==
  [method \in Methods |-> [s \in Serials |->
     {p \in Lengths \X Lengths :
        build_call(s, Request(method, p[1], p[2]))
          # EncodedCall(s, Request(method, p[1], p[2]))}]]

(* The message build_call makes of the request that is about to be sent is *)
(* the one the D-Bus specification prescribes, byte for byte, whatever the *)
(* lengths of its strings: the bus finds the fields, the body and the next *)
(* message where they are.                                                 *)
RequestUnderstood ==
  pc = "send" /\ Current # "load" => MarshalFaults[Current][serial + 1] = {}

\* The values a reply may carry, by its signature.
Replies(n, k) ==
  << [sig |-> <<>>, args |-> <<>>, v |-> <<>>],
     [sig |-> <<"s">>, args |-> <<S(n)>>, v |-> Str(n)],
     [sig |-> <<"v">>, args |-> <<[type |-> "v", v |-> Str(n)]>>, v |-> Str(n)],
     [sig |-> <<"a", "s">>, args |-> <<[type |-> "as", v |-> <<>>]>>, v |-> <<>>],
     [sig |-> <<"a", "s">>, args |-> <<[type |-> "as", v |-> <<Str(n), Str(k)>>]>>,
     v |-> <<Str(n), Str(k)>>] >>

\* The fields of a reply in the order the reference bus sends them.
ReplyFields(q, sig, n) ==
  << <<FieldDestination, "s", Str(n)>>, <<FieldReplySerial, "u", q>> >>
  \o (IF sig = <<>> THEN <<>> ELSE << <<FieldSignature, "g", sig>> >>)
  \o << <<FieldSender, "s", Str(n)>> >>

ReturnRead(q, k, a) ==
  ReadMessage(Encode(MsgReturn, 9, ReplyFields(q, a.sig, k), a.args))
    = [ok |-> TRUE, type |-> MsgReturn, reply_serial |-> q, error_name |-> <<>>, v |-> a.v]

ErrorRead(q, n, k) ==
  ReadMessage(Encode(MsgError, 9,
                     << <<FieldErrorName, "s", Str(k)>> >> \o ReplyFields(q, <<"s">>, k), <<S(n)>>))
    = [ok |-> TRUE, type |-> MsgError, reply_serial |-> q, error_name |-> Str(k), v |-> Str(n)]

\* The lengths for which a reply is not read back as it was sent.
ReadFaults ==
  [s \in Serials |->
     {p \in Lengths \X Lengths :
        \/ \E i \in DOMAIN Replies(p[1], p[2]) : ~ReturnRead(s, p[2], Replies(p[1], p[2])[i])
        \/ ~ErrorRead(s, p[1], p[2])}]

(* Every reply that the specification allows for the types of the          *)
(* interface is read back as what was sent, with the serial it answers:    *)
(* the client understands every answer to the call it waits for.           *)
ReplyUnderstood ==
  pc = "rest" /\ stream = <<>> => ReadFaults[serial] = {}

\* The reference encoding has the size of the messages kept in the repository's tests.
ASSUME GoldenSizes ==
  /\ Len(EncodedCall(1, Request("Hello", 0, 0))) = 128
  /\ Len(EncodedCall(2, Request("SetScrollSpeed", 5, 2))) = 160
  /\ Len(EncodedCall(2, Request("GetStatus", 17, 0))) = 158
  /\ Len(EncodedCall(2, Request("Reload", 0, 0))) = 120
=============================================================================
