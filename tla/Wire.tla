-------------------------------- MODULE Wire --------------------------------
(***************************************************************************)
(* The wire format of the D-Bus client (tools/src/dbus_client.c).          *)
(*                                                                         *)
(* A buffer is a sequence of cells, one per byte.  What a byte holds is    *)
(* abstracted: a number stands in the first of its bytes and Rest fills    *)
(* the others, a string is a sequence of characters none of which is 0.    *)
(* Lengths and alignments are kept exactly, they are what the format is    *)
(* about.                                                                  *)
(*                                                                         *)
(* The first half is the writer (build_call) and the reader (bus_call) of  *)
(* the client.  The second half is the format as the D-Bus specification   *)
(* gives it, the reference the two are checked against.                    *)
(***************************************************************************)
EXTENDS Integers, Sequences

Rest == "rest"
Zeros(n) == [i \in 1..n |-> 0]
Padding(n, align) == (align - (n % align)) % align

U32(v) == <<v>> \o [i \in 1..3 |-> Rest]
U64(v) == <<v>> \o [i \in 1..7 |-> Rest]

MsgCall == 1
MsgReturn == 2
MsgError == 3
MsgSignal == 4

FieldPath == 1
FieldInterface == 2
FieldMember == 3
FieldErrorName == 4
FieldReplySerial == 5
FieldDestination == 6
FieldSender == 7
FieldSignature == 8

-----------------------------------------------------------------------------
(* struct wb: the bytes, and how many there were before the last padding.  *)

EmptyWb == [b |-> <<>>, nodepad |-> 0]

wb_put(w, cells) ==
  [b |-> w.b \o cells, nodepad |-> Len(w.b) + Len(cells)]

\* Mutant: the padding counts as content.
WbPadCounted(w, align) ==
  wb_put(w, Zeros(Padding(Len(w.b), align)))

wb_pad(w, align) ==
  [b |-> w.b \o Zeros(Padding(Len(w.b), align)), nodepad |-> Len(w.b)]

wb_str(w, s) == wb_pad(wb_put(w, U32(Len(s)) \o s \o <<0>>), 4)

wb_sig(w, s) == wb_put(w, <<Len(s)>> \o s \o <<0>>)

body_add_arg(w, a) ==
  CASE a.type = "s" -> wb_str(wb_pad(w, 4), a.v)
    [] a.type = "d" -> wb_put(wb_pad(w, 8), U64(a.v))
    [] a.type = "u" -> wb_put(wb_pad(w, 4), U32(a.v))

\* The header fields of a call are an object path, strings and a signature.
hdr_field(w, code, sig, s) ==
  LET h == wb_put(wb_pad(w, 8), <<code, 1, sig, 0>>)
  IN IF sig = "g" THEN wb_sig(h, s) ELSE wb_str(wb_pad(h, 4), s)

Signature(args) == [i \in DOMAIN args |-> args[i].type]

\* The loop over the arguments.
Body(args) ==
  LET after[i \in 0..Len(args)] ==
        IF i = 0 THEN EmptyWb ELSE body_add_arg(after[i - 1], args[i])
  IN after[Len(args)]

FixedHeader(type, body_len, serial, fields_len) ==
  <<"l", type, 0, 1>> \o U32(body_len) \o U32(serial) \o U32(fields_len)

(* A request names its destination, path, interface and member and has a   *)
(* sequence of typed arguments.                                            *)
HeaderFields(w, r) ==
  LET path == hdr_field(w, FieldPath, "o", r.path)
      iface == hdr_field(path, FieldInterface, "s", r.iface)
      member == hdr_field(iface, FieldMember, "s", r.member)
      dest == hdr_field(member, FieldDestination, "s", r.dest)
  IN IF r.args = <<>> THEN dest
     ELSE hdr_field(dest, FieldSignature, "g", Signature(r.args))

build_call(serial, r) ==
  LET body == Body(r.args)
      start == FixedHeader(MsgCall, body.nodepad, serial, 0)
      hdr == HeaderFields(wb_put(EmptyWb, start), r)
      patched == [hdr.b EXCEPT ![13] = hdr.nodepad - 16]
  IN wb_pad([b |-> patched, nodepad |-> hdr.nodepad], 8).b
       \o SubSeq(body.b, 1, body.nodepad)

-----------------------------------------------------------------------------
(* The reader.  Positions count from 0, as in the code.                    *)

At(msg, p) == msg[p + 1]
Malformed == [ok |-> FALSE]

\* A pointer moved to its alignment, never past the end of the slice.
rd_pad(p, end, align) ==
  IF p + Padding(p, align) < end THEN p + Padding(p, align) ELSE end

rd_u32(msg, p, end) ==
  IF p + 4 > end THEN Malformed ELSE [ok |-> TRUE, v |-> At(msg, p), next |-> p + 4]

\* Mutant: a string that ends where the slice ends is refused.
RdStrOffByOne(msg, p, end) ==
  IF p + 4 > end \/ At(msg, p) > end - p - 6 THEN Malformed
  ELSE LET len == At(msg, p)
       IN IF At(msg, p + 4 + len) # 0 THEN Malformed
          ELSE [ok |-> TRUE, v |-> SubSeq(msg, p + 5, p + 4 + len),
                next |-> rd_pad(p + 5 + len, end, 4)]

\* rd_str and the string case of parse_header_fields: value and next position.
rd_str(msg, p, end) ==
  IF p + 4 > end \/ At(msg, p) > end - p - 5 THEN Malformed
  ELSE LET len == At(msg, p)
       IN IF At(msg, p + 4 + len) # 0 THEN Malformed
          ELSE [ok |-> TRUE, v |-> SubSeq(msg, p + 5, p + 4 + len),
                next |-> rd_pad(p + 5 + len, end, 4)]

\* The value of a header field, by the type it is announced with.
FieldValue(msg, sig, p, fend) ==
  CASE sig \in {"s", "o"} -> rd_str(msg, rd_pad(p, fend, 4), fend)
    [] sig = "u" -> rd_u32(msg, rd_pad(p, fend, 4), fend)
    [] sig = "g" /\ p + 1 <= fend /\ p + At(msg, p) + 2 <= fend ->
         [ok |-> TRUE, v |-> SubSeq(msg, p + 2, p + 1 + At(msg, p)),
          next |-> p + At(msg, p) + 2]
    [] OTHER -> Malformed

\* Every code has the type the specification gives it; a later field of the
\* same code overwrites an earlier one.
TakeField(st, code, value) ==
  CASE ~value.ok -> [st EXCEPT !.ok = FALSE]
    [] code = FieldErrorName -> [st EXCEPT !.fp = value.next, !.error_name = value.v]
    [] code = FieldSignature -> [st EXCEPT !.fp = value.next, !.sig = value.v]
    [] code = FieldReplySerial -> [st EXCEPT !.fp = value.next, !.reply_serial = value.v]
    [] OTHER -> [st EXCEPT !.fp = value.next]

HeaderField(st, msg, p, fend) ==
  IF p + 4 > fend \/ At(msg, p + 1) # 1 \/ At(msg, p + 3) # 0
  THEN [st EXCEPT !.ok = FALSE]
  ELSE TakeField(st, At(msg, p), FieldValue(msg, At(msg, p + 2), p + 4, fend))

NoFields == [ok |-> TRUE, fp |-> 16, error_name |-> <<>>, sig |-> <<>>, reply_serial |-> 0]

\* The loop over the fields, which start at multiples of 8; each takes at
\* least 8 bytes up to the next.
NextField(st, msg, fend) ==
  IF st.fp >= fend \/ ~st.ok THEN st
  ELSE HeaderField(st, msg, rd_pad(st.fp, fend, 8), fend)

parse_header_fields(msg, fend) ==
  LET rounds == (fend - 16) \div 8 + 1
      after[i \in 0..rounds] ==
        IF i = 0 THEN NoFields ELSE NextField(after[i - 1], msg, fend)
  IN after[rounds]

\* The strings of an array up to its end; each takes at least 5 bytes.
NextString(st, msg, end) ==
  IF st.next >= end \/ ~st.ok THEN st
  ELSE LET s == rd_str(msg, st.next, end)
       IN IF s.ok THEN [ok |-> TRUE, v |-> Append(st.v, s.v), next |-> s.next]
          ELSE Malformed

ReadStrings(msg, p, end) ==
  LET rounds == (end - p) \div 5
      after[i \in 0..rounds] ==
        IF i = 0 THEN [ok |-> TRUE, v |-> <<>>, next |-> p]
        ELSE NextString(after[i - 1], msg, end)
  IN after[rounds]

(* The body of a reply: a string, an array of strings or a variant that    *)
(* holds a string; it starts at a multiple of 8.                           *)
rd_value(msg, p, end, sig) ==
  CASE sig = <<"s">> -> rd_str(msg, p, end)
    [] sig = <<"a", "s">> /\ p + 4 <= end /\ At(msg, p) <= end - p - 4 ->
         ReadStrings(msg, p + 4, p + 4 + At(msg, p))
    [] sig = <<"v">> /\ p + 3 <= end /\ At(msg, p) = 1 /\ At(msg, p + 1) = "s" ->
         rd_str(msg, rd_pad(p + 3, end, 4), end)
    [] OTHER -> Malformed

\* The value of a reply, or the text of an error; a call may return nothing.
BodyValue(msg, p, sig) ==
  CASE At(msg, 1) = MsgError -> rd_str(msg, p, Len(msg))
    [] At(msg, 1) = MsgReturn /\ sig # <<>> -> rd_value(msg, p, Len(msg), sig)
    [] OTHER -> [ok |-> TRUE, v |-> <<>>, next |-> Len(msg)]

\* The body has to be used up by what its signature says.
Reply(msg, h, value) ==
  IF h.ok /\ value.ok /\ value.next = Len(msg)
  THEN [ok |-> TRUE, type |-> At(msg, 1), reply_serial |-> h.reply_serial,
        error_name |-> h.error_name, v |-> value.v]
  ELSE Malformed

ReadBody(msg, h, p) == Reply(msg, h, BodyValue(msg, p, h.sig))

(* A whole message as the reading half of bus_call takes it from the       *)
(* stream: the rest has the length that the fixed header announces.        *)
ReadMessage(msg) ==
  LET fend == 16 + At(msg, 12)
      body == fend + Padding(fend, 8)
  IN IF At(msg, 0) = "l" /\ Len(msg) = body + At(msg, 4)
     THEN ReadBody(msg, parse_header_fields(msg, fend), body)
     ELSE Malformed

-----------------------------------------------------------------------------
(* The D-Bus specification: every value starts at a multiple of its        *)
(* alignment, counted from the start of the message; lengths count neither *)
(* the padding before the first nor the padding after the last value.      *)

Place(b, align, cells) == b \o Zeros(Padding(Len(b), align)) \o cells

StrCells(s) == U32(Len(s)) \o s \o <<0>>
ArrayCells(strs) ==
  LET after[i \in 0..Len(strs)] ==
        IF i = 0 THEN <<>> ELSE Place(after[i - 1], 4, StrCells(strs[i]))
  IN after[Len(strs)]

TypedValue(b, t, v) ==
  CASE t \in {"s", "o"} -> Place(b, 4, StrCells(v))
    [] t = "u" -> Place(b, 4, U32(v))
    [] t = "d" -> Place(b, 8, U64(v))
    [] t = "g" -> b \o <<Len(v)>> \o v \o <<0>>
    [] t = "v" -> Place(b \o <<1, "s", 0>>, 4, StrCells(v))
    [] t = "as" -> Place(b, 4, U32(Len(ArrayCells(v))) \o ArrayCells(v))

(* fields: sequence of <<code, type, value>>; args: sequence of typed      *)
(* values.                                                                 *)
Field(b, f) == TypedValue(Place(b, 8, <<f[1], 1, f[2], 0>>), f[2], f[3])

AllFields(fields) ==
  LET after[i \in 0..Len(fields)] ==
        IF i = 0 THEN Zeros(16) ELSE Field(after[i - 1], fields[i])
  IN after[Len(fields)]

AllValues(args) ==
  LET after[i \in 0..Len(args)] ==
        IF i = 0 THEN <<>> ELSE TypedValue(after[i - 1], args[i].type, args[i].v)
  IN after[Len(args)]

Encode(type, serial, fields, args) ==
  LET body == AllValues(args)
      all == AllFields(fields)
  IN FixedHeader(type, Len(body), serial, Len(all) - 16)
       \o SubSeq(all, 17, Len(all)) \o Zeros(Padding(Len(all), 8)) \o body

EncodedCall(serial, r) ==
  Encode(MsgCall, serial,
         << <<FieldPath, "o", r.path>>, <<FieldInterface, "s", r.iface>>,
            <<FieldMember, "s", r.member>>, <<FieldDestination, "s", r.dest>> >>
         \o IF r.args = <<>> THEN <<>>
            ELSE << <<FieldSignature, "g", Signature(r.args)>> >>,
         r.args)
=============================================================================
