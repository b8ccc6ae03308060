------------------------------ MODULE RpcCodec ------------------------------
(***************************************************************************)
(* The JSON codec both ends of JSON-RPC share                              *)
(* (http_common/rpc/crpc_json.c): the encoders of a request, a result and  *)
(* an error around the token writer their callbacks drive, the depth check *)
(* in front of every parse, and the reading of numbers as 64-bit integers. *)
(* A behaviour encodes one message token by token, or reads one number     *)
(* that grows by a character a step.  Member names of the envelope are     *)
(* empty strings and its id is the literal n: only their structure counts. *)
(***************************************************************************)
EXTENDS Integers, Sequences, SequencesExt, FiniteSets, FiniteSetsExt

CONSTANTS MaxDepth,    \* max_json_depth
          EncodeLimit, \* max_body_bytes
          Methods,     \* methods called: [qualified, service, name]; not qualified: service NULL
          MethodLimit, \* max_method_bytes
          Tokens,      \* tokens an encoder writes: [kind, text]
          MaxTokens,   \* bound on a value's tokens
          NumberChars, \* characters of a number's text
          MaxText,     \* bound on its length
          MaxUint,     \* UINT64_MAX
          DigitCap,    \* the decimal digits of UINT64_MAX
          SizeMax      \* SIZE_MAX

ASSUME CodecAssumption ==
  /\ MaxDepth \in Nat /\ MaxDepth >= 2 /\ MaxUint \in Nat
  /\ 10 ^ (DigitCap - 1) <= MaxUint /\ MaxUint < 10 ^ DigitCap

VARIABLES task,  \* "request", "bare" (no params), "result", "error" or "number"
          enc,   \* crpc_json_writer_context and its crpc_buffer
          method, \* the method of a request
          read,  \* history: two readers of the output, the depth check and JSON's grammar
          text   \* the number read so far

codecVars == <<task, method, enc, read, text>>

NewWriter == [frames |-> <<>>, out |-> <<>>, root |-> FALSE, structured |-> FALSE, written |-> 0, status |-> "OK", open |-> FALSE, done |-> FALSE]
NewDepth == [ok |-> TRUE, depth |-> 0, quoted |-> FALSE, escaped |-> FALSE]
NewJson == [stack |-> <<>>, want |-> "value", iskey |-> FALSE, escape |-> FALSE]
CodecInit ==
  /\ task \in {"request", "bare", "result", "error", "number"} /\ text = <<>>
  /\ enc = NewWriter /\ read = [depth |-> NewDepth, json |-> NewJson]
  /\ method \in IF task \in {"request", "bare"} THEN Methods ELSE {[qualified |-> FALSE, service |-> <<>>, name |-> <<>>]}

-----------------------------------------------------------------------------
(* The receiving end *)

\* crpc_json_depth_valid, one byte
DepthStep(d, ch, limit) ==
  CASE ~d.ok -> d
    [] d.ok /\ d.quoted /\ d.escaped -> [d EXCEPT !.escaped = FALSE]
    [] d.ok /\ d.quoted /\ ~d.escaped -> [d EXCEPT !.escaped = (ch = "\\"), !.quoted = (ch # "\"")]
    [] d.ok /\ ~d.quoted /\ ch = "\"" -> [d EXCEPT !.quoted = TRUE]
    [] d.ok /\ ~d.quoted /\ ch \in {"{", "["} -> IF d.depth = limit THEN [d EXCEPT !.ok = FALSE] ELSE [d EXCEPT !.depth = @ + 1]
    [] d.ok /\ ~d.quoted /\ ch \in {"}", "]"} -> IF d.depth = 0 THEN [d EXCEPT !.ok = FALSE] ELSE [d EXCEPT !.depth = @ - 1]
    [] OTHER -> d

\* JSON as a pushdown recogniser, the reference for what the writer may emit
JsonStep(j, ch) ==
  LET top == IF j.stack = <<>> THEN "root" ELSE j.stack[Len(j.stack)]
      after == [j EXCEPT !.want = IF top = "root" THEN "end" ELSE "more"]
  IN  CASE j.want = "bad" -> j
        [] j.want = "string" -> IF j.escape THEN [j EXCEPT !.escape = FALSE] ELSE IF ch = "\\" THEN [j EXCEPT !.escape = TRUE]
                                ELSE IF ch = "\"" THEN [j EXCEPT !.want = IF j.iskey THEN "colon" ELSE after.want, !.iskey = FALSE] ELSE j
        [] j.want \in {"key", "keyOrEnd"} /\ ch = "name" -> [j EXCEPT !.want = "value"]
        [] j.want = "colon" /\ ch = ":" -> [j EXCEPT !.want = "value"]
        [] j.want \in {"key", "keyOrEnd"} /\ ch = "\"" -> [j EXCEPT !.want = "string", !.iskey = TRUE]
        [] j.want \in {"value", "valueOrEnd"} /\ ch = "\"" -> [j EXCEPT !.want = "string"]
        [] j.want \in {"value", "valueOrEnd"} /\ ch = "n" -> after
        [] j.want \in {"value", "valueOrEnd"} /\ ch \in {"[", "{"} ->
             [j EXCEPT !.stack = Append(@, ch), !.want = IF ch = "[" THEN "valueOrEnd" ELSE "keyOrEnd"]
        [] \/ ch = "]" /\ top = "[" /\ j.want \in {"valueOrEnd", "more"}
           \/ ch = "}" /\ top = "{" /\ j.want \in {"keyOrEnd", "more"} ->
             [j EXCEPT !.stack = Front(@), !.want = IF Len(j.stack) = 1 THEN "end" ELSE "more"]
        [] j.want = "more" /\ ch = "," -> [j EXCEPT !.want = IF top = "[" THEN "value" ELSE "key"]
        [] OTHER -> [j EXCEPT !.want = "bad"]

\* What the readers make of the bytes a step of the encoder adds
Emits(w) ==
  LET from == Len(enc.out)
      depth[i \in from..Len(w.out)] == IF i = from THEN read.depth ELSE DepthStep(depth[i - 1], w.out[i], MaxDepth)
      json[i \in from..Len(w.out)] == IF i = from THEN read.json ELSE JsonStep(json[i - 1], w.out[i])
  IN  /\ enc' = w
      /\ read' = [depth |-> depth[Len(w.out)], json |-> json[Len(w.out)]]

-----------------------------------------------------------------------------
(* The writer *)

\* crpc_buffer_reserve and crpc_buffer_append: all or nothing within the limit
AppendTo(w, chars) ==
  IF w.status # "OK" THEN w
  ELSE IF Len(w.out) + Len(chars) > EncodeLimit THEN [w EXCEPT !.status = "LIMIT"]
  ELSE [w EXCEPT !.out = @ \o chars]

\* crpc_json_string_contents: quotes, backslashes and control characters are
\* escaped; "bad" is a byte that is not UTF-8
Escaped(ch) == CASE ch = "\"" -> <<"\\", "\"">> [] ch = "\\" -> <<"\\", "\\">> [] ch = "ctl" -> <<"\\", "u", "0", "0", "1", "f">> [] OTHER -> <<ch>>
Utf8(chars) == \A i \in 1..Len(chars) : chars[i] # "bad"
StringContents(w, chars) ==
  IF w.status = "OK" /\ ~Utf8(chars) THEN [w EXCEPT !.status = "UNSUPPORTED"]
  ELSE AppendTo(w, FlattenSeq([i \in 1..Len(chars) |-> Escaped(chars[i])]))
StringOut(w, chars) == AppendTo(StringContents(AppendTo(w, <<"\"">>), chars), <<"\"">>)

Frame(w) == w.frames[Len(w.frames)]
SetFrame(w, f) == [w EXCEPT !.frames[Len(w.frames)] = f]

\* the constant text of an envelope: its first member and a later one, each with
\* its quoted name and colon as one item
Member == <<"{", "name">>
NextMember == <<",", "name">>

\* crpc_json_prepare_value
PrepareValue(w) ==
  IF w.frames = <<>> THEN IF w.root THEN [w EXCEPT !.status = "INVALID_TOKEN"] ELSE [w EXCEPT !.root = TRUE]
  ELSE IF Frame(w).kind = "array" THEN SetFrame(IF Frame(w).count # 0 THEN AppendTo(w, <<",">>) ELSE w, [Frame(w) EXCEPT !.count = @ + 1])
  ELSE IF Frame(w).key THEN [w EXCEPT !.status = "INVALID_TOKEN"]
  ELSE SetFrame(w, [Frame(w) EXCEPT !.key = TRUE, !.count = @ + 1])

\* crpc_json_writer_write, by the kind of token
WriteKey(w, t) ==
  IF t.kind # "string" THEN [w EXCEPT !.status = "INVALID_TOKEN"]
  ELSE LET k == AppendTo(StringOut(IF Frame(w).count # 0 THEN AppendTo(w, <<",">>) ELSE w, t.text), <<":">>)
       IN  IF k.status = "OK" THEN SetFrame(k, [Frame(k) EXCEPT !.key = FALSE]) ELSE k
WriteEnd(w, t) ==
  IF w.frames = <<>> THEN [w EXCEPT !.status = "INVALID_TOKEN"]
  ELSE IF Frame(w).kind # t.text \/ (Frame(w).kind = "map" /\ ~Frame(w).key) THEN [w EXCEPT !.status = "INVALID_TOKEN"]
  ELSE LET e == AppendTo(w, IF t.text = "array" THEN <<"]">> ELSE <<"}">>)
       IN  IF e.status = "OK" THEN [e EXCEPT !.frames = Front(@)] ELSE e
WriteBegin(w, t, limit) ==
  IF w.status # "OK" THEN w
  ELSE IF Len(w.frames) >= limit THEN [w EXCEPT !.status = "LIMIT"]
  ELSE LET b == AppendTo(w, IF t.text = "array" THEN <<"[">> ELSE <<"{">>)
       IN  IF b.status # "OK" THEN b
           ELSE [b EXCEPT !.frames = Append(@, [kind |-> t.text, count |-> 0, key |-> t.text = "map"]),
                          !.structured = @ \/ b.frames = <<>>]
WriteScalar(w, t) ==
  IF w.status # "OK" THEN w
  ELSE CASE t.kind = "string"  -> StringOut(w, t.text)
         [] t.kind = "literal" -> AppendTo(w, t.text)
         [] t.kind = "bytes"   -> [w EXCEPT !.status = "UNSUPPORTED"]
WriteToken(w, t, limit) ==
  CASE w.frames # <<>> /\ Frame(w).kind = "map" /\ Frame(w).key /\ ~(t.kind = "end" /\ t.text = "map") -> WriteKey(w, t)
    [] t.kind = "end" -> WriteEnd(w, t)
    [] t.kind = "begin" -> WriteBegin(PrepareValue(w), t, limit)
    [] OTHER -> WriteScalar(PrepareValue(w), t)

\* the levels of an envelope around the value its encoder writes
Envelope == IF task = "error" THEN 2 ELSE 1

\* A fault: an error's data may be as deep as a result.
ValueDepthSame == MaxDepth - 1

ValueDepth == MaxDepth - Envelope

\* crpc_method_reserved: the first four bytes of the combined name
MethodReserved(m) ==
  LET ss == Len(m.service)
      Has(i) == IF m.service = <<>> THEN i <= Len(m.name) ELSE i <= ss + 1 \/ i - ss - 1 <= Len(m.name)
      Byte(i) == IF m.service = <<>> THEN m.name[i]
                 ELSE IF i <= ss THEN m.service[i] ELSE IF i = ss + 1 THEN "." ELSE m.name[i - ss - 1]
  IN  (\A i \in 1..4 : Has(i)) /\ \A i \in 1..4 : Byte(i) = <<"r", "p", "c", ".">>[i]

\* crpc_method_validate
MethodValidate(m) ==
  CASE Len(m.name) > MethodLimit -> "EMSGSIZE"
    [] Len(m.name) <= MethodLimit /\ (m.name = <<>> \/ ~Utf8(m.name)) -> "EINVAL"
    [] OTHER -> IF m.service # <<>> /\ Len(m.service) > MethodLimit THEN "EMSGSIZE"
                ELSE IF m.qualified /\ (m.service = <<>> \/ ~Utf8(m.service)) THEN "EINVAL"
                ELSE IF m.service # <<>> /\ (Len(m.service) >= MethodLimit \/ Len(m.name) > MethodLimit - Len(m.service) - 1) THEN "EMSGSIZE"
                ELSE IF MethodReserved(m) THEN "EPERM" ELSE "OK"

\* the head of crpc_json_encode_request, of encode_result and of encode_error
EncodeRequestHead(w) ==
  LET named == StringContents(AppendTo(IF method.service = <<>> THEN AppendTo(w, Member \o <<"\"">>)
                                       ELSE StringContents(AppendTo(w, Member \o <<"\"">>), method.service),
                                       IF method.service = <<>> THEN <<>> ELSE <<".">>), method.name)
      headed == AppendTo(named, <<"\"">>)
  IN  IF task = "request" THEN AppendTo(headed, NextMember) ELSE headed
EncodeResultHead(w) == AppendTo(w, Member)
EncodeErrorHead(w) == AppendTo(StringOut(AppendTo(w, Member \o Member \o <<"n">> \o NextMember), <<"\"">>), NextMember)
EncodeStart ==
  /\ task # "number" /\ ~enc.open /\ enc.status = "OK"
  /\ Emits(IF task \in {"request", "bare"}
           THEN IF MethodValidate(method) # "OK" THEN [enc EXCEPT !.status = MethodValidate(method)]
                ELSE [EncodeRequestHead(enc) EXCEPT !.open = TRUE]
           ELSE [IF task = "result" THEN EncodeResultHead(enc) ELSE EncodeErrorHead(enc) EXCEPT !.open = TRUE])
  /\ UNCHANGED <<task, method, text>>

\* the message's encoder writes a token; it stops at the first failure
WriterWrite ==
  /\ task \in {"request", "result", "error"} /\ enc.open /\ enc.status = "OK" /\ ~enc.done /\ enc.written < MaxTokens
  /\ \E t \in Tokens : Emits([WriteToken(enc, t, ValueDepth) EXCEPT !.written = @ + 1])
  /\ UNCHANGED <<task, method, text>>

\* crpc_json_writer_finish (params must be a structure, which encode_request
\* tests first), then the id and the end of the envelope
WriterFinish(w) ==
  IF task = "bare" THEN w
  ELSE IF task = "request" /\ (~w.root \/ ~w.structured \/ w.frames # <<>>) THEN [w EXCEPT !.status = "INVALID_TOKEN"]
  ELSE IF ~w.root \/ w.frames # <<>> THEN [w EXCEPT !.status = "SINK_ERROR"] ELSE w
EncodeTail(w) == AppendTo(w, (IF task = "error" THEN <<"}">> ELSE <<>>) \o NextMember \o <<"n", "}">>)
EncodeFinish ==
  /\ enc.open /\ enc.status = "OK" /\ ~enc.done
  /\ LET w == EncodeTail(WriterFinish(enc)) IN Emits([w EXCEPT !.done = (w.status = "OK")])
  /\ UNCHANGED <<task, method, text>>

-----------------------------------------------------------------------------
(* Numbers *)

TypeText ==
  /\ task = "number" /\ Len(text) < MaxText
  /\ \E ch \in NumberChars : text' = Append(text, ch)
  /\ UNCHANGED <<task, method, enc, read>>

Digits == {"0", "1", "2", "3", "4", "5", "6", "7", "8", "9"}
DigitValue == [d \in Digits |-> CHOOSE n \in 0..9 : <<"0", "1", "2", "3", "4", "5", "6", "7", "8", "9">>[n + 1] = d]
At(t, i) == IF i \in 1..Len(t) THEN t[i] ELSE "end"

\* the digits from position i on
RunLength(t, i) == Max({0} \cup {k \in 1..Len(t) : \A j \in i..(i + k - 1) : At(t, j) \in Digits})
Leading(ds) == Max({0} \cup {k \in 1..Len(ds) : \A j \in 1..k : ds[j] = "0"})
Trailing(ds) == Max({0} \cup {k \in 1..Len(ds) : \A j \in (Len(ds) - k + 1)..Len(ds) : ds[j] = "0"})

\* the accumulation of crpc_decimal_integer, stopped by an overflow
Accumulate(ds, limit) ==
  FoldLeft(LAMBDA v, d : IF v > (limit - DigitValue[d]) \div 10 \/ v > limit THEN limit + 1 ELSE v * 10 + DigitValue[d], 0, ds)
Append10(v, n) ==
  FoldLeft(LAMBDA x, y : IF x > MaxUint \div 10 THEN MaxUint + 1 ELSE x * 10, v, [i \in 1..n |-> 0])

\* the tail of crpc_decimal_integer, once the text is split: which digits are
\* dropped, how many zeros follow, and whether the value fits
NotInteger == MaxUint + 1

\* A fault: a negative power drops digits that are not zero.
ScaledTruncates(ds, fraction, sign, exponent) ==
  LET remove == IF sign < 0 THEN fraction + exponent ELSE IF exponent < fraction THEN fraction - exponent ELSE 0
      zeros  == IF sign > 0 /\ exponent >= fraction THEN exponent - fraction ELSE 0
      kept   == SubSeq(ds, Leading(ds) + 1, Len(ds) - remove)
  IN  IF Len(kept) + zeros > DigitCap \/ Accumulate(kept, MaxUint) > MaxUint THEN NotInteger
      ELSE Append10(Accumulate(kept, MaxUint), zeros)

Scaled(ds, fraction, sign, exponent) ==
  LET remove == IF sign < 0 THEN fraction + exponent ELSE IF exponent < fraction THEN fraction - exponent ELSE 0
      zeros  == IF sign > 0 /\ exponent >= fraction THEN exponent - fraction ELSE 0
      significant == Len(ds) - Leading(ds)
      kept   == SubSeq(ds, Leading(ds) + 1, Len(ds) - remove)
  IN  CASE Leading(ds) = Len(ds) -> 0
        [] Leading(ds) < Len(ds) /\ (exponent > SizeMax \/ (sign < 0 /\ exponent > SizeMax - fraction)) -> NotInteger
        [] OTHER -> IF remove > Trailing(ds) \/ remove > significant THEN NotInteger
                    ELSE IF zeros > DigitCap \/ significant - remove > DigitCap - zeros THEN NotInteger
                    ELSE IF Accumulate(kept, MaxUint) > MaxUint THEN NotInteger
                    ELSE Append10(Accumulate(kept, MaxUint), zeros)

\* crpc_decimal_integer: the magnitude, or NotInteger
DecimalInteger(t) ==
  LET start == IF At(t, 1) = "-" THEN 2 ELSE 1
      whole == RunLength(t, start)
      dot   == start + whole
      fraction == IF At(t, dot) = "." THEN RunLength(t, dot + 1) ELSE 0
      mark  == IF At(t, dot) = "." THEN dot + 1 + fraction ELSE dot
      scaled == At(t, mark) \in {"e", "E"}
      sign  == IF scaled /\ At(t, mark + 1) = "-" THEN -1 ELSE 1
      first == IF scaled /\ At(t, mark + 1) \in {"+", "-"} THEN mark + 2 ELSE mark + 1
      power == IF scaled THEN RunLength(t, first) ELSE 0
      last  == IF scaled THEN first + power - 1 ELSE mark - 1
      exponent == IF scaled THEN Accumulate(SubSeq(t, first, first + power - 1), SizeMax) ELSE 0
  IN  IF whole = 0 \/ (At(t, dot) = "." /\ fraction = 0) \/ (scaled /\ power = 0) \/ last # Len(t) THEN NotInteger
      ELSE Scaled(SubSeq(t, start, dot - 1) \o SubSeq(t, dot + 1, dot + fraction), fraction, sign, exponent)

\* crpc_json_uint64 (a request id) and crpc_json_int64 (an error code): the set
\* holding the value read, empty when the text is refused.  INT64_MAX is half
\* of UINT64_MAX.
MaxInt == MaxUint \div 2
Uint64(t) == IF DecimalInteger(t) = NotInteger \/ At(t, 1) = "-" THEN {} ELSE {DecimalInteger(t)}
Int64(t) ==
  LET m == DecimalInteger(t) IN
  IF m = NotInteger \/ (At(t, 1) # "-" /\ m > MaxInt) \/ (At(t, 1) = "-" /\ m > MaxInt + 1) THEN {}
  ELSE IF At(t, 1) = "-" THEN {-m} ELSE {m}

CodecNext == EncodeStart \/ WriterWrite \/ EncodeFinish \/ TypeText
CodecSpec == CodecInit /\ [][CodecNext]_codecVars

-----------------------------------------------------------------------------
(* Properties *)

\* A message an encoder finished is one JSON object within the limit that the
\* depth check of the receiving end accepts, whatever its method, its strings
\* and its values are; params are a structure and the method's full name is not
\* one the protocol reserves (crpc_json_encode_request, _result and _error
\* against crpc_json_depth_valid): what one end may send, the other reads.
EncodedIsReadable ==
  enc.done =>
    /\ read.json.want = "end" /\ enc.out[1] = "{"
    /\ read.depth.ok /\ read.depth.depth = 0
    /\ Len(enc.out) <= EncodeLimit
    /\ task = "request" => enc.structured
    /\ task \in {"request", "bare"} =>
         LET full == IF method.service = <<>> THEN method.name ELSE method.service \o <<".">> \o method.name
         IN  Len(full) <= MethodLimit /\ ~IsPrefix(<<"r", "p", "c", ".">>, full)

\* the reference: a decimal text is a sign, digits and a power of ten, and
\* denotes an integer when that power divides out
NumberValue(t) ==
  LET minus == At(t, 1) = "-"
      body == IF minus THEN Tail(t) ELSE t
      marks == {i \in 1..Len(body) : body[i] \in {"e", "E"}}
      mark == IF marks = {} THEN Len(body) + 1 ELSE Min(marks)
      mantissa == SubSeq(body, 1, mark - 1)
      dots == {i \in 1..Len(mantissa) : mantissa[i] = "."}
      fraction == IF dots = {} THEN 0 ELSE Len(mantissa) - Min(dots)
      power == SubSeq(body, mark + 1, Len(body))
      digits(q) == SelectSeq(q, LAMBDA c : c \in Digits)
      natural(q) == FoldLeft(LAMBDA v, d : v * 10 + DigitValue[d], 0, digits(q))
      valid == /\ Len(mantissa) - fraction > Cardinality(dots) /\ Cardinality(dots) <= 1 /\ (dots # {} => fraction > 0)
               /\ Len(digits(mantissa)) = Len(mantissa) - Cardinality(dots)
               /\ marks # {} => digits(power) # <<>> /\ \A i \in 1..Len(power) : power[i] \in Digits \/ (i = 1 /\ power[i] \in {"+", "-"})
      n == natural(mantissa)
      shift == (IF At(power, 1) = "-" THEN -natural(power) ELSE natural(power)) - fraction
      magnitudes == {m \in 0..MaxUint : IF n = 0 THEN m = 0
                                        ELSE IF shift >= 0 THEN shift <= DigitCap /\ m = n * 10 ^ shift
                                        ELSE -shift <= MaxText /\ m * 10 ^ (-shift) = n}
  IN  IF ~valid THEN {} ELSE {IF minus THEN -m ELSE m : m \in magnitudes}

\* A number is read as the integer its text denotes, however it is written
\* (leading and trailing zeros, a fraction that vanishes, an exponent), and a
\* text that denotes no integer of the range is refused: request ids never
\* carry a sign, error codes reach down to the least signed integer
\* (crpc_decimal_integer, crpc_json_uint64, crpc_json_int64).
NumbersExact ==
  task = "number" =>
    /\ Uint64(text) = IF At(text, 1) = "-" THEN {} ELSE NumberValue(text)
    /\ Int64(text) = {v \in NumberValue(text) : v \in (-MaxInt - 1)..MaxInt}
=============================================================================
