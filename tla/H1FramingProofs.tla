--------------------------- MODULE H1FramingProofs ---------------------------
(***************************************************************************)
(* The framing of responses on an HTTP/1.1 connection, proved for any      *)
(* number of requests and any length of a streamed body.                   *)
(*                                                                         *)
(* ResponsesFramed is about the wire, and the wire only grows by whole     *)
(* writes; the invariant is therefore about Written, the wire with what    *)
(* outbound and the retained body will add to it, and says how much of the *)
(* last response is there.  The first part is about sequences of items,    *)
(* the second about what a handler does to Written.                        *)
(***************************************************************************)
EXTENDS H1ConnectionProofs, FiniteSetTheorems

\* Ends and Framed of H1Connection, of any sequence of items.
EndsAt(s, i) ==
    \/ s[i].part \in {"full", "final", "body", "error"}
    \/ i > MaxChunks /\ s[i - MaxChunks].part = "head_sized"

StartsOf(s, i) == {j \in 1 .. i : s[j].part \in Starts}

FramedAt(s, i) ==
    IF s[i].part \in Starts
    THEN /\ i > 1 => EndsAt(s, i - 1) /\ s[i - 1].part # "error"
         /\ s[i].part # "error" => s[i].req = Cardinality(StartsOf(s, i))
    ELSE i > 1 /\ ~EndsAt(s, i - 1) /\ s[i].req = s[i - 1].req

WellFramed(s) == \A i \in 1 .. Len(s) : FramedAt(s, i)

\* The sequence s holds the responses to n requests, and all of them are whole.
Whole(s, n) ==
    /\ Cardinality(StartsOf(s, Len(s))) = n
    /\ Len(s) > 0 => EndsAt(s, Len(s)) /\ s[Len(s)].part # "error"
    /\ \A p \in 1 .. Len(s) : s[p].part = "head_sized" => p + MaxChunks <= Len(s)

\* The sequence s ends in the response to r: its head h and t items of its body.
\* The responses before it are whole.
Partial(s, r, t, h) ==
    /\ t <= MaxChunks /\ t < Len(s)
    /\ h \in Heads /\ s[Len(s) - t].part = h
    /\ \A k \in Len(s) - t + 1 .. Len(s) : s[k].part = "chunk"
    /\ s[Len(s)].req = r
    /\ Cardinality(StartsOf(s, Len(s))) = r
    /\ \A p \in 1 .. Len(s) - t - 1 :
          s[p].part = "head_sized" => p + MaxChunks < Len(s) - t

\* The head that stream_next's flags remember.
StreamHead ==
    IF "sized" \in flags THEN "head_sized"
    ELSE IF "chunked" \in flags THEN "head_chunked" ELSE "head_eof"

\* What is written and what is about to be written, together, are framed; they
\* hold whole responses to the requests parsed so far, but for a deferred one,
\* and the one being streamed is as far as its source has been read.
FramingInv ==
    ~behind /\ ~tight =>
      /\ WellFramed(Written)
      /\ net = "open" /\ token # "idle" => Whole(Written, next - 2)
      /\ /\ net # "closed" /\ token = "idle" /\ source = 0
         /\ "close_after_write" \notin flags \/ pc = "parse"
         => Whole(Written, next - 1)
      /\ source # 0 =>
           /\ source = next - 1
           /\ Partial(Written, source, transferred, StreamHead)
           /\ "chunked" \notin flags \/ "sized" \notin flags
           /\ \/ "chunked" \in flags \/ "sized" \in flags
              \/ "close_after_stream" \in flags
           /\ pc = "parse" => unread = 0

-----------------------------------------------------------------------------
(* Sequences of items.                                                     *)

\* What Append does to a sequence of items.
LEMMA Appended ==
    ASSUME NEW s \in Seq(Items), NEW x \in Items
    PROVE  /\ Append(s, x) \in Seq(Items) /\ Len(Append(s, x)) = Len(s) + 1
           /\ Len(s) \in Nat
           /\ Append(s, x)[Len(s) + 1] = x
           /\ \A i \in 1 .. Len(s) : Append(s, x)[i] = s[i]
BY DEF Items

\* What concatenation does.
LEMMA Concatenated ==
    ASSUME NEW s \in Seq(Items), NEW v \in Seq(Items)
    PROVE  /\ Len(s) \in Nat /\ Len(v) \in Nat
           /\ s \o v \in Seq(Items) /\ Len(s \o v) = Len(s) + Len(v)
           /\ \A i \in 1 .. Len(s) : (s \o v)[i] = s[i]
           /\ s \o <<>> = s
OBVIOUS

\* Appending to the second part of a sequence appends to the whole.
LEMMA ConcatAppend ==
    ASSUME NEW s \in Seq(Items), NEW v \in Seq(Items), NEW x \in Items
    PROVE  s \o Append(v, x) = Append(s \o v, x) /\ s \o <<x>> = Append(s, x)
OBVIOUS

\* An item that is appended does not end, or reopen, an earlier response.
LEMMA EndsKept ==
    ASSUME NEW s \in Seq(Items), NEW x \in Items, NEW i \in 1 .. Len(s)
    PROVE  EndsAt(Append(s, x), i) <=> EndsAt(s, i)
<1>1. Append(s, x)[i] = s[i] /\ i \in Nat
  BY Appended
<1>2. CASE i > MaxChunks
  <2>1. i - MaxChunks \in 1 .. Len(s)
    BY <1>2, Appended, ChunksAssumption
  <2>2. Append(s, x)[i - MaxChunks] = s[i - MaxChunks]
    BY <2>1, Appended, Zenon
  <2> QED BY <1>1, <2>2, Zenon DEF EndsAt
<1>3. CASE ~(i > MaxChunks)
  BY <1>1, <1>3, Zenon DEF EndsAt
<1> QED BY <1>2, <1>3, Zenon

\* The responses begun so far can be counted.
LEMMA StartsFinite ==
    ASSUME NEW s, NEW i \in Nat
    PROVE  IsFiniteSet(StartsOf(s, i)) /\ Cardinality(StartsOf(s, i)) \in Nat
<1>1. IsFiniteSet(1 .. i)
  BY FS_Interval
<1>2. StartsOf(s, i) \subseteq 1 .. i
  BY Zenon DEF StartsOf
<1> QED BY <1>1, <1>2, FS_Subset, FS_CardinalityType, Zenon

\* An item that is appended begins no response before it.
LEMMA StartsKept ==
    ASSUME NEW s \in Seq(Items), NEW x \in Items, NEW i \in 0 .. Len(s)
    PROVE  StartsOf(Append(s, x), i) = StartsOf(s, i)
<1>1. \A j \in 1 .. i : Append(s, x)[j] = s[j]
  BY Appended
<1> QED BY <1>1, Zenon DEF StartsOf

\* An item that begins a response is one response more.
LEMMA StartsGrow ==
    ASSUME NEW s \in Seq(Items), NEW x \in Items
    PROVE  Cardinality(StartsOf(Append(s, x), Len(s) + 1)) =
             Cardinality(StartsOf(s, Len(s))) + (IF x.part \in Starts THEN 1 ELSE 0)
<1> DEFINE n == Len(s)
           u == Append(s, x)
<1>1. n \in Nat /\ u[n + 1] = x /\ StartsOf(u, n) = StartsOf(s, n)
  BY Appended, StartsKept
<1> HIDE DEF n, u
<1>2. 1 .. n + 1 = (1 .. n) \cup {n + 1} /\ n + 1 \notin 1 .. n
  BY <1>1
<1>3. CASE x.part \in Starts
  <2>1. StartsOf(u, n + 1) = StartsOf(u, n) \cup {n + 1}
    BY <1>1, <1>2, <1>3, Zenon DEF StartsOf
  <2>2. n + 1 \notin StartsOf(u, n)
    BY <1>2, Zenon DEF StartsOf
  <2>3. IsFiniteSet(StartsOf(u, n))
    BY <1>1, StartsFinite, Zenon
  <2>4. Cardinality(StartsOf(u, n + 1)) = Cardinality(StartsOf(u, n)) + 1
    BY <2>1, <2>2, <2>3, FS_AddElement
  <2> QED BY <1>1, <1>3, <2>4, Zenon DEF n, u
<1>4. CASE x.part \notin Starts
  <2>1. StartsOf(u, n + 1) = StartsOf(u, n)
    BY <1>1, <1>2, <1>4, Zenon DEF StartsOf
  <2>2. Cardinality(StartsOf(u, n)) \in Nat
    BY <1>1, StartsFinite, Zenon
  <2> QED BY <1>1, <1>4, <2>1, <2>2 DEF n, u
<1> QED BY <1>3, <1>4, Zenon

\* A framed sequence stays framed if the item appended is framed.
LEMMA FramedKept ==
    ASSUME NEW s \in Seq(Items), NEW x \in Items, WellFramed(s),
           FramedAt(Append(s, x), Len(s) + 1)
    PROVE  WellFramed(Append(s, x))
<1> SUFFICES ASSUME NEW i \in 1 .. Len(s)
             PROVE  FramedAt(Append(s, x), i)
  BY Appended DEF WellFramed
<1>1. FramedAt(s, i)
  BY Zenon DEF WellFramed
<1>2. Append(s, x)[i] = s[i] /\ StartsOf(Append(s, x), i) = StartsOf(s, i)
  BY Appended, StartsKept
<1>3. CASE i > 1
  <2>1. i - 1 \in 1 .. Len(s)
    BY <1>3
  <2>2. Append(s, x)[i - 1] = s[i - 1]
    BY <2>1, Appended, Zenon
  <2>3. EndsAt(Append(s, x), i - 1) <=> EndsAt(s, i - 1)
    BY <2>1, EndsKept, Zenon
  <2> QED BY <1>1, <1>2, <2>2, <2>3, Zenon DEF FramedAt
<1>4. CASE ~(i > 1)
  BY <1>1, <1>2, <1>4, Zenon DEF FramedAt
<1> QED BY <1>3, <1>4, Zenon

\* A response may begin behind whole ones, if it answers the next request.
LEMMA StartAppended ==
    ASSUME NEW s \in Seq(Items), NEW x \in Items, NEW n \in Nat,
           WellFramed(s), Whole(s, n), x.part \in Starts,
           x.part # "error" => x.req = n + 1
    PROVE  /\ WellFramed(Append(s, x))
           /\ Cardinality(StartsOf(Append(s, x), Len(s) + 1)) = n + 1
<1> DEFINE u == Append(s, x)
           k == Len(s) + 1
<1>1. Cardinality(StartsOf(u, k)) = n + 1
  BY StartsGrow, Zenon DEF Whole
<1>2. u[k] = x /\ k - 1 = Len(s) /\ k \in Nat /\ Len(s) \in Nat
  BY Appended
<1>3. ASSUME k > 1
      PROVE  EndsAt(u, k - 1) /\ u[k - 1].part # "error"
  <2>1. Len(s) \in 1 .. Len(s) /\ Len(s) > 0
    BY <1>2, <1>3
  <2>2. EndsAt(s, Len(s)) /\ s[Len(s)].part # "error"
    BY <2>1, Zenon DEF Whole
  <2>3. u[Len(s)] = s[Len(s)] /\ (EndsAt(u, Len(s)) <=> EndsAt(s, Len(s)))
    BY <2>1, Appended, EndsKept
  <2> QED BY <1>2, <2>2, <2>3, Zenon
<1>4. FramedAt(u, k)
  BY <1>1, <1>2, <1>3, Zenon DEF FramedAt
<1> QED BY <1>1, <1>4, FramedKept, Zenon

\* A buffered response behind whole ones leaves whole ones.
LEMMA FullAppended ==
    ASSUME NEW s \in Seq(Items), NEW x \in Items, NEW n \in Nat,
           WellFramed(s), Whole(s, n), x.part = "full", x.req = n + 1
    PROVE  WellFramed(Append(s, x)) /\ Whole(Append(s, x), n + 1)
<1> DEFINE u == Append(s, x)
<1>1. WellFramed(u) /\ Cardinality(StartsOf(u, Len(s) + 1)) = n + 1
  BY StartAppended, Zenon DEF Starts
<1>2. /\ Len(u) = Len(s) + 1 /\ Len(s) \in Nat /\ u[Len(u)] = x
      /\ \A p \in 1 .. Len(s) : u[p] = s[p]
  BY Appended
<1>3. EndsAt(u, Len(u)) /\ u[Len(u)].part # "error"
  BY <1>2, Zenon DEF EndsAt
<1>4. ASSUME NEW p \in 1 .. Len(u), u[p].part = "head_sized"
      PROVE  p + MaxChunks <= Len(u)
  <2>1. p \in 1 .. Len(s)
    BY <1>2, <1>4
  <2> QED BY <1>2, <1>4, <2>1, ChunksAssumption DEF Whole
<1> QED BY <1>1, <1>2, <1>3, <1>4, Zenon DEF Whole

\* The head of a streamed response behind whole ones begins a partial one.
LEMMA HeadAppended ==
    ASSUME NEW s \in Seq(Items), NEW x \in Items, NEW n \in Nat,
           WellFramed(s), Whole(s, n), x.req = n + 1,
           x.part \in Heads
    PROVE  /\ WellFramed(Append(s, x))
           /\ Partial(Append(s, x), n + 1, 0, x.part)
<1> DEFINE u == Append(s, x)
<1>1. WellFramed(u) /\ Cardinality(StartsOf(u, Len(s) + 1)) = n + 1
  BY StartAppended, Zenon DEF Starts, Heads
<1>2. /\ Len(u) = Len(s) + 1 /\ Len(s) \in Nat /\ u[Len(u)] = x
      /\ \A p \in 1 .. Len(s) : u[p] = s[p]
  BY Appended
<1>3. /\ 0 <= MaxChunks /\ 0 < Len(u) /\ Len(u) - 0 = Len(u)
      /\ \A k \in Len(u) - 0 + 1 .. Len(u) : u[k].part = "chunk"
  BY <1>2, ChunksAssumption
<1>4. ASSUME NEW p \in 1 .. Len(u) - 0 - 1, u[p].part = "head_sized"
      PROVE  p + MaxChunks < Len(u) - 0
  <2>1. p \in 1 .. Len(s)
    BY <1>2
  <2> QED BY <1>2, <1>4, <2>1, ChunksAssumption DEF Whole
<1> QED BY <1>1, <1>2, <1>3, <1>4, Zenon DEF Partial

\* A head and the retained body behind it are one whole response.
LEMMA RetainedAppended ==
    ASSUME NEW s \in Seq(Items), NEW x \in Items, NEW y \in Items, NEW n \in Nat,
           WellFramed(s), Whole(s, n), x.req = n + 1, y.req = n + 1,
           x.part = "head_retained", y.part = "body"
    PROVE  /\ WellFramed(Append(Append(s, x), y))
           /\ Whole(Append(Append(s, x), y), n + 1)
<1> DEFINE u == Append(s, x)
           v == Append(u, y)
           m == Len(s)
<1>1. WellFramed(u) /\ Cardinality(StartsOf(u, m + 1)) = n + 1
  BY StartAppended, Zenon DEF Starts
<1>2. /\ u \in Seq(Items) /\ Len(u) = m + 1 /\ m \in Nat /\ u[m + 1] = x
      /\ \A p \in 1 .. m : u[p] = s[p]
  BY Appended, Zenon
<1>3. /\ v \in Seq(Items) /\ Len(v) = m + 2 /\ v[m + 2] = y
      /\ \A p \in 1 .. m + 1 : v[p] = u[p]
  BY <1>2, Appended
<1>4. Cardinality(StartsOf(v, m + 2)) = n + 1
  <2>1. y.part \notin Starts /\ Len(u) + 1 = m + 2
    BY <1>2 DEF Starts
  <2>2. Cardinality(StartsOf(v, Len(u) + 1)) = Cardinality(StartsOf(u, Len(u))) + 0
    BY <1>2, <2>1, StartsGrow, Zenon
  <2> QED BY <1>1, <1>2, <2>1, <2>2
<1> HIDE DEF u, v, m
<1>5. ~EndsAt(v, m + 1)
  <2>1. ASSUME m + 1 > MaxChunks, v[(m + 1) - MaxChunks].part = "head_sized"
        PROVE  FALSE
    <3>1. (m + 1) - MaxChunks \in 1 .. m
      BY <1>2, <2>1, ChunksAssumption
    <3>2. s[(m + 1) - MaxChunks].part = "head_sized"
      BY <1>2, <1>3, <2>1, <3>1
    <3> QED BY <1>2, <3>1, <3>2, ChunksAssumption DEF Whole, m
  <2>2. v[m + 1].part = "head_retained"
    BY <1>2, <1>3
  <2>3. v[m + 1].part \notin {"full", "final", "body", "error"}
    BY <2>2, Zenon
  <2> QED BY <2>1, <2>3, Zenon DEF EndsAt
<1>6. FramedAt(v, m + 2)
  BY <1>2, <1>3, <1>5 DEF FramedAt, Starts
<1>7. WellFramed(v)
  BY <1>1, <1>2, <1>6, FramedKept DEF v
<1>8. ASSUME NEW p \in 1 .. Len(v), v[p].part = "head_sized"
      PROVE  p + MaxChunks <= Len(v)
  <2>1. p \in 1 .. m
    BY <1>2, <1>3, <1>8
  <2>2. s[p].part = "head_sized"
    BY <1>2, <1>3, <1>8, <2>1
  <2> QED BY <1>2, <1>3, <2>1, <2>2, ChunksAssumption DEF Whole, m
<1>9. EndsAt(v, Len(v)) /\ v[Len(v)].part # "error"
  BY <1>3, Zenon DEF EndsAt
<1> QED BY <1>3, <1>4, <1>7, <1>8, <1>9, Zenon DEF Whole, u, v

\* A partial response is open: it has no last item yet.
LEMMA PartialOpen ==
    ASSUME NEW s \in Seq(Items), NEW r \in Nat, NEW t \in Nat, NEW h,
           Partial(s, r, t, h), t < MaxChunks \/ h # "head_sized"
    PROVE  Len(s) > 0 /\ ~EndsAt(s, Len(s))
<1> DEFINE m == Len(s)
<1>1. m \in Nat /\ m > 0 /\ t <= MaxChunks /\ t < m
  BY DEF Partial
<1>2. s[m].part \notin {"full", "final", "body", "error"}
  <2>1. CASE t = 0
    <3>1. m - t = m
      BY <1>1, <2>1
    <3> QED BY <3>1, Zenon DEF Partial, Heads
  <2>2. CASE t # 0
    <3>1. m \in m - t + 1 .. m
      BY <1>1, <2>2
    <3> QED BY <3>1, Zenon DEF Partial
  <2> QED BY <2>1, <2>2, Zenon
<1>3. ASSUME m > MaxChunks, s[m - MaxChunks].part = "head_sized"
      PROVE  FALSE
  <2>1. CASE t = MaxChunks
    BY <1>3, <2>1, ChunksAssumption DEF Partial
  <2>2. CASE t < MaxChunks
    <3>1. m - MaxChunks \in 1 .. m - t - 1
      BY <1>1, <1>3, <2>2, ChunksAssumption
    <3>2. (m - MaxChunks) + MaxChunks < m - t
      BY <1>3, <3>1, Zenon DEF Partial
    <3> QED BY <1>1, <3>2, ChunksAssumption
  <2> QED BY <1>1, <2>1, <2>2, ChunksAssumption
<1> QED BY <1>1, <1>2, <1>3, Zenon DEF EndsAt

\* An open response may be continued by an item of its own.
LEMMA PieceFramed ==
    ASSUME NEW s \in Seq(Items), NEW x \in Items, WellFramed(s), Len(s) > 0,
           ~EndsAt(s, Len(s)), x.part \notin Starts, x.req = s[Len(s)].req
    PROVE  /\ WellFramed(Append(s, x))
           /\ Cardinality(StartsOf(Append(s, x), Len(s) + 1)) =
                Cardinality(StartsOf(s, Len(s)))
<1> DEFINE u == Append(s, x)
           m == Len(s)
<1>1. /\ m \in Nat /\ m \in 1 .. m /\ (m + 1) - 1 = m /\ m + 1 > 1
      /\ u[m + 1] = x /\ u[m] = s[m]
  BY Appended
<1>2. ~EndsAt(u, m)
  BY <1>1, EndsKept, Zenon
<1>3. FramedAt(u, m + 1)
  BY <1>1, <1>2, Zenon DEF FramedAt
<1>4. Cardinality(StartsOf(u, m + 1)) = Cardinality(StartsOf(s, m))
  BY <1>1, StartsGrow, StartsFinite
<1> QED BY <1>3, <1>4, FramedKept, Zenon

\* One more item of the body leaves the response partial.
LEMMA ChunkAppended ==
    ASSUME NEW s \in Seq(Items), NEW x \in Items, NEW r \in Nat, NEW t \in Nat,
           NEW h, WellFramed(s), Partial(s, r, t, h), t < MaxChunks,
           x.part = "chunk", x.req = r
    PROVE  WellFramed(Append(s, x)) /\ Partial(Append(s, x), r, t + 1, h)
<1> DEFINE u == Append(s, x)
           m == Len(s)
<1>1. /\ Len(u) = m + 1 /\ m \in Nat /\ u[m + 1] = x
      /\ \A p \in 1 .. m : u[p] = s[p]
  BY Appended, Zenon
<1>2. /\ t < m /\ m - t \in 1 .. m /\ (m + 1) - (t + 1) = m - t
      /\ t + 1 <= MaxChunks /\ t + 1 < m + 1
  BY <1>1, ChunksAssumption DEF Partial
<1>3. WellFramed(u) /\ Cardinality(StartsOf(u, m + 1)) = r
  <2>1. x.part \notin Starts /\ x.req = s[m].req
    BY Zenon DEF Starts, Partial
  <2> QED BY <2>1, PartialOpen, PieceFramed DEF Partial
<1>4. u[m - t] = s[m - t]
  BY <1>1, <1>2, Zenon
<1>5. ASSUME NEW k \in m - t + 1 .. m + 1
      PROVE  u[k].part = "chunk"
  <2>1. CASE k = m + 1
    BY <1>1, <2>1, Zenon
  <2>2. CASE k # m + 1
    <3>1. k \in m - t + 1 .. m /\ k \in 1 .. m
      BY <1>1, <1>2, <2>2
    <3> QED BY <1>1, <3>1, Zenon DEF Partial
  <2> QED BY <2>1, <2>2, Zenon
<1>6. ASSUME NEW p \in 1 .. m - t - 1, u[p].part = "head_sized"
      PROVE  p + MaxChunks < m - t
  <2>1. p \in 1 .. m
    BY <1>1, <1>2
  <2> QED BY <1>1, <1>6, <2>1, Zenon DEF Partial
<1> QED BY <1>1, <1>2, <1>3, <1>4, <1>5, <1>6, Zenon DEF Partial

\* The last chunk makes the response whole.
LEMMA FinalAppended ==
    ASSUME NEW s \in Seq(Items), NEW x \in Items, NEW r \in Nat, NEW t \in Nat,
           NEW h, h # "head_sized", WellFramed(s), Partial(s, r, t, h),
           x.part = "final", x.req = r
    PROVE  WellFramed(Append(s, x)) /\ Whole(Append(s, x), r)
<1> DEFINE u == Append(s, x)
           m == Len(s)
<1>1. /\ Len(u) = m + 1 /\ m \in Nat /\ u[m + 1] = x
      /\ \A p \in 1 .. m : u[p] = s[p]
  BY Appended, Zenon
<1>2. WellFramed(u) /\ Cardinality(StartsOf(u, m + 1)) = r
  <2>1. x.part \notin Starts /\ x.req = s[m].req
    BY Zenon DEF Starts, Partial
  <2> QED BY <2>1, PartialOpen, PieceFramed DEF Partial
<1>3. EndsAt(u, Len(u)) /\ u[Len(u)].part # "error"
  BY <1>1, Zenon DEF EndsAt
<1>4. ASSUME NEW p \in 1 .. Len(u), u[p].part = "head_sized"
      PROVE  p + MaxChunks <= Len(u)
  <2>1. p \in 1 .. m /\ s[p].part = "head_sized"
    BY <1>1, <1>4
  <2>2. t < m /\ p # m - t /\ p \notin m - t + 1 .. m
    BY <2>1, Zenon DEF Partial
  <2>3. p \in 1 .. m - t - 1
    BY <1>1, <2>1, <2>2
  <2>4. p + MaxChunks < m - t
    BY <2>1, <2>3, Zenon DEF Partial
  <2> QED BY <1>1, <2>4, ChunksAssumption
<1> QED BY <1>1, <1>2, <1>3, <1>4, Zenon DEF Whole

\* A body of declared size is whole when all of it is written.
LEMMA SizedComplete ==
    ASSUME NEW s \in Seq(Items), NEW r \in Nat, Partial(s, r, MaxChunks, "head_sized")
    PROVE  Whole(s, r)
<1> DEFINE m == Len(s)
<1>1. m \in Nat /\ MaxChunks \in Nat /\ MaxChunks > 0 /\ MaxChunks < m
  BY ChunksAssumption DEF Partial
<1>2. s[m - MaxChunks].part = "head_sized"
  BY Zenon DEF Partial
<1>3. s[m].part = "chunk"
  <2>1. m \in m - MaxChunks + 1 .. m
    BY <1>1
  <2> QED BY <2>1, Zenon DEF Partial
<1>4. ASSUME NEW p \in 1 .. m, s[p].part = "head_sized"
      PROVE  p + MaxChunks <= m
  <2>1. p \notin m - MaxChunks + 1 .. m
    BY <1>4, Zenon DEF Partial
  <2> QED BY <1>1, <2>1
<1>5. EndsAt(s, m) /\ s[m].part # "error"
  BY <1>1, <1>2, <1>3, Zenon DEF EndsAt
<1> QED BY <1>4, <1>5, Zenon DEF Whole, Partial

\* A prefix of a framed sequence is framed.
LEMMA FramedPrefix ==
    ASSUME NEW s \in Seq(Items), NEW v \in Seq(Items), WellFramed(s \o v)
    PROVE  WellFramed(s)
<1> DEFINE u == s \o v
<1>1. /\ Len(s) \in Nat /\ Len(v) \in Nat /\ Len(u) = Len(s) + Len(v)
      /\ \A i \in 1 .. Len(s) : u[i] = s[i]
  BY Concatenated, Zenon
<1> HIDE DEF u
<1> SUFFICES ASSUME NEW i \in 1 .. Len(s)
             PROVE  FramedAt(s, i)
  BY Zenon DEF WellFramed
<1>2. FramedAt(u, i)
  <2>1. i \in 1 .. Len(u)
    BY <1>1
  <2> QED BY <2>1, Zenon DEF WellFramed, u
<1>3. u[i] = s[i] /\ StartsOf(u, i) = StartsOf(s, i)
  <2>1. \A j \in 1 .. i : u[j] = s[j]
    BY <1>1
  <2> QED BY <1>1, <2>1, Zenon DEF StartsOf
<1>4. CASE i > 1
  <2>1. i - 1 \in 1 .. Len(s)
    BY <1>1, <1>4
  <2>2. u[i - 1] = s[i - 1]
    BY <1>1, <2>1, Zenon
  <2>3. ASSUME i - 1 > MaxChunks
        PROVE  u[i - 1 - MaxChunks] = s[i - 1 - MaxChunks]
    <3>1. i - 1 - MaxChunks \in 1 .. Len(s)
      BY <1>1, <2>3, ChunksAssumption
    <3> QED BY <1>1, <3>1, Zenon
  <2>4. EndsAt(u, i - 1) <=> EndsAt(s, i - 1)
    BY <2>2, <2>3, Zenon DEF EndsAt
  <2> QED BY <1>2, <1>3, <2>2, <2>4, Zenon DEF FramedAt
<1>5. CASE ~(i > 1)
  BY <1>2, <1>3, <1>5, Zenon DEF FramedAt
<1> QED BY <1>4, <1>5, Zenon

-----------------------------------------------------------------------------
(* What the handlers do to Written.                                        *)

\* Without a retained body, what is written is the wire and outbound.
LEMMA WrittenPlain ==
    ASSUME TypeOK, retained = 0
    PROVE  Written = wire \o outbound
<1>1. wire \o outbound \in Seq(Items)
  BY Concatenated, Zenon DEF TypeOK
<1> QED BY <1>1, Concatenated, Zenon DEF Written

\* Serialising into outbound appends to what is written, the retained body last.
LEMMA WrittenGrows ==
    ASSUME TypeOK, TypeOK', NEW x \in Items, retained = 0, wire' = wire,
           outbound' = Append(outbound, x)
    PROVE  /\ retained' = 0 => Written' = Append(Written, x)
           /\ retained' # 0 =>
                Written' = Append(Append(Written, x), Item(retained', "body"))
<1>1. Written = wire \o outbound
  BY WrittenPlain, Zenon
<1>2. wire' \o outbound' = Append(Written, x) /\ Append(Written, x) \in Seq(Items)
  BY <1>1, ConcatAppend, Appended, WrittenTyped DEF TypeOK
<1>3. ASSUME retained' = 0
      PROVE  Written' = Append(Written, x)
  BY <1>2, <1>3, Concatenated, Zenon DEF Written
<1>4. ASSUME retained' # 0
      PROVE  Written' = Append(Append(Written, x), Item(retained', "body"))
  <2>1. Item(retained', "body") \in Items
    BY ItemTyped, PartsTyped, Zenon DEF TypeOK
  <2>2. Written' = Append(Written, x) \o <<Item(retained', "body")>>
    BY <1>2, <1>4, Zenon DEF Written
  <2> QED BY <1>2, <2>1, <2>2, ConcatAppend
<1> QED BY <1>3, <1>4, Zenon

\* A completed write moves outbound to the wire and changes nothing else.
LEMMA WrittenSent ==
    ASSUME TypeOK, wire' = Written, retained' = 0
    PROVE  /\ outbound' = <<>> => Written' = Written
           /\ \A x \in Items : outbound' = <<x>> => Written' = Append(Written, x)
<1>1. Written \in Seq(Items)
  BY WrittenTyped, Zenon
<1>2. ASSUME outbound' = <<>>
      PROVE  Written' = Written
  BY <1>1, <1>2, Concatenated, Zenon DEF Written
<1>3. ASSUME NEW x \in Items, outbound' = <<x>>
      PROVE  Written' = Append(Written, x)
  <2>1. wire' \o outbound' = Append(Written, x) /\ Append(Written, x) \in Seq(Items)
    BY <1>1, <1>3, ConcatAppend, Appended
  <2> QED BY <2>1, Concatenated, Zenon DEF Written
<1> QED BY <1>2, <1>3, Zenon

\* A file that is ready adds its item to an empty outbound.
LEMMA WrittenFile ==
    ASSUME TypeOK, outbound = <<>>, retained = 0, wire' = wire, retained' = 0
    PROVE  /\ outbound' = <<>> => Written' = Written
           /\ \A x \in Items : outbound' = <<x>> => Written' = Append(Written, x)
<1>1. Written = wire
  BY WrittenPlain, Concatenated, Zenon DEF TypeOK
<1> QED BY <1>1, WrittenSent, Zenon

\* Nothing is written while the buffers stand.
LEMMA WrittenSame ==
    ASSUME UNCHANGED <<wire, outbound, retained>>
    PROVE  Written' = Written
BY Zenon DEF Written

-----------------------------------------------------------------------------
(* Every step keeps the framing.                                           *)

\* A step that writes nothing, parses nothing and changes no source keeps the
\* framing, unless it forgets that the connection is to close.
LEMMA FramingKept ==
    ASSUME FramingInv, Fixed, Written' = Written,
           UNCHANGED <<next, source, transferred>>,
           token' = "idle" <=> token = "idle",
           net' = "open" /\ token # "idle" => net = "open",
           net' # "closed" => net # "closed",
           "close_after_write" \notin flags' \/ pc' = "parse" =>
             source # 0 \/ "close_after_write" \notin flags \/ pc = "parse",
           "sized" \in flags' <=> "sized" \in flags,
           "chunked" \in flags' <=> "chunked" \in flags,
           "close_after_stream" \in flags' <=> "close_after_stream" \in flags,
           source # 0 /\ pc' = "parse" => unread' = 0
    PROVE  FramingInv'
<1>1. StreamHead' = StreamHead
  BY Zenon DEF StreamHead
<1> QED BY <1>1, Zenon DEF FramingInv, Fixed

\* The parser goes on to the next request only behind whole responses.
LEMMA ParsedWhole ==
    ASSUME H1Inv, FramingInv, ~behind, ~tight,
           pc = "parse", unread > 0, "paused" \notin flags
    PROVE  /\ token = "idle" /\ retained = 0 /\ net = "open" /\ source = 0
           /\ WellFramed(Written) /\ Whole(Written, next - 1)
           /\ Written \in Seq(Items)
           /\ next \in 0 .. MaxRequests /\ next - 1 \in Nat /\ (next - 1) + 1 = next
<1>1. token = "idle" /\ retained = 0 /\ net = "open"
  BY Zenon DEF H1Inv, ParserAlone
<1>2. unread # 0 /\ unread \in Nat /\ stash \in Nat /\ next \in Nat \ {0}
      /\ next + unread + stash <= MaxRequests + 1
  BY DEF H1Inv, TypeOK
<1>3. source = 0
  BY <1>2, Zenon DEF FramingInv
<1>4. next \in 0 .. MaxRequests /\ next - 1 \in Nat /\ (next - 1) + 1 = next
  BY <1>2, RequestsAssumption
<1>5. WellFramed(Written) /\ Whole(Written, next - 1)
  BY <1>1, <1>3, Zenon DEF FramingInv
<1> QED BY <1>1, <1>3, <1>4, <1>5, WrittenTyped, Zenon DEF H1Inv

\* A response that is serialised whole.
LEMMA FullReplyFramed ==
    ASSUME H1Inv, TypeOK', FramingInv, Fixed, NextRequest,
           outbound' = Append(outbound, Item(next, "full")),
           retained' = retained, source' = 0
    PROVE  FramingInv'
<1> SUFFICES ASSUME ~behind, ~tight
             PROVE  FramingInv'
  BY Zenon DEF FramingInv, Fixed
<1> DEFINE x == Item(next, "full")
<1>1. /\ token = "idle" /\ retained = 0
      /\ WellFramed(Written) /\ Whole(Written, next - 1) /\ Written \in Seq(Items)
      /\ next \in 0 .. MaxRequests /\ next - 1 \in Nat /\ (next - 1) + 1 = next
  BY ParsedWhole, Zenon DEF NextRequest, Parsing
<1>2. x \in Items /\ x.part = "full" /\ x.req = next
  BY <1>1, ItemTyped, PartsTyped, Zenon DEF Item
<1> HIDE DEF x
<1>3. Written' = Append(Written, x)
  BY <1>1, <1>2, WrittenGrows, Zenon DEF NextRequest, H1Inv, x
<1>4. WellFramed(Written') /\ Whole(Written', next)
  BY <1>1, <1>2, <1>3, FullAppended, Zenon
<1>5. token' = "idle" /\ next' - 1 = next
  BY <1>1 DEF NextRequest
<1> QED BY <1>4, <1>5, Zenon DEF FramingInv

\* A response whose body is retained.
LEMMA RetainedReplyFramed ==
    ASSUME H1Inv, TypeOK', FramingInv, Fixed, NEW keep, ReplyRetained(keep)
    PROVE  FramingInv'
<1> SUFFICES ASSUME ~behind, ~tight
             PROVE  FramingInv'
  BY Zenon DEF FramingInv, Fixed
<1> DEFINE x == Item(next, "head_retained")
           y == Item(next, "body")
           z == Item(next, "full")
<1>1. /\ token = "idle" /\ retained = 0
      /\ WellFramed(Written) /\ Whole(Written, next - 1) /\ Written \in Seq(Items)
      /\ next \in 0 .. MaxRequests /\ next - 1 \in Nat /\ (next - 1) + 1 = next
  BY ParsedWhole, Zenon DEF ReplyRetained, NextRequest, Parsing
<1>2. /\ x \in Items /\ x.part = "head_retained" /\ x.req = next
      /\ y \in Items /\ y.part = "body" /\ y.req = next
      /\ z \in Items /\ z.part = "full" /\ z.req = next
  BY <1>1, ItemTyped, PartsTyped DEF Item
<1>3. /\ \/ outbound' = Append(outbound, x) /\ y = Item(retained', "body") /\ retained' # 0
         \/ outbound' = Append(outbound, z) /\ retained' = retained
      /\ wire' = wire /\ token' = "idle" /\ next' - 1 = next /\ source' = 0
  BY <1>1 DEF ReplyRetained, NextRequest
<1> HIDE DEF x, y, z
<1>4. WellFramed(Written') /\ Whole(Written', next)
  <2>1. CASE outbound' = Append(outbound, x) /\ y = Item(retained', "body") /\ retained' # 0
    <3>1. Written' = Append(Append(Written, x), y)
      BY <1>1, <1>2, <1>3, <2>1, WrittenGrows DEF H1Inv
    <3> QED BY <1>1, <1>2, <3>1, RetainedAppended
  <2>2. CASE outbound' = Append(outbound, z) /\ retained' = retained
    <3>1. Written' = Append(Written, z)
      BY <1>1, <1>2, <1>3, <2>2, WrittenGrows, Zenon DEF H1Inv
    <3> QED BY <1>1, <1>2, <3>1, FullAppended, Zenon
  <2> QED BY <1>3, <2>1, <2>2, Zenon
<1> QED BY <1>3, <1>4, Zenon DEF FramingInv

\* A response whose body is streamed from a source.
LEMMA SourceReplyFramed ==
    ASSUME H1Inv, TypeOK', FramingInv, Fixed,
           NEW kind \in SourceKinds, NEW keep \in BOOLEAN, ReplySource(kind, keep)
    PROVE  FramingInv'
<1> SUFFICES ASSUME ~behind, ~tight
             PROVE  FramingInv'
  BY Zenon DEF FramingInv, Fixed
<1> DEFINE x == Item(next, CASE kind = "chunked" -> "head_chunked"
                             [] kind = "sized" -> "head_sized"
                             [] kind = "eof" -> "head_eof")
<1>1. /\ token = "idle" /\ retained = 0
      /\ WellFramed(Written) /\ Whole(Written, next - 1) /\ Written \in Seq(Items)
      /\ next \in 0 .. MaxRequests /\ next - 1 \in Nat /\ (next - 1) + 1 = next
  BY ParsedWhole, Zenon DEF ReplySource, NextRequest, Parsing
<1>2. /\ "sized" \in flags' <=> kind = "sized"
      /\ "chunked" \in flags' <=> kind = "chunked"
      /\ kind = "eof" => "close_after_stream" \in flags'
  BY Zenon DEF ReplySource, SourceKinds
<1>3. x = Item(next, StreamHead')
  <2>1. CASE kind = "chunked"
    BY <1>2, <2>1, Zenon DEF StreamHead
  <2>2. CASE kind = "sized"
    BY <1>2, <2>2, Zenon DEF StreamHead
  <2>3. CASE kind = "eof"
    BY <1>2, <2>3, Zenon DEF StreamHead
  <2> QED BY <2>1, <2>2, <2>3, Zenon DEF SourceKinds
<1>4. outbound' = Append(outbound, x) /\ wire' = wire /\ retained' = 0
      /\ token' = "idle" /\ source' = next /\ transferred' = 0
  BY <1>1, Zenon DEF ReplySource, NextRequest
<1>5. unread' = 0 /\ next' - 1 = next
  BY <1>1 DEF ReplySource, NextRequest
<1>6. StreamHead' \in Heads /\ StreamHead' \in Parts
  BY Zenon DEF StreamHead, Heads, Parts
<1> HIDE DEF x
<1>7. x \in Items /\ x.part = StreamHead' /\ x.req = next
  BY <1>1, <1>3, <1>6, ItemTyped DEF Item
<1>8. Written' = Append(Written, x)
  BY <1>1, <1>4, <1>7, WrittenGrows DEF H1Inv
<1>9. WellFramed(Written') /\ Partial(Written', next, 0, StreamHead')
  BY <1>1, <1>6, <1>7, <1>8, HeadAppended
<1> QED BY <1>1, <1>2, <1>4, <1>5, <1>9 DEF FramingInv, SourceKinds

\* A deferred response is not written yet.
LEMMA DeferFramed ==
    ASSUME H1Inv, FramingInv, Fixed,
           pc = "parse", unread > 0, "paused" \notin flags,
           next' = next + 1, token' = "pending", source' = 0,
           UNCHANGED <<wire, outbound, retained>>
    PROVE  FramingInv'
<1> SUFFICES ASSUME ~behind, ~tight
             PROVE  FramingInv'
  BY Zenon DEF FramingInv, Fixed
<1>1. WellFramed(Written) /\ Whole(Written, next - 1) /\ next - 1 \in Nat
  BY ParsedWhole, Zenon
<1>2. next' - 2 = next - 1
  BY <1>1 DEF H1Inv, TypeOK
<1> QED BY <1>1, <1>2, WrittenSame, Zenon DEF FramingInv

\* connection_close marks the connection.
LEMMA CloseMarks ==
    ASSUME NEW p, NEW f, Close(p, f)
    PROVE  "close_after_write" \in flags'
<1> DEFINE a == IF p = "send" THEN "send" ELSE "close"
           g == f \cup {"close_after_write"}
<1>1. a \in {"send", "receive", "close"} /\ "close_after_write" \in g
  BY Zenon
<1>2. Retry(a, g)
  BY Zenon DEF Close
<1> HIDE DEF a, g
<1> QED BY <1>1, <1>2, RetryCases

\* send_pending keeps the mark.
LEMMA SendPendingMarks ==
    ASSUME NEW f, "close_after_write" \in f, NEW out, NEW t, SendPending(f, out, t)
    PROVE  "close_after_write" \in flags'
BY RetryCases, Zenon DEF SendPending, Receive

\* The error response of h1_input is the last one.
LEMMA InputFailedFramed ==
    ASSUME H1Inv, TypeOK', FramingInv, Fixed, NEW f, InputFailed(f),
           pc = "parse", unread > 0, "paused" \notin flags,
           UNCHANGED <<retained, wire, token, net>>, source' = 0
    PROVE  FramingInv'
<1> SUFFICES ASSUME ~behind, ~tight
             PROVE  FramingInv'
  BY Zenon DEF FramingInv, Fixed
<1> DEFINE x == Item(0, "error")
<1>1. /\ token = "idle" /\ retained = 0 /\ WellFramed(Written)
      /\ Whole(Written, next - 1) /\ Written \in Seq(Items) /\ next - 1 \in Nat
  BY ParsedWhole, Zenon
<1>2. x \in Items /\ x.part = "error"
  BY ItemTyped, PartsTyped, RequestsAssumption DEF Item
<1>3. pc' = "idle" /\ "close_after_write" \in flags'
  <2>1. pc' = "idle"
    BY Zenon DEF InputFailed
  <2>2. \/ Close(pending, f \ {"resumed"}) \/ Close("close", f)
        \/ SendPending(f \cup {"close_after_write"}, outbound', token)
    BY Zenon DEF InputFailed
  <2>3. "close_after_write" \in f \cup {"close_after_write"}
    BY Zenon
  <2> QED BY <2>1, <2>2, <2>3, CloseMarks, SendPendingMarks, Zenon
<1>4. outbound' = outbound \/ outbound' = Append(outbound, x)
  BY Zenon DEF InputFailed
<1>5. CASE outbound' = outbound
  <2>1. WellFramed(Written')
    BY <1>1, <1>5, WrittenSame, Zenon
  <2> QED BY <1>1, <1>3, <2>1, Zenon DEF FramingInv
<1>6. CASE outbound' = Append(outbound, x)
  <2> HIDE DEF x
  <2>1. Written' = Append(Written, x)
    BY <1>1, <1>2, <1>6, WrittenGrows, Zenon DEF H1Inv
  <2>2. WellFramed(Written')
    BY <1>1, <1>2, <2>1, StartAppended DEF Starts
  <2> QED BY <1>1, <1>3, <2>2, Zenon DEF FramingInv
<1> QED BY <1>4, <1>5, <1>6, Zenon

\* stream_next continues the response it streams, and ends it only whole or with
\* the close of the connection.
LEMMA StreamNextFramed ==
    ASSUME H1Inv, FramingInv, Fixed, NEW result \in StreamResults, NEW f,
           StreamNext(result, f), outbound' = <<>> => Written' = Written,
           \A x \in Items : outbound' = <<x>> => Written' = Append(Written, x),
           "sized" \in f <=> "sized" \in flags,
           "chunked" \in f <=> "chunked" \in flags,
           "close_after_stream" \in f <=> "close_after_stream" \in flags,
           pc' = "idle", UNCHANGED <<next, token, net>>, net = "open"
    PROVE  FramingInv'
<1> SUFFICES ASSUME ~behind, ~tight
             PROVE  FramingInv'
  BY Zenon DEF FramingInv, Fixed
<1>1. WellFramed(Written) /\ Written \in Seq(Items)
  BY WrittenTyped, Zenon DEF FramingInv, H1Inv
<1>2. CASE result = "failed"
  <2>1. Written' = Written /\ source' = 0
    BY <1>2, Zenon DEF StreamNext, CloseSource
  <2>2. "close_after_write" \in flags'
    BY <1>2, CloseMarks, Zenon DEF StreamNext
  <2> QED BY <1>1, <2>1, <2>2, Zenon DEF FramingInv
<1>3. CASE result # "failed"
  <2> DEFINE c == Item(source, "chunk")
             e == Item(source, "final")
  <2>1. source # 0 /\ token = "idle"
    BY <1>3, Zenon DEF StreamResults, H1Inv, Streams
  <2>2. /\ source = next - 1 /\ Partial(Written, source, transferred, StreamHead)
        /\ "chunked" \notin flags \/ "sized" \notin flags
        /\ \/ "chunked" \in flags \/ "sized" \in flags
           \/ "close_after_stream" \in flags
    BY <2>1, Zenon DEF FramingInv
  <2>3. source \in Nat /\ source \in 0 .. MaxRequests /\ transferred \in Nat
    BY DEF H1Inv, TypeOK
  <2>4. /\ c \in Items /\ c.part = "chunk" /\ c.req = source
        /\ e \in Items /\ e.part = "final" /\ e.req = source
    BY <2>3, ItemTyped, PartsTyped, Zenon DEF Item
  <2>5. CASE result = "chunk"
    <3>1. outbound' = <<c>> /\ source' = source /\ transferred' = transferred + 1
      BY <2>5, Zenon DEF StreamNext
    <3>2. transferred < MaxChunks
      BY <2>1, <2>5, Zenon DEF StreamResults
    <3>3. AfterSend(f, outbound') /\ outbound' # <<>>
      <4>1. AfterSend(f, outbound')
        BY <2>5, Zenon DEF StreamNext
      <4> HIDE DEF c
      <4> QED BY <3>1, <4>1, Zenon
    <3>4. /\ "sized" \in flags' <=> "sized" \in flags
          /\ "chunked" \in flags' <=> "chunked" \in flags
          /\ "close_after_stream" \in flags' <=> "close_after_stream" \in flags
      BY <3>3, RetryCases DEF AfterSend, SendPending
    <3>5. StreamHead' = StreamHead
      BY <3>4, Zenon DEF StreamHead
    <3> HIDE DEF c, e
    <3>6. Written' = Append(Written, c)
      BY <2>4, <3>1, Zenon
    <3>7. WellFramed(Written') /\ Partial(Written', source, transferred + 1, StreamHead)
      BY <1>1, <2>2, <2>3, <2>4, <3>2, <3>6, ChunkAppended, Zenon
    <3> QED BY <2>1, <2>2, <3>1, <3>4, <3>5, <3>7, Zenon DEF FramingInv
  <2>6. CASE result = "eof"
    <3>1. /\ outbound' = IF "chunked" \in f THEN <<e>> ELSE <<>>
          /\ source' = 0
      BY <2>6, Zenon DEF StreamNext, CloseSource
    <3> HIDE DEF c, e
    <3>2. CASE "chunked" \in flags
      <4>1. StreamHead # "head_sized"
        BY <2>2, <3>2, Zenon DEF StreamHead
      <4>2. Written' = Append(Written, e)
        BY <2>4, <3>1, <3>2, Zenon
      <4>3. WellFramed(Written') /\ Whole(Written', source)
        BY <1>1, <2>2, <2>3, <2>4, <4>1, <4>2, FinalAppended
      <4> QED BY <2>1, <2>2, <3>1, <4>3, Zenon DEF FramingInv
    <3>3. CASE "chunked" \notin flags /\ "sized" \in flags
      <4>1. transferred = MaxChunks
        <5>1. ~(transferred < MaxChunks)
          BY <2>1, <2>6, <3>3, Zenon DEF StreamResults
        <5>2. transferred <= MaxChunks
          BY <2>2, Zenon DEF Partial
        <5> QED BY <2>3, <5>1, <5>2, ChunksAssumption
      <4>2. StreamHead = "head_sized"
        BY <3>3, Zenon DEF StreamHead
      <4>3. Whole(Written, source)
        BY <1>1, <2>2, <2>3, <4>1, <4>2, SizedComplete
      <4>4. Written' = Written
        BY <3>1, <3>3, Zenon
      <4> QED BY <1>1, <2>1, <2>2, <3>1, <4>3, <4>4, Zenon DEF FramingInv
    <3>4. CASE "chunked" \notin flags /\ "sized" \notin flags
      <4>1. outbound' = <<>> /\ Written' = Written
        BY <3>1, <3>4, Zenon
      <4>2. "close_after_stream" \in f
        BY <2>2, <3>4
      <4>3. "close_after_write" \in flags'
        BY <2>6, <4>1, <4>2, RetryCases DEF StreamNext, AfterSend, Close
      <4> QED BY <1>1, <2>1, <3>1, <4>1, <4>3, Zenon DEF FramingInv
    <3> QED BY <3>2, <3>3, <3>4, Zenon
  <2> QED BY <1>3, <2>5, <2>6, Zenon DEF StreamNext
<1> QED BY <1>2, <1>3, Zenon

\* A deferred response is written behind the whole ones before it.
LEMMA DrainReadyFramed ==
    ASSUME H1Inv, TypeOK', FramingInv, Fixed, DrainReady
    PROVE  FramingInv'
<1> SUFFICES ASSUME ~behind, ~tight
             PROVE  FramingInv'
  BY Zenon DEF FramingInv, Fixed
<1> DEFINE x == Item(next - 1, "full")
<1>1. /\ net = "open" /\ token # "idle" /\ pc' = "idle" /\ token' = "idle"
      /\ UNCHANGED <<next, wire, retained, source>>
  BY Zenon DEF DrainReady
<1>2. retained = 0 /\ source = 0
  BY <1>1, Zenon DEF H1Inv, Streams, Pauses
<1>3. WellFramed(Written) /\ Whole(Written, next - 2) /\ Written \in Seq(Items)
  BY <1>1, WrittenTyped, Zenon DEF FramingInv, H1Inv
<1>4. next - 2 \in Nat /\ (next - 2) + 1 = next - 1 /\ next - 1 \in 0 .. MaxRequests
  <2>1. Len(Written) \in Nat
    BY <1>3
  <2>2. next - 2 \in Nat
    BY <1>3, <2>1, StartsFinite, Zenon DEF Whole
  <2> QED BY <2>2, RequestsAssumption DEF H1Inv, TypeOK
<1>5. x \in Items /\ x.part = "full" /\ x.req = next - 1
  BY <1>4, ItemTyped, PartsTyped, Zenon DEF Item
<1>6. CASE outbound' = Append(outbound, x)
  <2> HIDE DEF x
  <2>1. Written' = Append(Written, x)
    BY <1>1, <1>2, <1>5, <1>6, WrittenGrows DEF H1Inv
  <2>2. WellFramed(Written') /\ Whole(Written', next - 1)
    BY <1>3, <1>4, <1>5, <2>1, FullAppended
  <2> QED BY <1>1, <1>2, <2>2, Zenon DEF FramingInv
<1>7. CASE outbound' = outbound /\ Close(pending, flags \ {"builder_deferred"})
  <2>1. "close_after_write" \in flags'
    BY <1>7, CloseMarks, Zenon
  <2> QED BY <1>1, <1>2, <1>3, <1>7, <2>1, WrittenSame, Zenon DEF FramingInv
<1> QED BY <1>6, <1>7, Zenon DEF DrainReady

\* What has been written is a prefix of what is to be.
LEMMA WireFramed ==
    ASSUME TypeOK, WellFramed(Written)
    PROVE  WellFramed(wire)
<1> DEFINE b == IF retained = 0 THEN <<>> ELSE <<Item(retained, "body")>>
<1>1. WellFramed((wire \o outbound) \o b)
  BY Zenon DEF Written
<1>2. b \in Seq(Items)
  <2>1. Item(retained, "body") \in Items
    BY ItemTyped, PartsTyped, Zenon DEF TypeOK
  <2> QED BY <2>1
<1> HIDE DEF b
<1>3. wire \in Seq(Items) /\ outbound \in Seq(Items) /\ wire \o outbound \in Seq(Items)
  BY Concatenated, Zenon DEF TypeOK
<1> QED BY <1>1, <1>2, <1>3, FramedPrefix

\* A connection that is gone has written what it has written.
LEMMA ClosedFramed ==
    ASSUME H1Inv, H1Inv', FramingInv, Fixed, ConnectionClosed
    PROVE  FramingInv'
<1> SUFFICES ASSUME ~behind, ~tight
             PROVE  FramingInv'
  BY Zenon DEF FramingInv, Fixed
<1>1. wire \in Seq(Items)
  BY Zenon DEF H1Inv, TypeOK
<1>2. WellFramed(wire)
  BY WireFramed, Zenon DEF FramingInv, H1Inv
<1>3. wire' = wire /\ outbound' = <<>> /\ retained' = 0 /\ net' = "closed"
  BY Zenon DEF ConnectionClosed
<1>4. Written' = wire
  BY <1>1, <1>3, Concatenated DEF Written
<1>5. source' = 0
  BY <1>3, Zenon DEF H1Inv, Quiet
<1> QED BY <1>2, <1>3, <1>4, <1>5, Zenon DEF FramingInv

\* Opening, retrying and receiving write nothing.
LEMMA ReceptionFramed ==
    ASSUME H1Inv, FramingInv, Fixed
    PROVE  /\ Connected => FramingInv'
           /\ RetryPending => FramingInv'
           /\ \A n \in 0 .. MaxRequests : OnReceive(n) => FramingInv'
<1>1. ASSUME Connected
      PROVE  FramingInv'
  <2>1. /\ "sized" \in flags' <=> "sized" \in flags
        /\ "chunked" \in flags' <=> "chunked" \in flags
        /\ "close_after_stream" \in flags' <=> "close_after_stream" \in flags
        /\ "close_after_write" \in flags' <=> "close_after_write" \in flags
    BY <1>1, RetryCases DEF Connected, Receive
  <2>2. pc = "idle" /\ token = "idle" /\ source = 0
    BY <1>1, Zenon DEF Connected, H1Inv, Quiet
  <2> QED BY <1>1, <2>1, <2>2, WrittenSame, FramingKept DEF Connected
<1>2. ASSUME RetryPending
      PROVE  FramingInv'
  <2>1. /\ "sized" \in flags' <=> "sized" \in flags
        /\ "chunked" \in flags' <=> "chunked" \in flags
        /\ "close_after_stream" \in flags' <=> "close_after_stream" \in flags
        /\ "close_after_write" \in flags' <=> "close_after_write" \in flags
    BY <1>2, RetryCases DEF RetryPending, H1Inv, TypeOK
  <2> QED BY <1>2, <2>1, WrittenSame, FramingKept, Zenon DEF RetryPending
<1>3. ASSUME NEW n \in 0 .. MaxRequests, OnReceive(n)
      PROVE  FramingInv'
  <2>1. /\ "sized" \in flags' <=> "sized" \in flags
        /\ "chunked" \in flags' <=> "chunked" \in flags
        /\ "close_after_stream" \in flags' <=> "close_after_stream" \in flags
        /\ "close_after_write" \in flags' <=> "close_after_write" \in flags
        /\ pc' = "parse" => "close_after_write" \notin flags
    BY <1>3, Zenon DEF OnReceive
  <2>2. source = 0
    BY <1>3, Zenon DEF OnReceive, H1Inv, Streams, ReceiveClear
  <2>3. pc = "idle" /\ pc' \in {"idle", "parse"}
    BY <1>3, Zenon DEF OnReceive
  <2> QED BY <1>3, <2>1, <2>2, <2>3, WrittenSame, FramingKept, Zenon DEF OnReceive
<1> QED BY <1>1, <1>2, <1>3, Zenon

\* Everything the parser does keeps the framing.
LEMMA ParseFramed ==
    ASSUME H1Inv, H1Inv', FramingInv, Fixed, Parse
    PROVE  FramingInv'
<1>1. ASSUME NEW keep \in BOOLEAN,
             ReplyBuffered(keep) \/ ReplyHead(keep) \/ RejectAdmission
      PROVE  FramingInv'
  BY <1>1, FullReplyFramed, Zenon
     DEF ReplyBuffered, ReplyHead, RejectAdmission, H1Inv
<1>2. ASSUME NEW keep \in BOOLEAN, ReplyRetained(keep)
      PROVE  FramingInv'
  BY <1>2, RetainedReplyFramed, Zenon DEF H1Inv
<1>3. ASSUME NEW kind \in SourceKinds, NEW keep \in BOOLEAN, ReplySource(kind, keep)
      PROVE  FramingInv'
  BY <1>3, SourceReplyFramed, Zenon DEF H1Inv
<1>4. ASSUME NEW keep \in BOOLEAN, Defer(keep) \/ DeferThenFail
      PROVE  FramingInv'
  BY <1>4, DeferFramed, Zenon DEF Defer, DeferThenFail, Parsing
<1>5. ASSUME RequestFails
      PROVE  FramingInv'
  BY <1>5, InputFailedFramed, Zenon DEF RequestFails, Parsing, H1Inv
<1>6. ASSUME HeadFails
      PROVE  FramingInv'
  <2> SUFFICES ASSUME ~behind, ~tight
               PROVE  FramingInv'
    BY Zenon DEF FramingInv, Fixed
  <2>1. pc = "parse" /\ unread > 0 /\ "paused" \notin flags
    BY <1>6, Zenon DEF HeadFails
  <2>2. source' = 0
    BY <1>6, <2>1, ParsedWhole, Zenon DEF HeadFails
  <2> QED BY <1>6, <2>1, <2>2, InputFailedFramed, Zenon DEF HeadFails, H1Inv
<1>7. ASSUME StashFails
      PROVE  FramingInv'
  BY <1>7, Zenon DEF StashFails, FramingInv, Fixed
<1>8. ASSUME NEW more \in BOOLEAN, InputConsumed(more)
      PROVE  FramingInv'
  <2> DEFINE f == (flags \ {"resumed"}) \cup (IF more THEN {"partial"} ELSE {})
  <2>1. AfterSend(f, outbound) \/ SendPending(f, outbound, token)
    BY <1>8, Zenon DEF InputConsumed
  <2>2. /\ "sized" \in f <=> "sized" \in flags
        /\ "chunked" \in f <=> "chunked" \in flags
        /\ "close_after_stream" \in f <=> "close_after_stream" \in flags
    BY Zenon
  <2> HIDE DEF f
  <2>3. /\ "sized" \in flags' <=> "sized" \in f
        /\ "chunked" \in flags' <=> "chunked" \in f
        /\ "close_after_stream" \in flags' <=> "close_after_stream" \in f
    BY <2>1, RetryCases DEF AfterSend, SendPending, Receive, Close
  <2>4. pc = "parse" /\ pc' = "idle"
    BY <1>8, Zenon DEF InputConsumed
  <2> QED BY <1>8, <2>2, <2>3, <2>4, WrittenSame, FramingKept DEF InputConsumed
<1> QED BY <1>1, <1>2, <1>3, <1>4, <1>5, <1>6, <1>7, <1>8, Zenon DEF Parse

\* So do a completed write and a file that is ready.
LEMMA SendFramed ==
    ASSUME H1Inv, H1Inv', FramingInv, Fixed, OnSend \/ FileReady
    PROVE  FramingInv'
<1>0. /\ "sized" \in SentFlags <=> "sized" \in flags
      /\ "chunked" \in SentFlags <=> "chunked" \in flags
      /\ "close_after_stream" \in SentFlags <=> "close_after_stream" \in flags
      /\ "close_after_write" \in SentFlags <=> "close_after_write" \in flags
  BY Zenon DEF SentFlags
<1>1. ASSUME NEW result \in StreamResults, SentStream(result)
      PROVE  FramingInv'
  <2>1. /\ outbound' = <<>> => Written' = Written
        /\ \A x \in Items : outbound' = <<x>> => Written' = Append(Written, x)
    BY <1>1, WrittenSent, Zenon DEF SentStream, Sent, H1Inv
  <2>2. /\ StreamNext(result, SentFlags) /\ pc' = "idle" /\ net = "open"
        /\ UNCHANGED <<next, token, net>>
    BY <1>1, Zenon DEF SentStream, Sent
  <2> QED BY <1>0, <2>1, <2>2, StreamNextFramed, Zenon
<1>2. ASSUME SentWaits
      PROVE  FramingInv'
  <2>1. Written' = Written /\ flags' = SentFlags /\ pc' = "idle" /\ net' = net
    BY <1>2, WrittenSent, Zenon DEF SentWaits, Sent, H1Inv
  <2> QED BY <1>0, <1>2, <2>1, FramingKept, Zenon DEF SentWaits, Sent
<1>3. ASSUME SentResumes
      PROVE  FramingInv'
  <2>1. Written' = Written
    BY <1>3, WrittenSent, Zenon DEF SentResumes, Sent, H1Inv
  <2>2. source = 0 /\ "close_after_write" \notin flags
    BY <1>3, Zenon DEF SentResumes, H1Inv, Streams
  <2>3. /\ "sized" \in flags' <=> "sized" \in flags
        /\ "chunked" \in flags' <=> "chunked" \in flags
        /\ "close_after_stream" \in flags' <=> "close_after_stream" \in flags
    BY <1>0, <1>3, Zenon DEF SentResumes
  <2> QED BY <1>3, <2>1, <2>2, <2>3, FramingKept DEF SentResumes, Sent
<1>4. ASSUME SentPlain
      PROVE  FramingInv'
  <2>1. Written' = Written
    BY <1>4, WrittenSent, Zenon DEF SentPlain, Sent, H1Inv
  <2>2. AfterSend(SentFlags, <<>>) /\ pc' = "idle"
    BY <1>4, Zenon DEF SentPlain, Sent
  <2>3. /\ "sized" \in flags' <=> "sized" \in SentFlags
        /\ "chunked" \in flags' <=> "chunked" \in SentFlags
        /\ "close_after_stream" \in flags' <=> "close_after_stream" \in SentFlags
        /\ "close_after_write" \in SentFlags => "close_after_write" \in flags'
    BY <2>2, RetryCases DEF AfterSend, SendPending, Receive, Close
  <2> QED BY <1>0, <1>4, <2>1, <2>2, <2>3, FramingKept DEF SentPlain, Sent
<1>5. ASSUME FileReady
      PROVE  FramingInv'
  <2>1. retained = 0 /\ outbound = <<>> /\ wire' = wire /\ retained' = 0
    BY <1>5, Zenon DEF FileReady, H1Inv, Streams
  <2>2. /\ outbound' = <<>> => Written' = Written
        /\ \A x \in Items : outbound' = <<x>> => Written' = Append(Written, x)
    BY <2>1, WrittenFile, Zenon DEF H1Inv
  <2>3. PICK result \in StreamResults : StreamNext(result, flags)
    BY <1>5, Zenon DEF FileReady
  <2>4. pc' = "idle" /\ net = "open" /\ UNCHANGED <<next, token, net>>
    BY <1>5, Zenon DEF FileReady
  <2> QED BY <2>2, <2>3, <2>4, StreamNextFramed, Zenon
<1> QED BY <1>1, <1>2, <1>3, <1>4, <1>5, OnSendCases, Zenon

\* So do deferred responses, deadlines and the shutdown.
LEMMA RestFramed ==
    ASSUME H1Inv, H1Inv', FramingInv, Fixed,
           \/ \E state \in {"ready", "canceled"} : WorkerSettles(state)
           \/ Drain \/ DeadlineExpires \/ Shutdown
    PROVE  FramingInv'
<1>1. ASSUME NEW state \in {"ready", "canceled"}, WorkerSettles(state)
      PROVE  FramingInv'
  <2>1. token # "idle" /\ token' # "idle" /\ source = 0
    BY <1>1, Zenon DEF WorkerSettles, H1Inv, Streams
  <2> QED BY <1>1, <2>1, WrittenSame, FramingKept DEF WorkerSettles
<1>2. ASSUME DrainReady
      PROVE  FramingInv'
  BY <1>2, DrainReadyFramed, Zenon DEF H1Inv
<1>3. ASSUME DrainCanceled
      PROVE  FramingInv'
  <2>1. token # "idle" /\ token' = "idle" /\ pc' = "idle" /\ source' = 0
    BY <1>3, Zenon DEF DrainCanceled, H1Inv, Streams
  <2>2. Written' = Written
    BY <1>3, WrittenSame, Zenon DEF DrainCanceled
  <2>3. net' # "open" \/ "close_after_write" \in flags'
    BY <1>3, CloseMarks, Zenon DEF DrainCanceled
  <2>4. net' = "closed" \/ "close_after_write" \in flags'
    BY <1>3, <2>1, <2>3 DEF DrainCanceled, H1Inv, Quiet, TypeOK
  <2> QED BY <2>1, <2>2, <2>4, Zenon DEF FramingInv, Fixed
<1>4. ASSUME DeadlineExpires \/ Shutdown
      PROVE  FramingInv'
  <2>1. "close_after_write" \in flags' /\ pc' = "idle"
    BY <1>4, CloseMarks, Zenon DEF DeadlineExpires, Shutdown
  <2>2. /\ "sized" \in flags' <=> "sized" \in flags
        /\ "chunked" \in flags' <=> "chunked" \in flags
        /\ "close_after_stream" \in flags' <=> "close_after_stream" \in flags
    BY <1>4, RetryCases DEF DeadlineExpires, Shutdown, Close
  <2> QED BY <1>4, <2>1, <2>2, WrittenSame, FramingKept DEF DeadlineExpires, Shutdown
<1> QED BY <1>1, <1>2, <1>3, <1>4, Zenon DEF Drain

\* A connection that has written nothing is framed.
LEMMA FramingInitial == Init => FramingInv
<1> SUFFICES ASSUME Init
             PROVE  FramingInv
  BY Zenon
<1>1. /\ next - 1 = 0 /\ source = 0 /\ token = "idle" /\ wire = <<>>
      /\ outbound = <<>> /\ retained = 0
  BY DEF Init
<1>2. Written = <<>>
  <2>1. <<>> \in Seq(Items)
    OBVIOUS
  <2> QED BY <1>1, <2>1, Concatenated, Zenon DEF Written
<1>3. Len(Written) = 0
  BY <1>2, Zenon
<1>4. StartsOf(Written, Len(Written)) = {}
  BY <1>3 DEF StartsOf
<1>5. WellFramed(Written)
  BY <1>3 DEF WellFramed
<1>6. Whole(Written, 0)
  BY <1>3, <1>4, FS_EmptySet DEF Whole
<1> QED BY <1>1, <1>5, <1>6, Zenon DEF FramingInv

\* Every step of the connection keeps what is written and about to be written
\* framed.
THEOREM FramingInvariance == Spec => []FramingInv
<1>1. Init => FramingInv
  BY FramingInitial, Zenon
<1>2. H1Inv /\ H1Inv' /\ FramingInv /\ [Next]_vars => FramingInv'
  <2> SUFFICES ASSUME H1Inv, H1Inv', FramingInv, [Next]_vars
               PROVE  FramingInv'
    BY Zenon
  <2>1. CASE UNCHANGED vars
    BY <2>1, WrittenSame, FramingKept, Zenon DEF vars, Fixed, FramingInv
  <2>2. CASE Next
    <3>1. Fixed /\ Step
      BY <2>2, Zenon DEF Next
    <3>2. CASE Finished
      BY <2>1, <3>2, Zenon DEF Finished
    <3> QED
      BY <3>1, <3>2, ReceptionFramed, ClosedFramed, ParseFramed, SendFramed,
         RestFramed, Zenon DEF Step
  <2> QED BY <2>1, <2>2, Zenon
<1> QED BY <1>1, <1>2, H1Invariance, PTL DEF Spec

\* What the peer receives is a sequence of whole responses in the order of its
\* requests, of which only the last can be incomplete, whatever the handlers,
\* the sources, the workers and the transport do (send_pending, stream_next,
\* deferred_progress and the parser's pause and resume).
THEOREM ResponsesStayFramed == Spec => []ResponsesFramed
<1>1. H1Inv /\ FramingInv => ResponsesFramed
  <2> SUFFICES ASSUME H1Inv, FramingInv, ~behind, ~tight
               PROVE  Framed
    BY Zenon DEF ResponsesFramed
  <2>1. WellFramed(wire)
    BY WireFramed, Zenon DEF FramingInv, H1Inv
  <2> QED BY <2>1, Zenon DEF WellFramed, FramedAt, EndsAt, StartsOf, Framed, Ends
<1> QED BY <1>1, H1Invariance, FramingInvariance, PTL
==============================================================================
