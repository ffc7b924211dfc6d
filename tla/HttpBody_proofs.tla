--------------------------- MODULE HttpBody_proofs ---------------------------
(***************************************************************************)
(* Theorems of HttpBody, for all responses that fit ResponseAssumption,     *)
(* well-formed or not, all cuts of them and all limits.                    *)
(***************************************************************************)
EXTENDS HttpBody, SequenceTheorems, WellFoundedInduction, TLAPS

\* What holds wherever the client is.
Typed ==
    /\ response \in Responses /\ closed \in BOOLEAN
    /\ sent \in 0 .. Len(response.stream) /\ got \in 0 .. sent
    /\ chunk \in Seq(Symbol) /\ delivered \in Seq(Symbol)
    /\ step \in {"headers", "body", "line", "data", "ending", "deliver", "fields", "done"}
    /\ step # "done" => result = "none"

-----------------------------------------------------------------------------
(* The parser.                                                               *)

\* What has been delivered and what is being delivered are the next of the body.
Copied ==
    /\ Len(delivered) + Len(chunk) <= Len(Body(response))
    /\ \A i \in 1 .. Len(delivered) : delivered[i] = Body(response)[i]
    /\ \A i \in 1 .. Len(chunk) : chunk[i] = Body(response)[Len(delivered) + i]

\* Nothing of the payload is missing.
Whole == IsPrefix(response.payload, delivered)

\* The connection ended within the headers.
Lost == closed /\ used = got /\ got = sent /\ sent < response.body /\ delivered = <<>>

\* All that has been read of the body is delivered or about to be.
InBody ==
    /\ framing = response.framing /\ framing # "chunked"
    /\ used = got /\ Len(delivered) + Len(chunk) = got - response.body

AtLine ==
    /\ framing = response.framing /\ framing = "chunked"
    /\ used \in DOMAIN response.lines /\ Len(delivered) + Len(chunk) = response.lines[used]

\* The line of a chunk ended at e, the chunk has `need` bytes.
InChunk(e) ==
    /\ framing = response.framing /\ framing = "chunked"
    /\ \E p \in DOMAIN response.lines :
          /\ e \in p + 1 .. Len(response.stream) /\ EndsAt(response, p, e)
          /\ response.stream[p + 1] = <<"size", need>> /\ need \in Nat \ {0}
          /\ Len(delivered) = response.lines[p]

Parsed ==
    /\ Copied
    /\ step \in {"headers", "body", "line", "data", "fields"} => chunk = <<>>
    /\ step = "headers" =>
          used \in response.blocks /\ used \in 0 .. got /\ delivered = <<>> /\ framing = "none"
    /\ step = "body" => InBody \/ (Lost /\ framing # "chunked")
    /\ step = "line" => used \in 0 .. got /\ (AtLine \/ (Lost /\ framing = "chunked"))
    /\ step = "data" => used \in 0 .. got /\ InChunk(used)
    /\ step = "ending" => used \in 0 .. got /\ InChunk(used - need) /\ Len(chunk) = need
    /\ step = "deliver" => used \in 0 .. got /\ (InBody \/ AtLine)
    /\ step = "fields" => Whole
    /\ result = "OK" /\ response.bodyless = "no" =>
          Whole \/ (framing # "chunked" /\ closed /\ sent < response.body + Len(response.payload))

IInv == Typed /\ Parsed

-----------------------------------------------------------------------------
(* Lemmas: slices of the stream and the client's buffer.                     *)

LEMMA Slice ==
    ASSUME NEW s \in Seq(Symbol), NEW m \in Nat, NEW n \in Nat, m <= n, n <= Len(s)
    PROVE  /\ SubSeq(s, m + 1, n) \in Seq(Symbol)
           /\ Len(SubSeq(s, m + 1, n)) = n - m
           /\ \A i \in 1 .. n - m : SubSeq(s, m + 1, n)[i] = s[m + i]
<1>1. Len(s) \in Nat /\ \A i \in m + 1 .. n : s[i] \in Symbol
  BY LenProperties, ElementOfSeq
<1>2. /\ SubSeq(s, m + 1, n) \in Seq(Symbol)
      /\ Len(SubSeq(s, m + 1, n)) = IF m + 1 <= n THEN n - (m + 1) + 1 ELSE 0
      /\ \A i \in 1 .. n - (m + 1) + 1 : SubSeq(s, m + 1, n)[i] = s[m + 1 + i - 1]
  BY <1>1, SubSeqProperties
<1>3. \A i \in 1 .. n - m : m + 1 + i - 1 = m + i /\ i \in 1 .. n - (m + 1) + 1
  OBVIOUS
<1> QED BY <1>2, <1>3

LEMMA SliceOfSlice ==
    ASSUME NEW s \in Seq(Symbol), NEW m \in Nat, NEW n \in Nat, m <= n, n <= Len(s),
           NEW j \in 0 .. n - m, NEW k \in j .. n - m
    PROVE  SubSeq(SubSeq(s, m + 1, n), j + 1, k) = SubSeq(s, m + j + 1, m + k)
<1> DEFINE b == SubSeq(s, m + 1, n)
           c == SubSeq(b, j + 1, k)
           d == SubSeq(s, (m + j) + 1, m + k)
<1>1. b \in Seq(Symbol) /\ Len(b) = n - m /\ \A i \in 1 .. n - m : b[i] = s[m + i]
  BY Slice
<1> HIDE DEF b
<1>2. c \in Seq(Symbol) /\ Len(c) = k - j /\ \A i \in 1 .. k - j : c[i] = b[j + i]
  BY <1>1, Slice
<1>3. d \in Seq(Symbol) /\ Len(d) = k - j /\ \A i \in 1 .. k - j : d[i] = s[m + j + i]
  <2>1. m + j \in Nat /\ m + k \in Nat /\ m + j <= m + k /\ m + k <= Len(s)
    BY LenProperties
  <2> QED BY <2>1, Slice
<1> HIDE DEF c, d
<1>4. \A i \in 1 .. k - j : c[i] = d[i]
  <2> SUFFICES ASSUME NEW i \in 1 .. k - j PROVE c[i] = d[i]
    OBVIOUS
  <2>1. j + i \in 1 .. n - m /\ m + (j + i) = m + j + i
    OBVIOUS
  <2> QED BY <1>1, <1>2, <1>3, <2>1
<1>5. c = d
  BY <1>2, <1>3, <1>4, SeqEqual
<1> QED BY <1>5 DEF b, c, d

\* A sequence that begins with another one.
LEMMA PrefixIs ==
    ASSUME NEW s \in Seq(Symbol), NEW t \in Seq(Symbol), Len(s) <= Len(t),
           \A i \in 1 .. Len(s) : s[i] = t[i]
    PROVE  IsPrefix(s, t)
<1>1. Len(s) \in Nat /\ Len(t) \in Nat
  BY LenProperties
<1>2. /\ SubSeq(t, 0 + 1, Len(s)) \in Seq(Symbol)
      /\ Len(SubSeq(t, 0 + 1, Len(s))) = Len(s) - 0
      /\ \A i \in 1 .. Len(s) - 0 : SubSeq(t, 0 + 1, Len(s))[i] = t[0 + i]
  BY <1>1, Slice
<1>3. SubSeq(t, 1, Len(s)) = s
  <2>1. \A i \in 1 .. Len(s) : SubSeq(t, 1, Len(s))[i] = s[i]
    BY <1>1, <1>2
  <2> QED BY <1>1, <1>2, <2>1, SeqEqual
<1>4. SubSeq(s, 1, Len(s)) = s
  BY SubSeqFull
<1> QED BY <1>3, <1>4 DEF IsPrefix

LEMMA Fitting ==
    ASSUME Typed
    PROVE  /\ response.framing \in {"chunked", "length", "close"}
           /\ response.bodyless \in {"no", "OK", "RANGE_ERROR", "HTTP_RETURNED_ERROR"}
           /\ response.stream \in Seq(Symbol) /\ response.payload \in Seq(Symbol)
           /\ Len(response.stream) \in Nat /\ Len(response.payload) \in Nat
           /\ response.body \in Nat /\ response.blocks \subseteq Nat
           /\ DOMAIN response.lines \subseteq Nat
           /\ \A p \in DOMAIN response.lines : response.lines[p] \in Nat
           /\ sent \in Nat /\ got \in Nat /\ got <= sent /\ sent <= Len(response.stream)
           /\ Fits(response)
<1>1. response \in Responses
  BY DEF Typed
<1>2. /\ response.stream \in Seq(Symbol) /\ response.payload \in Seq(Symbol)
      /\ Len(response.stream) \in Nat /\ Len(response.payload) \in Nat
  BY <1>1, ResponseAssumption, LenProperties
<1>3. sent \in Nat /\ got \in Nat /\ got <= sent /\ sent <= Len(response.stream)
  BY <1>2 DEF Typed
<1>4. /\ response.framing \in {"chunked", "length", "close"}
      /\ response.bodyless \in {"no", "OK", "RANGE_ERROR", "HTTP_RETURNED_ERROR"}
      /\ response.body \in Nat /\ response.blocks \subseteq Nat
      /\ DOMAIN response.lines \subseteq Nat
      /\ Fits(response)
  BY <1>1, <1>2, ResponseAssumption
<1>5. response.lines \in [DOMAIN response.lines -> 0 .. Len(response.payload)]
  BY <1>1, ResponseAssumption
<1> QED BY <1>2, <1>3, <1>4, <1>5

\* The body begins with the payload and, if it is not chunked, is the rest of the stream.
LEMMA BodyIs ==
    ASSUME Typed
    PROVE  /\ Body(response) \in Seq(Symbol) /\ Len(Body(response)) \in Nat
           /\ Len(response.payload) <= Len(Body(response))
           /\ \A i \in 1 .. Len(response.payload) : Body(response)[i] = response.payload[i]
           /\ response.framing # "chunked" =>
                 /\ Len(Body(response)) = Len(response.stream) - response.body
                 /\ response.body + Len(response.payload) <= Len(response.stream)
                 /\ \A i \in 1 .. Len(response.stream) - response.body :
                       Body(response)[i] = response.stream[response.body + i]
<1>1. CASE response.framing = "chunked"
  <2>1. Body(response) = response.payload
    BY <1>1 DEF Body
  <2> QED BY <1>1, <2>1, Fitting
<1>2. CASE response.framing # "chunked"
  <2>1. PlainFits(response)
    BY <1>2, Fitting DEF Fits
  <2>2. /\ response.body \in Nat /\ Len(response.payload) \in Nat /\ Len(response.stream) \in Nat
        /\ response.stream \in Seq(Symbol) /\ response.body + Len(response.payload) <= Len(response.stream)
    BY <2>1, Fitting DEF PlainFits
  <2>3. Body(response) = SubSeq(response.stream, response.body + 1, Len(response.stream))
    BY <1>2 DEF Body
  <2>4. /\ Body(response) \in Seq(Symbol) /\ Len(Body(response)) = Len(response.stream) - response.body
        /\ \A i \in 1 .. Len(response.stream) - response.body :
              Body(response)[i] = response.stream[response.body + i]
    <3>1. response.body <= Len(response.stream)
      BY <2>2
    <3> DEFINE m == response.body
               n == Len(response.stream)
    <3>2. /\ SubSeq(response.stream, m + 1, n) \in Seq(Symbol)
          /\ Len(SubSeq(response.stream, m + 1, n)) = n - m
          /\ \A i \in 1 .. n - m : SubSeq(response.stream, m + 1, n)[i] = response.stream[m + i]
      <4> HIDE DEF m
      <4>1. m \in Nat /\ n \in Nat /\ m <= n /\ n <= Len(response.stream)
        BY <2>2, <3>1 DEF m
      <4> HIDE DEF n
      <4> QED BY <2>2, <4>1, Slice
    <3> QED BY <2>3, <3>2
  <2>5. ASSUME NEW i \in 1 .. Len(response.payload) PROVE Body(response)[i] = response.payload[i]
    <3>1. i \in 1 .. Len(response.stream) - response.body
      BY <2>2
    <3> QED BY <2>1, <2>4, <3>1 DEF PlainFits
  <2> QED BY <2>2, <2>4, <2>5
<1> QED BY <1>1, <1>2

\* As much as the payload has been delivered, so the payload has.
LEMMA WholeIs ==
    ASSUME Typed, Copied, Len(response.payload) <= Len(delivered)
    PROVE  Whole
<1>1. delivered \in Seq(Symbol) /\ response.payload \in Seq(Symbol)
      /\ Len(delivered) \in Nat /\ Len(response.payload) \in Nat
  BY Fitting, LenProperties DEF Typed
<1>2. \A i \in 1 .. Len(response.payload) : response.payload[i] = delivered[i]
  BY <1>1, BodyIs DEF Copied
<1> QED BY <1>1, <1>2, PrefixIs DEF Whole

LEMMA Buffered ==
    ASSUME Typed, used \in Nat, used <= got
    PROVE  /\ Buffer \in Seq(Symbol) /\ Len(Buffer) = got - used
           /\ \A i \in 1 .. got - used : Buffer[i] = response.stream[used + i]
BY Fitting, Slice DEF Buffer

\* The end of the header block the client reads.
LEMMA BlockEnd ==
    ASSUME IInv, step = "headers"
    PROVE  \E n \in Nat \ {0} :
              /\ HeaderEnd = IF got < used + n THEN 0 ELSE n
              /\ used + n <= Len(response.stream) /\ used + n <= response.body
              /\ IF response.stream[used + 1] = <<"status", 100>>
                 THEN used + n \in response.blocks
                 ELSE response.stream[used + 1][1] = "status" => used + n = response.body
<1>1. used \in response.blocks /\ used \in Nat /\ used <= got /\ BlocksFit(response)
  BY Fitting DEF IInv, Parsed, Fits
<1>2. PICK n \in 1 .. Len(response.stream) - used :
          /\ \A q \in used .. Len(response.stream) :
                FindHeaderEnd(SubSeq(response.stream, used + 1, q)) = IF q < used + n THEN 0 ELSE n
          /\ used + n <= response.body
          /\ IF response.stream[used + 1] = <<"status", 100>> THEN used + n \in response.blocks
             ELSE response.stream[used + 1][1] = "status" => used + n = response.body
  BY <1>1 DEF BlocksFit
<1>3. got \in used .. Len(response.stream) /\ n \in Nat \ {0} /\ used + n <= Len(response.stream)
  BY <1>1, Fitting DEF IInv
<1>4. HeaderEnd = IF got < used + n THEN 0 ELSE n
  BY <1>2, <1>3 DEF HeaderEnd, Buffer
<1> QED BY <1>2, <1>3, <1>4

LEMMA OneTwo ==
    ASSUME NEW T, NEW a \in T, NEW b \in T
    PROVE  <<a>> \in Seq(T) /\ <<b, a>> \in Seq(T)
OBVIOUS

LEMMA EndingType == Lf \in Seq(Symbol) /\ CrLf \in Seq(Symbol)
<1>2. <<"cr", 0>> \in Symbol /\ <<"lf", 0>> \in Symbol
  BY DEF Symbol
<1> DEFINE c == <<"cr", 0>>
           l == <<"lf", 0>>
<1> HIDE DEF c, l
<1>3. <<l>> \in Seq(Symbol) /\ <<c, l>> \in Seq(Symbol)
  BY <1>2, OneTwo DEF c, l
<1> QED BY <1>3 DEF c, l, Lf, CrLf

\* An empty line at the front of the buffer, and what it is in the stream.
LEMMA EmptyLineIs ==
    ASSUME Typed, used \in Nat, used <= got, EmptyLine(Buffer) > 0
    PROVE  \E eol \in {Lf, CrLf} :
              /\ EmptyLine(Buffer) = Len(eol) /\ Len(eol) \in Nat
              /\ used + Len(eol) <= got
              /\ SubSeq(response.stream, used + 1, used + Len(eol)) = eol
<1>1. Len(Lf) = 1 /\ Len(CrLf) = 2
  BY DEF Lf, CrLf
<1>2. PICK eol \in {Lf, CrLf} : EmptyLine(Buffer) = Len(eol) /\ IsPrefix(eol, Buffer)
  BY <1>1 DEF EmptyLine
<1>3. Len(eol) \in Nat /\ Len(eol) <= got - used /\ SubSeq(Buffer, 1, Len(eol)) = eol
  <2>1. IsPrefix(eol, Buffer) => Len(eol) <= Len(Buffer) /\ SubSeq(eol, 1, Len(eol)) = SubSeq(Buffer, 1, Len(eol))
    BY DEF IsPrefix
  <2>2. eol \in Seq(Symbol)
    BY EndingType
  <2>3. SubSeq(eol, 1, Len(eol)) = eol
    BY <2>2, SubSeqFull
  <2> QED BY <1>1, <1>2, <2>1, <2>3, Buffered
<1>4. SubSeq(Buffer, 0 + 1, Len(eol)) = SubSeq(response.stream, used + 0 + 1, used + Len(eol))
  BY <1>3, Fitting, SliceOfSlice DEF Buffer
<1>5. used + 0 + 1 = used + 1 /\ used + Len(eol) <= got
  BY <1>3, Fitting
<1>6. SubSeq(response.stream, used + 1, used + Len(eol)) = eol
  BY <1>3, <1>4, <1>5
<1> WITNESS eol \in {Lf, CrLf}
<1> QED BY <1>2, <1>3, <1>5, <1>6

\* The end of the line the client reads.
LEMMA LineEndIs ==
    ASSUME Typed, used \in Nat, used <= got, LineEnd # 0
    PROVE  /\ LineEnd \in 1 .. got - used
           /\ EndsAt(response, used, used + LineEnd)
<1> DEFINE ends == {i \in 1 .. Len(Buffer) : Buffer[i] = <<"lf", 0>>}
           Least(m) == m \in ends /\ \A j \in ends : m <= j
<1>0. got - used \in Nat /\ Len(Buffer) = got - used
  BY Buffered, Fitting
<1>1. ends # {} /\ LineEnd = CHOOSE i \in ends : \A j \in ends : i <= j
  BY DEF LineEnd
<1>2. \E m \in ends : \A j \in ends : m <= j
  <2>1. ends \subseteq Nat
    BY <1>0
  <2>2. PICK m \in ends : \A j \in ends : ~(<<j, m>> \in OpToRel(<, Nat))
    BY <1>1, <2>1, NatLessThanWellFounded, WFMin
  <2>3. ASSUME NEW j \in ends PROVE m <= j
    <3>1. ~(j < m)
      BY <2>1, <2>2, <2>3 DEF OpToRel
    <3> QED BY <2>1, <3>1
  <2> QED BY <2>3
<1>3. Least(LineEnd)
  BY <1>1, <1>2
<1>4. LineEnd \in 1 .. got - used /\ Buffer[LineEnd] = <<"lf", 0>>
  BY <1>0, <1>3
<1>5. \A j \in 1 .. got - used : Buffer[j] = <<"lf", 0>> => LineEnd <= j
  BY <1>0, <1>3
<1> HIDE DEF ends
<1>6. \A j \in 1 .. got - used : Buffer[j] = response.stream[used + j]
  BY Buffered
<1>7. response.stream[used + LineEnd] = <<"lf", 0>>
  BY <1>4, <1>6
<1>8. ASSUME NEW i \in used + 1 .. used + LineEnd - 1 PROVE response.stream[i] # <<"lf", 0>>
  <2>1. i - used \in 1 .. got - used /\ i - used < LineEnd /\ used + (i - used) = i
    BY <1>0, <1>4, Fitting
  <2> QED BY <1>4, <1>5, <1>6, <2>1
<1>9. Lf[1] = <<"lf", 0>>
  BY DEF Lf
<1> QED BY <1>4, <1>7, <1>8, <1>9 DEF EndsAt

-----------------------------------------------------------------------------
(* The parser's invariant, step by step.                                     *)

LEMMA EmptyIs ==
    /\ <<>> \in Seq(Symbol) /\ Len(<<>>) = 0
    /\ \A s \in Seq(Symbol) : Len(s) \in Nat /\ (s = <<>> <=> Len(s) = 0)
    /\ \A s \in Seq(Symbol) : s \o <<>> = s
BY EmptySeq, ConcatEmptySeq, LenProperties

LEMMA InitInv == Init => IInv
<1> SUFFICES ASSUME Init PROVE IInv
  OBVIOUS
<1>1. Typed
  <2>1. response \in Responses /\ response.stream \in Seq(Symbol)
    BY ResponseAssumption DEF Init
  <2>2. Len(response.stream) \in Nat
    BY <2>1, LenProperties
  <2>3. <<>> \in Seq(Symbol)
    BY EmptyIs
  <2>4. sent = 0 /\ got = 0 /\ closed = FALSE /\ step = "headers" /\ result = "none"
    BY DEF Init
  <2>6. sent \in 0 .. Len(response.stream) /\ got \in 0 .. sent
    BY <2>2, <2>4
  <2>5. chunk \in Seq(Symbol) /\ delivered \in Seq(Symbol)
    BY <2>3 DEF Init
  <2> QED BY <2>1, <2>4, <2>5, <2>6 DEF Typed
<1>2. Copied
  BY <1>1, Fitting, EmptyIs DEF Init, Copied
<1>3. 0 \in response.blocks
  BY <1>1, Fitting DEF Fits, BlocksFit
<1> QED BY <1>1, <1>2, <1>3 DEF Init, IInv, Parsed

\* The network goes on, and the client at most reads more into its buffer.
LEMMA ParserKept ==
    ASSUME IInv, Typed', UNCHANGED <<response, used, step, framing, need, chunk, delivered, result>>,
           closed => closed' /\ sent' = sent,
           \/ got' = got
           \/ got < sent /\ got <= got' /\ step \in {"headers", "line", "data", "ending", "fields"}
    PROVE  Parsed'
<1> USE DEF IInv
<1>1. got \in Nat /\ got' \in Nat /\ response.blocks \subseteq Nat
      /\ DOMAIN response.lines \subseteq Nat /\ Len(response.stream) \in Nat
  BY Fitting DEF Typed
<1>2. Copied'
  BY DEF Parsed, Copied
<1>8. Whole' <=> Whole
  BY DEF Whole
<1>3. AtLine' <=> AtLine
  BY DEF AtLine
<1>4. \A e : InChunk(e)' <=> InChunk(e)
  BY DEF InChunk
<1>5. Lost => Lost'
  <2>1. sent \in Nat /\ got \in Nat
    BY Fitting
  <2> QED BY <2>1 DEF Lost
<1>6. CASE got' = got
  <2>1. InBody' <=> InBody
    BY <1>6 DEF InBody
  <2>2. InChunk(used)' <=> InChunk(used)
    BY <1>4
  <2>3. InChunk(used - need)' <=> InChunk(used - need)
    BY <1>4
  <2>4. result = "OK" /\ response.bodyless = "no" =>
          Whole' \/ (framing' # "chunked" /\ closed' /\ sent' < response'.body + Len(response'.payload))
    BY <1>8 DEF Parsed
  <2> QED BY <1>1, <1>2, <1>3, <1>5, <1>6, <1>8, <2>1, <2>2, <2>3, <2>4 DEF Parsed
<1>7. CASE got < sent /\ got <= got' /\ step \in {"headers", "line", "data", "ending", "fields"}
  <2>1. used \in 0 .. got => used \in 0 .. got'
    BY <1>1, <1>7
  <2>2. InChunk(used)' <=> InChunk(used)
    BY <1>4
  <2>3. InChunk(used - need)' <=> InChunk(used - need)
    BY <1>4
  <2>4. result = "none"
    BY <1>7 DEF Typed
  <2> QED BY <1>1, <1>2, <1>3, <1>5, <1>7, <1>8, <2>1, <2>2, <2>3, <2>4 DEF Parsed
<1> QED BY <1>6, <1>7

\* The transfer ends.
LEMMA ParserEnds ==
    ASSUME IInv, step' = "done", UNCHANGED <<response, chunk, delivered>>,
           result' = "OK" /\ response.bodyless = "no" =>
               Whole \/ (framing' # "chunked" /\ closed' /\ sent' < response.body + Len(response.payload))
    PROVE  Parsed'
<1>1. Copied'
  BY DEF IInv, Parsed, Copied
<1>2. Whole => Whole'
  BY DEF Whole
<1> QED BY <1>1, <1>2 DEF Parsed

LEMMA NetworkInv ==
    ASSUME IInv, (\E n \in Nat : Send(n)) \/ Close
    PROVE  IInv'
<1>1. Typed'
  <2>1. CASE \E n \in Nat : Send(n)
    BY <2>1, Fitting DEF Send, Typed, IInv, parser
  <2>2. CASE Close
    BY <2>2 DEF Close, Typed, IInv, parser
  <2> QED BY <2>1, <2>2
<1>2. /\ UNCHANGED <<response, used, step, framing, need, chunk, delivered, result, got>>
      /\ closed => closed' /\ sent' = sent
  BY DEF Send, Close, parser
<1> QED BY <1>1, <1>2, ParserKept DEF IInv

LEMMA ReceiveInv == ASSUME IInv, Receive PROVE IInv'
<1> USE DEF IInv
<1>1. /\ got < sent /\ got' = sent /\ got \in Nat /\ sent \in Nat
      /\ sent <= Len(response.stream) /\ NeedsMore
      /\ UNCHANGED <<server, framing, need, delivered>>
  BY Fitting DEF Receive
<1>2. CASE step # "body"
  <2>1. UNCHANGED <<used, step, chunk, result>>
    BY <1>2 DEF Receive
  <2>2. Typed'
    BY <1>1, <2>1 DEF Typed, server
  <2>3. step \in {"headers", "line", "data", "ending", "fields"}
    BY <1>1, <1>2 DEF NeedsMore
  <2> QED BY <1>1, <2>1, <2>2, <2>3, ParserKept DEF server
<1>3. CASE step = "body"
  <2>1. used' = sent /\ chunk' = Received /\ result' = result
        /\ step' = IF Received = <<>> THEN "body" ELSE "deliver"
    BY <1>3 DEF Receive, DeliverAll, Continue
  <2>2. /\ Received \in Seq(Symbol) /\ Len(Received) = sent - got
        /\ \A i \in 1 .. sent - got : Received[i] = response.stream[got + i]
    BY <1>1, Fitting, Slice DEF Received
  <2>3. step' = "deliver"
    BY <1>1, <2>1, <2>2, EmptyIs
  <2>4. Typed'
    BY <1>1, <2>1, <2>2, <2>3, <1>3 DEF Typed, server
  <2>5. InBody /\ chunk = <<>> /\ Copied
    BY <1>1, <1>3 DEF Parsed, Lost
  <2>6. response.framing # "chunked" /\ response.body \in Nat /\ Len(delivered) \in Nat
    BY <2>5, Fitting, LenProperties DEF InBody, Typed
  <2>7. Len(delivered) = got - response.body
    BY <1>1, <2>5, <2>6, EmptyIs DEF InBody
  <2>8. Copied'
    <3> DEFINE d == Len(delivered)
               b == Body(response)
               n == Len(response.stream)
    <3>0. /\ Len(b) = n - response.body /\ n \in Nat /\ d \in Nat /\ d = got - response.body
          /\ \A i \in 1 .. n - response.body : b[i] = response.stream[response.body + i]
      BY <2>6, <2>7, BodyIs, Fitting
    <3>1. d + (sent - got) <= Len(b)
      <4> HIDE DEF d, b, n
      <4>1. sent <= n
        BY <1>1 DEF n
      <4> QED BY <1>1, <2>6, <3>0, <4>1
    <3>2. ASSUME NEW i \in 1 .. sent - got
          PROVE  Received[i] = b[d + i]
      <4>0. i \in Nat /\ i >= 1 /\ i <= sent - got
        BY <1>1, <3>2
      <4>1. d + i \in 1 .. n - response.body /\ response.body + (d + i) = got + i
        <5> HIDE DEF d, b, n
        <5>1. /\ got \in Nat /\ sent \in Nat /\ response.body \in Nat /\ d \in Nat /\ n \in Nat
              /\ d = got - response.body /\ d + (sent - got) <= n - response.body
          BY <1>1, <2>6, <3>0, <3>1
        <5>2. d + i >= 1 /\ d + i <= n - response.body
          BY <4>0, <5>1
        <5>3. response.body + (d + i) = got + i
          BY <4>0, <5>1
        <5> QED BY <4>0, <5>1, <5>2, <5>3
      <4> QED BY <2>2, <3>0, <3>2, <4>1
    <3>3. b' = b /\ d' = d
      BY <1>1 DEF server
    <3> QED BY <1>1, <2>1, <2>2, <2>5, <3>1, <3>2, <3>3 DEF Copied
  <2>9. InBody'
    <3>1. Len(chunk') = sent - got /\ Len(delivered') = got - response.body
          /\ response' = response /\ framing' = framing
      BY <1>1, <2>1, <2>2, <2>7 DEF server
    <3>2. framing = response.framing /\ framing # "chunked" /\ used' = got' /\ got' = sent
      BY <1>1, <2>1, <2>5 DEF InBody
    <3>3. Len(delivered') + Len(chunk') = got' - response.body
      <4>1. got \in Int /\ sent \in Int /\ response.body \in Int
        BY <1>1, <2>6
      <4>2. Len(delivered') = got - response.body /\ Len(chunk') = sent - got /\ got' = sent
        BY <3>1, <3>2
      <4> QED BY <4>1, <4>2
    <3> QED BY <3>1, <3>2, <3>3 DEF InBody
  <2>10. result' = "none" /\ used' \in 0 .. got'
    BY <1>1, <1>3, <2>1 DEF Typed
  <2> QED BY <2>3, <2>4, <2>8, <2>9, <2>10 DEF Parsed
<1> QED BY <1>2, <1>3

\* Steps in which the client reads and delivers nothing, and the transfer may end.
LEMMA WaitInv ==
    ASSUME IInv, Idle \/ Reset \/ NoHeaders \/ LengthReached \/ NotTaken
    PROVE  IInv'
<1> USE DEF IInv
<1>1. UNCHANGED <<response, sent, closed, got, used, framing, need, chunk, delivered>>
  BY DEF Idle, Reset, NoHeaders, LengthReached, NotTaken, server
<1>2. UNCHANGED <<step, result>>
      \/ (step' = "done" /\ (result' = "OK" => LengthReached))
  BY DEF Idle, Reset, NoHeaders, LengthReached, NotTaken, Finish
<1>3. Typed'
  BY <1>1, <1>2 DEF Typed
<1>4. CASE UNCHANGED <<step, result>>
  BY <1>1, <1>3, <1>4, ParserKept
<1>5. CASE step' = "done" /\ (result' = "OK" => LengthReached)
  <2>1. ASSUME LengthReached PROVE Whole
    BY <2>1, WholeIs DEF LengthReached, LongEnough, Parsed, Typed
  <2> QED BY <1>1, <1>3, <1>5, <2>1, ParserEnds
<1> QED BY <1>2, <1>4, <1>5

LEMMA ClockInv ==
    ASSUME IInv, (\E receiving \in BOOLEAN : Pause(receiving)) \/ Tick \/ UNCHANGED vars
    PROVE  IInv'
<1>1. UNCHANGED <<server, parser, result>>
  BY DEF Pause, Tick, vars
<1>2. UNCHANGED <<response, sent, closed, got, used, step, framing, need, chunk, delivered, result>>
  BY <1>1 DEF server, parser
<1>3. Typed'
  BY <1>2 DEF Typed, IInv
<1> QED BY <1>2, <1>3, ParserKept DEF IInv

\* The headers are over: the rest of what was read is the body, or there is nothing
\* because the connection ended first.
LEMMA BodyBegins ==
    ASSUME IInv, step = "headers", NEW kind, NEW rest \in Seq(Symbol), BeginBody(kind, rest),
           UNCHANGED <<server, got, need, delivered>>,
           \/ rest = <<>> /\ used' = got /\ closed /\ got = sent /\ sent < response.body
           \/ /\ kind = response.framing /\ response.body <= got
              /\ IF kind = "chunked" THEN used' = response.body
                 ELSE used' = got /\ Len(rest) = got - response.body
                      /\ \A i \in 1 .. got - response.body :
                            rest[i] = response.stream[response.body + i]
    PROVE  IInv'
<1> USE DEF IInv
<1>1. /\ Copied /\ chunk = <<>> /\ delivered = <<>> /\ used \in 0 .. got /\ result = "none"
      /\ framing' = kind
      /\ UNCHANGED <<response, sent, closed>>
  BY DEF Parsed, Typed, BeginBody, server
<1>2. /\ got \in Nat /\ sent \in Nat /\ response.body \in Nat /\ Len(response.payload) \in Nat
      /\ got <= sent /\ sent <= Len(response.stream) /\ Len(response.stream) \in Nat
  BY Fitting
<1>3. CASE step' = "done" /\ UNCHANGED chunk
           /\ \/ result' = response.bodyless /\ response.bodyless # "no"
              \/ result' = "ABORTED_BY_CALLBACK"
  <2>1. Typed'
    BY <1>1, <1>3 DEF Typed
  <2> QED BY <1>1, <1>3, <2>1, ParserEnds
<1>4. CASE kind = "chunked" /\ step' = "line" /\ UNCHANGED <<chunk, result>>
  <2>1. Typed'
    BY <1>1, <1>4 DEF Typed
  <2>2. Copied'
    BY <1>1, <1>4 DEF Copied
  <2>3. used' \in 0 .. got'
    BY <1>2, <1>4
  <2>4. AtLine' \/ Lost'
    <3>1. CASE used' = got /\ closed /\ got = sent /\ sent < response.body
      BY <1>1, <3>1 DEF Lost
    <3>2. CASE kind = response.framing /\ used' = response.body
      <4>1. response.body \in DOMAIN response.lines /\ response.lines[response.body] = 0
        BY <1>4, <3>2, Fitting DEF Fits, ChunksFit
      <4>2. Len(delivered') = 0 /\ Len(chunk') = 0
        BY <1>1, <1>4, EmptyIs
      <4> QED BY <1>1, <1>4, <3>2, <4>1, <4>2 DEF AtLine
    <3> QED BY <1>4, <3>1, <3>2
  <2> QED BY <1>1, <1>4, <2>1, <2>2, <2>3, <2>4 DEF Parsed
<1>5. CASE kind # "chunked" /\ DeliverAll(rest)
  <2>1. /\ chunk' = rest /\ result' = "none" /\ step' = IF rest = <<>> THEN "body" ELSE "deliver"
    BY <1>1, <1>5 DEF DeliverAll, Continue
  <2>2. Typed'
    BY <1>1, <2>1 DEF Typed
  <2>3. CASE rest = <<>> /\ used' = got /\ closed /\ got = sent /\ sent < response.body
    <3>1. Copied'
      BY <1>1, <2>1, <2>3 DEF Copied
    <3>2. Lost'
      BY <1>1, <2>3 DEF Lost
    <3> QED BY <1>1, <1>5, <2>1, <2>2, <2>3, <3>1, <3>2 DEF Parsed
  <2>4. CASE /\ kind = response.framing /\ response.body <= got
             /\ used' = got /\ Len(rest) = got - response.body
             /\ \A i \in 1 .. got - response.body : rest[i] = response.stream[response.body + i]
    <3>1. /\ Len(Body(response)) = Len(response.stream) - response.body
          /\ \A i \in 1 .. Len(response.stream) - response.body :
                Body(response)[i] = response.stream[response.body + i]
      BY <1>5, <2>4, BodyIs
    <3>2. Len(rest) <= Len(Body(response)) /\ Len(rest) \in Nat
      BY <1>2, <2>4, <3>1
    <3>3. Len(delivered') = 0 /\ delivered' = <<>> /\ Len(chunk') = Len(rest)
      BY <1>1, <2>1, EmptyIs
    <3>4. ASSUME NEW i \in 1 .. Len(rest) PROVE rest[i] = Body(response)[0 + i]
      <4>1. i \in 1 .. Len(response.stream) - response.body /\ 0 + i = i
        BY <1>2, <3>1, <3>2
      <4>2. i \in 1 .. got - response.body
        BY <2>4
      <4> QED BY <2>4, <3>1, <4>1, <4>2
    <3>5. Copied'
      BY <1>1, <1>2, <2>1, <3>2, <3>3, <3>4 DEF Copied
    <3>6. Len(delivered') + Len(chunk') = got - response.body
      BY <1>2, <2>4, <3>2, <3>3
    <3>7. InBody'
      BY <1>1, <1>5, <2>4, <3>6 DEF InBody
    <3>8. used' \in 0 .. got'
      BY <1>2, <2>4
    <3> QED BY <1>1, <1>5, <2>1, <2>2, <3>5, <3>7, <3>8, EmptyIs DEF Parsed
  <2> QED BY <1>5, <2>3, <2>4
<1> QED BY <1>1, <1>3, <1>4, <1>5 DEF BeginBody, Finish, Continue

LEMMA HeadersInv == ASSUME IInv, Headers PROVE IInv'
<1> USE DEF IInv
<1>1. /\ step = "headers" /\ HeaderEnd # 0 /\ UNCHANGED <<server, got, need, delivered>>
  BY DEF Headers
<1>2. PICK n \in Nat \ {0} :
          /\ HeaderEnd = IF got < used + n THEN 0 ELSE n
          /\ used + n <= Len(response.stream)
          /\ IF response.stream[used + 1] = <<"status", 100>> THEN used + n \in response.blocks
             ELSE response.stream[used + 1][1] = "status" => used + n = response.body
  BY <1>1, BlockEnd
<1>3. /\ used \in Nat /\ used <= got /\ got \in Nat /\ HeaderEnd = n /\ used + n <= got
      /\ Copied /\ chunk = <<>> /\ delivered = <<>> /\ framing = "none" /\ result = "none"
  BY <1>1, <1>2, Fitting DEF Parsed, Typed
<1>4. Buffer \in Seq(Symbol) /\ Len(Buffer) = got - used /\ Buffer[1] = response.stream[used + 1]
  BY <1>3, Buffered
<1>5. CASE /\ Acceptable /\ Buffer[1] = <<"status", 100>>
           /\ used' = used + HeaderEnd /\ UNCHANGED <<step, framing, chunk, result>>
  <2>1. Typed'
    BY <1>1, <1>5 DEF Typed, server
  <2>2. used' \in response.blocks /\ used' \in 0 .. got'
    BY <1>1, <1>2, <1>3, <1>4, <1>5
  <2>3. Copied'
    BY <1>1, <1>3, <1>5 DEF Copied, server
  <2> QED BY <1>1, <1>3, <1>5, <2>1, <2>2, <2>3 DEF Parsed, server
<1>6. CASE /\ Acceptable /\ Buffer[1] # <<"status", 100>>
           /\ used' = IF response.framing = "chunked" THEN used + HeaderEnd ELSE got
           /\ BeginBody(response.framing, SubSeq(Buffer, HeaderEnd + 1, Len(Buffer)))
  <2> DEFINE rest == SubSeq(Buffer, HeaderEnd + 1, Len(Buffer))
  <2>1. used + n = response.body
    BY <1>2, <1>4, <1>6 DEF Acceptable
  <2>2. /\ rest \in Seq(Symbol) /\ Len(rest) = got - used - n
        /\ \A i \in 1 .. got - used - n : rest[i] = Buffer[n + i]
    BY <1>3, <1>4, Slice
  <2>3. ASSUME NEW i \in 1 .. got - response.body PROVE rest[i] = response.stream[response.body + i]
    <3>1. i \in 1 .. got - used - n /\ n + i \in 1 .. got - used /\ used + (n + i) = response.body + i
      BY <1>3, <2>1, <2>3
    <3> QED BY <1>3, <2>2, <3>1, Buffered
  <2>4. got - used - n = got - response.body
    BY <1>3, <2>1
  <2>5. response.body <= got
    BY <1>3, <2>1
  <2> HIDE DEF rest
  <2>6. BeginBody(response.framing, rest)
    BY <1>6 DEF rest
  <2> QED BY <1>1, <1>3, <1>6, <2>1, <2>2, <2>3, <2>4, <2>5, <2>6, BodyBegins
<1>7. CASE /\ \E code \in Refusal : Finish(code)
           /\ UNCHANGED chunk
  <2>1. step' = "done" /\ result' # "OK"
    BY <1>7 DEF Finish, Refusal
  <2>2. Typed'
    BY <1>1, <1>7, <2>1 DEF Typed, server
  <2> QED BY <1>1, <1>7, <2>1, <2>2, ParserEnds DEF server
<1> QED BY <1>5, <1>6, <1>7 DEF Headers

LEMMA EofInv == ASSUME IInv, Eof PROVE IInv'
<1> USE DEF IInv
<1>1. /\ NeedsMore /\ got = sent /\ closed /\ used' = got
      /\ UNCHANGED <<server, got, need, delivered>>
  BY DEF Eof
<1>2. CASE Finish(EofResult) /\ UNCHANGED <<framing, chunk>>
  <2>1. step' = "done" /\ (result' = "OK" => step = "body")
    BY <1>2 DEF Finish, EofResult
  <2>2. Typed'
    BY <1>1, <1>2, <2>1 DEF Typed, server
  <2>3. ASSUME step = "body"
        PROVE  Whole \/ (framing # "chunked" /\ sent < response.body + Len(response.payload))
    <3>0. /\ response.body \in Nat /\ Len(response.payload) \in Nat /\ sent \in Nat
          /\ Len(delivered) \in Nat
      BY Fitting, LenProperties DEF Typed
    <3>1. CASE Lost /\ framing # "chunked"
      BY <3>0, <3>1 DEF Lost
    <3>2. CASE InBody /\ sent >= response.body + Len(response.payload)
      <4>1. Copied /\ chunk = <<>> /\ Len(chunk) = 0
        BY <2>3, EmptyIs DEF Parsed
      <4>2. Len(response.payload) <= Len(delivered)
        BY <1>1, <3>0, <3>2, <4>1 DEF InBody
      <4> QED BY <4>1, <4>2, WholeIs
    <3>3. CASE InBody /\ ~(sent >= response.body + Len(response.payload))
      BY <3>0, <3>3 DEF InBody
    <3> QED BY <2>3, <3>1, <3>2, <3>3 DEF Parsed
  <2> QED BY <1>1, <1>2, <2>1, <2>2, <2>3, ParserEnds DEF server
<1>3. CASE /\ step = "headers"
           /\ \E kind \in {"close", response.framing} : BeginBody(kind, <<>>)
  <2>1. PICK kind : BeginBody(kind, <<>>)
    BY <1>3
  <2>2. HeaderEnd = 0
    BY <1>1, <1>3 DEF NeedsMore
  <2>3. PICK n \in Nat \ {0} : /\ HeaderEnd = IF got < used + n THEN 0 ELSE n
                               /\ used + n <= response.body
    BY <1>3, BlockEnd
  <2>4. sent < response.body
    <3>1. got < used + n
      BY <2>2, <2>3
    <3>2. used \in Nat /\ got \in Nat /\ response.body \in Nat
      BY <1>3, Fitting DEF Parsed
    <3> QED BY <1>1, <2>3, <3>1, <3>2
  <2>5. <<>> \in Seq(Symbol)
    BY EmptyIs
  <2> QED BY <1>1, <1>3, <2>1, <2>4, <2>5, BodyBegins
<1> QED BY <1>2, <1>3 DEF Eof

\* Where the parser is in a chunked body, and what its line says of it.
LEMMA LineOfChunk ==
    ASSUME IInv, step = "line", LineEnd # 0
    PROVE  /\ AtLine /\ chunk = <<>> /\ used \in Nat /\ used < got
           /\ used + LineEnd \in used + 1 .. got
           /\ EndsAt(response, used, used + LineEnd)
           /\ Buffer[1] = response.stream[used + 1] /\ Buffer[1] \in Symbol
<1> USE DEF IInv
<1>1. used \in 0 .. got /\ chunk = <<>> /\ (AtLine \/ Lost) /\ got \in Nat
  BY Fitting DEF Parsed
<1>2. LineEnd \in 1 .. got - used /\ EndsAt(response, used, used + LineEnd)
  BY <1>1, LineEndIs
<1>3. used < got
  BY <1>1, <1>2
<1>4. Buffer \in Seq(Symbol) /\ Len(Buffer) = got - used /\ Buffer[1] = response.stream[used + 1]
  BY <1>1, <1>3, Buffered
<1>5. Buffer[1] \in Symbol
  BY <1>1, <1>3, <1>4, ElementOfSeq
<1> QED BY <1>1, <1>2, <1>3, <1>4, <1>5 DEF Lost

LEMMA ChunkLineInv == ASSUME IInv, ChunkLine PROVE IInv'
<1> USE DEF IInv
<1> DEFINE size == Buffer[1]
<1>1. /\ step = "line" /\ LineEnd # 0
      /\ UNCHANGED <<server, got, framing, chunk, delivered>>
  BY DEF ChunkLine
<1>2. /\ AtLine /\ chunk = <<>> /\ used \in Nat /\ used < got /\ got \in Nat
      /\ used + LineEnd \in used + 1 .. got
      /\ EndsAt(response, used, used + LineEnd)
      /\ size = response.stream[used + 1] /\ size \in Symbol
  BY <1>1, LineOfChunk, Fitting
<1>3. /\ used \in DOMAIN response.lines /\ ChunksFit(response)
      /\ Len(delivered) = response.lines[used] /\ Copied /\ result = "none"
  <2>1. Len(chunk) = 0 /\ Len(delivered) \in Nat
    BY <1>2, EmptyIs DEF Typed
  <2> QED BY <1>1, <1>2, <2>1, Fitting DEF AtLine, Fits, Parsed, Typed
<1>4. used + LineEnd \in used + 1 .. Len(response.stream)
  BY <1>2, Fitting
<1>5. Copied'
  BY <1>1, <1>3 DEF Copied, server
<1>6. UNCHANGED <<response, sent, closed>>
  BY <1>1 DEF server
<1>7. CASE size[1] # "size" /\ Finish("READ_ERROR")
  <2>1. Typed'
    BY <1>1, <1>6, <1>7 DEF Typed, Finish
  <2> QED BY <1>1, <1>6, <1>7, <2>1, ParserEnds DEF Finish
<1>8. CASE size[1] = "size" /\ size[2] > 0 /\ Continue("data") /\ need' = size[2]
  <2>1. Typed'
    BY <1>1, <1>3, <1>6, <1>8 DEF Typed, Continue
  <2>2. size[2] \in Nat \ {0} /\ size = <<"size", size[2]>>
    BY <1>2, <1>8 DEF Symbol
  <2>3. used' = used + LineEnd
    <3>1. size # <<"size", 0>>
      BY <1>8, <2>2
    <3>2. used' = used + LineEnd + 0
      BY <3>1 DEF ChunkLine
    <3> QED BY <1>2, <3>2
  <2>4. InChunk(used)'
    <3>1. framing' = response.framing /\ framing' = "chunked" /\ response' = response
      BY <1>1, <1>2, <1>6 DEF AtLine
    <3>2. /\ used' \in used + 1 .. Len(response.stream) /\ EndsAt(response, used, used')
          /\ response.stream[used + 1] = <<"size", need'>> /\ need' \in Nat \ {0}
          /\ Len(delivered') = response.lines[used] /\ used \in DOMAIN response.lines
      BY <1>1, <1>2, <1>3, <1>4, <1>8, <2>2, <2>3
    <3> QED BY <3>1, <3>2 DEF InChunk
  <2>5. used' \in 0 .. got'
    BY <1>1, <1>2, <2>3
  <2> QED BY <1>1, <1>2, <1>3, <1>5, <1>8, <2>1, <2>4, <2>5 DEF Parsed, Continue
<1>9. CASE size = <<"size", 0>>
  <2>1. response.lines[used] = Len(response.payload)
    <3>1. response.stream[used + 1][1] = "size" /\ response.stream[used + 1][2] = 0
      BY <1>2, <1>9
    <3> QED BY <1>2, <1>3, <1>4, <3>1 DEF ChunksFit
  <2>2. Whole
    <3>1. Len(response.payload) <= Len(delivered)
      BY <1>3, <2>1, Fitting
    <3> QED BY <1>3, <3>1, WholeIs
  <2>3. CASE Continue("fields")
    <3>1. Typed'
      BY <1>1, <1>3, <1>6, <2>3 DEF Typed, Continue
    <3>2. Whole'
      BY <1>1, <1>6, <2>2 DEF Whole
    <3> QED BY <1>1, <1>2, <1>3, <1>5, <1>6, <2>3, <3>1, <3>2 DEF Parsed, Continue
  <2>4. CASE \E code : Finish(code)
    <3>1. Typed'
      BY <1>1, <1>6, <2>4 DEF Typed, Finish
    <3> QED BY <1>1, <1>6, <2>2, <2>4, <3>1, ParserEnds DEF Finish
  <2> QED BY <1>9, <2>3, <2>4 DEF ChunkLine
<1> QED BY <1>7, <1>8, <1>9 DEF ChunkLine

LEMMA ChunkDataInv == ASSUME IInv, ChunkData PROVE IInv'
<1> USE DEF IInv
<1>1. /\ step = "data" /\ Len(Buffer) >= need /\ chunk' = SubSeq(Buffer, 1, need)
      /\ used' = used + need /\ Continue("ending")
      /\ UNCHANGED <<server, got, framing, need, delivered>>
  BY DEF ChunkData
<1>2. /\ used \in 0 .. got /\ InChunk(used) /\ chunk = <<>> /\ Copied /\ result = "none"
      /\ got \in Nat /\ got <= Len(response.stream) /\ Len(response.stream) \in Nat
  BY <1>1, Fitting DEF Parsed, Typed
<1>3. PICK p \in DOMAIN response.lines :
          /\ used \in p + 1 .. Len(response.stream) /\ EndsAt(response, p, used)
          /\ response.stream[p + 1] = <<"size", need>> /\ need \in Nat \ {0}
          /\ Len(delivered) = response.lines[p]
  BY <1>2 DEF InChunk
<1>4. /\ Buffer \in Seq(Symbol) /\ Len(Buffer) = got - used
      /\ \A i \in 1 .. got - used : Buffer[i] = response.stream[used + i]
  BY <1>2, Buffered
<1>5. used + need <= got
  BY <1>1, <1>2, <1>3, <1>4
<1>6. /\ chunk' \in Seq(Symbol) /\ Len(chunk') = need
      /\ \A i \in 1 .. need : chunk'[i] = Buffer[i]
  <2>1. /\ SubSeq(Buffer, 0 + 1, need) \in Seq(Symbol) /\ Len(SubSeq(Buffer, 0 + 1, need)) = need - 0
        /\ \A i \in 1 .. need - 0 : SubSeq(Buffer, 0 + 1, need)[i] = Buffer[0 + i]
    BY <1>1, <1>3, <1>4, Slice
  <2>2. chunk' = SubSeq(Buffer, 0 + 1, need) /\ need - 0 = need /\ \A i \in 1 .. need : 0 + i = i
    BY <1>1, <1>3
  <2> QED BY <2>1, <2>2
<1>7. /\ response.lines[p] + need <= Len(response.payload)
      /\ \A i \in 1 .. need : response.stream[used + i] = response.payload[response.lines[p] + i]
  <2>1. ChunksFit(response)
    BY <1>2, Fitting DEF InChunk, Fits
  <2>2. response.stream[p + 1][1] = "size" /\ response.stream[p + 1][2] = need
    BY <1>3
  <2>3. need > 0 /\ used + need <= Len(response.stream)
    BY <1>2, <1>3, <1>5
  <2> QED BY <1>3, <2>1, <2>2, <2>3 DEF ChunksFit
<1>8. UNCHANGED <<response, sent, closed>> /\ step' = "ending" /\ result' = "none"
  BY <1>1, <1>2 DEF server, Continue
<1>9. Typed'
  BY <1>1, <1>6, <1>8 DEF Typed
<1>10. Copied'
  <2>0. Body(response) = response.payload /\ Body(response)' = Body(response)
    BY <1>2, <1>8 DEF InChunk, Body
  <2>1. ASSUME NEW i \in 1 .. need PROVE chunk'[i] = response.payload[Len(delivered) + i]
    <3>1. i \in 1 .. got - used
      BY <1>2, <1>3, <1>5, <2>1
    <3> QED BY <1>3, <1>4, <1>6, <1>7, <2>1, <3>1
  <2> QED BY <1>1, <1>2, <1>3, <1>6, <1>7, <1>8, <2>0, <2>1 DEF Copied
<1>11. used' - need' = used /\ used' \in 0 .. got'
  BY <1>1, <1>2, <1>3, <1>5
<1>12. InChunk(used - need)'
  <2>1. /\ framing' = response'.framing /\ framing' = "chunked"
    BY <1>1, <1>2, <1>8 DEF InChunk
  <2> QED BY <1>1, <1>3, <1>8, <1>11, <2>1 DEF InChunk
<1> QED BY <1>1, <1>6, <1>8, <1>9, <1>10, <1>11, <1>12 DEF Parsed

LEMMA ChunkEndingInv == ASSUME IInv, ChunkEnding PROVE IInv'
<1> USE DEF IInv
<1>1. /\ step = "ending" /\ used' = used + EmptyLine(Buffer)
      /\ UNCHANGED <<server, got, framing, need, chunk, delivered>>
  BY DEF ChunkEnding
<1>2. /\ used \in 0 .. got /\ InChunk(used - need) /\ Len(chunk) = need /\ Copied
      /\ result = "none" /\ got \in Nat /\ got <= Len(response.stream)
      /\ Len(response.stream) \in Nat
  BY <1>1, Fitting DEF Parsed, Typed
<1>3. UNCHANGED <<response, sent, closed>>
  BY <1>1 DEF server
<1>4. CASE EmptyLine(Buffer) > 0 /\ Continue("deliver")
  <2>1. PICK eol \in {Lf, CrLf} :
            /\ EmptyLine(Buffer) = Len(eol) /\ Len(eol) \in Nat /\ used + Len(eol) <= got
            /\ SubSeq(response.stream, used + 1, used + Len(eol)) = eol
    BY <1>2, <1>4, EmptyLineIs
  <2>2. PICK p \in DOMAIN response.lines :
            /\ used - need \in p + 1 .. Len(response.stream) /\ EndsAt(response, p, used - need)
            /\ response.stream[p + 1] = <<"size", need>> /\ need \in Nat \ {0}
            /\ Len(delivered) = response.lines[p]
    BY <1>2 DEF InChunk
  <2>3. ChunksFit(response)
    BY <1>2, Fitting DEF InChunk, Fits
  <2>4. used + Len(eol) \in DOMAIN response.lines
        /\ response.lines[used + Len(eol)] = response.lines[p] + need
    <3> DEFINE e == used - need
    <3>1. e + need = used /\ e + need + Len(eol) = used + Len(eol)
      BY <1>2, <2>1, <2>2
    <3>2. response.stream[p + 1][1] = "size" /\ response.stream[p + 1][2] = need /\ need > 0
      BY <2>2
    <3>3. used + Len(eol) <= Len(response.stream)
      BY <1>2, <2>1
    <3>4. e \in p + 1 .. Len(response.stream) /\ EndsAt(response, p, e)
      BY <2>2
    <3> HIDE DEF e
    <3> QED BY <2>1, <2>3, <3>1, <3>2, <3>3, <3>4 DEF ChunksFit
  <2>5. Typed'
    BY <1>1, <1>2, <1>3, <1>4 DEF Typed, Continue
  <2>6. Copied'
    BY <1>1, <1>2, <1>3 DEF Copied
  <2>7. AtLine'
    <3>1. framing = response.framing /\ framing = "chunked"
      BY <1>2 DEF InChunk
    <3>2. Len(delivered') + Len(chunk') = response.lines[used']
      BY <1>1, <1>2, <2>1, <2>2, <2>4
    <3> QED BY <1>1, <1>3, <2>1, <2>4, <3>1, <3>2 DEF AtLine
  <2>8. used' \in 0 .. got'
    BY <1>1, <1>2, <2>1
  <2> QED BY <1>2, <1>4, <2>5, <2>6, <2>7, <2>8 DEF Parsed, Continue
<1>5. CASE Finish("READ_ERROR")
  <2>1. Typed'
    BY <1>1, <1>3, <1>5 DEF Typed, Finish
  <2> QED BY <1>1, <1>3, <1>5, <2>1, ParserEnds DEF Finish
<1> QED BY <1>4, <1>5 DEF ChunkEnding

LEMMA TrailerFieldsInv == ASSUME IInv, TrailerFields PROVE IInv'
<1>1. /\ step = "fields" /\ step' = "done"
      /\ UNCHANGED <<response, sent, closed, got, framing, chunk, delivered>>
  BY DEF TrailerFields, Finish, server
<1>2. Whole
  BY <1>1 DEF IInv, Parsed
<1>3. Typed'
  BY <1>1 DEF IInv, Typed
<1> QED BY <1>1, <1>2, <1>3, ParserEnds DEF IInv

LEMMA TakenInv == ASSUME IInv, Taken PROVE IInv'
<1> USE DEF IInv
<1>1. /\ step = "deliver" /\ delivered' = delivered \o chunk /\ chunk' = <<>>
      /\ UNCHANGED <<response, sent, closed, got, used, framing, need>>
      /\ \/ step' = "done" /\ result' # "OK"
         \/ step' = AfterDelivery /\ result' = result
  BY DEF Taken, Finish, Continue, server
<1>2. /\ Copied /\ used \in 0 .. got /\ (InBody \/ AtLine) /\ result = "none"
      /\ delivered \in Seq(Symbol) /\ chunk \in Seq(Symbol)
      /\ Len(delivered) \in Nat /\ Len(chunk) \in Nat /\ Len(Body(response)) \in Nat
  BY <1>1, BodyIs, LenProperties DEF Parsed, Typed
<1>3. /\ delivered' \in Seq(Symbol) /\ Len(delivered') = Len(delivered) + Len(chunk)
      /\ \A i \in 1 .. Len(delivered) + Len(chunk) :
            delivered'[i] = IF i <= Len(delivered) THEN delivered[i] ELSE chunk[i - Len(delivered)]
      /\ chunk' \in Seq(Symbol) /\ Len(chunk') = 0
  BY <1>1, <1>2, ConcatProperties, EmptyIs
<1>4. Typed'
  BY <1>1, <1>2, <1>3 DEF Typed, AfterDelivery
<1>5. Copied'
  <2>1. ASSUME NEW i \in 1 .. Len(delivered) + Len(chunk)
        PROVE  delivered'[i] = Body(response)[i]
    <3>1. CASE i <= Len(delivered)
      <4>1. i \in 1 .. Len(delivered) /\ delivered'[i] = delivered[i]
        BY <1>2, <1>3, <2>1, <3>1
      <4> QED BY <1>2, <4>1 DEF Copied
    <3>2. CASE i > Len(delivered)
      <4>1. i - Len(delivered) \in 1 .. Len(chunk) /\ Len(delivered) + (i - Len(delivered)) = i
        BY <1>2, <2>1, <3>2
      <4>2. ~(i <= Len(delivered))
        BY <1>2, <2>1, <3>2
      <4> QED BY <1>2, <1>3, <2>1, <4>1, <4>2 DEF Copied
    <3> QED BY <1>2, <2>1, <3>1, <3>2
  <2>2. Len(delivered) + Len(chunk) <= Len(Body(response)) /\ Body(response)' = Body(response)
    BY <1>1, <1>2 DEF Copied
  <2> QED BY <1>1, <1>2, <1>3, <2>1, <2>2 DEF Copied
<1>6. Len(delivered') + Len(chunk') = Len(delivered) + Len(chunk)
  BY <1>2, <1>3
<1>7. CASE step' = "done" /\ result' # "OK"
  BY <1>4, <1>5, <1>7 DEF Parsed
<1>8. CASE step' = AfterDelivery /\ result' = result
  <2>1. InBody => InBody' /\ step' = "body"
    BY <1>1, <1>6, <1>8 DEF InBody, AfterDelivery
  <2>2. AtLine => AtLine' /\ step' = "line"
    BY <1>1, <1>6, <1>8 DEF AtLine, AfterDelivery
  <2> QED BY <1>1, <1>2, <1>4, <1>5, <1>8, <2>1, <2>2 DEF Parsed
<1> QED BY <1>1, <1>7, <1>8

LEMMA Invariant == Spec => []IInv
<1>1. ASSUME IInv, [Next]_vars PROVE IInv'
  <2>1. ASSUME NEW n \in 1 .. Len(response.stream), Send(n) PROVE IInv'
    <3>1. n \in Nat
      BY <1>1, <2>1, Fitting DEF IInv
    <3> QED BY <1>1, <2>1, <3>1, NetworkInv
  <2>2. CASE Client
    BY <1>1, <2>2, ReceiveInv, WaitInv, EofInv, HeadersInv, ChunkLineInv, ChunkDataInv,
       ChunkEndingInv, TrailerFieldsInv, TakenInv DEF Client
  <2> QED BY <1>1, <2>1, <2>2, NetworkInv, ClockInv DEF Next, Finished
<1> QED BY <1>1, InitInv, PTL DEF Spec

-----------------------------------------------------------------------------
\* The write callback gets the body and nothing else, in order and nothing twice, for every
\* cut of the stream into packets, pause and end of the connection: of a chunked response
\* what transfer_chunked_body takes for its chunks, of any other what transfer_body reads
\* after the headers, which goes on where Content-Length says that the body ends.
THEOREM OnlyTheBody == Spec => []OnlyBody
<1>1. IInv => OnlyBody
  <2> SUFFICES ASSUME IInv PROVE IsPrefix(delivered \o chunk, Body(response))
    BY DEF OnlyBody
  <2>1. /\ delivered \in Seq(Symbol) /\ chunk \in Seq(Symbol) /\ Body(response) \in Seq(Symbol)
        /\ Len(delivered) \in Nat /\ Len(chunk) \in Nat /\ Copied
    BY BodyIs, LenProperties DEF IInv, Typed, Parsed
  <2>2. /\ delivered \o chunk \in Seq(Symbol)
        /\ Len(delivered \o chunk) = Len(delivered) + Len(chunk)
        /\ \A i \in 1 .. Len(delivered) + Len(chunk) : (delivered \o chunk)[i] =
              IF i <= Len(delivered) THEN delivered[i] ELSE chunk[i - Len(delivered)]
    BY <2>1, ConcatProperties
  <2>3. ASSUME NEW i \in 1 .. Len(delivered) + Len(chunk)
        PROVE  (delivered \o chunk)[i] = Body(response)[i]
    <3>1. CASE i <= Len(delivered)
      <4>1. i \in 1 .. Len(delivered) /\ (delivered \o chunk)[i] = delivered[i]
        BY <2>1, <2>2, <2>3, <3>1
      <4> QED BY <2>1, <4>1 DEF Copied
    <3>2. CASE i > Len(delivered)
      <4>1. i - Len(delivered) \in 1 .. Len(chunk) /\ Len(delivered) + (i - Len(delivered)) = i
            /\ ~(i <= Len(delivered))
        BY <2>1, <2>3, <3>2
      <4> QED BY <2>1, <2>2, <2>3, <4>1 DEF Copied
    <3> QED BY <2>1, <2>3, <3>1, <3>2
  <2>4. Len(delivered \o chunk) <= Len(Body(response))
    BY <2>1, <2>2 DEF Copied
  <2> QED BY <2>1, <2>2, <2>3, <2>4, PrefixIs
<1> QED BY <1>1, Invariant, PTL

\* A chunked transfer that returns CURLE_OK has delivered the whole payload, as has any other
\* whose server has sent the whole payload before the connection ended.
THEOREM SuccessIsWhole == Spec => []OkIsWhole
<1>1. IInv => OkIsWhole
  <2> SUFFICES ASSUME IInv, result = "OK", response.bodyless = "no",
                      framing = "chunked" \/ sent >= response.body + Len(response.payload)
               PROVE  Whole
    BY DEF OkIsWhole, Whole
  <2>1. sent \in Nat /\ response.body \in Nat /\ Len(response.payload) \in Nat
    BY Fitting DEF IInv
  <2> QED BY <2>1 DEF IInv, Parsed
<1> QED BY <1>1, Invariant, PTL

-----------------------------------------------------------------------------
(* The low speed guard.                                                      *)

\* What has come of a body that is not chunked in this window, but for the bytes of the
\* second the window began in.
Paced ==
    /\ elapsed \in Nat /\ windowBytes \in Nat /\ second \in Nat /\ fast \in BOOLEAN
    /\ step = "headers" => framing = "none" /\ chunk = <<>>
    /\ framing \in {"length", "close"} =>
          /\ step \in {"body", "deliver", "done"}
          /\ step = "body" => chunk = <<>>
          /\ step # "done" /\ fast /\ elapsed > 0 =>
                windowBytes + Len(chunk) >= 2 * (Limit * (elapsed - 1)) + second

LEMMA Bounds == Limit \in Nat /\ Window \in Nat
BY ClockAssumption

\* Twice the limit in all seconds but the first is the limit in all of them.
LEMMA NotTooSlow ==
    ASSUME Window >= 2, NEW b \in Nat, NEW s \in Nat, elapsed \in Nat,
           elapsed > 0 => b >= 2 * (Limit * (elapsed - 1)) + s
    PROVE  ~TooSlow(b)
<1> SUFFICES ASSUME TooSlow(b) PROVE FALSE
  OBVIOUS
<1>1. Limit \in Nat /\ elapsed >= 2 /\ b < Limit * elapsed
  BY Bounds DEF TooSlow
<1>2. PICK d \in Nat : d = elapsed - 2
  BY <1>1
<1>3. elapsed = d + 2 /\ elapsed - 1 = d + 1 /\ elapsed > 0
  BY <1>1, <1>2
<1>4. Limit * elapsed = Limit * d + 2 * Limit /\ Limit * (elapsed - 1) = Limit * d + Limit
  BY <1>1, <1>3
<1>5. Limit * d \in Nat
  BY <1>1
<1> QED BY <1>1, <1>3, <1>4, <1>5

PaceInv == Paced /\ FastNotAborted

\* The headers are over, and the first window begins.
LEMMA PaceBegins ==
    ASSUME IInv, PaceInv, step = "headers", NEW kind, NEW rest \in Seq(Symbol), BeginBody(kind, rest),
           UNCHANGED fast
    PROVE  PaceInv'
<1>1. /\ framing' = kind /\ elapsed' = 0 /\ windowBytes' = 0 /\ second' = Len(rest)
      /\ fast \in BOOLEAN /\ chunk = <<>> /\ result = "none"
  BY DEF BeginBody, NewGuard, PaceInv, Paced, IInv, Typed
<1>2. Len(rest) \in Nat
  BY LenProperties
<1>3. response.bodyless # "OPERATION_TIMEDOUT"
  BY Fitting DEF IInv
<1>4. CASE step' = "done" /\ result' # "OPERATION_TIMEDOUT"
  BY <1>1, <1>2, <1>4 DEF PaceInv, Paced, FastNotAborted
<1>5. CASE kind = "chunked" /\ Continue("line")
  BY <1>1, <1>2, <1>5 DEF PaceInv, Paced, FastNotAborted, Continue
<1>6. CASE DeliverAll(rest)
  <2>1. /\ chunk' = rest /\ result' = result
        /\ step' = IF rest = <<>> THEN "body" ELSE "deliver"
    BY <1>6 DEF DeliverAll, Continue
  <2> QED BY <1>1, <1>2, <2>1 DEF PaceInv, Paced, FastNotAborted
<1> QED BY <1>3, <1>4, <1>5, <1>6 DEF BeginBody, Finish

\* Chunks are not the guard's concern here, nor is the time before a body.
LEMMA OtherPace ==
    ASSUME PaceInv, UNCHANGED <<guard, observed, framing, chunk>>, step' # "headers",
           step' = "done" \/ framing \notin {"length", "close"},
           framing \in {"length", "close"} => result' # "OPERATION_TIMEDOUT"
    PROVE  PaceInv'
BY DEF PaceInv, Paced, FastNotAborted, guard, observed

LEMMA ReceivePace == ASSUME IInv, PaceInv, Receive PROVE PaceInv'
<1>1. /\ got < sent /\ second' = second + (sent - got) /\ got \in Nat /\ sent \in Nat
      /\ UNCHANGED <<framing, elapsed, windowBytes, fast>>
      /\ NeedsMore /\ sent <= Len(response.stream)
  BY Fitting DEF Receive, IInv, guard
<1>2. second' \in Nat /\ second' = second + (sent - got)
  BY <1>1 DEF PaceInv, Paced
<1>3. CASE step # "body"
  <2>1. UNCHANGED <<step, chunk, result>>
    BY <1>3 DEF Receive
  <2>2. framing \notin {"length", "close"}
    BY <1>1, <1>3 DEF PaceInv, Paced, NeedsMore
  <2> QED BY <1>1, <1>2, <2>1, <2>2 DEF PaceInv, Paced, FastNotAborted
<1>4. CASE step = "body"
  <2>1. chunk' = Received /\ result' = result /\ step' \in {"body", "deliver"}
        /\ (Received = <<>> <=> step' = "body")
    BY <1>4 DEF Receive, DeliverAll, Continue
  <2>2. Received \in Seq(Symbol) /\ Len(Received) = sent - got
    BY <1>1, Fitting, Slice DEF Received, IInv
  <2>3. step' = "deliver"
    BY <1>1, <2>1, <2>2, EmptyIs
  <2>4. ASSUME framing \in {"length", "close"}, fast, elapsed > 0
        PROVE  windowBytes + Len(chunk') >= 2 * (Limit * (elapsed - 1)) + second'
    <3>1. windowBytes >= 2 * (Limit * (elapsed - 1)) + second /\ Len(chunk) = 0
      BY <1>4, <2>4, EmptyIs DEF PaceInv, Paced
    <3>2. Limit * (elapsed - 1) \in Int /\ windowBytes \in Nat /\ second \in Nat
      BY Bounds DEF PaceInv, Paced
    <3>3. Len(chunk') = sent - got
      BY <2>1, <2>2
    <3> QED BY <1>1, <3>1, <3>2, <3>3
  <2> QED BY <1>1, <1>2, <2>1, <2>3, <2>4 DEF PaceInv, Paced, FastNotAborted
<1> QED BY <1>3, <1>4

LEMMA IdlePace == ASSUME IInv, PaceInv, Idle PROVE PaceInv'
<1>1. UNCHANGED <<guard, observed, framing, chunk>>
  BY DEF Idle
<1>2. CASE UNCHANGED <<step, result>>
  BY <1>1, <1>2 DEF PaceInv, Paced, FastNotAborted, guard, observed
<1>3. CASE step # "headers" /\ TooSlow(windowBytes) /\ Finish("OPERATION_TIMEDOUT")
  <2>1. ASSUME fast, Window >= 2, framing \in {"length", "close"} PROVE FALSE
    <3>1. step = "body" /\ chunk = <<>> /\ Len(chunk) = 0
      BY <2>1, EmptyIs DEF Idle, NeedsMore, PaceInv, Paced
    <3>2. windowBytes \in Nat /\ second \in Nat /\ elapsed \in Nat
      BY DEF PaceInv, Paced
    <3>3. elapsed > 0 => windowBytes >= 2 * (Limit * (elapsed - 1)) + second
      BY <2>1, <3>1, <3>2 DEF PaceInv, Paced
    <3> QED BY <1>3, <2>1, <3>2, <3>3, NotTooSlow
  <2> QED BY <1>1, <1>3, <2>1 DEF PaceInv, Paced, FastNotAborted, guard, observed, Finish
<1> QED BY <1>2, <1>3 DEF Idle

LEMMA TakenPace == ASSUME IInv, PaceInv, Taken PROVE PaceInv'
<1>1. /\ step = "deliver" /\ chunk' = <<>> /\ UNCHANGED <<framing, second, fast>>
      /\ Len(chunk) \in Nat /\ Len(chunk') = 0 /\ result = "none"
  BY EmptyIs DEF Taken, observed, IInv, Typed
<1>2. elapsed \in Nat /\ windowBytes \in Nat /\ second \in Nat /\ fast \in BOOLEAN
      /\ windowBytes + Len(chunk) \in Nat
  BY <1>1 DEF PaceInv, Paced
<1>3. ASSUME framing \in {"length", "close"}, fast, elapsed > 0
      PROVE  windowBytes + Len(chunk) >= 2 * (Limit * (elapsed - 1)) + second
  BY <1>1, <1>3 DEF PaceInv, Paced
<1>4. CASE TooSlow(windowBytes + Len(chunk)) /\ Finish("OPERATION_TIMEDOUT") /\ UNCHANGED guard
  <2>1. ~(fast /\ Window >= 2 /\ framing \in {"length", "close"})
    BY <1>2, <1>3, <1>4, NotTooSlow
  <2> QED BY <1>1, <1>2, <1>4, <2>1 DEF PaceInv, Paced, FastNotAborted, guard, Finish
<1>5. CASE /\ ObserveProgress(Len(chunk))
           /\ Continue(AfterDelivery) \/ Finish("ABORTED_BY_CALLBACK")
  <2>1. \/ elapsed' = 0 /\ windowBytes' = 0
        \/ elapsed' = elapsed /\ windowBytes' = windowBytes + Len(chunk)
    BY <1>5 DEF ObserveProgress
  <2>2. step' \in {"body", "line", "done"} /\ (framing \in {"length", "close"} => step' # "line")
        /\ result' # "OPERATION_TIMEDOUT"
    BY <1>1, <1>5 DEF Continue, Finish, AfterDelivery
  <2>3. ASSUME framing \in {"length", "close"}, fast, elapsed' > 0
        PROVE  windowBytes' + Len(chunk') >= 2 * (Limit * (elapsed' - 1)) + second
    <3>1. elapsed' = elapsed /\ windowBytes' = windowBytes + Len(chunk)
      BY <2>1, <2>3
    <3> QED BY <1>1, <1>2, <1>3, <2>3, <3>1
  <2> QED BY <1>1, <1>2, <2>1, <2>2, <2>3 DEF PaceInv, Paced, FastNotAborted
<1> QED BY <1>4, <1>5 DEF Taken

LEMMA TickPace == ASSUME IInv, PaceInv, Tick PROVE PaceInv'
<1>1. /\ elapsed' = Clock(elapsed, MaxElapsed) /\ second' = 0
      /\ fast' = (fast /\ (framing = "none" \/ second >= 2 * Limit))
      /\ UNCHANGED <<step, framing, chunk, result, windowBytes>>
  BY DEF Tick, parser
<1>2. elapsed \in Nat /\ windowBytes \in Nat /\ second \in Nat /\ fast \in BOOLEAN
      /\ Len(chunk) \in Nat /\ Limit \in Nat
  BY Bounds, LenProperties DEF PaceInv, Paced, IInv, Typed
<1>3. elapsed' \in Nat /\ (elapsed' = elapsed \/ elapsed' = elapsed + 1)
  BY <1>1, <1>2 DEF Clock
<1>4. ASSUME framing \in {"length", "close"}, step # "done", fast', elapsed' > 0
      PROVE  windowBytes + Len(chunk) >= 2 * (Limit * (elapsed' - 1)) + 0
  <2>1. fast /\ second >= 2 * Limit
    BY <1>1, <1>4
  <2>2. CASE elapsed = 0
    <3>1. elapsed' - 1 = 0 /\ Limit * 0 = 0
      BY <1>2, <1>3, <1>4, <2>2
    <3>2. Limit * (elapsed' - 1) = 0
      BY <3>1
    <3> QED BY <1>2, <3>2
  <2>3. CASE elapsed > 0
    <3>1. windowBytes + Len(chunk) >= 2 * (Limit * (elapsed - 1)) + second
      BY <1>4, <2>1, <2>3 DEF PaceInv, Paced
    <3>2. Limit * (elapsed - 1) \in Int /\ Limit * elapsed = Limit * (elapsed - 1) + Limit
      BY <1>2
    <3>3. CASE elapsed' = elapsed
      BY <1>2, <3>1, <3>2, <3>3
    <3>4. CASE elapsed' = elapsed + 1
      <4>1. elapsed' - 1 = elapsed
        BY <1>2, <3>4
      <4>2. windowBytes + Len(chunk) >= 2 * (Limit * (elapsed - 1)) + 2 * Limit
        BY <1>2, <2>1, <3>1, <3>2
      <4>3. windowBytes + Len(chunk) >= 2 * (Limit * elapsed)
        BY <1>2, <3>2, <4>2
      <4> QED BY <1>2, <3>2, <4>1, <4>3
    <3> QED BY <1>3, <3>3, <3>4
  <2> QED BY <1>2, <2>2, <2>3
<1>5. fast' \in BOOLEAN /\ (fast' => fast)
  BY <1>1, <1>2
<1> QED BY <1>1, <1>2, <1>3, <1>4, <1>5 DEF PaceInv, Paced, FastNotAborted

\* A body that is not chunked is not aborted for its speed while the client reads twice the
\* limit of it in every second; a second in a callback or a pause is not such a one.
\* LowSpeedGuard divides what came in the window by the seconds that ended in it, though
\* the first of these may have begun before: the factor of two makes up for that.
THEOREM FastIsNotAborted == Spec => []FastNotAborted
<1>1. Init => PaceInv
  BY DEF Init, PaceInv, Paced, FastNotAborted
<1>2. ASSUME IInv, PaceInv, [Next]_vars PROVE PaceInv'
  <2> USE <1>2
  <2>1. ASSUME NEW n, Send(n) \/ Close PROVE PaceInv'
    BY <2>1 DEF Send, Close, parser, guard, observed, PaceInv, Paced, FastNotAborted
  <2>2. CASE (\E receiving \in BOOLEAN : Pause(receiving)) \/ UNCHANGED vars
    BY <2>2 DEF Pause, vars, parser, guard, observed, PaceInv, Paced, FastNotAborted
  <2>3. CASE Eof
    <3>1. CASE Finish(EofResult) /\ UNCHANGED <<framing, chunk, guard, second>>
      BY <2>3, <3>1 DEF Eof, Finish, EofResult, guard, PaceInv, Paced, FastNotAborted
    <3>2. CASE step = "headers" /\ \E kind \in {"close", response.framing} : BeginBody(kind, <<>>)
      BY <2>3, <3>2, PaceBegins, EmptyIs DEF Eof
    <3> QED BY <2>3, <3>1, <3>2 DEF Eof
  <2>4. CASE Headers
    <3>1. step = "headers" /\ UNCHANGED fast /\ framing = "none"
      BY <2>4 DEF Headers, PaceInv, Paced
    <3>2. CASE BeginBody(response.framing, SubSeq(Buffer, HeaderEnd + 1, Len(Buffer)))
      <4>1. SubSeq(Buffer, HeaderEnd + 1, Len(Buffer)) \in Seq(Symbol)
        <5>1. used \in Nat /\ used <= got /\ HeaderEnd # 0
          BY <2>4, <3>1, Fitting DEF Headers, IInv, Parsed
        <5>2. PICK n \in Nat \ {0} : HeaderEnd = IF got < used + n THEN 0 ELSE n
          BY <3>1, BlockEnd
        <5>3. Buffer \in Seq(Symbol) /\ Len(Buffer) = got - used /\ got \in Nat
          BY <5>1, Buffered, Fitting DEF IInv
        <5> QED BY <5>1, <5>2, <5>3, Slice
      <4> QED BY <3>1, <3>2, <4>1, PaceBegins
    <3>3. CASE UNCHANGED <<framing, chunk, guard, second>>
               /\ (UNCHANGED <<step, result>> \/ \E code \in Refusal : Finish(code))
      BY <3>1, <3>3 DEF Finish, guard, PaceInv, Paced, FastNotAborted
    <3> QED BY <2>4, <3>2, <3>3 DEF Headers
  <2>5. CASE Reset \/ NoHeaders \/ LengthReached \/ TrailerFields
    BY <2>5, OtherPace DEF Reset, NoHeaders, LengthReached, TrailerFields, Finish, PaceInv, Paced
  <2>6. CASE ChunkLine \/ ChunkData \/ ChunkEnding
    <3>1. framing \notin {"length", "close"} /\ step' # "headers" /\ UNCHANGED <<framing, guard, observed>>
      BY <2>6 DEF ChunkLine, ChunkData, ChunkEnding, Finish, Continue, PaceInv, Paced
    <3> QED BY <3>1 DEF PaceInv, Paced, FastNotAborted, guard, observed
  <2>7. CASE NotTaken
    BY <2>7 DEF NotTaken, Finish, guard, observed, PaceInv, Paced, FastNotAborted
  <2> QED BY <2>1, <2>2, <2>3, <2>4, <2>5, <2>6, <2>7, ReceivePace, IdlePace, TakenPace, TickPace
          DEF Next, Client, Finished
<1>3. PaceInv => FastNotAborted
  BY DEF PaceInv
<1> QED BY <1>1, <1>2, <1>3, Invariant, PTL DEF Spec
=============================================================================
