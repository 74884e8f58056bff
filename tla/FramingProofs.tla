----------------------------- MODULE FramingProofs -----------------------------
(***************************************************************************)
(* What holds of Framing for buffers of any size, contents of any length   *)
(* and any number of requests: what SocketIO::readline may put where, that *)
(* it does not block, and that a request is served as it was asked.        *)
(***************************************************************************)
EXTENDS Framing, DataLemmas

(* An int comes back from its four bytes. *)
BytesOf(b, n) ==
  /\ b \in Seq(Octets) /\ Len(b) = 4
  /\ n = b[1] + 256 * b[2] + 65536 * b[3]
           + 16777216 * (b[4] - (IF b[4] < 128 THEN 0 ELSE 256))

LEMMA BytesRead == ASSUME NEW n \in Nat, n <= MaxInt PROVE BytesOf(Bytes(n), n)
<1> DEFINE b1 == n % 256
           b2 == (n \div 256) % 256
           b3 == (n \div 65536) % 256
           b4 == (n \div 16777216) % 256
<1>1. b1 \in Octets /\ b2 \in Octets /\ b3 \in Octets /\ b4 \in Octets
  BY SMT DEF Octets
<1>2. b4 = n \div 16777216 /\ b4 < 128
  BY SMT DEF MaxInt
<1>3. n = b1 + 256 * b2 + 65536 * b3 + 16777216 * b4
  BY SMT DEF MaxInt
<1>4. Bytes(n) = <<b1, b2, b3, b4>>
  BY SMT DEF Bytes
<1> HIDE DEF b1, b2, b3, b4
<1>5. <<b1, b2, b3, b4>> \in Seq(Octets)
  BY <1>1
<1>6. n = b1 + 256 * b2 + 65536 * b3 + 16777216 * (b4 - (IF b4 < 128 THEN 0 ELSE 256))
  <2>1. b4 < 128
    BY <1>2
  <2>2. b4 - (IF b4 < 128 THEN 0 ELSE 256) = b4
    BY <1>1, <2>1, SMT DEF Octets
  <2> QED BY <1>3, <2>2
<1> DEFINE b == Bytes(n)
<1>7. b[1] = b1 /\ b[2] = b2 /\ b[3] = b3 /\ b[4] = b4 /\ Len(b) = 4
  BY <1>4
<1>8. b \in Seq(Octets)
  BY <1>4, <1>5
<1> HIDE DEF b
<1>9. /\ b \in Seq(Octets) /\ Len(b) = 4
      /\ n = b[1] + 256 * b[2] + 65536 * b[3]
               + 16777216 * (b[4] - (IF b[4] < 128 THEN 0 ELSE 256))
  BY <1>6, <1>7, <1>8, SMT
<1> QED BY <1>9, SMT DEF b, BytesOf

(* The first newline, or the first zero, of some bytes. *)
FirstAt(s, x, e) ==
  \/ e = 0 /\ \A i \in 1..Len(s) : s[i] # x
  \/ e \in 1..Len(s) /\ s[e] = x /\ \A i \in 1..(e - 1) : s[i] # x

LEMMA FirstFound ==
  ASSUME NEW s \in Seq(Octets), NEW x, NEW I, I = {i \in 1..Len(s) : s[i] = x},
         NEW e, e = IF I # {} THEN Min(I) ELSE 0
  PROVE  FirstAt(s, x, e)
<1>1. Len(s) \in Nat
  BY LenProperties
<1>2. CASE I = {}
  BY <1>2 DEF FirstAt
<1>3. CASE I # {}
  <2>1. I \subseteq Nat
    BY <1>1
  <2>2. PICK k \in I : \A i \in I : k <= i
    BY <1>3, <2>1, NatMinimum
  <2>3. Min(I) \in I /\ \A i \in I : Min(I) <= i
    BY <2>2 DEF Min
  <2>4. e \in I /\ \A i \in I : e <= i
    BY <1>3, <2>3
  <2>5. e \in 1..Len(s) /\ s[e] = x
    BY <2>4
  <2>6. ASSUME NEW i \in 1..(e - 1) PROVE s[i] # x
    <3>1. i \in 1..Len(s) /\ ~(e <= i)
      BY <1>1, <2>5
    <3> QED BY <2>4, <3>1
  <2> QED BY <2>5, <2>6 DEF FirstAt
<1> QED BY <1>2, <1>3

LEMMA NewlineFound ==
  ASSUME NEW s \in Seq(Octets)
  PROVE  FirstAt(s, Newline, SelectInSeq(s, LAMBDA b : b = Newline))
<1> DEFINE I == {i \in 1..Len(s) : s[i] = Newline}
           e == SelectInSeq(s, LAMBDA b : b = Newline)
<1>1. e = IF I # {} THEN Min(I) ELSE 0
  BY DEF SelectInSeq
<1> HIDE DEF I, e
<1>2. FirstAt(s, Newline, e)
  BY <1>1, FirstFound DEF I
<1> QED BY <1>2 DEF e

-------------------------------------------------------------------------------
(* What a client asks, and its request without the newline. *)
Queries == {Query(op, Content(n)) : op \in 1..3, n \in Lengths}
LineOf(q) == Header(q) \o q.content

LEMMA QueryTyped ==
  ASSUME NEW q \in Queries
  PROVE  /\ q.op \in 1..3 /\ q.content \in Seq(Octets) /\ q = Query(q.op, q.content)
         /\ Len(q.content) \in Nat /\ HeaderSize + Len(q.content) <= ParseMax
         /\ \A i \in 1..Len(q.content) : q.content[i] = Letter
<1>1. PICK op \in 1..3, n \in Lengths : q = Query(op, Content(n))
  BY DEF Queries
<1>2. n \in Nat /\ HeaderSize + n <= ParseMax
  BY SizesAssumption
<1>3. q.op = op /\ q.content = [i \in 1..n |-> Letter]
  BY <1>1 DEF Query, Content
<1>4. [i \in 1..n |-> Letter] \in Seq(Octets)
  BY <1>2 DEF Letter, Octets
<1> QED BY <1>1, <1>2, <1>3, <1>4 DEF Query, Content

(* The newline that ends a request is its only one, but for the header's. *)
Packed(p, q) ==
  /\ p \in Seq(Octets) /\ Len(p) = Len(LineOf(q)) + 1 /\ p[Len(p)] = Newline
  /\ \A i \in 1..Len(LineOf(q)) : p[i] = LineOf(q)[i]

LEMMA LineTyped ==
  ASSUME NEW q \in Queries
  PROVE  /\ LineOf(q) \in Seq(Octets) /\ Len(LineOf(q)) = HeaderSize + Len(q.content)
         /\ Len(LineOf(q)) \in Nat /\ Len(LineOf(q)) <= ParseMax
         /\ BytesOf(SubSeq(LineOf(q), 1, 4), Len(q.content))
         /\ BytesOf(SubSeq(LineOf(q), 5, 8), q.op)
         /\ \A i \in 1..Len(q.content) : LineOf(q)[HeaderSize + i] = Letter
         /\ ~Contains(Header(q), Newline) => \A i \in 1..Len(LineOf(q)) : LineOf(q)[i] # Newline
<1> DEFINE a == Bytes(Len(q.content))
           b == Bytes(q.op)
           h == Header(q)
           l == LineOf(q)
<1>1. /\ q.content \in Seq(Octets) /\ Len(q.content) \in Nat
      /\ HeaderSize + Len(q.content) <= ParseMax
      /\ \A i \in 1..Len(q.content) : q.content[i] = Letter
  BY QueryTyped
<1>2. BytesOf(a, Len(q.content)) /\ BytesOf(b, q.op)
  <2>1. Len(q.content) <= MaxInt /\ 3 <= MaxInt
    <3>1. Len(q.content) <= LineMax
      BY <1>1, SizesAssumption DEF HeaderSize
    <3>2. MaxInt \in Nat /\ 3 <= MaxInt
      BY SMT DEF MaxInt
    <3> QED BY <1>1, <3>1, <3>2, SizesAssumption
  <2>2. q.op \in Nat /\ q.op <= MaxInt
    <3>1. q.op \in 1..3 /\ MaxInt \in Nat
      BY QueryTyped, SMT DEF MaxInt
    <3> QED BY <2>1, <3>1
  <2> QED BY <1>1, <2>1, <2>2, BytesRead
<1>3. a \in Seq(Octets) /\ Len(a) = 4 /\ b \in Seq(Octets) /\ Len(b) = 4
  BY <1>2, SMT DEF BytesOf
<1> HIDE DEF a, b
<1>4. /\ h \in Seq(Octets) /\ Len(h) = 8
      /\ \A i \in 1..8 : h[i] = IF i <= 4 THEN a[i] ELSE b[i - 4]
  <2>1. h = a \o b
    BY DEF Header, a, b
  <2>2. /\ a \o b \in Seq(Octets) /\ Len(a \o b) = Len(a) + Len(b)
        /\ \A i \in 1..Len(a) + Len(b) :
              (a \o b)[i] = IF i <= Len(a) THEN a[i] ELSE b[i - Len(a)]
    BY <1>3, ConcatProperties
  <2> QED BY <1>3, <2>1, <2>2
<1> HIDE DEF h
<1>5. /\ l \in Seq(Octets) /\ Len(l) = 8 + Len(q.content)
      /\ \A i \in 1..(8 + Len(q.content)) : l[i] = IF i <= 8 THEN h[i] ELSE q.content[i - 8]
  <2>1. l = h \o q.content
    BY DEF LineOf, h
  <2>2. /\ h \o q.content \in Seq(Octets) /\ Len(h \o q.content) = Len(h) + Len(q.content)
        /\ \A i \in 1..Len(h) + Len(q.content) :
              (h \o q.content)[i] = IF i <= Len(h) THEN h[i] ELSE q.content[i - Len(h)]
    BY <1>1, <1>4, ConcatProperties
  <2> QED BY <1>4, <2>1, <2>2
<1> HIDE DEF l
<1>6. SubSeq(l, 1, 4) = a /\ SubSeq(l, 5, 8) = b
  <2>1. \A i \in 1..8 : l[i] \in Octets
    <3>1. \A i \in 1..Len(l) : l[i] \in Octets
      BY <1>5, ElementOfSeq
    <3> QED BY <1>1, <1>5, <3>1
  <2>2. SubSeq(l, 1, 4) \in Seq(Octets) /\ Len(SubSeq(l, 1, 4)) = 4
        /\ \A i \in 1..4 : SubSeq(l, 1, 4)[i] = l[i]
    <3>1. \A i \in 1..4 : l[i] \in Octets
      BY <2>1
    <3>2. /\ SubSeq(l, 1, 4) \in Seq(Octets)
          /\ Len(SubSeq(l, 1, 4)) = IF 1 <= 4 THEN 4 - 1 + 1 ELSE 0
          /\ \A i \in 1..(4 - 1 + 1) : SubSeq(l, 1, 4)[i] = l[1 + i - 1]
      BY <3>1, SubSeqProperties
    <3> QED BY <3>2
  <2>3. SubSeq(l, 5, 8) \in Seq(Octets) /\ Len(SubSeq(l, 5, 8)) = 4
        /\ \A i \in 1..4 : SubSeq(l, 5, 8)[i] = l[i + 4]
    <3>1. \A i \in 5..8 : l[i] \in Octets
      BY <2>1
    <3>2. /\ SubSeq(l, 5, 8) \in Seq(Octets)
          /\ Len(SubSeq(l, 5, 8)) = IF 5 <= 8 THEN 8 - 5 + 1 ELSE 0
          /\ \A i \in 1..(8 - 5 + 1) : SubSeq(l, 5, 8)[i] = l[5 + i - 1]
      BY <3>1, SubSeqProperties
    <3> QED BY <3>2
  <2>4. \A i \in 1..4 : l[i] = a[i] /\ l[i + 4] = b[i]
    <3>1. ASSUME NEW i \in 1..4 PROVE l[i] = a[i] /\ l[i + 4] = b[i]
      <4>1. i \in 1..8 /\ i + 4 \in 1..8 /\ i <= 4 /\ ~(i + 4 <= 4) /\ (i + 4) - 4 = i
        OBVIOUS
      <4>2. \A k \in 1..8 : l[k] = h[k]
        BY <1>1, <1>5
      <4>3. h[i] = a[i] /\ h[i + 4] = b[i]
        BY <1>4, <4>1
      <4> QED BY <4>1, <4>2, <4>3
    <3> QED BY <3>1
  <2>5. SubSeq(l, 1, 4) = a
    BY <1>3, <2>2, <2>4, SeqEqual
  <2>6. SubSeq(l, 5, 8) = b
    BY <1>3, <2>3, <2>4, SeqEqual
  <2> QED BY <2>5, <2>6
<1>7. ASSUME NEW i \in 1..Len(q.content) PROVE l[HeaderSize + i] = Letter
  <2>1. HeaderSize + i \in 1..(8 + Len(q.content)) /\ ~(HeaderSize + i <= 8) /\ (HeaderSize + i) - 8 = i
    BY <1>1 DEF HeaderSize
  <2> QED BY <1>1, <1>5, <2>1
<1>8. ASSUME ~Contains(Header(q), Newline), NEW i \in 1..Len(l) PROVE l[i] # Newline
  <2>1. CASE i <= 8
    <3>1. l[i] = h[i] /\ i \in 1..Len(h)
      BY <1>1, <1>4, <1>5, <2>1
    <3> QED BY <1>8, <3>1 DEF Contains, h
  <2>2. CASE i > 8
    <3>1. l[i] = Letter
      BY <1>1, <1>5, <2>2
    <3> QED BY <3>1 DEF Letter, Newline
  <2> QED BY <1>1, <1>5, <2>1, <2>2
<1>9. Len(l) = HeaderSize + Len(q.content) /\ Len(l) \in Nat /\ Len(l) <= ParseMax
  BY <1>1, <1>5 DEF HeaderSize
<1> QED BY <1>2, <1>5, <1>6, <1>7, <1>8, <1>9 DEF l

LEMMA PackTyped == ASSUME NEW q \in Queries PROVE Packed(Pack(q), q)
<1> DEFINE l == LineOf(q)
           e == <<Newline>>
           p == l \o e
<1>1. l \in Seq(Octets) /\ Len(l) \in Nat
  BY LineTyped
<1>2. e \in Seq(Octets) /\ Len(e) = 1 /\ e[1] = Newline
  BY DEF Newline, Octets
<1>3. Pack(q) = p
  BY DEF Pack, LineOf
<1> HIDE DEF l, e
<1>4. /\ p \in Seq(Octets) /\ Len(p) = Len(l) + Len(e)
      /\ \A i \in 1..Len(l) + Len(e) : p[i] = IF i <= Len(l) THEN l[i] ELSE e[i - Len(l)]
  BY <1>1, <1>2, ConcatProperties
<1> HIDE DEF p
<1>5. Len(p) = Len(l) + 1 /\ p[Len(p)] = Newline
  BY <1>1, <1>2, <1>4
<1>6. \A i \in 1..Len(l) : p[i] = l[i]
  BY <1>1, <1>2, <1>4
<1> QED BY <1>3, <1>4, <1>5, <1>6 DEF Packed, l

(* What the workers make of the bytes of a line, whatever they are. *)
LEMMA IntRead ==
  ASSUME NEW l \in Seq(Octets), NEW i \in Nat \ {0}, i + 3 <= Len(l)
  PROVE  /\ IntAt(l, i) = l[i] + 256 * l[i + 1] + 65536 * l[i + 2]
                           + 16777216 * (l[i + 3] - (IF l[i + 3] < 128 THEN 0 ELSE 256))
<1>1. Len(l) \in Nat
  BY LenProperties
<1>2. i <= Len(l) /\ i + 1 <= Len(l) /\ i + 2 <= Len(l) /\ i + 3 <= Len(l)
  BY <1>1
<1>3. Byte(l, i) = l[i] /\ Byte(l, i + 1) = l[i + 1] /\ Byte(l, i + 2) = l[i + 2]
      /\ Byte(l, i + 3) = l[i + 3]
  BY <1>2 DEF Byte
<1> QED BY <1>3, SMT DEF IntAt

LEMMA ByteTyped ==
  ASSUME NEW l \in Seq(Octets), NEW i \in Nat \ {0}
  PROVE  Byte(l, i) \in Octets
<1>1. Len(l) \in Nat /\ \A j \in 1..Len(l) : l[j] \in Octets
  BY LenProperties, ElementOfSeq
<1>2. 0 \in Octets
  BY DEF Octets
<1> QED BY <1>1, <1>2 DEF Byte

LEMMA IntTyped ==
  ASSUME NEW l \in Seq(Octets), NEW i \in Nat \ {0}
  PROVE  IntAt(l, i) \in Int
<1>1. \A k \in 0..3 : Byte(l, i + k) \in Octets
  <2>1. \A k \in 0..3 : i + k \in Nat \ {0}
    OBVIOUS
  <2> QED BY <2>1, ByteTyped
<1>2. Byte(l, i) \in Int /\ Byte(l, i + 1) \in Int /\ Byte(l, i + 2) \in Int /\ Byte(l, i + 3) \in Int
  <2>1. \A x \in Octets : x \in Int
    BY DEF Octets
  <2>2. i + 0 = i
    OBVIOUS
  <2> QED BY <1>1, <2>1, <2>2
<1> QED BY <1>2, SMTT(60) DEF IntAt

(* msgContent ends at the first zero of as many bytes as the length says. *)
LEMMA ContentTyped ==
  ASSUME NEW l \in Seq(Octets)
  PROVE  MsgContent(l) \in Seq(Octets)
<1> DEFINE m == MsgLen(l)
           bytes == [i \in 1..m |-> Byte(l, HeaderSize + i)]
           zero == SelectInSeq(bytes, LAMBDA b : b = 0)
<1>1. m \in Int
  BY IntTyped DEF MsgLen
<1>2. \A i \in 1..m : Byte(l, HeaderSize + i) \in Octets
  <2>1. \A i \in 1..m : HeaderSize + i \in Nat \ {0}
    BY <1>1 DEF HeaderSize
  <2> QED BY <2>1, ByteTyped
<1>3. MsgContent(l) = IF zero = 0 THEN bytes ELSE SubSeq(bytes, 1, zero - 1)
  BY DEF MsgContent
<1> HIDE DEF m
<1>4. bytes \in Seq(Octets)
  <2>1. CASE m \in Nat
    BY <1>2, <2>1
  <2>2. CASE m \notin Nat
    <3>1. 1..m = 1..0
      BY <1>1, <2>2
    <3>2. bytes = [i \in 1..0 |-> Byte(l, HeaderSize + i)]
      BY <3>1
    <3> HIDE DEF bytes
    <3>3. bytes \in [1..0 -> Octets]
      BY <3>2
    <3> QED BY <3>3, SeqDef
  <2> QED BY <2>1, <2>2
<1> DEFINE I == {i \in 1..Len(bytes) : bytes[i] = 0}
<1>5. zero = IF I # {} THEN Min(I) ELSE 0
  BY DEF SelectInSeq
<1> HIDE DEF bytes, zero
<1>6. FirstAt(bytes, 0, zero)
  <2> HIDE DEF I
  <2> QED BY <1>4, <1>5, FirstFound DEF I
<1>7. ASSUME zero # 0 PROVE SubSeq(bytes, 1, zero - 1) \in Seq(Octets)
  <2>1. zero \in 1..Len(bytes) /\ Len(bytes) \in Nat
    BY <1>4, <1>6, <1>7, LenProperties DEF FirstAt
  <2>2. \A i \in 1..(zero - 1) : bytes[i] \in Octets
    BY <1>4, <2>1, ElementOfSeq
  <2> QED BY <2>1, <2>2, SubSeqProperties
<1> QED BY <1>3, <1>4, <1>7

(* A line that came whole is read as what was asked. *)
LEMMA LineServed ==
  ASSUME NEW q \in Queries
  PROVE  LET l == LineOf(q)
         IN ~Overruns(l) /\ Query(ServedAs(IntAt(l, 5)), MsgContent(l)) = q
<1> DEFINE l == LineOf(q)
           n == Len(q.content)
           a == SubSeq(l, 1, 4)
           b == SubSeq(l, 5, 8)
           bytes == [i \in 1..MsgLen(l) |-> Byte(l, HeaderSize + i)]
           zero == SelectInSeq(bytes, LAMBDA x : x = 0)
<1>1. /\ l \in Seq(Octets) /\ Len(l) = 8 + n /\ Len(l) <= ParseMax /\ n \in Nat
      /\ BytesOf(a, n) /\ BytesOf(b, q.op)
      /\ \A i \in 1..n : l[HeaderSize + i] = Letter
  BY LineTyped, QueryTyped DEF HeaderSize
<1>2. /\ a[1] = l[1] /\ a[2] = l[2] /\ a[3] = l[3] /\ a[4] = l[4]
      /\ b[1] = l[5] /\ b[2] = l[6] /\ b[3] = l[7] /\ b[4] = l[8]
  <2> HIDE DEF l, n
  <2>1. \A i \in 1..Len(l) : l[i] \in Octets
    BY <1>1, ElementOfSeq
  <2>2. \A i \in 1..4 : l[i] \in Octets
    BY <1>1, <2>1
  <2>3. \A i \in 5..8 : l[i] \in Octets
    BY <1>1, <2>1
  <2>4. \A i \in 1..(4 - 1 + 1) : a[i] = l[1 + i - 1]
    BY <2>2, SubSeqProperties
  <2>5. \A i \in 1..(8 - 5 + 1) : b[i] = l[5 + i - 1]
    BY <2>3, SubSeqProperties
  <2> HIDE DEF a, b
  <2> QED BY <2>4, <2>5
<1> HIDE DEF a, b
<1>3. MsgLen(l) = n
  <2>1. 1 + 3 <= Len(l)
    BY <1>1
  <2>2. IntAt(l, 1) = l[1] + 256 * l[1 + 1] + 65536 * l[1 + 2]
                        + 16777216 * (l[1 + 3] - (IF l[1 + 3] < 128 THEN 0 ELSE 256))
    BY <1>1, <2>1, IntRead, SMT
  <2> HIDE DEF l, n
  <2> QED BY <1>1, <1>2, <2>2, SMT DEF MsgLen, BytesOf
<1>4. IntAt(l, 5) = q.op
  <2>1. 5 + 3 <= Len(l)
    BY <1>1
  <2>2. IntAt(l, 5) = l[5] + 256 * l[5 + 1] + 65536 * l[5 + 2]
                        + 16777216 * (l[5 + 3] - (IF l[5 + 3] < 128 THEN 0 ELSE 256))
    BY <1>1, <2>1, IntRead, SMT
  <2> HIDE DEF l, n
  <2> QED BY <1>1, <1>2, <2>2, SMT DEF BytesOf
<1>5. ~Overruns(l)
  <2> HIDE DEF l, n
  <2> QED BY <1>1, <1>3, SizesAssumption DEF Overruns, HeaderSize
<1>6. MsgContent(l) = IF zero = 0 THEN bytes ELSE SubSeq(bytes, 1, zero - 1)
  BY DEF MsgContent
<1>7. bytes = q.content
  <2>1. \A i \in 1..n : Byte(l, HeaderSize + i) = Letter
    <3> HIDE DEF l, n
    <3>1. \A i \in 1..n : HeaderSize + i <= Len(l)
      BY <1>1 DEF HeaderSize
    <3> QED BY <1>1, <3>1 DEF Byte
  <2>2. bytes = [i \in 1..n |-> Letter]
    <3> HIDE DEF l, n
    <3> QED BY <1>3, <2>1
  <2>3. q.content \in Seq(Octets) /\ \A i \in 1..n : q.content[i] = Letter
    BY QueryTyped
  <2>4. q.content = [i \in 1..n |-> q.content[i]]
    BY <2>3, LenProperties
  <2> QED BY <2>2, <2>3, <2>4
<1> DEFINE I == {i \in 1..Len(bytes) : bytes[i] = 0}
<1>8. zero = IF I # {} THEN Min(I) ELSE 0
  BY DEF SelectInSeq
<1> HIDE DEF zero, bytes, l, n
<1>9. I = {}
  <2>1. \A i \in 1..Len(q.content) : q.content[i] # 0
    BY QueryTyped DEF Letter
  <2> QED BY <1>7, <2>1
<1>10. MsgContent(l) = q.content
  BY <1>6, <1>7, <1>8, <1>9
<1>11. ServedAs(IntAt(l, 5)) = q.op
  BY <1>4, QueryTyped DEF ServedAs
<1>12. Query(q.op, q.content) = q
  BY QueryTyped
<1> QED BY <1>5, <1>10, <1>11, <1>12 DEF l

-------------------------------------------------------------------------------
(* What a recv takes, and what it leaves. *)
Cut(a, b, s, k) ==
  /\ a \in Seq(Octets) /\ Len(a) = k /\ b \in Seq(Octets) /\ Len(b) = Len(s) - k
  /\ \A i \in 1..k : a[i] = s[i]
  /\ \A i \in 1..(Len(s) - k) : b[i] = s[k + i]

LEMMA CutInTwo ==
  ASSUME NEW s \in Seq(Octets), NEW k \in 0..Len(s)
  PROVE  Cut(SubSeq(s, 1, k), SubSeq(s, k + 1, Len(s)), s, k)
<1> DEFINE a == SubSeq(s, 1, k)
           b == SubSeq(s, k + 1, Len(s))
<1>1. Len(s) \in Nat /\ \A i \in 1..Len(s) : s[i] \in Octets
  BY LenProperties, ElementOfSeq
<1>2. a \in Seq(Octets) /\ Len(a) = k /\ \A i \in 1..k : a[i] = s[i]
  <2>1. \A i \in 1..k : s[i] \in Octets
    BY <1>1
  <2> QED BY <1>1, <2>1, SubSeqProperties
<1>3. /\ b \in Seq(Octets) /\ Len(b) = Len(s) - k
      /\ \A i \in 1..(Len(s) - k) : b[i] = s[k + i]
  <2>1. \A i \in (k + 1)..Len(s) : s[i] \in Octets
    BY <1>1
  <2> QED BY <1>1, <2>1, SubSeqProperties
<1> QED BY <1>2, <1>3 DEF Cut

(* got and what is added to it. *)
Joint(u, s, t) ==
  /\ u \in Seq(Octets) /\ Len(u) = Len(s) + Len(t)
  /\ \A i \in 1..(Len(s) + Len(t)) : u[i] = IF i <= Len(s) THEN s[i] ELSE t[i - Len(s)]

LEMMA Joining ==
  ASSUME NEW s \in Seq(Octets), NEW t \in Seq(Octets) PROVE Joint(s \o t, s, t)
BY ConcatProperties DEF Joint

Tasks == {t \in Seq(Octets) : Len(t) < LineMax - 1}
Answers == [op : 1..4, content : Seq(Octets)]

Typed ==
  /\ wire \in Seq(Octets) /\ got \in Seq(Octets) /\ Len(got) < LineMax
  /\ tasks \in Seq(Tasks)
  /\ peer \in {"open", "closed", "reset"} /\ phase \in {"idle", "waiting", "gone"}
  /\ io \in {"wait", "readline", "closed", "down"}
  /\ unread \in Nat /\ broken \in BOOLEAN
  /\ asked \in Seq(Queries) /\ served \in Seq(Answers)

LEMMA TypedIsTypeOK == Typed => TypeOK
<1> SUFFICES ASSUME Typed PROVE TypeOK
  OBVIOUS
<1>1. /\ DOMAIN tasks = 1..Len(tasks) /\ \A i \in 1..Len(tasks) : tasks[i] \in Tasks
      /\ DOMAIN asked = 1..Len(asked) /\ \A i \in 1..Len(asked) : asked[i] \in Queries
      /\ DOMAIN served = 1..Len(served) /\ \A i \in 1..Len(served) : served[i] \in Answers
  BY LenProperties, ElementOfSeq DEF Typed
<1>2. \A i \in DOMAIN tasks : tasks[i] \in Seq(Octets) /\ Len(tasks[i]) < LineMax - 1
  BY <1>1 DEF Tasks
<1>3. \A i \in DOMAIN asked : asked[i].op \in 1..3
  BY <1>1, QueryTyped
<1>4. \A i \in DOMAIN served : served[i].op \in 1..4 /\ served[i].content \in Seq(Octets)
  BY <1>1 DEF Answers
<1> QED BY <1>2, <1>3, <1>4 DEF Typed, TypeOK

LEMMA TypedInit == Init => Typed
<1>1. LineMax > 0 /\ Len(<<>>) = 0
  BY SizesAssumption
<1>2. <<>> \in Seq(Octets) /\ <<>> \in Seq(Tasks) /\ <<>> \in Seq(Queries) /\ <<>> \in Seq(Answers)
  OBVIOUS
<1>3. 0 \in Nat /\ FALSE \in BOOLEAN
  OBVIOUS
<1> SUFFICES ASSUME Init PROVE Typed
  OBVIOUS
<1>4. wire = <<>> /\ got = <<>> /\ tasks = <<>> /\ asked = <<>> /\ served = <<>>
  BY DEF Init
<1>5. peer = "open" /\ phase = "idle" /\ io = "wait" /\ unread = 0 /\ broken = FALSE
  BY DEF Init
<1> QED BY <1>1, <1>2, <1>3, <1>4, <1>5, Zenon DEF Typed

(* The turn of readline that takes r bytes, c, whose first newline is at e. *)
Taken(r, c, e) ==
  /\ r \in 1..Len(wire) /\ r + Len(got) <= LineMax - 1
  /\ Cut(c, SubSeq(wire, r + 1, Len(wire)), wire, r) /\ FirstAt(c, Newline, e)
  /\ e = 0 => /\ got' = got \o c /\ wire' = SubSeq(wire, r + 1, Len(wire))
              /\ UNCHANGED <<io, tasks>>
  /\ e # 0 => /\ tasks' = Append(tasks, got \o SubSeq(wire, 1, e - 1))
              /\ wire' = SubSeq(wire, e + 1, Len(wire))
              /\ io' = "wait" /\ UNCHANGED got

LEMMA PeekTakes == Typed /\ Peek => \E r, c, e : Taken(r, c, e)
<1> SUFFICES ASSUME Typed, Peek PROVE \E r, c, e : Taken(r, c, e)
  OBVIOUS
<1>1. wire \in Seq(Octets) /\ Len(wire) \in Nat /\ Len(got) \in Nat /\ LineMax \in Nat
  BY SizesAssumption, LenProperties DEF Typed
<1> DEFINE chunk(r) == SubSeq(wire, 1, r)
           end(r) == SelectInSeq(chunk(r), LAMBDA b : b = Newline)
<1>2. PICK r \in 1..Len(wire) :
         /\ r <= Room
         /\ IF end(r) = 0
            THEN /\ got' = got \o chunk(r)
                 /\ wire' = SubSeq(wire, r + 1, Len(wire))
                 /\ UNCHANGED <<io, tasks>>
            ELSE /\ tasks' = Append(tasks, got \o SubSeq(wire, 1, end(r) - 1))
                 /\ wire' = SubSeq(wire, end(r) + 1, Len(wire))
                 /\ io' = "wait" /\ UNCHANGED got
  BY DEF Peek
<1> DEFINE e == end(r)
           c == chunk(r)
<1>3. Cut(c, SubSeq(wire, r + 1, Len(wire)), wire, r)
  BY <1>1, CutInTwo
<1>4. FirstAt(c, Newline, e)
  <2>1. c \in Seq(Octets)
    BY <1>3 DEF Cut
  <2> HIDE DEF chunk
  <2> QED BY <2>1, NewlineFound, Zenon
<1> HIDE DEF e, c, chunk, end
<1>5. r + Len(got) <= LineMax - 1
  BY <1>1, <1>2 DEF Room
<1>6. e = 0 => /\ got' = got \o c /\ wire' = SubSeq(wire, r + 1, Len(wire))
               /\ UNCHANGED <<io, tasks>>
  BY <1>2 DEF e, c
<1>7. e # 0 => /\ tasks' = Append(tasks, got \o SubSeq(wire, 1, e - 1))
               /\ wire' = SubSeq(wire, e + 1, Len(wire))
               /\ io' = "wait" /\ UNCHANGED got
  BY <1>2 DEF e
<1>8. Taken(r, c, e)
  BY <1>3, <1>4, <1>5, <1>6, <1>7 DEF Taken
<1> QED BY <1>8

(* readline puts nothing past the buffer, and what it returns is shorter. *)
LEMMA PeekTyped == Typed /\ Peek => Typed'
<1> SUFFICES ASSUME Typed, Peek PROVE Typed'
  OBVIOUS
<1>1. wire \in Seq(Octets) /\ got \in Seq(Octets) /\ Len(wire) \in Nat /\ Len(got) \in Nat
      /\ LineMax \in Nat /\ tasks \in Seq(Tasks)
  BY SizesAssumption, LenProperties DEF Typed
<1>2. UNCHANGED <<peer, phase, unread, asked, served, broken>>
  BY DEF Peek
<1>3. PICK r, c, e : Taken(r, c, e)
  BY PeekTakes
<1>4. /\ r \in 1..Len(wire) /\ r + Len(got) <= LineMax - 1
      /\ Cut(c, SubSeq(wire, r + 1, Len(wire)), wire, r) /\ FirstAt(c, Newline, e)
  BY <1>3 DEF Taken
<1>5. CASE e = 0
  <2>1. got' = got \o c /\ wire' = SubSeq(wire, r + 1, Len(wire)) /\ UNCHANGED <<io, tasks>>
    BY <1>3, <1>5 DEF Taken
  <2>2. c \in Seq(Octets) /\ Len(c) = r /\ wire' \in Seq(Octets)
    BY <1>4, <2>1 DEF Cut
  <2>3. got' \in Seq(Octets) /\ Len(got') = Len(got) + r
    BY <1>1, <2>1, <2>2, ConcatProperties
  <2>4. Len(got') < LineMax
    BY <1>1, <1>4, <2>3
  <2> QED BY <1>2, <2>1, <2>2, <2>3, <2>4 DEF Typed
<1>6. CASE e # 0
  <2> DEFINE line == got \o SubSeq(wire, 1, e - 1)
  <2>1. /\ tasks' = Append(tasks, line) /\ wire' = SubSeq(wire, e + 1, Len(wire))
        /\ io' = "wait" /\ UNCHANGED got
    BY <1>3, <1>6 DEF Taken
  <2>2. e \in 1..r /\ e \in 0..Len(wire) /\ e - 1 \in 0..Len(wire)
    BY <1>1, <1>4, <1>6 DEF Cut, FirstAt
  <2>3. wire' \in Seq(Octets)
    BY <1>1, <2>1, <2>2, CutInTwo DEF Cut
  <2>4. SubSeq(wire, 1, e - 1) \in Seq(Octets) /\ Len(SubSeq(wire, 1, e - 1)) = e - 1
    BY <1>1, <2>2, CutInTwo DEF Cut
  <2>5. line \in Seq(Octets) /\ Len(line) = Len(got) + (e - 1)
    BY <1>1, <2>4, ConcatProperties
  <2>6. line \in Tasks
    BY <1>1, <1>4, <2>2, <2>5 DEF Tasks
  <2>7. tasks' \in Seq(Tasks)
    BY <1>1, <2>1, <2>6, AppendProperties
  <2> QED BY <1>2, <2>1, <2>3, <2>7 DEF Typed
<1> QED BY <1>5, <1>6

LEMMA GiveUpTyped == Typed /\ GiveUp => Typed'
<1> SUFFICES ASSUME Typed, GiveUp PROVE Typed'
  OBVIOUS
<1>1. got \in Seq(Octets) /\ Len(got) \in Nat /\ LineMax \in Nat /\ LineMax - 2 \in Nat
      /\ tasks \in Seq(Tasks) /\ Room \in Nat /\ Len(got) + Room = LineMax - 1
  BY SizesAssumption, LenProperties DEF Typed, Room
<1> DEFINE z == Zeros(Room)
           full == got \o z
           line == SubSeq(full, 1, LineMax - 2)
<1>2. z \in Seq(Octets) /\ Len(z) = Room
  <2>1. 0 \in Octets
    BY DEF Octets
  <2> QED BY <1>1, <2>1 DEF Zeros
<1> HIDE DEF z
<1>3. full \in Seq(Octets) /\ Len(full) = LineMax - 1
  BY <1>1, <1>2, ConcatProperties
<1> HIDE DEF full
<1>4. line \in Seq(Octets) /\ Len(line) = LineMax - 2
  <2>1. LineMax - 2 \in 0..Len(full)
    BY <1>1, <1>3
  <2> QED BY <1>3, <2>1, CutInTwo DEF Cut
<1>5. line \in Tasks
  BY <1>1, <1>4 DEF Tasks
<1>6. tasks' = Append(tasks, line)
  BY DEF GiveUp, full, z
<1> HIDE DEF line
<1>7. tasks' \in Seq(Tasks)
  BY <1>1, <1>5, <1>6, AppendProperties
<1> QED BY <1>7 DEF GiveUp, Typed

LEMMA ProcessTyped == ASSUME Typed, NEW i \in DOMAIN tasks, Process(i) PROVE Typed'
<1>1. tasks \in Seq(Tasks) /\ Len(tasks) \in Nat /\ i \in 1..Len(tasks) /\ tasks[i] \in Seq(Octets)
  <2>1. tasks \in Seq(Tasks) /\ i \in 1..Len(tasks) /\ Len(tasks) \in Nat
    BY LenProperties DEF Typed
  <2>2. tasks[i] \in Tasks
    BY <2>1, ElementOfSeq
  <2> QED BY <2>1, <2>2 DEF Tasks
<1>2. tasks' \in Seq(Tasks)
  <2> DEFINE a == SubSeq(tasks, 1, i - 1)
             b == SubSeq(tasks, i + 1, Len(tasks))
  <2>1. \A j \in 1..Len(tasks) : tasks[j] \in Tasks
    BY <1>1, ElementOfSeq
  <2>2. a \in Seq(Tasks)
    <3>1. \A j \in 1..(i - 1) : tasks[j] \in Tasks
      BY <1>1, <2>1
    <3> QED BY <1>1, <3>1, SubSeqProperties
  <2>3. b \in Seq(Tasks)
    <3>1. \A j \in (i + 1)..Len(tasks) : tasks[j] \in Tasks
      BY <1>1, <2>1
    <3> QED BY <1>1, <3>1, SubSeqProperties
  <2>4. tasks' = a \o b
    BY DEF Process, RemoveAt
  <2> HIDE DEF a, b
  <2> QED BY <2>2, <2>3, <2>4, ConcatProperties
<1>3. CASE Overruns(tasks[i])
  BY <1>2, <1>3 DEF Process, Typed
<1>4. CASE ~Overruns(tasks[i])
  <2> DEFINE a == Query(ServedAs(IntAt(tasks[i], 5)), MsgContent(tasks[i]))
  <2>1. a \in Answers
    <3>1. ServedAs(IntAt(tasks[i], 5)) \in 1..4
      BY DEF ServedAs
    <3>2. MsgContent(tasks[i]) \in Seq(Octets)
      BY <1>1, ContentTyped
    <3> QED BY <3>1, <3>2 DEF Answers, Query
  <2>2. served' = Append(served, a) /\ unread' = unread + 1 /\ UNCHANGED io
    BY <1>4 DEF Process
  <2> HIDE DEF a
  <2>3. served' \in Seq(Answers)
    BY <2>1, <2>2, AppendProperties DEF Typed
  <2> QED BY <1>2, <2>2, <2>3 DEF Process, Typed
<1> QED BY <1>3, <1>4

LEMMA RequestTyped ==
  ASSUME Typed, NEW op \in 1..3, NEW n \in Lengths, Request(op, n) PROVE Typed'
<1> DEFINE q == Query(op, Content(n))
<1>1. q \in Queries
  BY DEF Queries
<1>2. wire' = wire \o Pack(q) /\ asked' = Append(asked, q)
  BY DEF Request
<1> HIDE DEF q
<1>3. Pack(q) \in Seq(Octets)
  BY <1>1, PackTyped DEF Packed
<1>4. wire' \in Seq(Octets)
  BY <1>2, <1>3, ConcatProperties DEF Typed
<1>5. asked' \in Seq(Queries)
  BY <1>1, <1>2, AppendProperties DEF Typed
<1> QED BY <1>4, <1>5 DEF Request, Typed

LEMMA ResetTyped == Typed /\ Reset => Typed'
<1> SUFFICES ASSUME Typed, Reset PROVE Typed'
  OBVIOUS
<1>1. PICK n \in 0..Len(wire) : wire' = SubSeq(wire, 1, n)
  BY DEF Reset
<1>2. wire' \in Seq(Octets)
  BY <1>1, CutInTwo DEF Typed, Cut
<1> QED BY <1>2 DEF Reset, Typed

LEMMA TypedStep == Typed /\ [Next]_vars => Typed'
<1> SUFFICES ASSUME Typed, [Next]_vars PROVE Typed'
  OBVIOUS
<1>1. ASSUME NEW op \in 1..3, NEW n \in Lengths, Request(op, n) PROVE Typed'
  BY <1>1, RequestTyped
<1>2. CASE Answered
  BY <1>2 DEF Answered, Typed
<1>3. CASE Close
  BY <1>3 DEF Close, Typed
<1>4. CASE Reset
  BY <1>4, ResetTyped
<1>5. CASE HandleMessage
  <2>1. LineMax > 0 /\ Len(<<>>) = 0
    BY SizesAssumption
  <2> QED BY <1>5, <2>1 DEF HandleMessage, Typed
<1>6. CASE Peek
  BY <1>6, PeekTyped
<1>7. CASE GiveUp
  BY <1>7, GiveUpTyped
<1>8. ASSUME NEW i \in DOMAIN tasks, Process(i) PROVE Typed'
  BY <1>8, ProcessTyped
<1>9. CASE UNCHANGED vars
  BY <1>9 DEF vars, Typed
<1> QED BY <1>1, <1>2, <1>3, <1>4, <1>5, <1>6, <1>7, <1>8, <1>9 DEF Next

(* readline stays inside receive's buffer, parse and process answer with   *)
(* one of the four operations: for buffers of any size.                    *)
THEOREM TypeCorrect == Spec => []TypeOK
<1>1. Init => Typed
  BY TypedInit
<1>2. Typed /\ [Next]_vars => Typed'
  BY TypedStep
<1>3. Typed => TypeOK
  BY TypedIsTypeOK
<1> QED BY <1>1, <1>2, <1>3, PTL DEF Spec

-------------------------------------------------------------------------------
(* What an open connection holds ends in a newline, and readline is begun  *)
(* only when there is something to read or nothing more to come.           *)
EndsInNewline == wire = <<>> \/ wire[Len(wire)] = Newline

Whole ==
  /\ peer = "open" => EndsInNewline
  /\ io = "readline" => wire # <<>> \/ peer # "open"

(* Where the client's last request is: in the connection and in buf, ...   *)
Joined(p) == Joint(p, got, wire)

OnTheWay(q) ==
  /\ asked = Append(served, q) /\ tasks = <<>> /\ unread = 0 /\ phase # "idle"
  /\ \/ io = "wait" /\ wire = Pack(q)
     \/ io = "readline" /\ Joined(Pack(q)) /\ wire # <<>>

(* ... read and with the thread pool, ... *)
Queued(q) ==
  /\ asked = Append(served, q) /\ tasks = <<LineOf(q)>> /\ unread = 0 /\ phase # "idle"
  /\ wire = <<>> /\ io \in {"wait", "closed"}

(* ... or answered. *)
AllServed ==
  /\ asked = served /\ tasks = <<>> /\ unread \in 0..1 /\ (phase = "idle" => unread = 0)
  /\ wire = <<>> /\ io \in {"wait", "closed"}

Orderly == AllServed \/ \E q \in Queries : OnTheWay(q) \/ Queued(q)

FramingInv ==
  /\ Typed /\ Whole
  /\ peer = "reset" => broken
  /\ io = "closed" => peer # "open"
  /\ broken \/ NewlineInHeader \/ Orderly

LEMMA CutEnds ==
  ASSUME NEW s \in Seq(Octets), NEW k \in 0..Len(s), NEW a, NEW b, Cut(a, b, s, k),
         s[Len(s)] = Newline
  PROVE  b = <<>> \/ b[Len(b)] = Newline
<1>1. Len(s) \in Nat /\ b \in Seq(Octets) /\ Len(b) = Len(s) - k
      /\ \A i \in 1..(Len(s) - k) : b[i] = s[k + i]
  BY LenProperties DEF Cut
<1>2. CASE Len(b) = 0
  BY <1>1, <1>2, EmptySeq
<1>3. CASE Len(b) # 0
  <2>1. Len(b) \in 1..(Len(s) - k) /\ k + Len(b) = Len(s)
    BY <1>1, <1>3
  <2> QED BY <1>1, <2>1
<1> QED BY <1>2, <1>3

LEMMA PeekWhole == Typed /\ Whole /\ Peek => Whole'
<1> SUFFICES ASSUME Typed, Whole, Peek PROVE Whole'
  OBVIOUS
<1>1. /\ wire \in Seq(Octets) /\ Len(wire) \in Nat /\ wire # <<>>
      /\ io = "readline" /\ UNCHANGED peer
  BY LenProperties DEF Typed, Peek
<1>2. CASE peer # "open"
  BY <1>1, <1>2 DEF Whole
<1>3. CASE peer = "open"
  <2>1. wire[Len(wire)] = Newline
    BY <1>1, <1>3 DEF Whole, EndsInNewline
  <2>2. PICK r, c, e : Taken(r, c, e)
    BY PeekTakes
  <2>3. /\ r \in 1..Len(wire) /\ FirstAt(c, Newline, e)
        /\ Cut(c, SubSeq(wire, r + 1, Len(wire)), wire, r)
    BY <2>2 DEF Taken
  <2>4. CASE e = 0
    <3>1. wire' = SubSeq(wire, r + 1, Len(wire)) /\ UNCHANGED io
      BY <2>2, <2>4 DEF Taken
    <3>2. r # Len(wire)
      <4> SUFFICES ASSUME r = Len(wire) PROVE FALSE
        OBVIOUS
      <4>1. Len(c) = r /\ c[r] = Newline /\ r \in 1..r
        BY <1>1, <2>1, <2>3 DEF Cut
      <4> QED BY <2>3, <2>4, <4>1 DEF FirstAt
    <3>3. wire' = <<>> \/ wire'[Len(wire')] = Newline
      <4>1. r \in 0..Len(wire) /\ Cut(c, wire', wire, r)
        BY <1>1, <2>3, <3>1
      <4> QED BY <1>1, <2>1, <4>1, CutEnds
    <3>4. wire' # <<>>
      <4>1. Len(wire') = Len(wire) - r
        BY <2>3, <3>1 DEF Cut
      <4> QED BY <1>1, <2>3, <3>2, <4>1
    <3> QED BY <3>3, <3>4 DEF Whole, EndsInNewline
  <2>5. CASE e # 0
    <3>1. wire' = SubSeq(wire, e + 1, Len(wire)) /\ io' = "wait"
      BY <2>2, <2>5 DEF Taken
    <3>2. e \in 0..Len(wire)
      BY <1>1, <2>3, <2>5 DEF Cut, FirstAt
    <3>3. Cut(SubSeq(wire, 1, e), wire', wire, e)
      BY <1>1, <3>1, <3>2, CutInTwo
    <3>4. wire' = <<>> \/ wire'[Len(wire')] = Newline
      BY <1>1, <2>1, <3>2, <3>3, CutEnds
    <3> QED BY <3>1, <3>4 DEF Whole, EndsInNewline
  <2> QED BY <2>4, <2>5
<1> QED BY <1>2, <1>3

LEMMA RequestWhole ==
  ASSUME Typed, Whole, NEW op \in 1..3, NEW n \in Lengths, Request(op, n) PROVE Whole'
<1> DEFINE q == Query(op, Content(n))
<1>1. q \in Queries
  BY DEF Queries
<1>2. wire' = wire \o Pack(q)
  BY DEF Request
<1> HIDE DEF q
<1> DEFINE p == Pack(q)
<1>3. p \in Seq(Octets) /\ Len(p) \in Nat /\ Len(p) > 0 /\ p[Len(p)] = Newline
  BY <1>1, PackTyped, LineTyped DEF Packed
<1> HIDE DEF p
<1>4. Joint(wire', wire, p) /\ Len(wire) \in Nat
  BY <1>2, <1>3, Joining, LenProperties DEF Typed, p
<1>5. wire' \in Seq(Octets) /\ Len(wire') = Len(wire) + Len(p) /\ wire'[Len(wire')] = Newline
  <2>1. wire' \in Seq(Octets) /\ Len(wire') = Len(wire) + Len(p)
    BY <1>4 DEF Joint
  <2>2. Len(wire') \in 1..(Len(wire) + Len(p)) /\ ~(Len(wire') <= Len(wire))
        /\ Len(wire') - Len(wire) = Len(p)
    BY <1>3, <1>4, <2>1
  <2>3. wire'[Len(wire')] = p[Len(wire') - Len(wire)]
    BY <1>4, <2>2 DEF Joint
  <2> QED BY <1>3, <2>1, <2>2, <2>3
<1>6. wire' # <<>>
  BY <1>3, <1>4, <1>5
<1> QED BY <1>5, <1>6 DEF Whole, EndsInNewline

LEMMA WholeStep == Typed /\ Whole /\ [Next]_vars => Whole'
<1> SUFFICES ASSUME Typed, Whole, [Next]_vars PROVE Whole'
  OBVIOUS
<1>1. ASSUME NEW op \in 1..3, NEW n \in Lengths, Request(op, n) PROVE Whole'
  BY <1>1, RequestWhole
<1>2. CASE Answered
  BY <1>2 DEF Answered, Whole, EndsInNewline
<1>3. CASE Close
  BY <1>3 DEF Close, Whole
<1>4. CASE Reset
  BY <1>4 DEF Reset, Whole
<1>5. CASE HandleMessage
  BY <1>5 DEF HandleMessage, Whole, EndsInNewline
<1>6. CASE Peek
  BY <1>6, PeekWhole
<1>7. CASE GiveUp
  <2>1. io' = "wait" /\ UNCHANGED wire /\ peer' \in {peer, "closed"}
    BY <1>7 DEF GiveUp
  <2> QED BY <2>1 DEF Whole, EndsInNewline
<1>8. ASSUME NEW i \in DOMAIN tasks, Process(i) PROVE Whole'
  <2>1. io' \in {io, "down"} /\ UNCHANGED <<wire, peer>>
    BY <1>8 DEF Process
  <2> QED BY <2>1 DEF Whole, EndsInNewline
<1>9. CASE UNCHANGED vars
  BY <1>9 DEF vars, Whole, EndsInNewline
<1> QED BY <1>1, <1>2, <1>3, <1>4, <1>5, <1>6, <1>7, <1>8, <1>9 DEF Next

(* The IO thread is not kept in readline by a client that sends whole      *)
(* requests, however large, in whatever pieces they come and however the   *)
(* connection ends.                                                        *)
THEOREM NeverBlocks == Spec => []ReadlineNeverBlocks
<1>1. Init => Typed /\ Whole
  BY TypedInit DEF Init, Whole, EndsInNewline
<1>2. Typed /\ Whole /\ [Next]_vars => (Typed /\ Whole)'
  BY TypedStep, WholeStep
<1>3. Whole => ReadlineNeverBlocks
  BY DEF Whole, ReadlineNeverBlocks
<1> QED BY <1>1, <1>2, <1>3, PTL DEF Spec

-------------------------------------------------------------------------------
LEMMA LastAppended ==
  ASSUME NEW S, NEW s \in Seq(S), NEW e \in S, NEW t, t = Append(s, e)
  PROVE  Len(t) \in DOMAIN t /\ t[Len(t)] = e
<1>1. t \in Seq(S) /\ Len(t) = Len(s) + 1 /\ t[Len(s) + 1] = e /\ Len(s) \in Nat
  BY AppendProperties, LenProperties
<1>2. DOMAIN t = 1..Len(t)
  BY <1>1, LenProperties
<1> QED BY <1>1, <1>2

(* A newline in a header stays in what was asked. *)
LEMMA NewlineStays ==
  ASSUME Typed, Next, NewlineInHeader PROVE NewlineInHeader'
<1>1. PICK i \in DOMAIN asked : Contains(Header(asked[i]), Newline)
  BY DEF NewlineInHeader
<1>2. asked \in Seq(Queries) /\ DOMAIN asked = 1..Len(asked) /\ Len(asked) \in Nat
  BY LenProperties DEF Typed
<1>3. CASE UNCHANGED asked
  BY <1>1, <1>3 DEF NewlineInHeader
<1>4. ASSUME NEW op \in 1..3, NEW n \in Lengths, Request(op, n) PROVE NewlineInHeader'
  <2> DEFINE q == Query(op, Content(n))
  <2>1. asked' = Append(asked, q) /\ q \in Queries
    BY <1>4 DEF Request, Queries
  <2> HIDE DEF q
  <2>2. asked' \in Seq(Queries) /\ Len(asked') = Len(asked) + 1
        /\ \A j \in 1..Len(asked) : asked'[j] = asked[j]
    BY <1>2, <2>1, AppendProperties
  <2>3. i \in DOMAIN asked' /\ asked'[i] = asked[i]
    <3>1. DOMAIN asked' = 1..Len(asked')
      BY <2>2, LenProperties
    <3> QED BY <1>2, <2>2, <3>1
  <2> QED BY <1>1, <2>3 DEF NewlineInHeader
<1>5. UNCHANGED asked \/ \E op \in 1..3, n \in Lengths : Request(op, n)
  BY DEF Next, Answered, Close, Reset, HandleMessage, Peek, GiveUp, Process
<1> QED BY <1>3, <1>4, <1>5

(* The client asks for the next when all is answered. *)
LEMMA RequestOrderly ==
  ASSUME Typed, io = "closed" => peer # "open", Orderly,
         NEW op \in 1..3, NEW n \in Lengths, Request(op, n)
  PROVE  Orderly'
<1> DEFINE q == Query(op, Content(n))
<1>1. AllServed /\ io = "wait" /\ unread = 0
  BY DEF Request, Orderly, OnTheWay, Queued, AllServed
<1>2. q \in Queries /\ asked' = Append(asked, q) /\ wire' = wire \o Pack(q)
  BY DEF Request, Queries
<1> HIDE DEF q
<1>3. wire' = Pack(q)
  <2>1. Pack(q) \in Seq(Octets)
    BY <1>2, PackTyped DEF Packed
  <2> QED BY <1>1, <1>2, <2>1, ConcatEmptySeq DEF AllServed
<1>4. OnTheWay(q)'
  BY <1>1, <1>2, <1>3 DEF Request, AllServed, OnTheWay
<1> QED BY <1>2, <1>4 DEF Orderly

LEMMA HandleOrderly ==
  ASSUME Typed, peer = "reset" => broken, ~broken, Orderly, HandleMessage
  PROVE  Orderly'
<1>1. /\ io = "wait" /\ got' = <<>> /\ io' \in {"readline", "closed"}
      /\ wire # <<>> => io' = "readline"
      /\ UNCHANGED <<wire, phase, tasks, unread, asked, served, broken>>
  BY DEF HandleMessage
<1>2. CASE AllServed
  <2>1. io' = "closed"
    BY <1>2 DEF HandleMessage, AllServed
  <2> QED BY <1>1, <1>2, <2>1 DEF Orderly, AllServed
<1>3. ASSUME NEW q \in Queries, OnTheWay(q) PROVE Orderly'
  <2>1. wire = Pack(q)
    BY <1>1, <1>3 DEF OnTheWay
  <2>2. Pack(q) \in Seq(Octets) /\ Len(Pack(q)) # 0 /\ Len(Pack(q)) \in Nat
    BY PackTyped, LineTyped DEF Packed
  <2>3. wire # <<>> /\ wire' = wire /\ io' = "readline"
    BY <1>1, <2>1, <2>2
  <2>4. Joined(Pack(q))'
    <3> DEFINE p == Pack(q)
    <3>1. p \in Seq(Octets) /\ Len(p) \in Nat /\ wire' = p /\ got' = <<>>
      BY <1>1, <2>1, <2>2, <2>3
    <3> HIDE DEF p
    <3>2. Joint(p, <<>>, p)
      BY <3>1 DEF Joint
    <3>3. Joint(p, got', wire')
      BY <3>1, <3>2
    <3> QED BY <3>3 DEF Joined, p
  <2>5. OnTheWay(q)'
    BY <1>1, <1>3, <2>3, <2>4 DEF OnTheWay
  <2> QED BY <2>5 DEF Orderly
<1>4. ASSUME NEW q \in Queries, Queued(q) PROVE Orderly'
  <2>1. io' = "closed"
    BY <1>4 DEF HandleMessage, Queued
  <2>2. Queued(q)'
    BY <1>1, <1>4, <2>1 DEF Queued
  <2> QED BY <2>2 DEF Orderly
<1> QED BY <1>2, <1>3, <1>4 DEF Orderly

(* The request comes into buf piece by piece, and its newline with the     *)
(* last: so the line is what the client packed.                            *)
LEMMA PeekOrderly ==
  ASSUME Typed, ~NewlineInHeader, Orderly, Peek
  PROVE  Orderly'
<1>1. io = "readline" /\ UNCHANGED <<peer, phase, unread, asked, served, broken>>
      /\ wire \in Seq(Octets) /\ Len(wire) \in Nat /\ got \in Seq(Octets) /\ Len(got) \in Nat
  BY LenProperties DEF Peek, Typed
<1>2. PICK q \in Queries : OnTheWay(q)
  BY <1>1 DEF Orderly, AllServed, Queued
<1> DEFINE p == Pack(q)
           l == LineOf(q)
<1>3. asked = Append(served, q) /\ tasks = <<>> /\ unread = 0 /\ phase # "idle" /\ Joint(p, got, wire)
  BY <1>1, <1>2 DEF OnTheWay, Joined
<1>4. \A i \in 1..Len(l) : l[i] # Newline
  <2>1. Len(asked) \in DOMAIN asked /\ asked[Len(asked)] = q
    <3>1. asked \in Seq(Queries) /\ served \in Seq(Answers)
      BY DEF Typed
    <3>2. q \in Answers \cup Queries /\ served \in Seq(Answers \cup Queries)
      <4>1. \A i \in 1..Len(served) : served[i] \in Answers
        BY <3>1, ElementOfSeq
      <4> QED BY <3>1, <4>1
    <3> QED BY <1>3, <3>2, LastAppended
  <2>2. ~Contains(Header(q), Newline)
    BY <2>1 DEF NewlineInHeader
  <2> QED BY <2>2, LineTyped
<1>5. /\ l \in Seq(Octets) /\ Len(l) \in Nat /\ p \in Seq(Octets) /\ Len(p) = Len(l) + 1
      /\ p[Len(p)] = Newline /\ \A i \in 1..Len(l) : p[i] = l[i]
  BY PackTyped, LineTyped DEF Packed
<1> HIDE DEF p, l
<1>6. PICK r, c, e : Taken(r, c, e)
  BY PeekTakes
<1>7. /\ r \in 1..Len(wire) /\ FirstAt(c, Newline, e)
      /\ Cut(c, SubSeq(wire, r + 1, Len(wire)), wire, r)
  BY <1>6 DEF Taken
<1>8. \A i \in 1..Len(wire) : wire[i] = p[Len(got) + i] /\ (wire[i] = Newline <=> i = Len(wire))
  <2> SUFFICES ASSUME NEW i \in 1..Len(wire)
               PROVE  wire[i] = p[Len(got) + i] /\ (wire[i] = Newline <=> i = Len(wire))
    OBVIOUS
  <2>1. Len(got) + i \in 1..(Len(got) + Len(wire)) /\ ~(Len(got) + i <= Len(got))
        /\ (Len(got) + i) - Len(got) = i
    BY <1>1
  <2>2. wire[i] = p[Len(got) + i]
    BY <1>3, <2>1 DEF Joint
  <2>3. Len(got) + Len(wire) = Len(l) + 1
    BY <1>3, <1>5 DEF Joint
  <2>4. CASE i = Len(wire)
    BY <1>5, <2>2, <2>3, <2>4
  <2>5. CASE i # Len(wire)
    <3>1. Len(got) + i \in 1..Len(l)
      BY <1>1, <1>5, <2>3, <2>5
    <3> QED BY <1>4, <1>5, <2>2, <2>5, <3>1
  <2> QED BY <2>2, <2>4, <2>5
<1>9. CASE e = 0
  <2>1. got' = got \o c /\ wire' = SubSeq(wire, r + 1, Len(wire)) /\ UNCHANGED <<io, tasks>>
    BY <1>6, <1>9 DEF Taken
  <2>2. /\ c \in Seq(Octets) /\ Len(c) = r /\ \A i \in 1..r : c[i] = wire[i]
        /\ wire' \in Seq(Octets) /\ Len(wire') = Len(wire) - r
        /\ \A i \in 1..(Len(wire) - r) : wire'[i] = wire[r + i]
    BY <1>7, <2>1 DEF Cut
  <2>3. r # Len(wire)
    <3>1. r \in 1..Len(c) /\ c[r] # Newline /\ c[r] = wire[r]
      BY <1>1, <1>7, <1>9, <2>2 DEF FirstAt
    <3> QED BY <1>7, <1>8, <3>1
  <2>4. Joint(got', got, c)
    BY <1>1, <2>1, <2>2, Joining
  <2>5. Joint(p, got', wire')
    <3>1. Len(got') = Len(got) + r /\ got' \in Seq(Octets)
      BY <2>2, <2>4 DEF Joint
    <3>2. Len(p) = Len(got') + Len(wire')
      BY <1>1, <1>3, <1>7, <2>2, <3>1 DEF Joint
    <3>3. ASSUME NEW i \in 1..(Len(got') + Len(wire'))
          PROVE  p[i] = IF i <= Len(got') THEN got'[i] ELSE wire'[i - Len(got')]
      <4>1. CASE i <= Len(got)
        <5>1. got'[i] = got[i] /\ i <= Len(got')
          BY <1>1, <1>7, <2>2, <2>4, <3>1, <4>1 DEF Joint
        <5>2. p[i] = got[i]
          BY <1>1, <1>3, <4>1 DEF Joint
        <5> QED BY <5>1, <5>2
      <4>2. CASE i > Len(got) /\ i <= Len(got')
        <5>1. i - Len(got) \in 1..r /\ Len(got) + (i - Len(got)) = i /\ i - Len(got) \in 1..Len(wire)
          BY <1>1, <1>7, <3>1, <4>2
        <5>2. got'[i] = c[i - Len(got)]
          BY <1>1, <2>2, <2>4, <3>1, <4>2, <5>1 DEF Joint
        <5>3. p[i] = wire[i - Len(got)]
          BY <1>8, <5>1
        <5> QED BY <2>2, <4>2, <5>1, <5>2, <5>3
      <4>3. CASE i > Len(got')
        <5>1. i - Len(got') \in 1..(Len(wire) - r) /\ r + (i - Len(got')) = i - Len(got)
              /\ i - Len(got) \in 1..Len(wire) /\ Len(got) + (i - Len(got)) = i
          BY <1>1, <1>7, <2>2, <3>1, <4>3
        <5>2. wire'[i - Len(got')] = wire[i - Len(got)]
          BY <2>2, <5>1
        <5>3. p[i] = wire[i - Len(got)]
          BY <1>8, <5>1
        <5>4. ~(i <= Len(got'))
          BY <1>1, <1>7, <3>1, <4>3
        <5> QED BY <5>2, <5>3, <5>4
      <4> QED BY <1>1, <1>7, <2>2, <3>1, <4>1, <4>2, <4>3
    <3> QED BY <1>5, <3>2, <3>3 DEF Joint
  <2>6. wire' # <<>>
    BY <1>1, <1>7, <2>2, <2>3
  <2>7. OnTheWay(q)'
    BY <1>1, <1>3, <2>1, <2>5, <2>6 DEF OnTheWay, Joined, p
  <2> QED BY <2>7 DEF Orderly
<1>10. CASE e # 0
  <2> DEFINE d == SubSeq(wire, 1, e - 1)
             t == got \o d
  <2>1. tasks' = Append(tasks, t) /\ wire' = SubSeq(wire, e + 1, Len(wire)) /\ io' = "wait"
    BY <1>6, <1>10 DEF Taken
  <2>2. e = Len(wire)
    <3>1. e \in 1..r /\ c[e] = Newline /\ c[e] = wire[e] /\ e \in 1..Len(wire)
      BY <1>1, <1>7, <1>10 DEF FirstAt, Cut
    <3> QED BY <1>8, <3>1
  <2>3. wire' = <<>>
    BY <1>1, <2>1, <2>2, SubSeqEmpty
  <2>4. Cut(d, SubSeq(wire, (e - 1) + 1, Len(wire)), wire, e - 1) /\ e >= 1
    <3>1. e - 1 \in 0..Len(wire) /\ e >= 1
      BY <1>1, <1>7, <2>2
    <3> QED BY <1>1, <3>1, CutInTwo
  <2> HIDE DEF d
  <2>5. d \in Seq(Octets) /\ Len(d) = Len(wire) - 1 /\ \A i \in 1..(Len(wire) - 1) : d[i] = wire[i]
    BY <2>2, <2>4 DEF Cut
  <2>6. Joint(t, got, d)
    BY <1>1, <2>5, Joining
  <2> HIDE DEF t
  <2>7. t = l
    <3>1. t \in Seq(Octets) /\ Len(t) = Len(l)
      BY <1>1, <1>3, <1>5, <2>5, <2>6 DEF Joint
    <3>2. ASSUME NEW i \in 1..Len(t) PROVE t[i] = l[i]
      <4>1. p[i] = l[i] /\ Len(t) = Len(got) + Len(d)
        BY <1>5, <2>6, <3>1 DEF Joint
      <4>2. CASE i <= Len(got)
        <5>1. t[i] = got[i]
          BY <1>1, <2>6, <4>1, <4>2 DEF Joint
        <5>2. p[i] = got[i]
          BY <1>1, <1>3, <4>2 DEF Joint
        <5> QED BY <4>1, <5>1, <5>2
      <4>3. CASE i > Len(got)
        <5>1. i - Len(got) \in 1..(Len(wire) - 1) /\ i - Len(got) \in 1..Len(wire)
              /\ Len(got) + (i - Len(got)) = i /\ ~(i <= Len(got))
          BY <1>1, <2>5, <4>1, <4>3
        <5>2. t[i] = d[i - Len(got)]
          BY <2>6, <4>1, <5>1 DEF Joint
        <5>3. p[i] = wire[i - Len(got)]
          BY <1>8, <5>1
        <5> QED BY <2>5, <4>1, <5>1, <5>2, <5>3
      <4> QED BY <1>1, <3>1, <1>5, <4>2, <4>3
    <3> QED BY <1>5, <3>1, <3>2, SeqEqual
  <2>8. tasks' = <<LineOf(q)>>
    BY <1>3, <2>1, <2>7, OneElement DEF l
  <2>9. Queued(q)'
    BY <1>1, <1>3, <2>1, <2>3, <2>8 DEF Queued
  <2> QED BY <2>9 DEF Orderly
<1> QED BY <1>9, <1>10

(* A whole request fills no buffer: readline does not give up. *)
LEMMA GiveUpOrderly == Typed /\ Orderly => ~GiveUp
<1> SUFFICES ASSUME Typed, Orderly, GiveUp PROVE FALSE
  OBVIOUS
<1>1. io = "readline" /\ (Room = 0 \/ wire = <<>>)
  BY DEF GiveUp
<1>2. PICK q \in Queries : OnTheWay(q)
  BY <1>1 DEF Orderly, AllServed, Queued
<1>3. wire # <<>> /\ Joint(Pack(q), got, wire)
  BY <1>1, <1>2 DEF OnTheWay, Joined
<1>4. Len(Pack(q)) = Len(LineOf(q)) + 1 /\ Len(LineOf(q)) <= ParseMax /\ Len(LineOf(q)) \in Nat
  BY PackTyped, LineTyped DEF Packed
<1>5. Len(got) + Len(wire) <= ParseMax + 1 /\ Len(got) \in Nat /\ Len(wire) \in Nat /\ Len(wire) # 0
  <2>1. Len(got) \in Nat /\ Len(wire) \in Nat /\ Len(wire) # 0
    BY <1>3, LenProperties, EmptySeq DEF Typed
  <2>2. Len(Pack(q)) = Len(got) + Len(wire)
    BY <1>3 DEF Joint
  <2> QED BY <1>4, <2>1, <2>2, SizesAssumption
<1>6. Room # 0
  BY <1>5, SizesAssumption DEF Room
<1> QED BY <1>1, <1>3, <1>6

(* A worker answers the last request as it was asked. *)
LEMMA ProcessOrderly ==
  ASSUME Typed, Orderly, NEW i \in DOMAIN tasks, Process(i)
  PROVE  Orderly'
<1>1. PICK q \in Queries : Queued(q)
  <2>1. tasks # <<>>
    OBVIOUS
  <2> QED BY <2>1 DEF Orderly, AllServed, OnTheWay
<1> DEFINE l == LineOf(q)
<1>2. /\ asked = Append(served, q) /\ tasks = <<l>> /\ unread = 0 /\ phase # "idle"
      /\ wire = <<>> /\ io \in {"wait", "closed"}
  BY <1>1 DEF Queued
<1>3. i = 1 /\ tasks[i] = l
  BY <1>2
<1>4. ~Overruns(l) /\ Query(ServedAs(IntAt(l, 5)), MsgContent(l)) = q
  BY LineServed
<1> HIDE DEF l
<1>5. served' = Append(served, q) /\ unread' = unread + 1 /\ UNCHANGED io
  BY <1>3, <1>4 DEF Process
<1>6. tasks' = <<>>
  <2>1. tasks' = SubSeq(tasks, 1, 0) \o SubSeq(tasks, 2, 1)
    <3>1. tasks' = SubSeq(tasks, 1, i - 1) \o SubSeq(tasks, i + 1, Len(tasks))
      BY DEF Process, RemoveAt
    <3>2. Len(tasks) = 1
      BY <1>2
    <3> QED BY <1>3, <3>1, <3>2
  <2>2. tasks \in Seq({l})
    BY <1>2
  <2>3. SubSeq(tasks, 1, 0) = <<>> /\ SubSeq(tasks, 2, 1) = <<>>
    BY <2>2, SubSeqEmpty
  <2>4. <<>> \o <<>> = <<>>
    <3>1. <<>> \in Seq({})
      OBVIOUS
    <3> QED BY <3>1, ConcatEmptySeq
  <2> QED BY <2>1, <2>3, <2>4
<1>7. AllServed'
  BY <1>2, <1>5, <1>6 DEF Process, AllServed
<1> QED BY <1>7 DEF Orderly

LEMMA FramingStep == FramingInv /\ [Next]_vars => FramingInv'
<1> SUFFICES ASSUME FramingInv, [Next]_vars PROVE FramingInv'
  OBVIOUS
<1>1. Typed /\ Whole /\ (peer = "reset" => broken) /\ (io = "closed" => peer # "open")
      /\ (broken \/ NewlineInHeader \/ Orderly)
  BY DEF FramingInv
<1>2. Typed' /\ Whole'
  BY <1>1, TypedStep, WholeStep
<1>3. (peer' = "reset" => broken') /\ (io' = "closed" => peer' # "open") /\ (broken => broken')
  <2>1. CASE \E op \in 1..3, n \in Lengths : Request(op, n)
    BY <1>1, <2>1 DEF Request
  <2>2. CASE Answered
    BY <1>1, <2>2 DEF Answered
  <2>3. CASE Close \/ Reset
    BY <1>1, <2>3 DEF Close, Reset
  <2>4. CASE HandleMessage
    BY <1>1, <2>4 DEF HandleMessage
  <2>5. CASE Peek
    <3>1. UNCHANGED <<peer, broken>> /\ io' \in {io, "wait"}
      BY <2>5 DEF Peek
    <3> QED BY <1>1, <3>1
  <2>6. CASE GiveUp
    <3>1. UNCHANGED broken /\ io' = "wait" /\ peer' \in {peer, "closed"}
      BY <2>6 DEF GiveUp
    <3> QED BY <1>1, <3>1
  <2>7. CASE \E i \in DOMAIN tasks : Process(i)
    <3>1. UNCHANGED <<peer, broken>> /\ io' \in {io, "down"}
      BY <2>7 DEF Process
    <3> QED BY <1>1, <3>1
  <2>8. CASE UNCHANGED vars
    BY <1>1, <2>8 DEF vars
  <2> QED BY <2>1, <2>2, <2>3, <2>4, <2>5, <2>6, <2>7, <2>8 DEF Next
<1>4. CASE UNCHANGED vars
  <2>1. NewlineInHeader' <=> NewlineInHeader
    BY <1>4 DEF vars, NewlineInHeader
  <2>2. Orderly => Orderly'
    BY <1>4 DEF vars, Orderly, AllServed, OnTheWay, Queued, Joined
  <2> QED BY <1>1, <1>2, <1>3, <1>4, <2>1, <2>2 DEF FramingInv
<1>5. CASE Next
  <2>1. NewlineInHeader => NewlineInHeader'
    BY <1>1, <1>5, NewlineStays
  <2>2. ASSUME ~broken, ~NewlineInHeader, ~broken' PROVE Orderly'
    <3>1. Orderly
      BY <1>1, <2>2
    <3>2. ASSUME NEW op \in 1..3, NEW n \in Lengths, Request(op, n) PROVE Orderly'
      BY <1>1, <3>1, <3>2, RequestOrderly
    <3>3. CASE Answered
      <4>1. AllServed /\ unread > 0 /\ unread' \in 0..(unread - 1)
            /\ UNCHANGED <<wire, io, tasks, asked, served>>
        BY <3>1, <3>3 DEF Answered, Orderly, OnTheWay, Queued
      <4>2. unread' = 0
        BY <4>1 DEF AllServed
      <4> QED BY <4>1, <4>2 DEF Orderly, AllServed
    <3>4. CASE Close
      <4>1. phase' = "gone" /\ UNCHANGED <<wire, io, got, tasks, unread, asked, served>>
        BY <3>4 DEF Close
      <4>2. CASE AllServed
        BY <4>1, <4>2 DEF Orderly, AllServed
      <4>3. ASSUME NEW q \in Queries, OnTheWay(q) \/ Queued(q) PROVE Orderly'
        <5>1. OnTheWay(q)' \/ Queued(q)'
          BY <4>1, <4>3 DEF OnTheWay, Queued, Joined
        <5> QED BY <5>1 DEF Orderly
      <4> QED BY <3>1, <4>2, <4>3 DEF Orderly
    <3>5. CASE Reset
      BY <2>2, <3>5 DEF Reset
    <3>6. CASE HandleMessage
      BY <1>1, <2>2, <3>1, <3>6, HandleOrderly
    <3>7. CASE Peek
      BY <1>1, <2>2, <3>1, <3>7, PeekOrderly
    <3>8. CASE GiveUp
      BY <1>1, <3>1, <3>8, GiveUpOrderly
    <3>9. ASSUME NEW i \in DOMAIN tasks, Process(i) PROVE Orderly'
      BY <1>1, <3>1, <3>9, ProcessOrderly
    <3> QED BY <1>5, <3>2, <3>3, <3>4, <3>5, <3>6, <3>7, <3>8, <3>9 DEF Next
  <2> QED BY <1>2, <1>3, <2>1, <2>2 DEF FramingInv
<1> QED BY <1>4, <1>5

(* What MyTask::parse makes of the bytes is what the client packed, in the *)
(* order it asked, and the process goes on - unless a header had a newline *)
(* in it or the connection was reset: for any sizes, lengths and pieces.   *)
THEOREM ServedUnlessNewlineOrReset == Spec => []MisreadNeedsNewlineOrReset
<1>1. Init => FramingInv
  <2> SUFFICES ASSUME Init PROVE FramingInv
    OBVIOUS
  <2>1. Typed /\ Whole
    BY TypedInit DEF Init, Whole, EndsInNewline
  <2>2. AllServed
    BY DEF Init, AllServed
  <2> QED BY <2>1, <2>2 DEF Init, FramingInv, Orderly
<1>2. ASSUME FramingInv, ~NewlineInHeader, ~broken PROVE AsAsked
  <2>1. Orderly /\ served \in Seq(Answers)
    BY <1>2 DEF FramingInv, Typed
  <2>2. io # "down"
    BY <2>1 DEF Orderly, AllServed, OnTheWay, Queued
  <2>3. ASSUME asked = served PROVE IsPrefix(served, asked)
    BY <2>1, <2>3, LenProperties DEF IsPrefix
  <2>4. ASSUME NEW q \in Queries, asked = Append(served, q) PROVE IsPrefix(served, asked)
    <3> DEFINE Both == Answers \cup Queries
               n == Len(served)
    <3>1. served \in Seq(Both) /\ q \in Both /\ n \in Nat
      <4>1. \A i \in 1..Len(served) : served[i] \in Answers
        BY <2>1, ElementOfSeq
      <4> QED BY <2>1, <4>1, LenProperties
    <3>2. /\ asked \in Seq(Both) /\ Len(asked) = n + 1
          /\ \A i \in 1..n : asked[i] = served[i]
      BY <2>4, <3>1, AppendProperties
    <3>3. /\ SubSeq(asked, 1, n) \in Seq(Both) /\ Len(SubSeq(asked, 1, n)) = n
          /\ \A i \in 1..n : SubSeq(asked, 1, n)[i] = asked[i]
      <4>1. \A i \in 1..n : asked[i] \in Both
        BY <3>1, <3>2, ElementOfSeq
      <4> HIDE DEF Both, n
      <4> QED BY <3>1, <4>1, SubSeqProperties
    <3>4. SubSeq(asked, 1, n) = served
      <4> HIDE DEF Both
      <4> QED BY <3>1, <3>2, <3>3, SeqEqual
    <3>5. SubSeq(served, 1, n) = served
      BY <3>1, SubSeqFull
    <3> QED BY <3>1, <3>2, <3>4, <3>5 DEF IsPrefix
  <2>5. asked = served \/ \E q \in Queries : asked = Append(served, q)
    BY <2>1 DEF Orderly, AllServed, OnTheWay, Queued
  <2>6. CASE asked = served
    BY <2>2, <2>3, <2>6 DEF AsAsked
  <2>7. CASE \E q \in Queries : asked = Append(served, q)
    BY <2>2, <2>4, <2>7 DEF AsAsked
  <2> QED BY <2>5, <2>6, <2>7
<1>3. FramingInv => MisreadNeedsNewlineOrReset
  BY <1>2 DEF MisreadNeedsNewlineOrReset
<1> QED BY <1>1, <1>3, FramingStep, PTL DEF Spec
===============================================================================
