--------------------------- MODULE PacketsProofs ---------------------------
(***************************************************************************)
(* The bytes of a connection, for every value of the constants: the        *)
(* parameters of a statement arrive, its rows are scanned as they were     *)
(* sent, and neither side waits for the other in vain.                     *)
(***************************************************************************)
EXTENDS Packets, CodecProofs

LEMMA Sizes ==
    /\ MaxPacket \in Nat /\ MaxPacket >= 7
    /\ Power(Radix, LenBytes) \in Nat /\ MaxPacket < Power(Radix, LenBytes)
    /\ LenBytes \in Nat /\ Header \in Nat /\ Header = LenBytes + 1 /\ Header > 1
    /\ DefaultBufSize \in Nat /\ DefaultBufSize > 0 /\ MaxCachedBufSize \in Nat
    /\ MaxAllowed \in Nat /\ MaxAllowed > 1 + LongHead /\ MinLong \in Nat /\ MinLong > 0
<1>1. LenBytes \in Nat /\ LenBytes >= 1
  BY PacketsAssumption
<1>2. Radix \in Nat /\ Radix >= 8
  BY RadixFacts
<1> DEFINE n == LenBytes - 1
           r == Power(Radix, n)
           R == Radix
<1>3. n \in Nat /\ LenBytes = n + 1
  BY <1>1
<1> HIDE DEF n
<1>4. r \in Nat /\ r > 0 /\ Power(Radix, LenBytes) = R * r
  <2>1. Radix \in Nat /\ Radix > 0
    BY <1>2
  <2>2. r \in Nat /\ r > 0
    BY <1>3, <2>1, PowerPositive
  <2>3. Power(Radix, n + 1) = Radix * Power(Radix, n)
    BY <1>3, <2>1, PowerRec
  <2> QED BY <1>3, <2>2, <2>3
<1> HIDE DEF r, R
<1>5. R * r \in Nat /\ R * r >= 8
  <2>1. R \in Nat /\ R >= 8
    BY <1>2 DEF R
  <2>2. R * r >= 8 * r
    BY <1>4, <2>1
  <2> QED BY <1>4, <2>1, <2>2
<1>6. MaxPacket = R * r - 1
  BY <1>4 DEF MaxPacket
<1>7. MaxPacket \in Nat /\ MaxPacket >= 7
      /\ Power(Radix, LenBytes) \in Nat /\ MaxPacket < Power(Radix, LenBytes)
  <2> DEFINE x == R * r
  <2> HIDE DEF x
  <2>1. x \in Nat /\ x >= 8 /\ MaxPacket = x - 1 /\ Power(Radix, LenBytes) = x
    BY <1>4, <1>5, <1>6 DEF x
  <2> QED BY <2>1
<1> QED BY <1>1, <1>7, PacketsAssumption DEF Header

-----------------------------------------------------------------------------
(* Packets. *)

(* A header, and the bytes of the packet behind it. *)
HeaderOf(data, seq) == Cat(LittleEndian(Len(data), LenBytes), <<seq % Radix>>)

LEMMA FrameRead ==
    ASSUME NEW data \in Str(Nat), Len(data) <= MaxPacket, NEW seq \in Nat
    PROVE  /\ Framed(data, seq) = Cat(HeaderOf(data, seq), data)
           /\ HeaderOf(data, seq) \in Str(Nat) /\ Len(HeaderOf(data, seq)) = Header
           /\ HeaderOf(data, seq)[Header] = seq % Radix
           /\ Number(Part(HeaderOf(data, seq), 0, LenBytes)) = Len(data)
<1> DEFINE l == LittleEndian(Len(data), LenBytes)
           q == seq % Radix
           m == <<q>>
           h == Cat(l, m)
<1>1. l \in Str(Nat) /\ Len(l) = LenBytes /\ Number(l) = Len(data)
  <2>1. Len(data) \in Nat /\ Len(data) < Power(Radix, LenBytes) /\ LenBytes \in Nat
    BY Sizes, StrLen
  <2> QED BY <2>1, LittleEndianRead
<1>2. q \in Nat
  BY RadixFacts
<1> HIDE DEF l, q
<1>3. m \in Str(Nat) /\ Len(m) = 1 /\ m[1] = q
  BY <1>2, StrOne
<1> HIDE DEF m
<1>4. h \in Str(Nat) /\ Len(h) = LenBytes + 1
  <2>1. Cat(l, m) \in Str(Nat) /\ Len(Cat(l, m)) = Len(l) + Len(m)
    BY <1>1, <1>3, CatType
  <2> QED BY <1>1, <1>3, <2>1
<1>5. h[LenBytes + 1] = q
  <2>1. \A i \in 1 .. Len(m) : Cat(l, m)[Len(l) + i] = m[i]
    BY <1>1, <1>3, CatSecond
  <2> QED BY <1>1, <1>3, <2>1
<1>6. Part(h, 0, LenBytes) = l
  <2>1. Part(Cat(l, m), 0, Len(l)) = l
    BY <1>1, <1>3, CatParts
  <2> QED BY <1>1, <2>1
<1>7. Framed(data, seq) = Cat(h, data)
  BY DEF Framed, Cat, l, m, q
<1>8. h = HeaderOf(data, seq)
  BY DEF HeaderOf, l, m, q
<1> HIDE DEF h
<1> QED BY <1>1, <1>4, <1>5, <1>6, <1>7, <1>8, Sizes DEF q

LEMMA PartNone ==
    ASSUME NEW S, NEW s \in Str(S), NEW i \in Nat
    PROVE  Part(s, i, i) = <<>>
<1>1. i + 1 > i
  OBVIOUS
<1> QED BY <1>1, EmptySeq, SubSeqEmpty DEF Part, Str

(* Two parts that meet. *)
LEMMA PartsMeet ==
    ASSUME NEW S, NEW s \in Str(S), NEW i \in Nat, NEW j \in Nat, i <= j, j <= Len(s)
    PROVE  /\ Part(s, 0, i) \in Str(S) /\ Part(s, i, j) \in Str(S) /\ Part(s, 0, j) \in Str(S)
           /\ Cat(Part(s, 0, i), Part(s, i, j)) = Part(s, 0, j)
<1> DEFINE p == Part(s, 0, i)
           q == Part(s, i, j)
           u == Part(s, 0, j)
<1>0. Len(s) \in Nat /\ i \in 0 .. Len(s) /\ j \in i .. Len(s) /\ j \in 0 .. Len(s) /\ 0 \in 0 .. Len(s)
      /\ i \in 0 .. Len(s)
  BY StrLen
<1>1. p \in Str(S) /\ Len(p) = i - 0 /\ \A k \in 1 .. i - 0 : p[k] = s[0 + k]
  BY <1>0, PartElements
<1>2. q \in Str(S) /\ Len(q) = j - i /\ \A k \in 1 .. j - i : q[k] = s[i + k]
  BY <1>0, PartElements
<1>3. u \in Str(S) /\ Len(u) = j - 0 /\ \A k \in 1 .. j - 0 : u[k] = s[0 + k]
  BY <1>0, PartElements
<1> HIDE DEF p, q, u
<1> DEFINE v == Cat(p, q)
<1>10. p \in Str(S) /\ q \in Str(S)
  BY <1>1, <1>2
<1>4. v \in Str(S) /\ Len(v) = Len(p) + Len(q)
  BY <1>10, CatType
<1>5. \A k \in 1 .. Len(p) : v[k] = p[k]
  BY <1>10, CatElements
<1>6. \A k \in 1 .. Len(q) : v[Len(p) + k] = q[k]
  BY <1>10, CatSecond
<1> HIDE DEF v
<1>7. ASSUME NEW k \in 1 .. Len(u) PROVE v[k] = u[k]
  <2>1. CASE k <= i
    BY <1>0, <1>1, <1>3, <1>5, <1>7, <2>1
  <2>2. CASE k > i
    <3> DEFINE l == k - i
    <3>1. l \in 1 .. j - i /\ l \in 1 .. Len(q) /\ Len(p) = i /\ Len(p) + l = k /\ i + l = k /\ 0 + k = k
      BY <1>0, <1>1, <1>2, <1>3, <1>7, <2>2
    <3> HIDE DEF l
    <3>2. v[k] = q[l]
      BY <1>6, <3>1
    <3>3. q[l] = s[k]
      BY <1>2, <3>1
    <3>4. u[k] = s[k]
      BY <1>3, <1>7, <3>1
    <3> QED BY <3>2, <3>3, <3>4
  <2> QED BY <1>0, <2>1, <2>2
<1>8. Len(v) = Len(u)
  BY <1>0, <1>1, <1>2, <1>3, <1>4
<1>9. v = u
  BY <1>3, <1>4, <1>7, <1>8, StrEqual
<1> QED BY <1>1, <1>2, <1>3, <1>9 DEF p, q, u, v

(* A string is cut into pieces of c bytes, the last of which may be shorter. *)
LEMMA Pieces ==
    ASSUME NEW v \in Str(Nat), NEW c \in Nat, c > 0, NEW k \in Nat, k > 0, (k - 1) * c <= Len(v)
    PROVE  LET a == (k - 1) * c
               z == IF k * c < Len(v) THEN k * c ELSE Len(v)
           IN  /\ a \in Nat /\ z \in Nat /\ k * c = a + c /\ a <= z /\ z <= Len(v) /\ z - a <= c
               /\ Part(v, 0, a) \in Str(Nat) /\ Len(Part(v, 0, a)) = a
               /\ Part(v, a, z) \in Str(Nat) /\ Len(Part(v, a, z)) = z - a
               /\ Cat(Part(v, 0, a), Part(v, a, z)) = Part(v, 0, z)
               /\ SubSeq(v, a + 1, z) = Part(v, a, z)
<1> DEFINE j == k - 1
           a == j * c
           w == k * c
           z == IF w < Len(v) THEN w ELSE Len(v)
<1>1. j \in Nat /\ Len(v) \in Nat /\ k = j + 1
  BY StrLen
<1> HIDE DEF j
<1>2. a \in Nat
  BY <1>1, Products
<1>3. w = a + c
  BY <1>1
<1>4. a <= Len(v)
  BY DEF j
<1> HIDE DEF a, w
<1>5. z \in Nat /\ a <= z /\ z <= Len(v) /\ z - a <= c
  BY <1>1, <1>2, <1>3, <1>4
<1> HIDE DEF z
<1>6. a \in 0 .. Len(v) /\ z \in a .. Len(v) /\ 0 \in 0 .. Len(v)
  BY <1>1, <1>2, <1>5
<1>7. Part(v, a, z) \in Str(Nat) /\ Len(Part(v, a, z)) = z - a
  BY <1>6, PartElements
<1>8. Part(v, 0, a) \in Str(Nat) /\ Len(Part(v, 0, a)) = a
  BY <1>6, PartFrom
<1>9. Cat(Part(v, 0, a), Part(v, a, z)) = Part(v, 0, z)
  BY <1>2, <1>5, PartsMeet
<1>10. SubSeq(v, a + 1, z) = Part(v, a, z)
  BY DEF Part
<1> QED BY <1>2, <1>3, <1>5, <1>7, <1>8, <1>9, <1>10 DEF z, w, a, j

(* What goes before packet k of a message. *)
Sent(m, k) == Part(m, 0, (k - 1) * MaxPacket)

LEMMA PacketCount ==
    ASSUME NEW m \in Str(Nat)
    PROVE  /\ PacketsOf(m) \in Nat /\ PacketsOf(m) > 0
           /\ Len(m) % MaxPacket \in 0 .. MaxPacket - 1
           /\ (PacketsOf(m) - 1) * MaxPacket \in Nat
           /\ Len(m) = (PacketsOf(m) - 1) * MaxPacket + (Len(m) % MaxPacket)
<1> DEFINE M == MaxPacket
           q == Len(m) \div M
           r == Len(m) % M
<1>1. M \in Nat /\ M > 0 /\ Len(m) \in Nat
  BY Sizes, StrLen
<1> HIDE DEF M
<1>2. Len(m) = M * q + r /\ r \in 0 .. M - 1 /\ q \in Nat
  BY <1>1, Division
<1>3. PacketsOf(m) = q + 1
  BY DEF PacketsOf, M
<1> HIDE DEF q, r
<1>4. M * q = q * M /\ q * M \in Nat /\ (q + 1) - 1 = q
  BY <1>1, <1>2, Products
<1> QED BY <1>1, <1>2, <1>3, <1>4 DEF M, r

LEMMA ChunkFacts ==
    ASSUME NEW m \in Str(Nat), NEW k \in 1 .. PacketsOf(m)
    PROVE  /\ Chunk(m, k) \in Str(Nat) /\ Len(Chunk(m, k)) <= MaxPacket
           /\ Len(Chunk(m, k)) = IF k < PacketsOf(m) THEN MaxPacket ELSE Len(m) % MaxPacket
           /\ Sent(m, k) \in Str(Nat) /\ (k = 1 => Sent(m, k) = <<>>) /\ (k > 1 => Len(Sent(m, k)) > 0)
           /\ Cat(Sent(m, k), Chunk(m, k)) = IF k < PacketsOf(m) THEN Sent(m, k + 1) ELSE m
<1> DEFINE M == MaxPacket
           n == PacketsOf(m)
           r == Len(m) % M
           L == Len(m)
           e == (n - 1) * M
           a == (k - 1) * M
           z == IF k * M < L THEN k * M ELSE L
<1>1. /\ n \in Nat /\ n > 0 /\ k \in Nat /\ k > 0 /\ k <= n
      /\ M \in Nat /\ M > 0 /\ L \in Nat /\ r \in 0 .. M - 1 /\ e \in Nat /\ L = e + r
  BY PacketCount, Sizes, StrLen
<1> HIDE DEF n, M, r
<1>2. a \in Nat /\ a <= e
  <2>1. k - 1 \in Nat /\ n - 1 \in Nat
    BY <1>1
  <2>2. CASE k = n
    BY <1>1, <2>2
  <2>3. CASE k # n
    <3>1. k - 1 < n - 1
      BY <1>1, <2>3
    <3>2. (k - 1) * M + M <= (n - 1) * M /\ (k - 1) * M \in Nat
      BY <1>1, <2>1, <3>1, Products
    <3> QED BY <1>1, <3>2
  <2> QED BY <2>2, <2>3
<1>3. a <= L
  BY <1>1, <1>2
<1>4. /\ z \in Nat /\ k * M = a + M /\ a <= z /\ z <= L /\ z - a <= M
      /\ Part(m, 0, a) \in Str(Nat) /\ Len(Part(m, 0, a)) = a
      /\ Part(m, a, z) \in Str(Nat) /\ Len(Part(m, a, z)) = z - a
      /\ Cat(Part(m, 0, a), Part(m, a, z)) = Part(m, 0, z)
      /\ SubSeq(m, a + 1, z) = Part(m, a, z)
  <2>1. k \in Nat /\ M \in Nat /\ M > 0 /\ k > 0 /\ (k - 1) * M <= Len(m)
    BY <1>1, <1>3
  <2> QED BY <2>1, Pieces
<1>5. Chunk(m, k) = Part(m, a, z)
  BY <1>4 DEF Chunk, M
<1>6. Sent(m, k) = Part(m, 0, a)
  BY DEF Sent, M
<1>7. k < n => z = k * M
  <2>1. SUFFICES ASSUME k < n PROVE k * M <= L
    BY <1>1, <1>2, <1>4
  <2>2. CASE k = n - 1
    BY <1>1, <2>2
  <2>3. CASE k # n - 1
    <3>1. k < n - 1 /\ n - 1 \in Nat
      BY <1>1, <2>1, <2>3
    <3>2. k * M + M <= (n - 1) * M /\ k * M \in Nat
      BY <1>1, <3>1, Products
    <3> QED BY <1>1, <3>2
  <2> QED BY <2>2, <2>3
<1>8. ~(k < n) => z = L /\ a = e
  <2>1. SUFFICES ASSUME ~(k < n) PROVE z = L /\ a = e
    OBVIOUS
  <2>2. k = n
    BY <1>1, <2>1
  <2>3. a = e
    BY <2>2
  <2> HIDE DEF a, e
  <2>4. ~(k * M < L)
    BY <1>1, <1>2, <1>4, <2>3
  <2> QED BY <2>3, <2>4
<1>9. k = 1 => Part(m, 0, a) = <<>>
  <2>1. SUFFICES ASSUME k = 1 PROVE Part(m, 0, a) = <<>>
    OBVIOUS
  <2>2. a = 0
    BY <1>1, <2>1
  <2> QED BY <2>2, PartNone
<1>10. k > 1 => a > 0
  <2>1. SUFFICES ASSUME k > 1 PROVE a > 0
    OBVIOUS
  <2>2. 0 < k - 1 /\ k - 1 \in Nat
    BY <1>1, <2>1
  <2>3. 0 * M + M <= (k - 1) * M
    BY <1>1, <2>2, Products
  <2> QED BY <1>1, <1>2, <2>3
<1>11. Part(m, 0, L) = m
  BY FromAll
<1>12. Sent(m, k + 1) = Part(m, 0, k * M)
  <2>1. (k + 1) - 1 = k
    BY <1>1
  <2> QED BY <2>1 DEF Sent, M
<1> HIDE DEF a, z, e
<1>13. Len(Part(m, a, z)) = IF k < n THEN M ELSE r
  <2>1. CASE k < n
    BY <1>1, <1>2, <1>4, <1>7, <2>1
  <2>2. CASE ~(k < n)
    BY <1>1, <1>2, <1>4, <1>8, <2>2
  <2> QED BY <2>1, <2>2
<1>14. Part(m, 0, z) = IF k < n THEN Sent(m, k + 1) ELSE m
  BY <1>7, <1>8, <1>11, <1>12
<1>15. Len(Part(m, a, z)) <= M
  BY <1>4
<1> DEFINE c == Chunk(m, k)
           s == Sent(m, k)
<1>16. c \in Str(Nat) /\ Len(c) <= M /\ Len(c) = IF k < n THEN M ELSE r
  BY <1>4, <1>5, <1>13, <1>15
<1>17. s \in Str(Nat) /\ (k = 1 => s = <<>>) /\ (k > 1 => Len(s) > 0)
  BY <1>2, <1>4, <1>6, <1>9, <1>10
<1>18. Cat(s, c) = IF k < n THEN Sent(m, k + 1) ELSE m
  BY <1>4, <1>5, <1>6, <1>14
<1> QED BY <1>16, <1>17, <1>18 DEF M, n, r

(* Where the elements of element n + 1 stand when all are joined. *)
LEMMA FlatIndex ==
    ASSUME NEW S, NEW q \in Str(Str(S)), NEW n \in Nat, n < Len(q)
    PROVE  LET at == Len(FlattenSeq(Part(q, 0, n)))
           IN  /\ at \in Nat /\ q[n + 1] \in Str(S) /\ Len(q[n + 1]) \in Nat
               /\ Len(FlattenSeq(Part(q, 0, n + 1))) = at + Len(q[n + 1])
               /\ at + Len(q[n + 1]) <= Len(FlattenSeq(q)) /\ Len(FlattenSeq(q)) \in Nat
               /\ \A k \in 1 .. Len(q[n + 1]) : FlattenSeq(q)[at + k] = q[n + 1][k]
<1> DEFINE x == q[n + 1]
           p == FlattenSeq(Part(q, 0, n))
           r == FlattenSeq(From(q, n + 1))
           s == FlattenSeq(From(q, n))
           f == FlattenSeq(q)
<1>1. x \in Str(S) /\ FlattenSeq(Part(q, 0, n + 1)) = Cat(p, x) /\ s = Cat(x, r)
  BY FlatNext
<1>2. Len(q) \in Nat /\ n \in 0 .. Len(q) /\ n + 1 \in 0 .. Len(q)
  BY StrLen
<1>3. f = Cat(p, s)
  BY <1>2, FlatAt
<1>4. p \in Str(S)
  <2>1. Part(q, 0, n) \in Str(Str(S))
    BY <1>2, PartFrom
  <2> QED BY <2>1, FlatType
<1>5. r \in Str(S)
  <2>1. From(q, n + 1) \in Str(Str(S))
    BY <1>2, PartFrom
  <2> QED BY <2>1, FlatType
<1> HIDE DEF x, p, r, s, f
<1>6. s \in Str(S) /\ Len(s) = Len(x) + Len(r)
  BY <1>1, <1>5, CatType
<1>7. f \in Str(S) /\ Len(f) = Len(p) + Len(s)
  BY <1>3, <1>4, <1>6, CatType
<1>8. Len(Cat(p, x)) = Len(p) + Len(x)
  BY <1>1, <1>4, CatType
<1>9. Len(x) \in Nat /\ Len(p) \in Nat /\ Len(r) \in Nat /\ Len(f) \in Nat /\ Len(s) \in Nat
  BY <1>1, <1>4, <1>5, <1>6, <1>7, StrLen
<1>10. ASSUME NEW k \in 1 .. Len(x) PROVE f[Len(p) + k] = x[k]
  <2>1. \A i \in 1 .. Len(s) : Cat(p, s)[Len(p) + i] = s[i]
    BY <1>4, <1>6, CatSecond
  <2>2. \A i \in 1 .. Len(x) : Cat(x, r)[i] = x[i]
    BY <1>1, <1>5, CatElements
  <2>3. k \in 1 .. Len(s)
    BY <1>6, <1>9
  <2> QED BY <1>1, <1>3, <2>1, <2>2, <2>3
<1>11. Len(p) + Len(x) <= Len(f)
  BY <1>6, <1>7, <1>9
<1> QED BY <1>1, <1>8, <1>9, <1>10, <1>11 DEF x, p, f

(* The packets of the messages, message by message; Split joins them. *)
Cut(messages, from) ==
    [j \in DOMAIN messages |->
        [k \in 1 .. PacketsOf(messages[j]) |->
            [data |-> Chunk(messages[j], k), off |-> Off(from, j, k)]]]

(* The number of packets before message j. *)
Start(messages, from, j) == Len(FlattenSeq(Part(Cut(messages, from), 0, j - 1)))

Packet == {p \in [data : Str(Nat), off : {0, 1}] : Len(p.data) <= MaxPacket}

LEMMA CutType ==
    ASSUME NEW messages \in Str(Str(Nat)), NEW from
    PROVE  /\ Cut(messages, from) \in Str(Str(Packet)) /\ Len(Cut(messages, from)) = Len(messages)
           /\ \A j \in 1 .. Len(messages) :
                 /\ Len(Cut(messages, from)[j]) = PacketsOf(messages[j])
                 /\ \A k \in 1 .. PacketsOf(messages[j]) :
                       Cut(messages, from)[j][k] = [data |-> Chunk(messages[j], k), off |-> Off(from, j, k)]
<1> DEFINE n == Len(messages)
           one(j) == [k \in 1 .. PacketsOf(messages[j]) |->
                         [data |-> Chunk(messages[j], k), off |-> Off(from, j, k)]]
           c == Cut(messages, from)
<1>1. n \in Nat /\ DOMAIN messages = 1 .. n /\ \A j \in 1 .. n : messages[j] \in Str(Nat)
  BY StrLen DEF Str
<1>2. c = [j \in 1 .. n |-> one(j)]
  BY <1>1 DEF Cut
<1>3. ASSUME NEW j \in 1 .. n
      PROVE  one(j) \in Str(Packet) /\ Len(one(j)) = PacketsOf(messages[j])
  <2> DEFINE m == messages[j]
             p(k) == [data |-> Chunk(m, k), off |-> Off(from, j, k)]
             f == [k \in 1 .. PacketsOf(m) |-> p(k)]
  <2>1. m \in Str(Nat)
    BY <1>1
  <2> HIDE DEF m
  <2>2. PacketsOf(m) \in Nat
    BY <2>1, PacketCount
  <2>3. ASSUME NEW k \in 1 .. PacketsOf(m) PROVE p(k) \in Packet
    <3>1. Chunk(m, k) \in Str(Nat) /\ Len(Chunk(m, k)) <= MaxPacket
      BY <2>1, ChunkFacts
    <3>2. Off(from, j, k) \in {0, 1}
      BY DEF Off
    <3> QED BY <3>1, <3>2 DEF Packet
  <2> HIDE DEF p
  <2>4. f \in Str(Packet) /\ Len(f) = PacketsOf(m)
    BY <2>2, <2>3, StrOf
  <2> QED BY <2>4 DEF f, m, p
<1>4. \A j \in 1 .. n : \A k \in 1 .. PacketsOf(messages[j]) :
         one(j)[k] = [data |-> Chunk(messages[j], k), off |-> Off(from, j, k)]
  OBVIOUS
<1> HIDE DEF one, c
<1>5. c \in Str(Str(Packet)) /\ Len(c) = n
  BY <1>1, <1>2, <1>3, StrOf
<1>6. \A j \in 1 .. n : c[j] = one(j)
  BY <1>2
<1> QED BY <1>3, <1>4, <1>5, <1>6 DEF c

LEMMA Starts ==
    ASSUME NEW messages \in Str(Str(Nat)), NEW from
    PROVE  /\ Start(messages, from, 1) = 0
           /\ Start(messages, from, Len(messages) + 1) = Len(Split(messages, from))
           /\ Split(messages, from) \in Str(Packet)
           /\ \A j \in 1 .. Len(messages) :
                 /\ Start(messages, from, j) \in Nat
                 /\ Start(messages, from, j + 1) = Start(messages, from, j) + PacketsOf(messages[j])
                 /\ \A k \in 1 .. PacketsOf(messages[j]) :
                       /\ Start(messages, from, j) + k <= Len(Split(messages, from))
                       /\ Split(messages, from)[Start(messages, from, j) + k]
                            = [data |-> Chunk(messages[j], k), off |-> Off(from, j, k)]
<1> DEFINE q == Cut(messages, from)
           n == Len(messages)
           s == Split(messages, from)
           at(j) == Start(messages, from, j)
<1>1. /\ q \in Str(Str(Packet)) /\ Len(q) = n
      /\ \A j \in 1 .. n :
            /\ Len(q[j]) = PacketsOf(messages[j])
            /\ \A k \in 1 .. PacketsOf(messages[j]) :
                  q[j][k] = [data |-> Chunk(messages[j], k), off |-> Off(from, j, k)]
  BY CutType
<1>2. n \in Nat /\ \A j \in 1 .. n : messages[j] \in Str(Nat)
  BY StrLen
<1>3. s = FlattenSeq(q)
  BY DEF Split, Cut
<1>4. \A j : at(j) = Len(FlattenSeq(Part(q, 0, j - 1)))
  BY DEF Start
<1> HIDE DEF q, s, at
<1>5. s \in Str(Packet)
  BY <1>1, <1>3, FlatType
<1>6. at(1) = 0
  <2>1. Part(q, 0, 0) = <<>> /\ 1 - 1 = 0
    BY <1>1, FromAll
  <2>2. at(1) = Len(<<>>)
    BY <1>4, <2>1, FlattenEmpty
  <2> QED BY <2>2
<1>7. at(n + 1) = Len(s)
  <2>1. Part(q, 0, n) = q
    BY <1>1, FromAll
  <2>2. (n + 1) - 1 = n
    BY <1>2
  <2> QED BY <1>3, <1>4, <2>1, <2>2
<1>8. ASSUME NEW j \in 1 .. n
      PROVE  /\ at(j) \in Nat
             /\ at(j + 1) = at(j) + PacketsOf(messages[j])
             /\ \A k \in 1 .. PacketsOf(messages[j]) :
                   /\ at(j) + k <= Len(s)
                   /\ s[at(j) + k] = [data |-> Chunk(messages[j], k), off |-> Off(from, j, k)]
  <2> DEFINE i == j - 1
             a == Len(FlattenSeq(Part(q, 0, i)))
  <2>1. i \in Nat /\ i < Len(q) /\ i + 1 = j /\ (j + 1) - 1 = i + 1
    BY <1>1, <1>2
  <2>2. at(j) = a
    BY <1>4
  <2>3. at(j + 1) = Len(FlattenSeq(Part(q, 0, i + 1)))
    BY <1>4, <2>1
  <2> HIDE DEF i
  <2>4. /\ a \in Nat /\ Len(q[i + 1]) \in Nat
        /\ Len(FlattenSeq(Part(q, 0, i + 1))) = a + Len(q[i + 1])
        /\ a + Len(q[i + 1]) <= Len(FlattenSeq(q)) /\ Len(FlattenSeq(q)) \in Nat
        /\ \A k \in 1 .. Len(q[i + 1]) : FlattenSeq(q)[a + k] = q[i + 1][k]
    <3>1. q \in Str(Str(Packet)) /\ i \in Nat /\ i < Len(q)
      BY <1>1, <2>1
    <3> QED BY <3>1, FlatIndex
  <2> HIDE DEF a
  <2>5. /\ Len(q[j]) \in Nat /\ at(j + 1) = a + Len(q[j]) /\ a + Len(q[j]) <= Len(s) /\ Len(s) \in Nat
        /\ \A k \in 1 .. Len(q[j]) : s[a + k] = q[j][k]
    BY <1>3, <2>1, <2>3, <2>4
  <2>6. \A k \in 1 .. Len(q[j]) : a + k <= Len(s)
    BY <2>4, <2>5
  <2> QED BY <1>1, <2>2, <2>4, <2>5, <2>6
<1> QED BY <1>5, <1>6, <1>7, <1>8 DEF s, at

(* The bytes of the packets from packet p + 1 on, when the first has number b. *)
Numbered(packets, b) ==
    [i \in DOMAIN packets |-> Framed(packets[i].data, b + i - 1 + packets[i].off)]

Coming(messages, from, b, p) == FlattenSeq(From(Numbered(Split(messages, from), b), p))

LEMMA NumberedType ==
    ASSUME NEW packets \in Str(Packet), NEW b \in Nat
    PROVE  /\ Numbered(packets, b) \in Str(Str(Nat)) /\ Len(Numbered(packets, b)) = Len(packets)
           /\ \A i \in 1 .. Len(packets) :
                 Numbered(packets, b)[i] = Framed(packets[i].data, b + i - 1 + packets[i].off)
<1> DEFINE n == Len(packets)
           f(i) == Framed(packets[i].data, b + i - 1 + packets[i].off)
           s == [i \in 1 .. n |-> f(i)]
<1>1. n \in Nat /\ DOMAIN packets = 1 .. n /\ \A i \in 1 .. n : packets[i] \in Packet
  BY StrLen DEF Str
<1>2. Numbered(packets, b) = s
  BY <1>1 DEF Numbered
<1>3. ASSUME NEW i \in 1 .. n PROVE f(i) \in Str(Nat)
  <2> DEFINE d == packets[i].data
             x == b + i - 1 + packets[i].off
  <2>1. d \in Str(Nat) /\ Len(d) <= MaxPacket /\ packets[i].off \in {0, 1}
    BY <1>1 DEF Packet
  <2>2. x \in Nat
    BY <1>1, <2>1
  <2> HIDE DEF d, x
  <2>3. Framed(d, x) = Cat(HeaderOf(d, x), d) /\ HeaderOf(d, x) \in Str(Nat)
    BY <2>1, <2>2, FrameRead
  <2>4. Cat(HeaderOf(d, x), d) \in Str(Nat)
    BY <2>1, <2>3, CatType
  <2> QED BY <2>3, <2>4 DEF d, x
<1>4. \A i \in 1 .. n : s[i] = f(i)
  OBVIOUS
<1> HIDE DEF f
<1>5. s \in Str(Str(Nat)) /\ Len(s) = n
  BY <1>1, <1>3, StrOf
<1> QED BY <1>2, <1>4, <1>5 DEF f

LEMMA ComingNext ==
    ASSUME NEW messages \in Str(Str(Nat)), NEW from, NEW b \in Nat
    PROVE  /\ Packed(messages, b, from) = Coming(messages, from, b, 0)
           /\ Coming(messages, from, b, Start(messages, from, Len(messages) + 1)) = <<>>
           /\ \A j \in 1 .. Len(messages) : \A k \in 1 .. PacketsOf(messages[j]) :
                 LET p == Start(messages, from, j) + k
                 IN  /\ p \in Nat /\ p > 0
                     /\ Coming(messages, from, b, p) \in Str(Nat)
                     /\ Coming(messages, from, b, p - 1)
                          = Cat(Framed(Chunk(messages[j], k), b + p - 1 + Off(from, j, k)),
                                Coming(messages, from, b, p))
<1> DEFINE s == Split(messages, from)
           f == Numbered(s, b)
           n == Len(s)
<1>1. s \in Str(Packet)
  BY Starts
<1>2. f \in Str(Str(Nat)) /\ Len(f) = n /\ \A i \in 1 .. n : f[i] = Framed(s[i].data, b + i - 1 + s[i].off)
  <2> HIDE DEF s
  <2> QED BY <1>1, NumberedType
<1>3. \A p : Coming(messages, from, b, p) = FlattenSeq(From(f, p))
  BY DEF Coming
<1>4. Packed(messages, b, from) = FlattenSeq(f)
  BY DEF Packed, Numbered
<1> HIDE DEF f
<1>5. Coming(messages, from, b, 0) = FlattenSeq(f)
  <2>1. From(f, 0) = f
    BY <1>2, FromAll
  <2> QED BY <1>3, <2>1
<1>6. Coming(messages, from, b, Start(messages, from, Len(messages) + 1)) = <<>>
  <2>1. Start(messages, from, Len(messages) + 1) = n
    BY Starts
  <2>2. From(f, Len(f)) = <<>>
    BY <1>2, FromAll
  <2> HIDE DEF n
  <2> QED BY <1>2, <1>3, <2>1, <2>2, FlattenEmpty
<1>7. ASSUME NEW j \in 1 .. Len(messages), NEW k \in 1 .. PacketsOf(messages[j])
      PROVE  LET p == Start(messages, from, j) + k
             IN  /\ p \in Nat /\ p > 0
                 /\ Coming(messages, from, b, p) \in Str(Nat)
                 /\ Coming(messages, from, b, p - 1)
                      = Cat(Framed(Chunk(messages[j], k), b + p - 1 + Off(from, j, k)),
                            Coming(messages, from, b, p))
  <2> DEFINE p == Start(messages, from, j) + k
             i == p - 1
  <2>1. /\ Start(messages, from, j) \in Nat /\ p <= n
        /\ s[p] = [data |-> Chunk(messages[j], k), off |-> Off(from, j, k)]
    BY Starts
  <2>2. k \in Nat /\ k > 0
    <3>1. messages[j] \in Str(Nat)
      BY StrLen
    <3> QED BY <3>1, PacketCount
  <2>3. p \in Nat /\ p > 0
    BY <2>1, <2>2
  <2> HIDE DEF p, s, n
  <2>4. n \in Nat /\ i \in Nat /\ i < n /\ i + 1 = p /\ p \in 1 .. n /\ p \in 0 .. n
    BY <1>1, <2>1, <2>3, StrLen DEF n
  <2>5. f[p] = Framed(Chunk(messages[j], k), b + p - 1 + Off(from, j, k))
    BY <1>2, <2>1, <2>4
  <2> HIDE DEF i
  <2>6. FlattenSeq(From(f, i)) = Cat(f[i + 1], FlattenSeq(From(f, i + 1)))
    BY <1>2, <2>4, FlatNext
  <2>7. FlattenSeq(From(f, p)) \in Str(Nat)
    <3>1. From(f, p) \in Str(Str(Nat))
      BY <1>2, <2>4, PartFrom
    <3> QED BY <3>1, FlatType
  <2>8. Coming(messages, from, b, i) = Cat(f[p], Coming(messages, from, b, p))
    BY <1>3, <2>4, <2>6
  <2> QED BY <1>3, <2>3, <2>5, <2>7, <2>8 DEF p, i
<1> QED BY <1>4, <1>5, <1>6, <1>7

-----------------------------------------------------------------------------
(* The messages of an execution. *)

(* A way to compute what is joined, one element after the other. *)
LEMMA FlatBy ==
    ASSUME NEW S, NEW q \in Str(Str(S)), NEW f, f[0] = <<>>,
           \A m \in Nat : m < Len(q) => f[m + 1] = Cat(f[m], q[m + 1])
    PROVE  FlattenSeq(q) = f[Len(q)]
<1> DEFINE T == {m \in Nat : m <= Len(q) => FlattenSeq(Part(q, 0, m)) = f[m]}
<1>1. Len(q) \in Nat
  BY StrLen
<1>2. 0 \in T
  <2>1. Part(q, 0, 0) = <<>>
    BY FromAll
  <2> QED BY <2>1, FlattenEmpty
<1>3. ASSUME NEW m \in Nat, m \in T PROVE m + 1 \in T
  <2>1. SUFFICES ASSUME m + 1 <= Len(q) PROVE FlattenSeq(Part(q, 0, m + 1)) = f[m + 1]
    OBVIOUS
  <2>2. m < Len(q) /\ FlattenSeq(Part(q, 0, m)) = f[m]
    BY <1>1, <1>3, <2>1
  <2>3. FlattenSeq(Part(q, 0, m + 1)) = Cat(FlattenSeq(Part(q, 0, m)), q[m + 1])
    BY <2>2, FlatNext
  <2> QED BY <2>2, <2>3
<1> HIDE DEF T
<1>4. \A m \in Nat : m \in T
  BY <1>2, <1>3, Induction
<1>5. FlattenSeq(Part(q, 0, Len(q))) = f[Len(q)]
  BY <1>1, <1>4 DEF T
<1>6. Part(q, 0, Len(q)) = q
  BY FromAll
<1> QED BY <1>5, <1>6

(* As many pieces of c bytes as hold a string. *)
LEMMA Enough ==
    ASSUME NEW n \in Nat, NEW c \in Nat, c > 0
    PROVE  /\ (n + c - 1) \div c \in Nat /\ n <= ((n + c - 1) \div c) * c
           /\ \A k \in Nat : k < (n + c - 1) \div c => k * c \in Nat /\ k * c <= n
<1> DEFINE x == n + c - 1
           q == x \div c
           r == x % c
<1>1. x \in Nat
  OBVIOUS
<1> HIDE DEF x
<1>2. x = c * q + r /\ r \in 0 .. c - 1 /\ q \in Nat
  BY <1>1, Division
<1> HIDE DEF q, r
<1>3. c * q \in Nat /\ c * q = q * c
  BY <1>2, Products
<1> DEFINE y == q * c
<1>4. y \in Nat /\ x = y + r
  BY <1>2, <1>3
<1>5. ASSUME NEW k \in Nat, k < q PROVE k * c \in Nat /\ k * c <= n
  <2>1. k * c + c <= y /\ k * c \in Nat
    BY <1>2, <1>5, Products
  <2> DEFINE z == k * c
  <2> HIDE DEF z, y
  <2>2. z + c <= y /\ z \in Nat
    BY <2>1 DEF z
  <2>3. z <= n
    BY <1>2, <1>4, <2>2 DEF x
  <2> QED BY <2>2, <2>3 DEF z
<1> HIDE DEF y
<1>6. n <= y
  BY <1>2, <1>4 DEF x
<1> QED BY <1>2, <1>5, <1>6 DEF x, q, y

(* What of the messages of "q" is data of parameter i. *)
Message == {m \in Str(Nat) : Len(m) > 0 /\ (m[1] = LongCmd => Len(m) >= LongHead)}

Payload(i, m) == IF m[1] = LongCmd /\ m[2] = i THEN From(m, LongHead) ELSE <<>>

Heard(i, q) == FlattenSeq([m \in DOMAIN q |-> Payload(i, q[m])])

LEMMA PayloadType ==
    ASSUME NEW i, NEW m \in Message
    PROVE  Payload(i, m) \in Str(Nat)
<1>1. m \in Str(Nat) /\ Len(m) \in Nat /\ (m[1] = LongCmd => Len(m) >= LongHead)
  BY StrLen DEF Message
<1>2. CASE m[1] = LongCmd /\ m[2] = i
  <2>1. LongHead \in 0 .. Len(m)
    BY <1>1, <1>2 DEF LongHead
  <2>2. From(m, LongHead) \in Str(Nat)
    BY <1>1, <2>1, PartFrom
  <2> QED BY <1>2, <2>2 DEF Payload
<1>3. CASE ~(m[1] = LongCmd /\ m[2] = i)
  BY <1>3, StrEmpty DEF Payload
<1> QED BY <1>2, <1>3

LEMMA HeardType ==
    ASSUME NEW i, NEW q \in Str(Message)
    PROVE  LET p == [m \in DOMAIN q |-> Payload(i, q[m])]
           IN  /\ p \in Str(Str(Nat)) /\ Len(p) = Len(q)
               /\ \A m \in 1 .. Len(q) : p[m] = Payload(i, q[m])
               /\ Heard(i, q) \in Str(Nat)
<1> DEFINE n == Len(q)
           f(m) == Payload(i, q[m])
           p == [m \in 1 .. n |-> f(m)]
<1>1. n \in Nat /\ DOMAIN q = 1 .. n /\ \A m \in 1 .. n : q[m] \in Message
  BY StrLen DEF Str
<1>2. \A m \in 1 .. n : f(m) \in Str(Nat)
  BY <1>1, PayloadType
<1>3. \A m \in 1 .. n : p[m] = f(m)
  OBVIOUS
<1>4. [m \in DOMAIN q |-> Payload(i, q[m])] = p
  BY <1>1
<1> HIDE DEF f
<1>5. p \in Str(Str(Nat)) /\ Len(p) = n
  BY <1>1, <1>2, StrOf
<1>6. FlattenSeq(p) \in Str(Nat)
  <2> HIDE DEF p
  <2> QED BY <1>5, FlatType
<1> QED BY <1>3, <1>4, <1>5, <1>6 DEF Heard, f

LEMMA HeardCat ==
    ASSUME NEW i, NEW q \in Str(Message), NEW r \in Str(Message)
    PROVE  Heard(i, Cat(q, r)) = Cat(Heard(i, q), Heard(i, r))
<1> DEFINE u == Cat(q, r)
           a == [m \in DOMAIN q |-> Payload(i, q[m])]
           b == [m \in DOMAIN r |-> Payload(i, r[m])]
           c == [m \in DOMAIN u |-> Payload(i, u[m])]
           d == Cat(a, b)
<1>1. u \in Str(Message) /\ Len(u) = Len(q) + Len(r) /\ Len(q) \in Nat /\ Len(r) \in Nat
  BY CatType, StrLen
<1>2. \A m \in 1 .. Len(q) : u[m] = q[m]
  BY CatElements
<1>3. \A m \in 1 .. Len(r) : u[Len(q) + m] = r[m]
  BY CatSecond
<1> HIDE DEF u
<1>4. a \in Str(Str(Nat)) /\ Len(a) = Len(q) /\ \A m \in 1 .. Len(q) : a[m] = Payload(i, q[m])
  BY HeardType
<1>5. b \in Str(Str(Nat)) /\ Len(b) = Len(r) /\ \A m \in 1 .. Len(r) : b[m] = Payload(i, r[m])
  BY HeardType
<1>6. c \in Str(Str(Nat)) /\ Len(c) = Len(u) /\ \A m \in 1 .. Len(u) : c[m] = Payload(i, u[m])
  BY <1>1, HeardType
<1>7. Heard(i, q) = FlattenSeq(a) /\ Heard(i, r) = FlattenSeq(b) /\ Heard(i, u) = FlattenSeq(c)
  BY DEF Heard
<1> HIDE DEF a, b, c
<1>8. d \in Str(Str(Nat)) /\ Len(d) = Len(a) + Len(b)
  BY <1>4, <1>5, CatType
<1>9. \A m \in 1 .. Len(a) : d[m] = a[m]
  BY <1>4, <1>5, CatElements
<1>10. \A m \in 1 .. Len(b) : d[Len(a) + m] = b[m]
  BY <1>4, <1>5, CatSecond
<1> HIDE DEF d
<1>11. ASSUME NEW m \in 1 .. Len(c) PROVE c[m] = d[m]
  <2>1. CASE m <= Len(q)
    <3>1. m \in 1 .. Len(q)
      BY <1>1, <1>6, <2>1
    <3> QED BY <1>1, <1>2, <1>4, <1>6, <1>9, <3>1
  <2>2. CASE m > Len(q)
    <3> DEFINE l == m - Len(q)
    <3>1. l \in 1 .. Len(r) /\ Len(q) + l = m
      BY <1>1, <1>6, <2>2
    <3> HIDE DEF l
    <3>2. u[m] = r[l]
      BY <1>3, <3>1
    <3>3. d[m] = b[l]
      BY <1>4, <1>5, <1>10, <3>1
    <3>4. b[l] = Payload(i, r[l]) /\ c[m] = Payload(i, u[m])
      BY <1>5, <1>6, <3>1
    <3> QED BY <3>2, <3>3, <3>4
  <2> QED BY <1>1, <2>1, <2>2
<1>12. Len(c) = Len(d)
  BY <1>1, <1>4, <1>5, <1>6, <1>8
<1>13. c = d
  BY <1>6, <1>8, <1>11, <1>12, StrEqual
<1>14. FlattenSeq(Cat(a, b)) = Cat(FlattenSeq(a), FlattenSeq(b))
  BY <1>4, <1>5, FlatCat
<1> QED BY <1>7, <1>13, <1>14 DEF d, u

(* What goes ahead of an execution is a command of its own kind. *)
Early == {m \in Message : m[1] = LongCmd}

LEMMA LongDataFacts ==
    ASSUME NEW i \in Nat, NEW v \in Str(Nat)
    PROVE  /\ LongData(i, v) \in Str(Early)
           /\ \A h : Heard(h, LongData(i, v)) = IF h = i THEN v ELSE <<>>
<1> DEFINE c == MaxAllowed - 1 - LongHead
           L == Len(v)
           n == (L + c - 1) \div c
           head == <<LongCmd, i>>
           z(k) == IF k * c < L THEN k * c ELSE L
           piece(k) == Part(v, (k - 1) * c, z(k))
           msg(k) == Cat(head, piece(k))
           q == [k \in 1 .. n |-> msg(k)]
<1>1. c \in Nat /\ c > 0 /\ L \in Nat
  BY Sizes, StrLen DEF LongHead
<1>2. LongData(i, v) = [k \in 1 .. n |-> head \o SubSeq(v, (k - 1) * c + 1, z(k))]
  BY DEF LongData
<1> HIDE DEF c
<1>3. n \in Nat /\ L <= n * c /\ \A k \in Nat : k < n => k * c \in Nat /\ k * c <= L
  BY <1>1, Enough
<1>4. ASSUME NEW k \in 1 .. n
      PROVE  /\ (k - 1) * c \in Nat /\ (k - 1) * c <= L
             /\ piece(k) \in Str(Nat) /\ Cat(Part(v, 0, (k - 1) * c), piece(k)) = Part(v, 0, z(k))
             /\ SubSeq(v, (k - 1) * c + 1, z(k)) = piece(k)
  <2>1. k - 1 \in Nat /\ k - 1 < n /\ k \in Nat /\ k > 0
    BY <1>3
  <2>2. (k - 1) * c \in Nat /\ (k - 1) * c <= L
    BY <1>3, <2>1
  <2> QED BY <1>1, <2>1, <2>2, Pieces
<1>5. LongData(i, v) = q
  <2>1. \A k \in 1 .. n : head \o SubSeq(v, (k - 1) * c + 1, z(k)) = msg(k)
    BY <1>4 DEF Cat
  <2> HIDE DEF head, z, piece
  <2> QED BY <1>2, <2>1
<1>6. head \in Str(Nat) /\ Len(head) = 2 /\ head[1] = LongCmd /\ head[2] = i
  BY DEF Str, LongCmd
<1> HIDE DEF head, n
<1>7. ASSUME NEW k \in 1 .. n
      PROVE  /\ msg(k) \in Early
             /\ \A h : Payload(h, msg(k)) = IF h = i THEN piece(k) ELSE <<>>
  <2> DEFINE p == piece(k)
             m == msg(k)
  <2>1. p \in Str(Nat)
    BY <1>4
  <2> HIDE DEF p
  <2>2. m = Cat(head, p)
    BY DEF p
  <2> HIDE DEF m
  <2>3. Cat(head, p) \in Str(Nat) /\ Len(Cat(head, p)) = Len(head) + Len(p)
    BY <1>6, <2>1, CatType
  <2>4. \A l \in 1 .. Len(head) : Cat(head, p)[l] = head[l]
    BY <1>6, <2>1, CatElements
  <2>5. m \in Str(Nat) /\ Len(m) = 2 + Len(p) /\ m[1] = LongCmd /\ m[2] = i
    BY <1>6, <2>2, <2>3, <2>4
  <2>6. From(m, LongHead) = p
    <3>1. From(Cat(head, p), Len(head)) = p
      BY <1>6, <2>1, CatParts
    <3> QED BY <1>6, <2>2, <3>1 DEF LongHead
  <2>7. m \in Early
    <3>1. Len(p) \in Nat
      BY <2>1, StrLen
    <3> QED BY <2>5, <3>1 DEF Early, Message, LongHead
  <2>8. \A h : Payload(h, m) = IF h = i THEN p ELSE <<>>
    BY <2>5, <2>6 DEF Payload
  <2> QED BY <2>7, <2>8 DEF m, p
<1> HIDE DEF msg
<1>8. q \in Str(Early) /\ Len(q) = n
  BY <1>3, <1>7, StrOf
<1>9. ASSUME NEW h PROVE Heard(h, q) = IF h = i THEN v ELSE <<>>
  <2> DEFINE g(k) == IF h = i THEN piece(k) ELSE <<>>
             s == [k \in 1 .. n |-> g(k)]
             t(m) == Part(v, 0, IF m * c < L THEN m * c ELSE L)
             f == [m \in Nat |-> IF h = i THEN t(m) ELSE <<>>]
  <2>1. \A k \in 1 .. n : g(k) \in Str(Nat)
    BY <1>4, StrEmpty
  <2>2. Heard(h, q) = FlattenSeq(s)
    <3>1. DOMAIN q = 1 .. n /\ \A k \in 1 .. n : Payload(h, q[k]) = g(k)
      BY <1>7
    <3>2. [k \in DOMAIN q |-> Payload(h, q[k])] = s
      <4> HIDE DEF g, q
      <4> QED BY <3>1
    <3> QED BY <3>2 DEF Heard
  <2>3. s \in Str(Str(Nat)) /\ Len(s) = n
    <3> HIDE DEF g
    <3> QED BY <1>3, <2>1, StrOf
  <2>4. f[0] = <<>>
    <3>1. t(0) = Part(v, 0, 0)
      BY <1>1
    <3>2. Part(v, 0, 0) = <<>>
      BY PartNone
    <3> HIDE DEF t
    <3> QED BY <3>1, <3>2
  <2>5. ASSUME NEW m \in Nat, m < Len(s) PROVE f[m + 1] = Cat(f[m], s[m + 1])
    <3>1. m + 1 \in 1 .. n /\ (m + 1) - 1 = m
      BY <1>3, <2>3, <2>5
    <3>2. CASE h = i
      <4>1. Cat(Part(v, 0, m * c), piece(m + 1)) = t(m + 1)
        BY <1>4, <3>1
      <4>2. m * c \in Nat /\ m * c <= L
        BY <1>4, <3>1
      <4>3. t(m) = Part(v, 0, m * c)
        BY <1>1, <4>2
      <4>4. s[m + 1] = piece(m + 1)
        BY <3>1, <3>2
      <4> HIDE DEF t, piece
      <4> QED BY <3>2, <4>1, <4>3, <4>4
    <3>3. CASE h # i
      <4>1. f[m] = <<>> /\ f[m + 1] = <<>> /\ s[m + 1] = <<>>
        BY <3>1, <3>3
      <4> DEFINE e == <<>>
      <4>2. e \in Str(Nat) /\ Cat(e, e) = e
        BY StrEmpty, CatEmpty
      <4> HIDE DEF f, s
      <4> QED BY <4>1, <4>2
    <3> QED BY <3>2, <3>3
  <2> HIDE DEF s
  <2>6. FlattenSeq(s) = f[Len(s)]
    <3> HIDE DEF f
    <3> QED BY <2>3, <2>4, <2>5, FlatBy
  <2>7. f[n] = IF h = i THEN v ELSE <<>>
    <3>1. n * c \in Nat
      BY <1>1, <1>3, Products
    <3>2. t(n) = Part(v, 0, L)
      <4>1. ~(n * c < L)
        BY <1>1, <1>3, <3>1
      <4> QED BY <4>1
    <3>3. Part(v, 0, L) = v
      BY FromAll
    <3> HIDE DEF t
    <3> QED BY <1>3, <3>2, <3>3
  <2> QED BY <2>2, <2>3, <2>6, <2>7
<1> QED BY <1>5, <1>8, <1>9

LEMMA AheadFacts ==
    ASSUME NEW args, NEW i \in Ahead(args), Len(args) \in Nat
    PROVE  i \in DOMAIN args /\ ~args[i].null /\ args[i].val # <<>>
<1>1. i \in DOMAIN args /\ ~args[i].null /\ Len(args[i].val) >= LongDataSize(args)
  BY DEF Ahead
<1>2. LongDataSize(args) \in Nat /\ LongDataSize(args) > 0
  <2> DEFINE share == MaxAllowed \div (Len(args) + 1)
  <2>1. Len(args) + 1 \in Nat /\ Len(args) + 1 > 0 /\ MaxAllowed \in Nat
    BY Sizes
  <2>2. share \in Nat
    BY <2>1, Division
  <2> HIDE DEF share
  <2>3. LongDataSize(args) = IF share < MinLong THEN MinLong ELSE share
    BY DEF LongDataSize, share
  <2> QED BY <2>2, <2>3, Sizes
<1>3. args[i].val # <<>>
  <2>1. SUFFICES ASSUME args[i].val = <<>> PROVE FALSE
    OBVIOUS
  <2>2. Len(<<>>) >= LongDataSize(args)
    BY <1>1, <2>1
  <2> QED BY <1>2, <2>2
<1> QED BY <1>1, <1>3

Group(args, i) == IF i \in Ahead(args) THEN LongData(i, args[i].val) ELSE <<>>

LEMMA MessagesFacts ==
    ASSUME NEW S, NEW args \in Seq(S), \A i \in 1 .. Len(args) : Holds("string", args[i])
    PROVE  LET all == Messages(args)
               last == ExecuteMessage(args)
           IN  /\ all \in Str(Message) /\ Len(all) \in Nat /\ Len(all) > 0
               /\ all[Len(all)] = last /\ last[1] = ExecCmd
               /\ From(last, 1) = Parameters(args, Ahead(args))
               /\ \A m \in 1 .. Len(all) - 1 : all[m][1] = LongCmd
               /\ \A i \in 1 .. Len(args) :
                     /\ Heard(i, all) = IF i \in Ahead(args) THEN args[i].val ELSE <<>>
                     /\ i \in Ahead(args) => ~args[i].null /\ args[i].val # <<>>
<1> DEFINE n == Len(args)
           groups == [i \in 1 .. n |-> Group(args, i)]
           flat == FlattenSeq(groups)
           last == ExecuteMessage(args)
           tail == <<last>>
           pars == Parameters(args, Ahead(args))
           all == Messages(args)
<1>1. n \in Nat /\ DOMAIN args = 1 .. n
  OBVIOUS
<1>2. \A i \in Ahead(args) : i \in 1 .. n /\ ~args[i].null /\ args[i].val # <<>>
  BY <1>1, AheadFacts
<1>3. ASSUME NEW i \in 1 .. n
      PROVE  /\ Group(args, i) \in Str(Early)
             /\ \A h : Heard(h, Group(args, i)) = IF h = i /\ i \in Ahead(args) THEN args[i].val ELSE <<>>
  <2>1. CASE i \in Ahead(args)
    <3> DEFINE v == args[i].val
    <3>1. v \in Str(Nat)
      <4>1. Holds("string", args[i])
        BY <1>1
      <4> QED BY <1>2, <2>1, <4>1, HeldString
    <3>2. Group(args, i) = LongData(i, v)
      BY <2>1 DEF Group
    <3> HIDE DEF v
    <3>3. i \in Nat
      BY <1>1
    <3>4. LongData(i, v) \in Str(Early) /\ \A h : Heard(h, LongData(i, v)) = IF h = i THEN v ELSE <<>>
      BY <3>1, <3>3, LongDataFacts
    <3> QED BY <2>1, <3>2, <3>4 DEF v
  <2>2. CASE i \notin Ahead(args)
    <3>1. Group(args, i) = <<>>
      BY <2>2 DEF Group
    <3>2. \A h : Heard(h, <<>>) = <<>>
      <4>1. \A h : [m \in DOMAIN <<>> |-> Payload(h, <<>>[m])] = <<>>
        OBVIOUS
      <4> QED BY <4>1, FlattenEmpty DEF Heard
    <3> QED BY <2>2, <3>1, <3>2, StrEmpty
  <2> QED BY <2>1, <2>2
<1>4. groups \in Str(Str(Early)) /\ Len(groups) = n /\ \A i \in 1 .. n : groups[i] = Group(args, i)
  <2>1. \A i \in 1 .. n : groups[i] = Group(args, i)
    OBVIOUS
  <2>2. groups \in Str(Str(Early)) /\ Len(groups) = n
    <3>1. groups = [i \in 1 .. n |-> groups[i]]
      OBVIOUS
    <3>2. \A i \in 1 .. n : groups[i] \in Str(Early)
      BY <1>3, <2>1
    <3> HIDE DEF groups
    <3> QED BY <1>1, <3>1, <3>2, StrOf
  <2> QED BY <2>1, <2>2
<1>5. all = Cat(flat, tail)
  BY <1>1 DEF Messages, Group, Cat
<1> HIDE DEF groups
<1>6. Early \subseteq Message
  BY DEF Early
<1>7. flat \in Str(Early)
  BY <1>4, FlatType
<1>8. flat \in Str(Message)
  BY <1>6, <1>7, StrWider
<1>9. pars \in Str(Nat)
  <2> DEFINE long == [i \in 1 .. n |-> IF i \in Ahead(args) THEN args[i].val ELSE <<>>]
             ahead == Ahead(args)
  <2>1. \A i \in 1 .. Len(args) :
           /\ i \in ahead => ~args[i].null /\ args[i].val # <<>>
           /\ long[i] = IF i \in ahead THEN args[i].val ELSE <<>>
    BY <1>2
  <2> HIDE DEF long, ahead
  <2>2. Parameters(args, ahead) \in Str(Nat)
    BY <2>1, ParametersRoundTrip
  <2> QED BY <2>2 DEF ahead
<1>10. last \in Message /\ last[1] = ExecCmd /\ From(last, 1) = pars
  <2> DEFINE one == <<ExecCmd>>
             l == Cat(one, pars)
  <2>1. one \in Str(Nat) /\ Len(one) = 1 /\ one[1] = ExecCmd
    BY StrOne DEF ExecCmd
  <2>2. last = l
    BY DEF ExecuteMessage, Cat
  <2> HIDE DEF one, pars
  <2>3. l \in Str(Nat) /\ Len(l) = Len(one) + Len(pars) /\ Len(pars) \in Nat
    BY <1>9, <2>1, CatType, StrLen
  <2>4. \A i \in 1 .. Len(one) : l[i] = one[i]
    BY <1>9, <2>1, CatElements
  <2>5. From(l, Len(one)) = pars
    BY <1>9, <2>1, CatParts
  <2> HIDE DEF l
  <2>6. Len(l) > 0 /\ l[1] = ExecCmd /\ ExecCmd # LongCmd
    BY <2>1, <2>3, <2>4 DEF ExecCmd, LongCmd
  <2> HIDE DEF last
  <2> QED BY <2>1, <2>2, <2>3, <2>5, <2>6 DEF Message
<1> HIDE DEF last, pars
<1>11. tail \in Str(Message) /\ Len(tail) = 1 /\ tail[1] = last
  BY <1>10, StrOne
<1> HIDE DEF flat, tail, all
<1>12. all \in Str(Message) /\ Len(all) = Len(flat) + 1 /\ Len(flat) \in Nat
  <2>1. Cat(flat, tail) \in Str(Message) /\ Len(Cat(flat, tail)) = Len(flat) + Len(tail)
    BY <1>8, <1>11, CatType
  <2> QED BY <1>5, <1>8, <1>11, <2>1, StrLen
<1>13. all[Len(all)] = last
  <2>1. \A i \in 1 .. Len(tail) : Cat(flat, tail)[Len(flat) + i] = tail[i]
    BY <1>8, <1>11, CatSecond
  <2> QED BY <1>5, <1>11, <1>12, <2>1
<1>14. ASSUME NEW m \in 1 .. Len(all) - 1 PROVE all[m][1] = LongCmd
  <2>1. \A i \in 1 .. Len(flat) : Cat(flat, tail)[i] = flat[i]
    BY <1>8, <1>11, CatElements
  <2>2. m \in 1 .. Len(flat)
    BY <1>12
  <2>3. flat[m] \in Early
    BY <1>7, <2>2, StrLen
  <2> QED BY <1>5, <2>1, <2>2, <2>3 DEF Early
<1>15. ASSUME NEW h \in 1 .. n PROVE Heard(h, flat) = IF h \in Ahead(args) THEN args[h].val ELSE <<>>
  <2> DEFINE v == IF h \in Ahead(args) THEN args[h].val ELSE <<>>
             T == {m \in Nat : m <= n => Heard(h, FlattenSeq(Part(groups, 0, m))) = IF h <= m THEN v ELSE <<>>}
  <2>1. v \in Str(Nat)
    <3>1. h \in Ahead(args) => args[h].val \in Str(Nat)
      <4>1. Holds("string", args[h])
        BY <1>1
      <4> QED BY <1>2, <4>1, HeldString
    <3> QED BY <3>1, StrEmpty
  <2>2. \A i \in 1 .. n : Heard(h, groups[i]) = IF i = h THEN v ELSE <<>>
    BY <1>3, <1>4
  <2> HIDE DEF v
  <2>3. 0 \in T
    <3>1. Part(groups, 0, 0) = <<>>
      BY <1>4, FromAll
    <3>2. Heard(h, <<>>) = <<>>
      <4>1. [m \in DOMAIN <<>> |-> Payload(h, <<>>[m])] = <<>>
        OBVIOUS
      <4> QED BY <4>1, FlattenEmpty DEF Heard
    <3>3. ~(h <= 0)
      BY <1>1
    <3> QED BY <3>1, <3>2, <3>3, FlattenEmpty
  <2>4. ASSUME NEW m \in Nat, m \in T PROVE m + 1 \in T
    <3> DEFINE p == FlattenSeq(Part(groups, 0, m))
               g == groups[m + 1]
    <3>1. SUFFICES ASSUME m + 1 <= n
                   PROVE  Heard(h, FlattenSeq(Part(groups, 0, m + 1))) = IF h <= m + 1 THEN v ELSE <<>>
      OBVIOUS
    <3>2. m < Len(groups) /\ m \in 0 .. Len(groups) /\ m + 1 \in 1 .. n
          /\ Heard(h, p) = IF h <= m THEN v ELSE <<>>
      BY <1>1, <1>4, <2>4, <3>1
    <3>3. g \in Str(Early) /\ FlattenSeq(Part(groups, 0, m + 1)) = Cat(p, g)
      BY <1>4, <3>2, FlatNext
    <3>4. p \in Str(Early)
      <4>1. Part(groups, 0, m) \in Str(Str(Early))
        BY <1>4, <3>2, PartFrom
      <4> QED BY <4>1, FlatType
    <3>5. Heard(h, g) = IF m + 1 = h THEN v ELSE <<>>
      BY <2>2, <3>2
    <3> HIDE DEF p, g
    <3>6. p \in Str(Message) /\ g \in Str(Message)
      BY <1>6, <3>3, <3>4, StrWider
    <3>7. Heard(h, Cat(p, g)) = Cat(Heard(h, p), Heard(h, g))
      BY <3>6, HeardCat
    <3> DEFINE e == <<>>
    <3>8. e \in Str(Nat) /\ Cat(e, e) = e /\ Cat(e, v) = v /\ Cat(v, e) = v
      BY <2>1, StrEmpty, CatEmpty
    <3>9. Heard(h, p) = (IF h <= m THEN v ELSE e) /\ Heard(h, g) = IF m + 1 = h THEN v ELSE e
      BY <3>2, <3>5
    <3> HIDE DEF e
    <3>10. Heard(h, Cat(p, g)) = IF h <= m + 1 THEN v ELSE e
      BY <1>1, <3>7, <3>8, <3>9
    <3> QED BY <3>3, <3>10 DEF e
  <2> HIDE DEF T
  <2>5. \A m \in Nat : m \in T
    BY <2>3, <2>4, Induction
  <2>6. Heard(h, FlattenSeq(Part(groups, 0, n))) = v
    BY <1>1, <2>5 DEF T
  <2>7. Part(groups, 0, n) = groups
    BY <1>4, FromAll
  <2> QED BY <2>6, <2>7 DEF v, flat
<1>16. ASSUME NEW h \in 1 .. n PROVE Heard(h, all) = Heard(h, flat)
  <2>1. Heard(h, Cat(flat, tail)) = Cat(Heard(h, flat), Heard(h, tail))
    BY <1>8, <1>11, HeardCat
  <2>2. Heard(h, tail) = <<>>
    <3> DEFINE p == [m \in DOMAIN tail |-> Payload(h, tail[m])]
    <3>1. p \in Str(Str(Nat)) /\ Len(p) = 1 /\ p[1] = Payload(h, last)
      <4>1. p \in Str(Str(Nat)) /\ Len(p) = Len(tail) /\ \A m \in 1 .. Len(tail) : p[m] = Payload(h, tail[m])
        BY <1>11, HeardType
      <4> HIDE DEF p
      <4> QED BY <1>11, <4>1
    <3>2. Payload(h, last) = <<>>
      BY <1>10 DEF Payload, ExecCmd, LongCmd
    <3> HIDE DEF p
    <3> DEFINE f == [m \in Nat |-> <<>>]
               e == <<>>
    <3>3. e \in Str(Nat) /\ Cat(e, e) = e
      BY StrEmpty, CatEmpty
    <3> HIDE DEF e
    <3>4. f[0] = <<>> /\ \A m \in Nat : m < Len(p) => f[m + 1] = Cat(f[m], p[m + 1])
      <4>1. \A m \in Nat : m < Len(p) => m + 1 = 1
        BY <3>1
      <4>2. \A m \in Nat : f[m] = e /\ f[m + 1] = e
        BY DEF e
      <4>3. p[1] = e
        BY <3>1, <3>2 DEF e
      <4> HIDE DEF f
      <4> QED BY <3>3, <4>1, <4>2, <4>3 DEF e
    <3> HIDE DEF f
    <3>5. FlattenSeq(p) = f[Len(p)]
      BY <3>1, <3>4, FlatBy
    <3>6. f[Len(p)] = <<>>
      BY <3>1 DEF f
    <3> QED BY <3>5, <3>6 DEF Heard, p
  <2>3. Heard(h, flat) \in Str(Nat)
    BY <1>8, HeardType
  <2> DEFINE x == Heard(h, flat)
  <2> HIDE DEF x
  <2>4. Cat(x, <<>>) = x
    BY <2>3, CatEmpty DEF x
  <2> QED BY <1>5, <2>1, <2>2, <2>4 DEF x
<1> QED BY <1>2, <1>10, <1>12, <1>13, <1>14, <1>15, <1>16 DEF all, last, pars

-----------------------------------------------------------------------------
(* The messages of an answer. *)
RowBytes(s, row) == IF s.binary THEN EncodedBinary(row, s.types) ELSE EncodedText(row)
RowOf(s, data)   == IF s.binary THEN BinaryRow(data, s.types) ELSE TextRow(data, s.types)

AnswerTo(s) == [i \in DOMAIN s.rows |-> RowBytes(s, s.rows[i])] \o <<EOFMessage>>

LEMMA ShortMessages ==
    /\ EOFMessage \in Str(Nat) /\ Len(EOFMessage) = EOFLen /\ EOFMessage[1] = iEOF
    /\ EOFLen \in Nat /\ EOFLen < MaxPacket /\ EOFLen > 0
    /\ ErrMessage \in Str(Nat) /\ Len(ErrMessage) > 0 /\ Len(ErrMessage) < MaxPacket /\ ErrMessage[1] = iERR
    /\ iEOF # iERR
<1>1. iEOF \in Nat /\ iERR \in Nat /\ iEOF # iERR
  BY RadixFacts, Marks
<1> HIDE DEF iEOF, iERR
<1>2. EOFMessage \in Str(Nat) /\ Len(EOFMessage) = 5 /\ EOFMessage[1] = iEOF
  BY <1>1 DEF EOFMessage, Str
<1>3. ErrMessage \in Str(Nat) /\ Len(ErrMessage) = 2 /\ ErrMessage[1] = iERR
  BY <1>1 DEF ErrMessage, Str
<1>4. MaxPacket \in Nat /\ MaxPacket >= 7
  BY Sizes
<1> HIDE DEF EOFMessage, ErrMessage
<1>5. EOFLen = 5
  BY DEF EOFLen
<1> QED BY <1>1, <1>2, <1>3, <1>4, <1>5

LEMMA StatementFacts ==
    ASSUME NEW s \in Statements
    PROVE  /\ s.args \in Seq([null : BOOLEAN, val : Seq(Byte)])
           /\ \A i \in 1 .. Len(s.args) : Holds("string", s.args[i])
           /\ s.types \in Seq(Types) /\ s.types # <<>>
           /\ s.rows \in Seq(Seq([null : BOOLEAN, val : Seq(Int)]))
           /\ \A j \in 1 .. Len(s.rows) :
                 /\ s.rows[j] \in Seq([null : BOOLEAN, val : Seq(Int)])
                 /\ Len(s.rows[j]) = Len(s.types) /\ s.rows[j] # <<>>
                 /\ \A i \in 1 .. Len(s.rows[j]) :
                       Holds(IF s.binary THEN s.types[i] ELSE "string", s.rows[j][i])
<1>1. s \in Statement /\ WellTyped(s)
  BY PacketsAssumption
<1>2. /\ s.args \in Seq([null : BOOLEAN, val : Seq(Byte)])
      /\ s.types \in Seq(Types) /\ s.rows \in Seq(Seq([null : BOOLEAN, val : Seq(Int)]))
  BY <1>1 DEF Statement
<1>3. /\ DOMAIN s.args = 1 .. Len(s.args) /\ DOMAIN s.types = 1 .. Len(s.types)
      /\ DOMAIN s.rows = 1 .. Len(s.rows) /\ Len(s.types) \in Nat
  BY <1>2
<1>4. /\ \A i \in DOMAIN s.args : Holds("string", s.args[i])
      /\ s.types # <<>>
      /\ \A j \in DOMAIN s.rows :
            /\ Len(s.rows[j]) = Len(s.types)
            /\ \A i \in DOMAIN s.types : Holds(IF s.binary THEN s.types[i] ELSE "string", s.rows[j][i])
  BY <1>1 DEF WellTyped
<1>5. Len(s.types) # 0
  BY <1>2, <1>4
<1>6. ASSUME NEW j \in 1 .. Len(s.rows)
      PROVE  /\ s.rows[j] \in Seq([null : BOOLEAN, val : Seq(Int)])
             /\ Len(s.rows[j]) = Len(s.types) /\ s.rows[j] # <<>>
             /\ \A i \in 1 .. Len(s.rows[j]) :
                   Holds(IF s.binary THEN s.types[i] ELSE "string", s.rows[j][i])
  <2>1. s.rows[j] \in Seq([null : BOOLEAN, val : Seq(Int)])
    BY <1>2
  <2>2. Len(s.rows[j]) = Len(s.types)
    BY <1>3, <1>4
  <2>3. s.rows[j] # <<>>
    BY <1>5, <2>1, <2>2
  <2>4. \A i \in 1 .. Len(s.rows[j]) : Holds(IF s.binary THEN s.types[i] ELSE "string", s.rows[j][i])
    BY <1>3, <1>4, <2>2
  <2> QED BY <2>1, <2>2, <2>3, <2>4
<1> QED BY <1>2, <1>3, <1>4, <1>6

(* Every row comes back from its message, which no reader takes for the end. *)
LEMMA RowFacts ==
    ASSUME NEW s \in Statements, NEW j \in 1 .. Len(s.rows)
    PROVE  LET m == RowBytes(s, s.rows[j])
           IN  /\ m \in Str(Nat) /\ Len(m) > 0 /\ m[1] # iERR
               /\ ~(m[1] = iEOF /\ Len(m) = EOFLen)
               /\ RowOf(s, m) = s.rows[j]
<1> DEFINE row == s.rows[j]
           S == [null : BOOLEAN, val : Seq(Int)]
           m == RowBytes(s, row)
<1>1. /\ row \in Seq(S) /\ Len(row) = Len(s.types) /\ row # <<>>
      /\ \A i \in 1 .. Len(row) : Holds(IF s.binary THEN s.types[i] ELSE "string", row[i])
      /\ s.types \in Seq(Types)
  BY StatementFacts
<1> HIDE DEF row, S
<1>2. CASE s.binary
  <2>1. \A i \in 1 .. Len(row) : Holds(s.types[i], row[i])
    BY <1>1, <1>2
  <2> DEFINE types == s.types
             e == EncodedBinary(row, types)
  <2> HIDE DEF types
  <2>2. /\ BinaryRow(e, types) = row
        /\ e \in Str(Nat) /\ Len(e) > 0 /\ e[1] = iOK
    BY <1>1, <2>1, BinaryRoundTrip DEF types
  <2>3. m = e /\ RowOf(s, m) = BinaryRow(e, types)
    BY <1>2 DEF RowBytes, RowOf, types
  <2>4. iOK # iERR /\ iOK # iEOF
    BY Marks DEF iOK
  <2> HIDE DEF e, m
  <2>5. m \in Str(Nat) /\ Len(m) > 0 /\ m[1] # iERR /\ m[1] # iEOF /\ RowOf(s, m) = row
    BY <2>2, <2>3, <2>4
  <2> QED BY <2>5 DEF m, row
<1>3. CASE ~s.binary
  <2>1. \A i \in 1 .. Len(row) : Holds("string", row[i])
    BY <1>1, <1>3
  <2> DEFINE types == s.types
             e == EncodedText(row)
  <2> HIDE DEF types
  <2>2. /\ TextRow(e, types) = row
        /\ e \in Str(Nat) /\ Len(e) > 0 /\ e[1] # iERR /\ (e[1] = iEOF => Len(e) > 5)
    BY <1>1, <2>1, TextRoundTrip DEF types
  <2>3. m = e /\ RowOf(s, m) = TextRow(e, types)
    BY <1>3 DEF RowBytes, RowOf, types
  <2> HIDE DEF e, m
  <2>4. m \in Str(Nat) /\ Len(m) > 0 /\ m[1] # iERR /\ (m[1] = iEOF => Len(m) > EOFLen) /\ RowOf(s, m) = row
    BY <2>2, <2>3 DEF EOFLen
  <2>5. EOFLen \in Nat /\ Len(m) \in Nat
    BY <2>4, ShortMessages, StrLen
  <2>6. ~(m[1] = iEOF /\ Len(m) = EOFLen)
    BY <2>4, <2>5
  <2> QED BY <2>4, <2>6 DEF m, row
<1> QED BY <1>2, <1>3

LEMMA AnswerFacts ==
    ASSUME NEW s \in Statements
    PROVE  LET all == AnswerTo(s)
               n == Len(s.rows)
           IN  /\ n \in Nat /\ all \in Str(Str(Nat)) /\ Len(all) = n + 1
               /\ all[n + 1] = EOFMessage
               /\ \A j \in 1 .. n : all[j] = RowBytes(s, s.rows[j])
               /\ \A j \in 1 .. n + 1 : all[j] \in Str(Nat) /\ Len(all[j]) > 0 /\ all[j][1] # iERR
<1> DEFINE n == Len(s.rows)
           f(j) == RowBytes(s, s.rows[j])
           rows == [j \in 1 .. n |-> f(j)]
           tail == <<EOFMessage>>
           all == AnswerTo(s)
<1>1. n \in Nat /\ DOMAIN s.rows = 1 .. n
  BY StatementFacts
<1>2. \A j \in 1 .. n : f(j) \in Str(Nat) /\ Len(f(j)) > 0 /\ f(j)[1] # iERR
  BY RowFacts
<1>3. all = Cat(rows, tail)
  BY <1>1 DEF AnswerTo, Cat
<1>4. \A j \in 1 .. n : rows[j] = f(j)
  OBVIOUS
<1> HIDE DEF f, n
<1>5. rows \in Str(Str(Nat)) /\ Len(rows) = n
  BY <1>1, <1>2, StrOf
<1> HIDE DEF rows
<1>6. tail \in Str(Str(Nat)) /\ Len(tail) = 1 /\ tail[1] = EOFMessage
  BY ShortMessages, StrOne
<1> HIDE DEF tail, all
<1>7. all \in Str(Str(Nat)) /\ Len(all) = n + 1
  <2>1. Cat(rows, tail) \in Str(Str(Nat)) /\ Len(Cat(rows, tail)) = Len(rows) + Len(tail)
    BY <1>5, <1>6, CatType
  <2> QED BY <1>3, <1>5, <1>6, <2>1
<1>8. \A j \in 1 .. n : all[j] = f(j)
  <2>1. \A j \in 1 .. Len(rows) : Cat(rows, tail)[j] = rows[j]
    BY <1>5, <1>6, CatElements
  <2> QED BY <1>3, <1>4, <1>5, <2>1
<1>9. all[n + 1] = EOFMessage
  <2>1. \A j \in 1 .. Len(tail) : Cat(rows, tail)[Len(rows) + j] = tail[j]
    BY <1>5, <1>6, CatSecond
  <2> QED BY <1>3, <1>5, <1>6, <2>1
<1>10. ASSUME NEW j \in 1 .. n + 1 PROVE all[j] \in Str(Nat) /\ Len(all[j]) > 0 /\ all[j][1] # iERR
  <2>1. CASE j = n + 1
    BY <1>9, <2>1, ShortMessages
  <2>2. CASE j # n + 1
    <3>1. j \in 1 .. n
      BY <1>1, <2>2
    <3> QED BY <1>2, <1>8, <3>1
  <2> QED BY <2>1, <2>2
<1> QED BY <1>1, <1>7, <1>8, <1>9, <1>10 DEF all, n, f

-----------------------------------------------------------------------------
(* Bytes on their way.  A connection that has broken may have lost the end of
   what was to come, or carry a last error message behind it. *)
Farewell == Framed(ErrMessage, 0)

Arrives(stream, to, x) ==
    \E tail \in {<<>>, Farewell} : \E rest \in Str(Nat) :
        /\ Cat(stream, rest) = Cat(x, tail)
        /\ to = "up" => tail = <<>> /\ rest = <<>>

LEMMA FarewellType == Farewell \in Str(Nat)
<1>1. ErrMessage \in Str(Nat) /\ Len(ErrMessage) <= MaxPacket /\ 0 \in Nat
  BY ShortMessages, Sizes, StrLen
<1> DEFINE h == HeaderOf(ErrMessage, 0)
<1>2. Framed(ErrMessage, 0) = Cat(h, ErrMessage) /\ h \in Str(Nat)
  BY <1>1, FrameRead
<1> HIDE DEF h
<1> QED BY <1>1, <1>2, CatType DEF Farewell

LEMMA ArrivesUp ==
    ASSUME NEW s \in Str(Nat), NEW x \in Str(Nat)
    PROVE  Arrives(s, "up", x) <=> s = x
<1>1. Cat(s, <<>>) = s /\ Cat(x, <<>>) = x /\ <<>> \in Str(Nat)
  BY CatEmpty, StrEmpty
<1> QED BY <1>1 DEF Arrives

(* What is read first. *)
LEMMA ArrivesFirst ==
    ASSUME NEW s \in Str(Nat), NEW w \in Str(Nat), NEW to, NEW x \in Str(Nat), NEW y \in Str(Nat),
           Len(x) <= Len(s), Arrives(Cat(s, w), to, Cat(x, y))
    PROVE  Part(s, 0, Len(x)) = x /\ Arrives(Cat(From(s, Len(x)), w), to, y)
<1>1. PICK tail \in {<<>>, Farewell}, rest \in Str(Nat) :
        /\ Cat(Cat(s, w), rest) = Cat(Cat(x, y), tail)
        /\ to = "up" => tail = <<>> /\ rest = <<>>
  BY DEF Arrives
<1>2. tail \in Str(Nat)
  BY FarewellType, StrEmpty
<1> DEFINE n == Len(x)
           p == Part(s, 0, n)
           f == From(s, n)
<1>3. n \in 0 .. Len(s)
  BY StrLen
<1>4. p \in Str(Nat) /\ Len(p) = n /\ f \in Str(Nat) /\ s = Cat(p, f)
  BY <1>3, PartFrom
<1> HIDE DEF n, p, f
<1> DEFINE u == Cat(Cat(f, w), rest)
           v == Cat(y, tail)
<1>5. u \in Str(Nat) /\ v \in Str(Nat)
  <2>1. Cat(f, w) \in Str(Nat)
    BY <1>4, CatType
  <2> QED BY <1>2, <2>1, CatType
<1>6. Cat(Cat(s, w), rest) = Cat(p, u)
  <2>1. Cat(Cat(p, f), w) = Cat(p, Cat(f, w))
    BY <1>4, CatAssociative
  <2>2. Cat(f, w) \in Str(Nat)
    BY <1>4, CatType
  <2>3. Cat(Cat(p, Cat(f, w)), rest) = Cat(p, Cat(Cat(f, w), rest))
    BY <1>4, <2>2, CatAssociative
  <2> QED BY <1>4, <2>1, <2>3
<1>7. Cat(Cat(x, y), tail) = Cat(x, v)
  BY <1>2, CatAssociative
<1> HIDE DEF u, v
<1>8. Cat(p, u) = Cat(x, v)
  BY <1>1, <1>6, <1>7
<1>9. Part(Cat(p, u), 0, Len(p)) = p /\ From(Cat(p, u), Len(p)) = u
  BY <1>4, <1>5, CatParts
<1>10. Part(Cat(x, v), 0, Len(x)) = x /\ From(Cat(x, v), Len(x)) = v
  BY <1>5, CatParts
<1>11. p = x /\ u = v
  BY <1>4, <1>8, <1>9, <1>10 DEF n
<1>12. Arrives(Cat(f, w), to, y)
  BY <1>1, <1>11 DEF Arrives, u, v
<1> QED BY <1>11, <1>12 DEF p, f, n

(* The connection breaks: bytes are lost, ... *)
LEMMA ArrivesLess ==
    ASSUME NEW s \in Str(Nat), NEW w \in Str(Nat), NEW n \in 0 .. Len(w), NEW to, NEW x,
           Arrives(Cat(s, w), to, x)
    PROVE  Arrives(Cat(s, Part(w, 0, n)), "down", x)
<1>1. PICK tail \in {<<>>, Farewell}, rest \in Str(Nat) : Cat(Cat(s, w), rest) = Cat(x, tail)
  BY DEF Arrives
<1> DEFINE p == Part(w, 0, n)
           f == From(w, n)
<1>2. p \in Str(Nat) /\ f \in Str(Nat) /\ w = Cat(p, f)
  BY PartFrom
<1> HIDE DEF p, f
<1>3. Cat(s, p) \in Str(Nat) /\ Cat(f, rest) \in Str(Nat)
  BY <1>2, CatType
<1>4. Cat(s, Cat(p, f)) = Cat(Cat(s, p), f)
  BY <1>2, CatAssociative
<1>5. Cat(Cat(s, p), Cat(f, rest)) = Cat(Cat(Cat(s, p), f), rest)
  BY <1>2, <1>3, CatAssociative
<1>6. Cat(Cat(s, p), Cat(f, rest)) = Cat(x, tail)
  BY <1>1, <1>2, <1>4, <1>5
<1> QED BY <1>3, <1>6 DEF Arrives, p

(* ... or the server says goodbye. *)
LEMMA ArrivesMore ==
    ASSUME NEW s \in Str(Nat), NEW w \in Str(Nat), NEW x \in Str(Nat),
           Arrives(Cat(s, w), "up", x)
    PROVE  Arrives(Cat(s, Cat(w, Farewell)), "down", x)
<1>1. Cat(s, w) \in Str(Nat) /\ Farewell \in Str(Nat) /\ Cat(w, Farewell) \in Str(Nat)
  BY CatType, FarewellType
<1>2. Cat(s, w) = x
  BY <1>1, ArrivesUp
<1>3. Cat(s, Cat(w, Farewell)) = Cat(x, Farewell)
  BY <1>1, <1>2, CatAssociative
<1>4. Cat(s, Cat(w, Farewell)) \in Str(Nat)
  BY <1>1, CatType
<1>5. Cat(Cat(s, Cat(w, Farewell)), <<>>) = Cat(x, Farewell) /\ <<>> \in Str(Nat)
  BY <1>3, <1>4, CatEmpty, StrEmpty
<1> QED BY <1>5 DEF Arrives

LEMMA ArrivesAnyway ==
    ASSUME NEW s, NEW to, NEW x, Arrives(s, to, x)
    PROVE  Arrives(s, "down", x)
BY DEF Arrives

(* What was to come after nothing is the last error message. *)
LEMMA ArrivesLast ==
    ASSUME NEW s \in Str(Nat), Arrives(s, "down", <<>>)
    PROVE  Arrives(s, "down", Farewell)
<1>1. PICK tail \in {<<>>, Farewell}, rest \in Str(Nat) : Cat(s, rest) = Cat(<<>>, tail)
  BY DEF Arrives
<1>2. Farewell \in Str(Nat) /\ <<>> \in Str(Nat) /\ tail \in Str(Nat)
  BY FarewellType, StrEmpty
<1>3. Cat(Farewell, <<>>) = Farewell /\ Cat(<<>>, tail) = tail
  BY <1>2, CatEmpty
<1>4. CASE tail = Farewell
  BY <1>1, <1>3, <1>4 DEF Arrives
<1>5. CASE tail = <<>>
  <2>1. Len(Cat(s, rest)) = Len(s) + Len(rest) /\ Len(s) \in Nat /\ Len(rest) \in Nat
    BY CatType, StrLen
  <2>2. Len(Cat(s, rest)) = 0
    BY <1>1, <1>3, <1>5, StrEmpty
  <2>3. Len(s) = 0
    BY <2>1, <2>2
  <2>4. s = <<>>
    BY <2>3, StrEmpty
  <2>5. Cat(s, Farewell) = Farewell
    BY <1>2, <2>4, CatEmpty
  <2> QED BY <1>2, <1>3, <2>5 DEF Arrives
<1> QED BY <1>4, <1>5

-----------------------------------------------------------------------------
(* The packets of an answer: how many go before packet k of message j, and the
   bytes from there on if the first has number b. *)
Place(s, from, j, k) == Start(AnswerTo(s), from, j) + k - 1

Due(s, from, b, j, k) == Coming(AnswerTo(s), from, b, Place(s, from, j, k))

(* Packet k of message j is expected with a number that is one too small. *)
Behind(from, j, k) ==
    IF from # Never /\ (j > from[1] \/ (j = from[1] /\ k > from[2])) THEN 1 ELSE 0

(* Where an answer can be misnumbered from. *)
Points(s) ==
    {Never} \cup {<<j, k>> : j \in 1 .. Len(AnswerTo(s)), k \in Nat \ {0}}

Skews(s) == {p \in Points(s) : p # Never => p[2] <= PacketsOf(AnswerTo(s)[p[1]])}

LEMMA PointFacts ==
    ASSUME NEW s \in Statements, NEW from \in Skews(s)
    PROVE  /\ from[1] \in Nat /\ from[2] \in Nat /\ from = <<from[1], from[2]>>
           /\ \/ from = Never /\ from[1] = 0 /\ from[2] = 0
              \/ /\ from # Never /\ from[1] \in 1 .. Len(AnswerTo(s)) /\ from[2] > 0
                 /\ from[2] <= PacketsOf(AnswerTo(s)[from[1]])
<1>1. CASE from = Never
  BY <1>1 DEF Never
<1>2. CASE from # Never
  <2>1. PICK j \in 1 .. Len(AnswerTo(s)), k \in Nat \ {0} : from = <<j, k>>
    BY <1>2 DEF Skews, Points
  <2>2. from[1] = j /\ from[2] = k /\ from[2] <= PacketsOf(AnswerTo(s)[from[1]])
    BY <1>2, <2>1 DEF Skews
  <2>3. Len(AnswerTo(s)) \in Nat
    BY AnswerFacts, StrLen
  <2> QED BY <1>2, <2>1, <2>2, <2>3
<1> QED BY <1>1, <1>2

LEMMA NumberFacts ==
    ASSUME NEW s \in Statements, NEW from \in Skews(s),
           NEW j \in 1 .. Len(AnswerTo(s)), NEW k \in 1 .. PacketsOf(AnswerTo(s)[j])
    PROVE  /\ Off(from, j, k) \in {0, 1} /\ Behind(from, j, k) \in {0, 1}
           /\ from # <<j, k>> => Off(from, j, k) = Behind(from, j, k)
           /\ from = <<j, k>> => Off(from, j, k) = 1 /\ Behind(from, j, k) = 0
           /\ Behind(from, j, k + 1) = Off(from, j, k)
           /\ k = PacketsOf(AnswerTo(s)[j]) => Behind(from, j + 1, 1) = Off(from, j, k)
           /\ Behind(from, 1, 1) = 0
<1> DEFINE f == from[1]
           g == from[2]
           n == Len(AnswerTo(s))
           P == PacketsOf(AnswerTo(s)[j])
<1>1. f \in Nat /\ g \in Nat /\ from = <<f, g>>
  BY PointFacts
<1>2. \/ from = Never /\ f = 0 /\ g = 0
      \/ from # Never /\ f > 0 /\ g > 0 /\ (f = j => g <= P)
  BY PointFacts
<1>3. n \in Nat /\ P \in Nat /\ j \in Nat /\ k \in Nat /\ j > 0 /\ k > 0 /\ k <= P
  <2>1. AnswerTo(s)[j] \in Str(Nat) /\ n \in Nat
    BY AnswerFacts, StrLen
  <2>2. P \in Nat
    BY <2>1, PacketCount
  <2> QED BY <2>1, <2>2
<1>4. from = <<j, k>> <=> (f = j /\ g = k)
  BY <1>1
<1>5. /\ Off(from, j, k) = IF from # Never /\ (j > f \/ (j = f /\ k >= g)) THEN 1 ELSE 0
      /\ \A i, l : Behind(from, i, l) = IF from # Never /\ (i > f \/ (i = f /\ l > g)) THEN 1 ELSE 0
  BY DEF Off, Behind
<1> DEFINE N == from = Never
<1>6. /\ Off(from, j, k) = IF ~N /\ (j > f \/ (j = f /\ k >= g)) THEN 1 ELSE 0
      /\ Behind(from, j, k) = IF ~N /\ (j > f \/ (j = f /\ k > g)) THEN 1 ELSE 0
      /\ Behind(from, j, k + 1) = IF ~N /\ (j > f \/ (j = f /\ k + 1 > g)) THEN 1 ELSE 0
      /\ Behind(from, j + 1, 1) = IF ~N /\ (j + 1 > f \/ (j + 1 = f /\ 1 > g)) THEN 1 ELSE 0
      /\ Behind(from, 1, 1) = IF ~N /\ (1 > f \/ (1 = f /\ 1 > g)) THEN 1 ELSE 0
  BY <1>5
<1>7. (N /\ f = 0 /\ g = 0) \/ (~N /\ f > 0 /\ g > 0 /\ (f = j => g <= P))
  BY <1>2
<1> HIDE DEF N, f, g, P, n
<1>8. /\ Off(from, j, k) \in {0, 1} /\ Behind(from, j, k) \in {0, 1}
      /\ ~(f = j /\ g = k) => Off(from, j, k) = Behind(from, j, k)
      /\ (f = j /\ g = k) => Off(from, j, k) = 1 /\ Behind(from, j, k) = 0
      /\ Behind(from, j, k + 1) = Off(from, j, k)
      /\ k = P => Behind(from, j + 1, 1) = Off(from, j, k)
      /\ Behind(from, 1, 1) = 0
  BY <1>1, <1>3, <1>6, <1>7
<1> QED BY <1>4, <1>8 DEF P

LEMMA DueFacts ==
    ASSUME NEW s \in Statements, NEW from \in Skews(s), NEW b \in Nat
    PROVE  /\ Place(s, from, 1, 1) = 0 /\ Due(s, from, b, 1, 1) = Packed(AnswerTo(s), b, from)
           /\ Due(s, from, b, Len(AnswerTo(s)) + 1, 1) = <<>>
           /\ \A j \in 1 .. Len(AnswerTo(s)) : \A k \in 1 .. PacketsOf(AnswerTo(s)[j]) :
                 LET c == Chunk(AnswerTo(s)[j], k)
                     x == b + Place(s, from, j, k) + Off(from, j, k)
                 IN  /\ Place(s, from, j, k) \in Nat
                     /\ Place(s, from, j, k + 1) = Place(s, from, j, k) + 1
                     /\ Due(s, from, b, j, k + 1) \in Str(Nat)
                     /\ Due(s, from, b, j, k) = Cat(HeaderOf(c, x), Cat(c, Due(s, from, b, j, k + 1)))
                     /\ k = PacketsOf(AnswerTo(s)[j]) =>
                           /\ Place(s, from, j + 1, 1) = Place(s, from, j, k) + 1
                           /\ Due(s, from, b, j + 1, 1) = Due(s, from, b, j, k + 1)
<1> DEFINE A == AnswerTo(s)
           n == Len(A)
           T(j) == Start(A, from, j)
<1>1. A \in Str(Str(Nat)) /\ n \in Nat /\ n > 0 /\ \A j \in 1 .. n : A[j] \in Str(Nat)
  BY AnswerFacts, StrLen
<1>2. \A j, k : Place(s, from, j, k) = T(j) + k - 1
  BY DEF Place
<1>3. \A j, k : Due(s, from, b, j, k) = Coming(A, from, b, Place(s, from, j, k))
  BY DEF Due
<1> HIDE DEF A, n
<1>4. /\ T(1) = 0
      /\ \A j \in 1 .. Len(A) : T(j) \in Nat /\ T(j + 1) = T(j) + PacketsOf(A[j])
  BY <1>1, Starts
<1>5. /\ Packed(A, b, from) = Coming(A, from, b, 0)
      /\ Coming(A, from, b, T(Len(A) + 1)) = <<>>
      /\ \A j \in 1 .. Len(A) : \A k \in 1 .. PacketsOf(A[j]) :
           LET p == T(j) + k
           IN  /\ p \in Nat /\ p > 0
               /\ Coming(A, from, b, p) \in Str(Nat)
               /\ Coming(A, from, b, p - 1)
                    = Cat(Framed(Chunk(A[j], k), b + p - 1 + Off(from, j, k)), Coming(A, from, b, p))
  BY <1>1, ComingNext
<1> HIDE DEF T
<1>6. Place(s, from, 1, 1) = 0
  BY <1>2, <1>4
<1>7. Due(s, from, b, 1, 1) = Packed(A, b, from)
  BY <1>3, <1>5, <1>6
<1>8. Due(s, from, b, n + 1, 1) = <<>>
  <2>1. n \in 1 .. Len(A)
    BY <1>1 DEF n
  <2>2. T(n) \in Nat /\ T(n + 1) = T(n) + PacketsOf(A[n]) /\ PacketsOf(A[n]) \in Nat
    BY <1>1, <1>4, <2>1, PacketCount DEF n
  <2>3. T(n + 1) \in Nat
    BY <2>2
  <2>4. Place(s, from, n + 1, 1) = T(n + 1)
    BY <1>2, <2>3
  <2> QED BY <1>3, <1>5, <2>4 DEF n
<1>9. ASSUME NEW j \in 1 .. n, NEW k \in 1 .. PacketsOf(A[j])
      PROVE  LET c == Chunk(A[j], k)
                 x == b + Place(s, from, j, k) + Off(from, j, k)
             IN  /\ Place(s, from, j, k) \in Nat
                 /\ Place(s, from, j, k + 1) = Place(s, from, j, k) + 1
                 /\ Due(s, from, b, j, k + 1) \in Str(Nat)
                 /\ Due(s, from, b, j, k) = Cat(HeaderOf(c, x), Cat(c, Due(s, from, b, j, k + 1)))
                 /\ k = PacketsOf(A[j]) =>
                       /\ Place(s, from, j + 1, 1) = Place(s, from, j, k) + 1
                       /\ Due(s, from, b, j + 1, 1) = Due(s, from, b, j, k + 1)
  <2> DEFINE p == T(j) + k
             q == Place(s, from, j, k)
             c == Chunk(A[j], k)
             o == Off(from, j, k)
             x == b + q + o
             d == Due(s, from, b, j, k + 1)
  <2>0. j \in 1 .. Len(A) /\ A[j] \in Str(Nat)
    BY <1>1 DEF n
  <2>1. T(j) \in Nat /\ T(j + 1) = T(j) + PacketsOf(A[j]) /\ PacketsOf(A[j]) \in Nat
    BY <1>4, <2>0, PacketCount
  <2>2. k \in Nat /\ k > 0 /\ j \in Nat
    BY <1>1, <2>1
  <2>3. /\ q = p - 1 /\ q \in Nat /\ q + 1 = p /\ p \in Nat
        /\ Place(s, from, j, k + 1) = p
        /\ k = PacketsOf(A[j]) => Place(s, from, j + 1, 1) = p
    <3>1. q = T(j) + k - 1 /\ Place(s, from, j, k + 1) = T(j) + (k + 1) - 1
          /\ Place(s, from, j + 1, 1) = T(j + 1) + 1 - 1
      BY <1>2
    <3> HIDE DEF q
    <3> QED BY <2>1, <2>2, <3>1
  <2>4. /\ Coming(A, from, b, p) \in Str(Nat)
        /\ Coming(A, from, b, p - 1) = Cat(Framed(c, b + p - 1 + o), Coming(A, from, b, p))
    BY <1>5, <2>0
  <2>5. o \in {0, 1}
    BY DEF Off
  <2>6. d = Coming(A, from, b, p) /\ Due(s, from, b, j, k) = Coming(A, from, b, p - 1)
    BY <1>3, <2>3
  <2>7. c \in Str(Nat) /\ Len(c) <= MaxPacket
    BY <2>0, ChunkFacts
  <2> HIDE DEF p, q, c, o, d
  <2>8. x = b + p - 1 + o /\ x \in Nat
    BY <2>3, <2>5
  <2> HIDE DEF x
  <2>9. Framed(c, x) = Cat(HeaderOf(c, x), c) /\ HeaderOf(c, x) \in Str(Nat)
    BY <2>7, <2>8, FrameRead
  <2>10. d \in Str(Nat) /\ Due(s, from, b, j, k) = Cat(Cat(HeaderOf(c, x), c), d)
    BY <2>4, <2>6, <2>8, <2>9
  <2>11. Due(s, from, b, j, k) = Cat(HeaderOf(c, x), Cat(c, d))
    BY <2>7, <2>9, <2>10, CatAssociative
  <2>12. k = PacketsOf(A[j]) => Due(s, from, b, j + 1, 1) = d
    BY <1>3, <2>3, <2>6
  <2> QED BY <2>3, <2>10, <2>11, <2>12 DEF p, q, c, o, x, d
<1> QED BY <1>6, <1>7, <1>8, <1>9 DEF A, n

-----------------------------------------------------------------------------
(* Messages on their way to the server: those that have arrived, the part of
   one that has, and what has not been written. *)
Pending(done, part, q) == Cat(done, Cat(<<Cat(part, Head(q))>>, Tail(q)))

LEMMA HeadTail ==
    ASSUME NEW S, NEW q \in Str(S), q # <<>>
    PROVE  Head(q) \in S /\ Tail(q) \in Str(S) /\ q = Cat(<<Head(q)>>, Tail(q))
<1>1. Len(q) \in Nat /\ Len(q) # 0
  BY StrEmpty, StrLen
<1>2. 0 \in Nat /\ 0 < Len(q)
  BY <1>1
<1>3. From(q, 0) = Cat(<<q[0 + 1]>>, From(q, 0 + 1)) /\ From(q, 0) = q
  BY <1>2, FromNext, FromAll
<1>4. Tail(q) = SubSeq(q, 2, Len(q)) /\ Tail(q) \in Seq(S) /\ Head(q) \in S
  BY TailIsSubSeq, HeadTailProperties DEF Str
<1>5. Tail(q) = From(q, 1)
  BY <1>4 DEF From
<1>6. Head(q) = q[1]
  BY DEF Str
<1>7. 0 + 1 = 1
  OBVIOUS
<1>8. q = Cat(<<q[1]>>, From(q, 1))
  BY <1>3, <1>7, Zenon
<1>9. q = Cat(<<Head(q)>>, Tail(q))
  BY <1>5, <1>6, <1>8, Zenon
<1> QED BY <1>4, <1>9 DEF Str

LEMMA TailOf ==
    ASSUME NEW S, NEW x \in S, NEW t \in Str(S)
    PROVE  LET q == Cat(<<x>>, t)
           IN  q \in Str(S) /\ q # <<>> /\ Head(q) = x /\ Tail(q) = t
<1> DEFINE o == <<x>>
           q == Cat(o, t)
<1>1. o \in Str(S) /\ Len(o) = 1 /\ o[1] = x
  BY StrOne
<1> HIDE DEF o
<1>2. q \in Str(S) /\ Len(q) = 1 + Len(t) /\ Len(t) \in Nat
  BY <1>1, CatType, StrLen
<1>3. q[1] = x
  <2>1. \A i \in 1 .. Len(o) : Cat(o, t)[i] = o[i]
    BY <1>1, CatElements
  <2> QED BY <1>1, <2>1
<1>4. From(q, 1) = t
  <2>1. From(Cat(o, t), Len(o)) = t
    BY <1>1, CatParts
  <2> QED BY <1>1, <2>1
<1> HIDE DEF q
<1>5. Len(q) # 0
  BY <1>2
<1>6. q # <<>>
  BY <1>2, <1>5, StrEmpty
<1>7. Tail(q) = SubSeq(q, 2, Len(q))
  BY <1>2, <1>6, TailIsSubSeq DEF Str
<1>8. Tail(q) = t
  BY <1>4, <1>7 DEF From
<1>9. Head(q) = x
  BY <1>2, <1>3 DEF Str
<1> QED BY <1>2, <1>6, <1>8, <1>9 DEF q, o

LEMMA PendingFacts ==
    ASSUME NEW done \in Str(Str(Nat)), NEW part \in Str(Nat), NEW q \in Str(Str(Nat)), q # <<>>
    PROVE  LET m     == Head(q)
               whole == Cat(part, m)
           IN  /\ m \in Str(Nat) /\ Tail(q) \in Str(Str(Nat))
               /\ Cat(done, <<whole>>) \in Str(Str(Nat))
               /\ Tail(q) = <<>> => Cat(done, <<whole>>) = Pending(done, part, q)
               /\ Tail(q) # <<>> => Pending(Cat(done, <<whole>>), <<>>, Tail(q)) = Pending(done, part, q)
               /\ Pending(<<>>, <<>>, q) = q
               /\ done # <<>> =>
                     /\ Len(done) \in 1 .. Len(Pending(done, part, q)) - 1
                     /\ Pending(done, part, q)[Len(done)] = done[Len(done)]
<1> DEFINE m == Head(q)
           t == Tail(q)
           whole == Cat(part, m)
           e == <<>>
           all == Cat(done, Cat(<<whole>>, t))
<1>1. m \in Str(Nat) /\ t \in Str(Str(Nat)) /\ q = Cat(<<m>>, t)
  BY HeadTail
<1>0. Pending(done, part, q) = all
  BY DEF Pending
<1> HIDE DEF m, t
<1>2. whole \in Str(Nat)
  BY <1>1, CatType
<1> HIDE DEF whole
<1>3. <<whole>> \in Str(Str(Nat)) /\ Len(<<whole>>) = 1
  BY <1>2, StrOne
<1>5. Cat(done, <<whole>>) \in Str(Str(Nat))
  BY <1>3, CatType
<1>6. all = Cat(Cat(done, <<whole>>), t)
  BY <1>1, <1>3, CatAssociative
<1>7. t = <<>> => Cat(done, <<whole>>) = all
  BY <1>5, <1>6, CatEmpty
<1>8. t # <<>> => Pending(Cat(done, <<whole>>), <<>>, t) = all
  <2>1. SUFFICES ASSUME t # <<>> PROVE Pending(Cat(done, <<whole>>), <<>>, t) = all
    OBVIOUS
  <2>2. Head(t) \in Str(Nat) /\ t = Cat(<<Head(t)>>, Tail(t))
    BY <1>1, <2>1, HeadTail
  <2>3. Cat(<<>>, Head(t)) = Head(t)
    BY <2>2, CatEmpty
  <2>4. Pending(Cat(done, <<whole>>), <<>>, t) = Cat(Cat(done, <<whole>>), t)
    BY <2>2, <2>3 DEF Pending
  <2> QED BY <1>6, <2>4
<1>9. Pending(<<>>, <<>>, q) = q
  <2>1. Cat(<<>>, m) = m /\ Cat(<<>>, q) = q
    BY <1>1, CatEmpty
  <2> QED BY <1>1, <2>1 DEF Pending, m, t
<1>11. ASSUME done # <<>>
       PROVE  Len(done) \in 1 .. Len(all) - 1 /\ all[Len(done)] = done[Len(done)]
  <2> DEFINE u == Cat(<<whole>>, t)
  <2>1. u \in Str(Str(Nat)) /\ Len(u) = 1 + Len(t) /\ Len(t) \in Nat
    BY <1>1, <1>3, CatType, StrLen
  <2> HIDE DEF u
  <2>2. Len(Cat(done, u)) = Len(done) + Len(u) /\ Len(done) \in Nat
    BY <2>1, CatType, StrLen
  <2>3. Len(done) # 0
    BY <1>11, StrEmpty
  <2>4. \A i \in 1 .. Len(done) : Cat(done, u)[i] = done[i]
    BY <2>1, CatElements
  <2> QED BY <2>1, <2>2, <2>3, <2>4 DEF u
<1> QED BY <1>0, <1>1, <1>5, <1>7, <1>8, <1>9, <1>11 DEF m, t, whole

(* Some bytes of a message are written. *)
LEMMA PendingRest ==
    ASSUME NEW done \in Str(Str(Nat)), NEW part \in Str(Nat), NEW q \in Str(Str(Nat)), q # <<>>,
           NEW n \in 0 .. Len(Head(q))
    PROVE  LET r == Cat(<<From(Head(q), n)>>, Tail(q))
               p == Cat(part, Part(Head(q), 0, n))
           IN  /\ p \in Str(Nat) /\ r \in Str(Str(Nat)) /\ r # <<>>
               /\ Pending(done, p, r) = Pending(done, part, q)
<1> DEFINE m == Head(q)
           t == Tail(q)
           f == From(m, n)
           g == Part(m, 0, n)
           r == Cat(<<f>>, t)
           p == Cat(part, g)
<1>1. m \in Str(Nat) /\ t \in Str(Str(Nat)) /\ n \in 0 .. Len(m)
  BY HeadTail
<1> HIDE DEF m, t
<1>2. f \in Str(Nat) /\ g \in Str(Nat) /\ m = Cat(g, f)
  BY <1>1, PartFrom
<1> HIDE DEF f, g
<1>3. p \in Str(Nat) /\ Cat(p, f) = Cat(part, m)
  <2>1. Cat(part, Cat(g, f)) = Cat(Cat(part, g), f)
    BY <1>2, CatAssociative
  <2> QED BY <1>2, <2>1, CatType
<1>4. r \in Str(Str(Nat)) /\ r # <<>> /\ Head(r) = f /\ Tail(r) = t
  BY <1>1, <1>2, TailOf
<1> HIDE DEF r, p
<1>5. Pending(done, p, r) = Pending(done, part, q)
  BY <1>3, <1>4 DEF Pending, m, t
<1> QED BY <1>3, <1>4, <1>5 DEF r, p, f, g, m, t

-----------------------------------------------------------------------------
(* The buffer. *)
BytesOf(cached, big, s) ==
    IF s.arr = "own" THEN s.own
    ELSE Part(IF s.arr = "cached" THEN cached ELSE big, s.off, s.off + s.len)

GoodBuffer(cached, big, s) ==
    /\ cached \in Str(Nat) /\ big \in Str(Nat)
    /\ s = SliceOf(s.arr, s.off, s.len)
    /\ s.arr \in {"cached", "big"} /\ s.off \in Nat /\ s.len \in Nat
    /\ s.off + s.len <= Len(IF s.arr = "cached" THEN cached ELSE big)

LEMMA SliceFacts ==
    ASSUME NEW m \in Str(Nat), NEW off \in Nat, NEW len \in Nat, off + len <= Len(m), NEW n \in 0 .. len
    PROVE  LET b == Part(m, off, off + len)
           IN  /\ b \in Str(Nat) /\ Len(b) = len
               /\ Part(m, off, off + n) = Part(b, 0, n)
               /\ Part(m, off + n, (off + n) + (len - n)) = From(b, n)
<1> DEFINE b == Part(m, off, off + len)
           p == Part(m, off, off + n)
           f == Part(m, off + n, off + len)
           u == Part(b, 0, n)
           v == From(b, n)
<1>1. /\ Len(m) \in Nat /\ off + n \in Nat /\ off + n <= Len(m)
      /\ (off + n) + (len - n) = off + len /\ n \in Nat /\ len - n \in Nat
      /\ n + (len - n) = len /\ 0 + n = n /\ n <= len
  BY StrLen
<1>2. b \in Str(Nat) /\ Len(b) = len /\ \A k \in 1 .. len : b[k] = m[off + k]
  <2>1. PICK x : x = off + len
    OBVIOUS
  <2>2. /\ Part(m, off, x) \in Str(Nat) /\ Len(Part(m, off, x)) = len
        /\ \A k \in 1 .. len : Part(m, off, x)[k] = m[off + k]
    BY <2>1, SMTT(30) DEF Part, Str
  <2> QED BY <2>1, <2>2
<1>3. p \in Str(Nat) /\ Len(p) = n /\ \A k \in 1 .. n : p[k] = m[off + k]
  <2>1. PICK x : x = off + n
    OBVIOUS
  <2>2. /\ Part(m, off, x) \in Str(Nat) /\ Len(Part(m, off, x)) = n
        /\ \A k \in 1 .. n : Part(m, off, x)[k] = m[off + k]
    <3>1. n \in Nat /\ x \in Nat /\ x = off + n /\ x <= Len(m)
      BY <1>1, <2>1
    <3>2. Part(m, off, x) \in Str(Nat)
      BY <3>1, SMTT(30) DEF Part, Str
    <3>3. Len(Part(m, off, x)) = n
      BY <3>1, SMTT(30) DEF Part, Str
    <3>4. \A k \in 1 .. n : Part(m, off, x)[k] = m[off + k]
      BY <3>1, SMTT(30) DEF Part, Str
    <3> QED BY <3>2, <3>3, <3>4
  <2> QED BY <2>1, <2>2
<1>4. f \in Str(Nat) /\ Len(f) = len - n /\ \A k \in 1 .. len - n : f[k] = m[(off + n) + k]
  <2>1. PICK o, l, x : o = off + n /\ l = len - n /\ x = off + len
    OBVIOUS
  <2>2. o \in Nat /\ l \in Nat /\ x = o + l /\ x <= Len(m)
    BY <1>1, <2>1
  <2>3. /\ Part(m, o, x) \in Str(Nat) /\ Len(Part(m, o, x)) = l
        /\ \A k \in 1 .. l : Part(m, o, x)[k] = m[o + k]
    BY <2>2, SMTT(30) DEF Part, Str
  <2> QED BY <2>1, <2>3
<1> HIDE DEF b, p, f
<1>6. u \in Str(Nat) /\ Len(u) = n /\ \A k \in 1 .. n : u[k] = b[0 + k]
  <2>1. b \in Str(Nat) /\ 0 \in Nat /\ n \in Nat /\ n = 0 + n /\ n <= Len(b)
    BY <1>1, <1>2
  <2> QED BY <2>1, SMTT(30) DEF Part, Str
<1>7. v \in Str(Nat) /\ Len(v) = len - n /\ \A k \in 1 .. len - n : v[k] = b[n + k]
  <2>1. v = Part(b, n, Len(b))
    <3>1. n \in 0 .. Len(b)
      BY <1>1, <1>2
    <3> QED BY <1>2, <3>1, FromPart
  <2>2. PICK l, x : l = len - n /\ x = Len(b)
    OBVIOUS
  <2>3. b \in Str(Nat) /\ n \in Nat /\ l \in Nat /\ x = n + l /\ x <= Len(b)
    BY <1>1, <1>2, <2>2
  <2>4. /\ Part(b, n, x) \in Str(Nat) /\ Len(Part(b, n, x)) = l
        /\ \A k \in 1 .. l : Part(b, n, x)[k] = b[n + k]
    BY <2>3, SMTT(30) DEF Part, Str
  <2> HIDE DEF v
  <2> QED BY <2>1, <2>2, <2>4
<1> HIDE DEF u, v
<1>8. p = u
  <2>1. ASSUME NEW k \in 1 .. n PROVE p[k] = u[k]
    <3>1. k \in 1 .. len /\ 0 + k = k
      BY <1>1
    <3> QED BY <1>2, <1>3, <1>6, <3>1
  <2>2. Len(p) = Len(u) /\ \A k \in 1 .. Len(p) : p[k] = u[k]
    BY <1>3, <1>6, <2>1
  <2> QED BY <1>3, <1>6, <2>2, StrEqual
<1>9. f = v
  <2>1. Len(f) = Len(v)
    BY <1>1, <1>2, <1>4, <1>7
  <2>2. ASSUME NEW k \in 1 .. Len(f) PROVE f[k] = v[k]
    <3>1. k \in 1 .. len - n /\ k \in 1 .. Len(b) - n /\ n + k \in 1 .. len /\ (off + n) + k = off + (n + k)
      BY <1>1, <1>2, <1>4, <2>2
    <3> QED BY <1>2, <1>4, <1>7, <3>1
  <2> QED BY <1>4, <1>7, <2>1, <2>2, StrEqual
<1> QED BY <1>1, <1>2, <1>8, <1>9 DEF b, p, f, u, v

LEMMA BufferFacts ==
    ASSUME NEW c, NEW g, NEW s, GoodBuffer(c, g, s)
    PROVE  /\ BytesOf(c, g, s) \in Str(Nat) /\ Len(BytesOf(c, g, s)) = s.len
           /\ \A n \in 0 .. s.len :
                 /\ BytesOf(c, g, SliceOf(s.arr, s.off, n)) = Part(BytesOf(c, g, s), 0, n)
                 /\ BytesOf(c, g, SliceOf(s.arr, s.off + n, s.len - n)) = From(BytesOf(c, g, s), n)
                 /\ GoodBuffer(c, g, SliceOf(s.arr, s.off + n, s.len - n))
<1> DEFINE m == IF s.arr = "cached" THEN c ELSE g
           off == s.off
           len == s.len
<1>1. m \in Str(Nat) /\ off \in Nat /\ len \in Nat /\ off + len <= Len(m) /\ Len(m) \in Nat
      /\ c \in Str(Nat) /\ g \in Str(Nat)
  BY StrLen DEF GoodBuffer
<1>2. s.arr # "own" /\ s.arr \in {"cached", "big"}
  BY DEF GoodBuffer
<1>3. BytesOf(c, g, s) = Part(m, off, off + len)
  BY <1>2 DEF BytesOf
<1>4. \A o, l : BytesOf(c, g, SliceOf(s.arr, o, l)) = Part(m, o, o + l)
  BY <1>2 DEF BytesOf, SliceOf
<1>5. \A o, l : o \in Nat /\ l \in Nat /\ o + l <= Len(m) => GoodBuffer(c, g, SliceOf(s.arr, o, l))
  BY <1>1, <1>2 DEF GoodBuffer, SliceOf
<1> HIDE DEF m, off, len
<1>6. 0 \in 0 .. len
  BY <1>1
<1>7. ASSUME NEW n \in 0 .. len
      PROVE  LET b == Part(m, off, off + len)
             IN  /\ Part(m, off, off + n) = Part(b, 0, n)
                 /\ Part(m, off + n, (off + n) + (len - n)) = From(b, n)
  <2>1. m \in Str(Nat) /\ off \in Nat /\ len \in Nat /\ off + len <= Len(m)
    BY <1>1
  <2> QED BY <2>1, SliceFacts
<1>8. Part(m, off, off + len) \in Str(Nat) /\ Len(Part(m, off, off + len)) = len
  BY <1>1, <1>6, SliceFacts
<1>9. ASSUME NEW n \in 0 .. len PROVE off + n \in Nat /\ len - n \in Nat /\ (off + n) + (len - n) <= Len(m)
  BY <1>1
<1>10. ASSUME NEW n \in 0 .. len
       PROVE  /\ BytesOf(c, g, SliceOf(s.arr, off, n)) = Part(BytesOf(c, g, s), 0, n)
              /\ BytesOf(c, g, SliceOf(s.arr, off + n, len - n)) = From(BytesOf(c, g, s), n)
  BY <1>3, <1>4, <1>7
<1> QED BY <1>3, <1>5, <1>8, <1>9, <1>10 DEF off, len

-----------------------------------------------------------------------------
(* The inductive invariant.  What the client has read and not consumed and what
   is on the wire are one stream; in every state of the client it is what the
   client still has to read. *)
Stream == Cat(BytesOf(cachedBuf, bigBuf, buf), wire)

Arriving(x) == Arrives(Stream, link, x)

All == AnswerTo(statement)
This == Len(got) + 1

Typed ==
    /\ statement \in Statements
    /\ GoodBuffer(cachedBuf, bigBuf, buf) /\ wire \in Str(Nat)
    /\ queue \in Str(Str(Nat)) /\ sequence \in Nat /\ pktLen \in Nat
    /\ toServer \in [done : Str(Str(Nat)), part : Str(Nat), seq : Nat]
    /\ link \in {"up", "down"} /\ skew \in Skews(statement)
    /\ Len(got) \in 0 .. Len(statement.rows) /\ got = Part(statement.rows, 0, Len(got))
    /\ fault \in BOOLEAN /\ invalidSequence \in BOOLEAN

History ==
    /\ bound = <<>> \/ bound = statement.args
    /\ skew # Never /\ Len(got) >= skew[1] =>
          Len(All[skew[1]]) % MaxPacket = 0 /\ skew[2] = 1
    /\ link = "down" => fault
    /\ skew # Never => fault
    /\ invalidSequence => fault

(* Nothing is left of the last command. *)
Calm == link = "up" => toServer = Nothing

(* Nothing of an answer has been read. *)
Unread == prevData = Nil /\ ~invalidSequence /\ got = <<>> /\ skew = Never

Idle == Arriving(<<>>) /\ Calm

Writing ==
    /\ Arriving(<<>>) /\ queue # <<>> /\ got = <<>> /\ skew = Never
    /\ link = "up" =>
          Pending(toServer.done, toServer.part, queue) = Messages(statement.args)

(* The command has been written and not been answered. *)
Waiting ==
    /\ Arriving(<<>>) /\ Unread
    /\ link = "up" => /\ toServer.done = Messages(statement.args) /\ toServer.part = <<>>
                      /\ sequence = Successor(toServer.seq)

(* The server reports an error. *)
Refusal ==
    /\ Calm /\ Unread
    /\ \E x \in Nat : Arriving(Framed(ErrMessage, x)) /\ (fault \/ x % Radix = sequence)

(* Before packet k of the message of row This, in an answer from number b on. *)
AtHeader(b, k) ==
    /\ Arriving(Due(statement, skew, b, This, k))
    /\ sequence = (b + Place(statement, skew, This, k) + Behind(skew, This, k)) % Radix
    /\ prevData = Own(Sent(All[This], k))
    /\ invalidSequence <=> skew = <<This, 1>> /\ k > 1
    /\ skew[1] = This /\ skew[2] > 1 => skew[2] >= k

(* After the header of the packet; the packet is not empty. *)
AtBody(b, k) ==
    /\ Arriving(Cat(Chunk(All[This], k), Due(statement, skew, b, This, k + 1)))
    /\ pktLen = Len(Chunk(All[This], k)) /\ pktLen > 0
    /\ sequence = (b + Place(statement, skew, This, k) + 1 + Off(skew, This, k)) % Radix
    /\ prevData = Own(Sent(All[This], k))
    /\ invalidSequence <=> skew = <<This, 1>>
    /\ skew[1] = This /\ skew[2] > 1 => skew[2] > k

ErrorBody ==
    /\ Arriving(ErrMessage) /\ pktLen = Len(ErrMessage)
    /\ prevData = Nil /\ got = <<>> /\ skew = Never

(* The whole message has been read. *)
Read == BytesOf(cachedBuf, bigBuf, packet)

AtRow(b) ==
    /\ Read = All[This]
    /\ Arriving(Due(statement, skew, b, This + 1, 1))
    /\ sequence = (b + Place(statement, skew, This + 1, 1) + Behind(skew, This + 1, 1)) % Radix
    /\ skew[1] = This => skew[2] = 1 /\ Len(All[This]) % MaxPacket = 0
    /\ This = Len(All) => ~invalidSequence

ErrorRow ==
    /\ Read = ErrMessage /\ Arriving(<<>>) /\ got = <<>> /\ skew = Never
    /\ invalidSequence => link = "down"

PacketsOfThis == 1 .. PacketsOf(All[This])

Control ==
    \/ pc = "idle" /\ Idle
    \/ pc = "write" /\ Writing
    \/ pc = "header" /\ Waiting
    \/ pc = "header" /\ Refusal
    \/ pc = "header" /\ Calm /\ \E b \in Nat : \E k \in PacketsOfThis : AtHeader(b, k)
    \/ pc = "body" /\ Calm /\ ErrorBody
    \/ pc = "body" /\ Calm /\ \E b \in Nat : \E k \in PacketsOfThis : AtBody(b, k)
    \/ pc = "row" /\ Calm /\ ErrorRow
    \/ pc = "row" /\ Calm /\ \E b \in Nat : AtRow(b)
    \/ pc = "closed" /\ fault /\ link = "down"

Inv == Typed /\ History /\ Control

LEMMA Links ==
    /\ Answer = AnswerTo(statement)
    /\ \A data : Decoded(data) = RowOf(statement, data)
    /\ \A s : Bytes(s) = BytesOf(cachedBuf, bigBuf, s)
    /\ \A i : LongReceived(i) = Heard(i, toServer.done)
<1>1. Answer = AnswerTo(statement)
  BY DEF Answer, AnswerTo, RowBytes
<1>2. \A data : Decoded(data) = RowOf(statement, data)
  BY DEF Decoded, RowOf
<1>3. \A s : Bytes(s) = BytesOf(cachedBuf, bigBuf, s)
  BY DEF Bytes, BytesOf, Memory
<1>4. \A i : LongReceived(i) = Heard(i, toServer.done)
  BY DEF LongReceived, Heard, Payload
<1> QED BY <1>1, <1>2, <1>3, <1>4

LEMMA StreamFacts ==
    ASSUME Typed
    PROVE  /\ BytesOf(cachedBuf, bigBuf, buf) \in Str(Nat)
           /\ Len(BytesOf(cachedBuf, bigBuf, buf)) = buf.len /\ buf.len \in Nat
           /\ Stream \in Str(Nat) /\ Len(Stream) = buf.len + Len(wire) /\ Len(wire) \in Nat
           /\ link = "up" => \A x \in Str(Nat) : Arriving(x) <=> Stream = x
<1> DEFINE b == BytesOf(cachedBuf, bigBuf, buf)
<1>1. b \in Str(Nat) /\ Len(b) = buf.len /\ wire \in Str(Nat)
  BY BufferFacts DEF Typed
<1>2. Len(b) \in Nat /\ Len(wire) \in Nat
  BY <1>1, StrLen
<1> HIDE DEF b
<1>3. Cat(b, wire) \in Str(Nat) /\ Len(Cat(b, wire)) = Len(b) + Len(wire)
  BY <1>1, CatType
<1>4. Stream = Cat(b, wire)
  BY DEF Stream, b
<1>5. \A x \in Str(Nat) : Arrives(Stream, "up", x) <=> Stream = x
  BY <1>3, <1>4, ArrivesUp
<1> QED BY <1>1, <1>2, <1>3, <1>4, <1>5 DEF b, Arriving

LEMMA Now ==
    ASSUME Typed
    PROVE  /\ All \in Str(Str(Nat)) /\ Len(All) \in Nat /\ Len(All) = Len(statement.rows) + 1
           /\ Len(got) \in Nat /\ This \in 1 .. Len(All) /\ All[This] \in Str(Nat) /\ Len(All[This]) > 0
           /\ PacketsOf(All[This]) \in Nat /\ PacketsOf(All[This]) > 0 /\ PacketsOfThis \subseteq Nat
           /\ got = <<>> => This = 1
<1>1. statement \in Statements /\ Len(got) \in 0 .. Len(statement.rows)
  BY DEF Typed
<1> DEFINE n == Len(statement.rows)
<1>2. /\ n \in Nat /\ All \in Str(Str(Nat)) /\ Len(All) = n + 1
      /\ \A j \in 1 .. n + 1 : All[j] \in Str(Nat) /\ Len(All[j]) > 0 /\ All[j][1] # iERR
  BY <1>1, AnswerFacts DEF All
<1>3. This \in 1 .. n + 1 /\ Len(got) \in Nat
  BY <1>1, <1>2 DEF This
<1> HIDE DEF n
<1>4. All[This] \in Str(Nat) /\ Len(All[This]) > 0
  BY <1>2, <1>3
<1>5. PacketsOf(All[This]) \in Nat /\ PacketsOf(All[This]) > 0
  BY <1>4, PacketCount
<1>6. got = <<>> => This = 1
  BY DEF This
<1>7. PacketsOfThis \subseteq Nat
  BY <1>5 DEF PacketsOfThis
<1> QED BY <1>2, <1>3, <1>4, <1>5, <1>6, <1>7 DEF n

-----------------------------------------------------------------------------
(* The error message, and the packet in hand, as they come. *)
LEMMA ErrorFacts ==
    ASSUME NEW x \in Nat
    PROVE  LET h == HeaderOf(ErrMessage, x)
           IN  /\ h \in Str(Nat) /\ Len(h) = Header /\ h[Header] = x % Radix
               /\ Number(Part(h, 0, LenBytes)) = Len(ErrMessage)
               /\ Framed(ErrMessage, x) = Cat(h, ErrMessage) /\ Framed(ErrMessage, x) \in Str(Nat)
<1>1. ErrMessage \in Str(Nat) /\ Len(ErrMessage) <= MaxPacket
  BY ShortMessages, Sizes, StrLen
<1> DEFINE h == HeaderOf(ErrMessage, x)
<1>2. /\ Framed(ErrMessage, x) = Cat(h, ErrMessage)
      /\ h \in Str(Nat) /\ Len(h) = Header /\ h[Header] = x % Radix
      /\ Number(Part(h, 0, LenBytes)) = Len(ErrMessage)
  BY <1>1, FrameRead
<1> HIDE DEF h
<1>3. Cat(h, ErrMessage) \in Str(Nat)
  BY <1>1, <1>2, CatType
<1> QED BY <1>2, <1>3 DEF h

LEMMA PacketFacts ==
    ASSUME Typed, NEW b \in Nat, NEW k \in PacketsOfThis
    PROVE  LET m == All[This]
               c == Chunk(m, k)
               q == Place(statement, skew, This, k)
               x == b + q + Off(skew, This, k)
               d == Due(statement, skew, b, This, k + 1)
               h == HeaderOf(c, x)
           IN  /\ c \in Str(Nat) /\ Len(c) \in Nat /\ Len(c) <= MaxPacket
               /\ Len(c) = IF k < PacketsOf(m) THEN MaxPacket ELSE Len(m) % MaxPacket
               /\ d \in Str(Nat) /\ Cat(c, d) \in Str(Nat) /\ q \in Nat /\ x \in Nat
               /\ h \in Str(Nat) /\ Len(h) = Header /\ h[Header] = x % Radix
               /\ Number(Part(h, 0, LenBytes)) = Len(c)
               /\ Due(statement, skew, b, This, k) = Cat(h, Cat(c, d))
               /\ Due(statement, skew, b, This, k) \in Str(Nat)
               /\ k \in Nat /\ k > 0
<1> DEFINE m == All[This]
           c == Chunk(m, k)
           q == Place(statement, skew, This, k)
           o == Off(skew, This, k)
           x == b + q + o
           d == Due(statement, skew, b, This, k + 1)
           h == HeaderOf(c, x)
<1>1. /\ statement \in Statements /\ skew \in Skews(statement)
      /\ This \in 1 .. Len(AnswerTo(statement)) /\ All = AnswerTo(statement)
      /\ m \in Str(Nat) /\ k \in 1 .. PacketsOf(m) /\ PacketsOf(m) \in Nat
      /\ k \in 1 .. PacketsOf(AnswerTo(statement)[This])
  BY Now DEF Typed, All, PacketsOfThis
<1>2. /\ c \in Str(Nat) /\ Len(c) <= MaxPacket
      /\ Len(c) = IF k < PacketsOf(m) THEN MaxPacket ELSE Len(m) % MaxPacket
  BY <1>1, ChunkFacts
<1>3. Len(c) \in Nat
  BY <1>2, StrLen
<1>4. /\ q \in Nat /\ d \in Str(Nat)
      /\ Due(statement, skew, b, This, k) = Cat(h, Cat(c, d))
  BY <1>1, DueFacts
<1>5. o \in {0, 1}
  BY DEF Off
<1> HIDE DEF q, o
<1>6. x \in Nat
  BY <1>4, <1>5
<1> HIDE DEF c, d, x
<1>7. /\ h \in Str(Nat) /\ Len(h) = Header /\ h[Header] = x % Radix
      /\ Number(Part(h, 0, LenBytes)) = Len(c)
  BY <1>2, <1>6, FrameRead
<1> HIDE DEF h
<1>8. Cat(c, d) \in Str(Nat)
  BY <1>2, <1>4, CatType
<1>9. Cat(h, Cat(c, d)) \in Str(Nat)
  BY <1>7, <1>8, CatType
<1>10. k \in Nat /\ k > 0
  BY <1>1
<1> HIDE DEF m
<1> QED BY <1>2, <1>3, <1>4, <1>6, <1>7, <1>8, <1>9, <1>10 DEF m, c, d, q, o, x, h

(* What follows the last message of an answer, or comes before the next. *)
LEMMA NextFacts ==
    ASSUME Typed, NEW b \in Nat
    PROVE  /\ Due(statement, skew, b, This + 1, 1) \in Str(Nat)
           /\ This = Len(All) => Due(statement, skew, b, This + 1, 1) = <<>>
<1> DEFINE k == PacketsOf(All[This])
<1>1. /\ statement \in Statements /\ skew \in Skews(statement) /\ All = AnswerTo(statement)
      /\ This \in 1 .. Len(AnswerTo(statement)) /\ k \in Nat /\ k > 0
  BY Now DEF Typed, All
<1>2. k \in 1 .. PacketsOf(AnswerTo(statement)[This])
  BY <1>1
<1>3. /\ Due(statement, skew, b, This, k + 1) \in Str(Nat)
      /\ Due(statement, skew, b, This + 1, 1) = Due(statement, skew, b, This, k + 1)
  BY <1>1, <1>2, DueFacts
<1>4. Due(statement, skew, b, Len(AnswerTo(statement)) + 1, 1) = <<>>
  BY <1>1, DueFacts
<1> QED BY <1>1, <1>3, <1>4

-----------------------------------------------------------------------------
(* Steps that several actions have in common. *)

(* The first bytes of the stream are read, and consumed. *)
LEMMA Reading ==
    ASSUME Typed, NEW x \in Str(Nat), NEW y \in Str(Nat), Arriving(Cat(x, y)), Len(x) <= buf.len
    PROVE  LET rest == SliceOf(buf.arr, buf.off + Len(x), buf.len - Len(x))
           IN  /\ BytesOf(cachedBuf, bigBuf, SliceOf(buf.arr, buf.off, Len(x))) = x
               /\ GoodBuffer(cachedBuf, bigBuf, rest)
               /\ Arrives(Cat(BytesOf(cachedBuf, bigBuf, rest), wire), link, y)
<1> DEFINE b == BytesOf(cachedBuf, bigBuf, buf)
           n == Len(x)
           rest == SliceOf(buf.arr, buf.off + n, buf.len - n)
<1>1. GoodBuffer(cachedBuf, bigBuf, buf) /\ wire \in Str(Nat)
  BY DEF Typed
<1>2. b \in Str(Nat) /\ Len(b) = buf.len /\ buf.len \in Nat
  BY StreamFacts
<1>3. n \in 0 .. buf.len
  BY <1>2, StrLen
<1>4. /\ BytesOf(cachedBuf, bigBuf, SliceOf(buf.arr, buf.off, n)) = Part(b, 0, n)
      /\ BytesOf(cachedBuf, bigBuf, rest) = From(b, n)
      /\ GoodBuffer(cachedBuf, bigBuf, rest)
  BY <1>1, <1>3, BufferFacts
<1> HIDE DEF b
<1>5. Arrives(Cat(b, wire), link, Cat(x, y))
  BY DEF Arriving, Stream, b
<1>6. Part(b, 0, Len(x)) = x /\ Arrives(Cat(From(b, Len(x)), wire), link, y)
  BY <1>1, <1>2, <1>5, ArrivesFirst
<1> QED BY <1>4, <1>6

(* The driver gives up a connection that something has gone wrong with. *)
LEMMA ClosedStep ==
    ASSUME Inv, fault, Close
    PROVE  Inv'
<1>1. /\ pc' = "closed" /\ link' = "down" /\ fault' = fault
      /\ UNCHANGED <<statement, queue, sequence, cachedBuf, bigBuf, buf, pktLen, invalidSequence,
                     toServer, wire, bound, skew, got>>
  BY DEF Close, callVars, bufferVars, readVars
<1>2. Typed'
  <2>1. Typed
    BY DEF Inv
  <2> QED BY <1>1, <2>1 DEF Typed
<1>3. History'
  <2>1. History
    BY DEF Inv
  <2>2. All' = All
    BY <1>1 DEF All
  <2> QED BY <1>1, <2>1, <2>2 DEF History
<1>4. Control'
  BY <1>1 DEF Control
<1> QED BY <1>2, <1>3, <1>4 DEF Inv

(* Bytes move, or the connection breaks. *)
LEMMA Undisturbed ==
    ASSUME Inv, UNCHANGED <<pc, statement, queue, sequence, pktLen, prevData, invalidSequence, packet,
                            toServer, bound, skew, got>>,
           (link' = link /\ fault' = fault) \/ (link' = "down" /\ fault' = TRUE),
           GoodBuffer(cachedBuf', bigBuf', buf'), wire' \in Str(Nat),
           \A x \in Str(Nat) : Arrives(Stream, link, x) => Arrives(Stream', link', x),
           pc = "row" => Read' = Read
    PROVE  Inv'
<1> USE DEF Inv
<1>1. /\ Typed /\ History /\ Control /\ All' = All /\ This' = This /\ PacketsOfThis' = PacketsOfThis
      /\ statement' = statement /\ skew' = skew /\ got' = got /\ pc' = pc
  BY DEF All, This, PacketsOfThis
<1>2. Typed'
  BY <1>1 DEF Typed
<1>3. History'
  BY <1>1 DEF History, Typed
<1>4. ASSUME NEW x \in Str(Nat), Arriving(x) PROVE Arriving(x)'
  BY <1>4 DEF Arriving
<1>5. Calm => Calm'
  BY DEF Calm, Nothing
<1>6. <<>> \in Str(Nat) /\ ErrMessage \in Str(Nat)
  BY StrEmpty, ShortMessages
<1>7. fault => fault'
  OBVIOUS
<1>8. CASE pc = "idle" /\ Idle
  <2>1. Idle'
    BY <1>4, <1>5, <1>6, <1>8 DEF Idle
  <2> QED BY <1>1, <1>2, <1>3, <1>8, <2>1 DEF Control
<1>9. CASE pc = "write" /\ Writing
  <2>1. Writing'
    BY <1>1, <1>4, <1>6, <1>9 DEF Writing
  <2> QED BY <1>1, <1>2, <1>3, <1>9, <2>1 DEF Control
<1>10. CASE pc = "header" /\ Waiting
  <2>1. Waiting'
    BY <1>1, <1>4, <1>6, <1>10 DEF Waiting, Unread
  <2> QED BY <1>1, <1>2, <1>3, <1>10, <2>1 DEF Control
<1>11. CASE pc = "header" /\ Refusal
  <2>1. PICK x \in Nat : Arriving(Framed(ErrMessage, x)) /\ (fault \/ x % Radix = sequence)
    BY <1>11 DEF Refusal
  <2>2. Framed(ErrMessage, x) \in Str(Nat)
    BY ErrorFacts
  <2>3. Arriving(Framed(ErrMessage, x))'
    BY <1>4, <2>1, <2>2
  <2>4. Refusal'
    BY <1>1, <1>5, <1>7, <1>11, <2>1, <2>3 DEF Refusal, Unread
  <2> QED BY <1>1, <1>2, <1>3, <1>11, <2>4 DEF Control
<1>12. CASE pc = "header" /\ Calm /\ \E b \in Nat : \E k \in PacketsOfThis : AtHeader(b, k)
  <2>1. PICK b \in Nat, k \in PacketsOfThis : AtHeader(b, k)
    BY <1>12
  <2>2. Due(statement, skew, b, This, k) \in Str(Nat)
    BY <1>1, PacketFacts
  <2>3. Arriving(Due(statement, skew, b, This, k))'
    BY <1>1, <1>4, <2>1, <2>2 DEF AtHeader
  <2>4. AtHeader(b, k)'
    BY <1>1, <2>1, <2>3 DEF AtHeader
  <2>5. b \in Nat /\ k \in PacketsOfThis'
    BY <1>1
  <2> QED BY <1>1, <1>2, <1>3, <1>5, <1>12, <2>4, <2>5 DEF Control
<1>13. CASE pc = "body" /\ Calm /\ ErrorBody
  <2>1. ErrorBody'
    BY <1>1, <1>4, <1>6, <1>13 DEF ErrorBody
  <2> QED BY <1>1, <1>2, <1>3, <1>5, <1>13, <2>1 DEF Control
<1>14. CASE pc = "body" /\ Calm /\ \E b \in Nat : \E k \in PacketsOfThis : AtBody(b, k)
  <2>1. PICK b \in Nat, k \in PacketsOfThis : AtBody(b, k)
    BY <1>14
  <2> DEFINE x == Cat(Chunk(All[This], k), Due(statement, skew, b, This, k + 1))
  <2>2. x \in Str(Nat)
    BY <1>1, PacketFacts
  <2>3. Arriving(x)'
    BY <1>1, <1>4, <2>1, <2>2 DEF AtBody
  <2>4. AtBody(b, k)'
    BY <1>1, <2>1, <2>3 DEF AtBody
  <2>5. b \in Nat /\ k \in PacketsOfThis'
    BY <1>1
  <2> QED BY <1>1, <1>2, <1>3, <1>5, <1>14, <2>4, <2>5 DEF Control
<1>15. CASE pc = "row" /\ Calm /\ ErrorRow
  <2>1. ErrorRow'
    BY <1>1, <1>4, <1>6, <1>15 DEF ErrorRow
  <2> QED BY <1>1, <1>2, <1>3, <1>5, <1>15, <2>1 DEF Control
<1>16. CASE pc = "row" /\ Calm /\ \E b \in Nat : AtRow(b)
  <2>1. PICK b \in Nat : AtRow(b)
    BY <1>16
  <2>2. Due(statement, skew, b, This + 1, 1) \in Str(Nat)
    BY <1>1, NextFacts
  <2>3. Arriving(Due(statement, skew, b, This + 1, 1))'
    BY <1>1, <1>4, <2>1, <2>2 DEF AtRow
  <2>4. AtRow(b)'
    BY <1>1, <1>16, <2>1, <2>3 DEF AtRow
  <2> QED BY <1>1, <1>2, <1>3, <1>5, <1>16, <2>4 DEF Control
<1>17. CASE pc = "closed" /\ fault /\ link = "down"
  <2>1. pc' = "closed" /\ fault' /\ link' = "down"
    BY <1>1, <1>7, <1>17
  <2> QED BY <1>1, <1>2, <1>3, <2>1 DEF Control
<1> QED BY <1>1, <1>8, <1>9, <1>10, <1>11, <1>12, <1>13, <1>14, <1>15, <1>16, <1>17 DEF Control

-----------------------------------------------------------------------------
(* The steps of the client that write. *)
LEMMA MessagesType ==
    ASSUME NEW s \in Statements
    PROVE  /\ Messages(s.args) \in Str(Str(Nat)) /\ Messages(s.args) # <<>>
           /\ ExecuteMessage(s.args) \in Str(Nat)
<1> DEFINE S == [null : BOOLEAN, val : Seq(Byte)]
           args == s.args
           all == Messages(args)
<1>1. args \in Seq(S) /\ \A i \in 1 .. Len(args) : Holds("string", args[i])
  BY StatementFacts
<1> HIDE DEF S, args
<1>2. all \in Str(Message) /\ Len(all) \in Nat /\ Len(all) > 0 /\ all[Len(all)] = ExecuteMessage(args)
  BY <1>1, MessagesFacts
<1> HIDE DEF all
<1>3. Message \subseteq Str(Nat)
  BY DEF Message
<1>4. all \in Str(Str(Nat))
  BY <1>2, <1>3, StrWider
<1>5. Len(all) # 0 /\ Len(all) \in 1 .. Len(all)
  BY <1>2
<1>6. all # <<>>
  BY <1>4, <1>5, StrEmpty
<1>7. all[Len(all)] \in Str(Nat)
  BY <1>4, <1>5, StrLen
<1> QED BY <1>2, <1>4, <1>6, <1>7 DEF all, args

LEMMA ZerosType ==
    ASSUME NEW n \in Nat
    PROVE  Zeros(n) \in Str(Nat) /\ Len(Zeros(n)) = n
<1> DEFINE f == [i \in 1 .. n |-> 0]
<1>1. f = [i \in 1 .. n |-> f[i]] /\ \A i \in 1 .. n : f[i] \in Nat
  OBVIOUS
<1> HIDE DEF f
<1>2. f \in Str(Nat) /\ Len(f) = n
  BY <1>1, StrOf
<1> QED BY <1>2 DEF f, Zeros

LEMMA OverwrittenType ==
    ASSUME cachedBuf \in Str(Nat), NEW m \in Str(Nat)
    PROVE  Overwritten(m) \in Str(Nat) /\ Len(Overwritten(m)) >= Len(cachedBuf)
<1> DEFINE data == Cat(Zeros(Header), m)
           n == Len(cachedBuf)
           l == Len(data)
<1>1. data \in Str(Nat)
  BY Sizes, ZerosType, CatType
<1>2. n \in Nat /\ l \in Nat /\ MaxCachedBufSize \in Nat
  BY <1>1, Sizes, StrLen
<1>3. Overwritten(m) = IF l <= n THEN Cat(data, From(cachedBuf, l))
                       ELSE IF l <= MaxCachedBufSize THEN data ELSE Part(data, 0, n)
  BY DEF Overwritten, Cat
<1> HIDE DEF data, n
<1>4. CASE l <= n
  <2>1. l \in 0 .. Len(cachedBuf)
    BY <1>2, <1>4 DEF n
  <2>2. From(cachedBuf, l) \in Str(Nat) /\ Len(From(cachedBuf, l)) = n - l
    BY <2>1, PartFrom DEF n
  <2>3. Cat(data, From(cachedBuf, l)) \in Str(Nat)
        /\ Len(Cat(data, From(cachedBuf, l))) = l + Len(From(cachedBuf, l))
    BY <1>1, <2>2, CatType
  <2>4. l + (n - l) >= n
    BY <1>2
  <2> QED BY <1>3, <1>4, <2>2, <2>3, <2>4 DEF n
<1>5. CASE ~(l <= n) /\ l <= MaxCachedBufSize
  <2>1. l >= n
    BY <1>2, <1>5
  <2> QED BY <1>1, <1>3, <1>5, <2>1 DEF n
<1>6. CASE ~(l <= n) /\ ~(l <= MaxCachedBufSize)
  <2>1. n \in 0 .. Len(data) /\ n >= n
    BY <1>2, <1>6
  <2>2. Part(data, 0, n) \in Str(Nat) /\ Len(Part(data, 0, n)) = n
    BY <1>1, <2>1, PartFrom
  <2> QED BY <1>3, <1>6, <2>1, <2>2 DEF n
<1> QED BY <1>4, <1>5, <1>6

(* A buffer with nothing in it, whose memory is another. *)
LEMMA EmptyBuffer ==
    ASSUME NEW c, NEW g, NEW s, GoodBuffer(c, g, s), s.len = 0,
           NEW d \in Str(Nat), Len(d) >= Len(c)
    PROVE  GoodBuffer(d, g, s) /\ BytesOf(c, g, s) = <<>> /\ BytesOf(d, g, s) = <<>>
<1>1. GoodBuffer(d, g, s)
  <2>1. Len(c) \in Nat /\ Len(d) \in Nat
    BY StrLen DEF GoodBuffer
  <2> QED BY <2>1 DEF GoodBuffer
<1>2. ASSUME NEW e, GoodBuffer(e, g, s) PROVE BytesOf(e, g, s) = <<>>
  <2>1. BytesOf(e, g, s) \in Str(Nat) /\ Len(BytesOf(e, g, s)) = 0
    BY <1>2, BufferFacts
  <2> QED BY <2>1, StrEmpty
<1> QED BY <1>1, <1>2

LEMMA ExecuteStep ==
    ASSUME Inv, NEW s \in Statements, Execute(s)
    PROVE  Inv'
<1>1. /\ pc = "idle" /\ statement' = s /\ sequence' = 0 /\ got' = <<>> /\ bound' = <<>> /\ skew' = Never
      /\ UNCHANGED <<pktLen, prevData, invalidSequence, packet, toServer, wire, link, fault, bigBuf, buf>>
  BY DEF Execute, bufferVars, readVars
<1>2. Typed /\ History /\ Idle
  BY <1>1 DEF Inv, Control
<1>3. Messages(s.args) \in Str(Str(Nat)) /\ Messages(s.args) # <<>> /\ ExecuteMessage(s.args) \in Str(Nat)
  BY MessagesType
<1> DEFINE full == Overwritten(ExecuteMessage(s.args))
<1>4. full \in Str(Nat) /\ Len(full) >= Len(cachedBuf)
  BY <1>2, <1>3, OverwrittenType DEF Typed, GoodBuffer
<1>5. \/ buf.len > 0 /\ pc' = "idle" /\ queue' = queue /\ cachedBuf' = cachedBuf
      \/ ~(buf.len > 0) /\ pc' = "write" /\ queue' = Messages(s.args) /\ cachedBuf' = full
  BY <1>1 DEF Execute, bufferVars
<1> HIDE DEF full
<1>6. buf.len \in Nat /\ GoodBuffer(cachedBuf, bigBuf, buf)
  BY <1>2, StreamFacts DEF Typed
<1>7. GoodBuffer(cachedBuf', bigBuf', buf') /\ Stream' = Stream
  <2>1. CASE cachedBuf' = cachedBuf
    BY <1>1, <1>6, <2>1 DEF Stream
  <2>2. CASE cachedBuf' = full /\ ~(buf.len > 0)
    <3>1. buf.len = 0
      BY <1>6, <2>2
    <3>2. /\ GoodBuffer(full, bigBuf, buf)
          /\ BytesOf(cachedBuf, bigBuf, buf) = <<>> /\ BytesOf(full, bigBuf, buf) = <<>>
      BY <1>4, <1>6, <3>1, EmptyBuffer
    <3> QED BY <1>1, <2>2, <3>2 DEF Stream
  <2> QED BY <1>5, <2>1, <2>2
<1>8. got' = <<>> /\ Len(got') = 0 /\ Len(got') \in 0 .. Len(s.rows) /\ got' = Part(s.rows, 0, Len(got'))
  <2>1. s.rows \in Str(Seq([null : BOOLEAN, val : Seq(Int)]))
    BY StatementFacts DEF Str
  <2>2. Part(s.rows, 0, 0) = <<>> /\ Len(s.rows) \in Nat
    BY <2>1, FromAll, StrLen
  <2>3. Len(got') = 0
    BY <1>1, StrEmpty
  <2> QED BY <1>1, <2>2, <2>3
<1>9. Typed'
  <2>1. Never \in Skews(s)
    BY DEF Skews, Points
  <2>2. queue' \in Str(Str(Nat)) /\ 0 \in Nat
    BY <1>2, <1>3, <1>5 DEF Typed
  <2> QED BY <1>1, <1>2, <1>7, <1>8, <2>1, <2>2 DEF Typed
<1>10. History'
  BY <1>1, <1>2 DEF History
<1>11. Arriving(<<>>)' /\ Calm'
  BY <1>1, <1>2, <1>7 DEF Idle, Arriving, Calm
<1>12. CASE pc' = "idle"
  BY <1>9, <1>10, <1>11, <1>12 DEF Inv, Control, Idle
<1>13. CASE pc' = "write" /\ queue' = Messages(s.args)
  <2>1. ASSUME link' = "up"
        PROVE  Pending(toServer'.done, toServer'.part, queue') = Messages(statement'.args)
    <3>1. toServer' = Nothing
      BY <1>11, <2>1 DEF Calm
    <3>2. toServer'.done = <<>> /\ toServer'.part = <<>>
      BY <3>1 DEF Nothing
    <3> DEFINE e == <<>>
    <3>3. e \in Str(Str(Nat)) /\ e \in Str(Nat)
      BY StrEmpty
    <3> HIDE DEF e
    <3> DEFINE q == Messages(s.args)
    <3> HIDE DEF q
    <3>4. q \in Str(Str(Nat)) /\ q # <<>>
      BY <1>3 DEF q
    <3>5. Pending(<<>>, <<>>, q) = q
      BY <3>3, <3>4, PendingFacts
    <3> QED BY <1>1, <1>13, <3>2, <3>5 DEF q
  <2>2. Writing'
    BY <1>1, <1>3, <1>11, <1>13, <2>1 DEF Writing
  <2> QED BY <1>9, <1>10, <1>13, <2>2 DEF Inv, Control
<1> QED BY <1>5, <1>12, <1>13

LEMMA WriteTooLargeStep ==
    ASSUME Inv, WriteTooLarge
    PROVE  Inv'
<1>1. /\ pc = "write" /\ pc' = "idle" /\ queue' = <<>> /\ toServer' = Nothing
      /\ UNCHANGED <<statement, sequence, cachedBuf, bigBuf, buf, pktLen, invalidSequence, wire, link,
                     bound, skew, fault, got>>
  BY DEF WriteTooLarge, bufferVars, readVars
<1>2. Typed /\ History /\ Writing
  BY <1>1 DEF Inv, Control
<1>3. Typed'
  <2>1. queue' \in Str(Str(Nat)) /\ toServer' \in [done : Str(Str(Nat)), part : Str(Nat), seq : Nat]
    BY <1>1, StrEmpty DEF Nothing
  <2> QED BY <1>1, <1>2, <2>1 DEF Typed
<1>4. History'
  <2>1. All' = All
    BY <1>1 DEF All
  <2> QED BY <1>1, <1>2, <2>1 DEF History
<1>5. Idle'
  <2>1. Stream' = Stream
    BY <1>1 DEF Stream
  <2> QED BY <1>1, <1>2, <2>1 DEF Writing, Idle, Arriving, Calm
<1> QED BY <1>1, <1>3, <1>4, <1>5 DEF Inv, Control

LEMMA WritePacketStep ==
    ASSUME Inv, WritePacket
    PROVE  Inv'
<1> DEFINE m == Head(queue)
           size == IF Len(m) < MaxPacket THEN Len(m) ELSE MaxPacket
           whole == Cat(toServer.part, Part(m, 0, size))
<1>1. /\ pc = "write" /\ prevData' = Nil /\ invalidSequence' = FALSE
      /\ UNCHANGED <<statement, cachedBuf, bigBuf, buf, pktLen, wire, link, bound, skew, fault, got>>
  BY DEF WritePacket, bufferVars
<1>2. Typed /\ History /\ Writing
  BY <1>1 DEF Inv, Control
<1>3. toServer' = IF size < MaxPacket
                  THEN [done |-> Append(toServer.done, whole), part |-> <<>>, seq |-> sequence]
                  ELSE [done |-> toServer.done, part |-> whole, seq |-> sequence]
  BY DEF WritePacket, Cat
<1>4. /\ size # MaxPacket =>
            /\ queue' = Tail(queue)
            /\ Tail(queue) = <<>> => pc' = "header" /\ sequence' = Successor(sequence)
            /\ Tail(queue) # <<>> => pc' = "write" /\ sequence' = 0
      /\ size = MaxPacket =>
            /\ queue' = Cat(<<From(m, size)>>, Tail(queue))
            /\ pc' = "write" /\ sequence' = Successor(sequence)
  BY <1>1 DEF WritePacket, LastPacket, Cat
<1> DEFINE done == toServer.done
           part == toServer.part
<1>5. /\ done \in Str(Str(Nat)) /\ part \in Str(Nat) /\ queue \in Str(Str(Nat)) /\ queue # <<>>
      /\ toServer = [done |-> done, part |-> part, seq |-> toServer.seq]
  BY <1>2 DEF Typed, Writing
<1>6. sequence \in Nat /\ Successor(sequence) \in Nat /\ 0 \in Nat /\ MaxPacket \in Nat
  <2>1. sequence \in Nat /\ Radix \in Nat /\ Radix >= 8
    BY <1>2, RadixFacts DEF Typed
  <2>2. (sequence + 1) % Radix \in Nat
    BY <2>1
  <2> QED BY <2>1, <2>2, Sizes DEF Successor
<1>7. m \in Str(Nat) /\ Tail(queue) \in Str(Str(Nat))
  BY <1>5, PendingFacts
<1> DEFINE t == Tail(queue)
           all == Pending(done, part, queue)
<1>8. toServer' = IF size < MaxPacket
                  THEN [done |-> Append(done, whole), part |-> <<>>, seq |-> sequence]
                  ELSE [done |-> done, part |-> whole, seq |-> sequence]
  BY <1>3
<1>9. /\ Cat(done, <<Cat(part, m)>>) \in Str(Str(Nat))
      /\ t = <<>> => Cat(done, <<Cat(part, m)>>) = all
      /\ t # <<>> => Pending(Cat(done, <<Cat(part, m)>>), <<>>, t) = all
  <2>1. done \in Str(Str(Nat)) /\ part \in Str(Nat) /\ queue \in Str(Str(Nat)) /\ queue # <<>>
    BY <1>5
  <2> HIDE DEF done, part
  <2> QED BY <2>1, PendingFacts
<1>10. ASSUME NEW n \in 0 .. Len(m)
       PROVE  LET r == Cat(<<From(m, n)>>, t)
                  p == Cat(part, Part(m, 0, n))
              IN  /\ p \in Str(Nat) /\ r \in Str(Str(Nat)) /\ r # <<>> /\ Pending(done, p, r) = all
  <2>1. done \in Str(Str(Nat)) /\ part \in Str(Nat) /\ queue \in Str(Str(Nat)) /\ queue # <<>>
    BY <1>5
  <2> HIDE DEF done, part
  <2> QED BY <2>1, PendingRest
<1>11. Len(m) \in Nat
  BY <1>7, StrLen
<1> HIDE DEF m, done, part
<1>12. size \in 0 .. Len(m) /\ (size = MaxPacket \/ size < MaxPacket)
       /\ (size < MaxPacket => size # MaxPacket /\ size = Len(m))
       /\ (size = MaxPacket => ~(size < MaxPacket))
  BY <1>6, <1>11
<1>13. Arriving(<<>>)' /\ got' = <<>> /\ skew' = Never /\ prevData' = Nil /\ ~invalidSequence'
  <2>1. Stream' = Stream
    BY <1>1 DEF Stream
  <2> QED BY <1>1, <1>2, <2>1 DEF Writing, Arriving
<1>14. History'
  <2>1. All' = All
    BY <1>1 DEF All
  <2> QED BY <1>1, <1>2, <2>1 DEF History
<1>15. ASSUME queue' \in Str(Str(Nat)), sequence' \in Nat,
              toServer' \in [done : Str(Str(Nat)), part : Str(Nat), seq : Nat]
       PROVE  Typed'
  BY <1>1, <1>2, <1>15 DEF Typed
<1>16. link' = "up" => all = Messages(statement'.args)
  BY <1>1, <1>2 DEF Writing, all, done, part
<1> HIDE DEF t, all
<1>17. CASE size < MaxPacket
  <2> DEFINE w == Cat(done, <<whole>>)
  <2>1. whole = Cat(part, m)
    <3>1. Part(m, 0, Len(m)) = m
      BY <1>7, FromAll
    <3> QED BY <1>12, <1>17, <3>1 DEF part
  <2>2. w \in Str(Str(Nat)) /\ (t = <<>> => w = all) /\ (t # <<>> => Pending(w, <<>>, t) = all)
    BY <1>9, <2>1, Zenon
  <2>0. Append(done, whole) = w
    <3>1. done \in Seq(Str(Nat)) /\ whole \in Str(Nat)
      BY <1>5, <1>7, <2>1, CatType DEF Str
    <3> HIDE DEF whole
    <3> QED BY <3>1, AppendIsConcat DEF Cat
  <2> HIDE DEF w
  <2>3. toServer' = [done |-> w, part |-> <<>>, seq |-> sequence]
    BY <1>8, <1>17, <2>0
  <2>4. toServer'.done = w /\ toServer'.part = <<>> /\ toServer'.seq = sequence
        /\ toServer' \in [done : Str(Str(Nat)), part : Str(Nat), seq : Nat]
    BY <1>6, <2>2, <2>3, StrEmpty
  <2>5. queue' = t /\ (t = <<>> => pc' = "header" /\ sequence' = Successor(sequence))
        /\ (t # <<>> => pc' = "write" /\ sequence' = 0)
    BY <1>4, <1>12, <1>17 DEF t
  <2>6. Typed'
    <3>1. queue' \in Str(Str(Nat)) /\ sequence' \in Nat
      BY <1>6, <1>7, <2>5 DEF t
    <3> QED BY <1>15, <2>4, <3>1
  <2>7. CASE t = <<>>
    <3>1. Waiting'
      BY <1>13, <1>16, <2>2, <2>4, <2>5, <2>7 DEF Waiting, Unread, Successor
    <3> QED BY <1>14, <2>5, <2>6, <2>7, <3>1 DEF Inv, Control
  <2>8. CASE t # <<>>
    <3>1. Writing'
      BY <1>13, <1>16, <2>2, <2>4, <2>5, <2>8 DEF Writing
    <3> QED BY <1>14, <2>5, <2>6, <2>8, <3>1 DEF Inv, Control
  <2> QED BY <2>7, <2>8
<1>18. CASE size = MaxPacket
  <2> DEFINE r == Cat(<<From(m, size)>>, t)
  <2>0. whole = Cat(part, Part(m, 0, size))
    BY DEF part
  <2>1. whole \in Str(Nat) /\ r \in Str(Str(Nat)) /\ r # <<>> /\ Pending(done, whole, r) = all
    BY <1>10, <1>12, <2>0
  <2> HIDE DEF whole, r
  <2>2. toServer' = [done |-> done, part |-> whole, seq |-> sequence]
    BY <1>8, <1>12, <1>18
  <2>3. toServer'.done = done /\ toServer'.part = whole
        /\ toServer' \in [done : Str(Str(Nat)), part : Str(Nat), seq : Nat]
    BY <1>5, <1>6, <2>1, <2>2
  <2>4. queue' = r /\ pc' = "write" /\ sequence' \in Nat
    BY <1>4, <1>6, <1>18 DEF r, t
  <2>5. Typed'
    BY <1>15, <2>1, <2>3, <2>4
  <2>6. Writing'
    BY <1>13, <1>16, <2>1, <2>3, <2>4 DEF Writing
  <2> QED BY <1>14, <2>4, <2>5, <2>6 DEF Inv, Control
<1> QED BY <1>12, <1>17, <1>18

-----------------------------------------------------------------------------
(* Bytes arrive, or will not arrive any more. *)
LEMMA NeedType ==
    ASSUME Typed
    PROVE  Need \in Nat
BY Sizes DEF Need, Typed

LEMMA GrownFacts ==
    ASSUME Typed
    PROVE  Grown \in Nat /\ Grown >= Need
<1> DEFINE d == DefaultBufSize
           q == Need \div d
<1>1. Need \in Nat /\ d \in Nat /\ d > 0
  BY NeedType, Sizes
<1> HIDE DEF d
<1>2. Need = d * q + (Need % d) /\ (Need % d) \in 0 .. d - 1 /\ q \in Nat
  BY <1>1, Division
<1>3. Grown = (q + 1) * d
  BY DEF Grown, d
<1> HIDE DEF q
<1>4. d * q = q * d /\ q * d \in Nat
  BY <1>1, <1>2, Products
<1>5. (q + 1) * d = q * d + d
  BY <1>1, <1>2
<1> DEFINE x == q * d
           r == Need % d
<1>6. x \in Nat /\ r \in 0 .. d - 1 /\ Need = x + r /\ Grown = x + d
  BY <1>2, <1>3, <1>4, <1>5
<1> HIDE DEF x, r
<1> QED BY <1>1, <1>6

LEMMA FillStep ==
    ASSUME Inv, Fill
    PROVE  Inv'
<1> DEFINE b     == BytesOf(cachedBuf, bigBuf, buf)
           grows == Need > Len(cachedBuf)
           size  == IF grows THEN Grown ELSE Len(cachedBuf)
           arr   == IF grows /\ size > MaxCachedBufSize THEN "big" ELSE "cached"
           old   == IF grows THEN Zeros(size) ELSE cachedBuf
           room  == size - buf.len
           all   == IF Len(wire) < room THEN Len(wire) ELSE room
<1>1. /\ pc \in {"header", "body"} /\ buf.len < Need
      /\ UNCHANGED <<pc, statement, queue, sequence, pktLen, prevData, invalidSequence, packet,
                     toServer, link, bound, skew, fault, got>>
  BY DEF Fill, callVars, readVars
<1>2. PICK n \in {Need - buf.len, all} :
        /\ Need - buf.len <= n /\ n <= Len(wire)
        /\ LET dest == Cat(Cat(b, Part(wire, 0, n)), From(old, buf.len + n))
           IN  IF arr = "big" THEN bigBuf' = dest /\ UNCHANGED cachedBuf
                              ELSE cachedBuf' = dest /\ UNCHANGED bigBuf
        /\ buf' = SliceOf(arr, 0, buf.len + n)
        /\ wire' = From(wire, n)
  BY DEF Fill, Bytes, BytesOf, Memory, Cat
<1>3. /\ Typed /\ buf.len \in Nat /\ b \in Str(Nat) /\ Len(b) = buf.len /\ Len(wire) \in Nat
      /\ wire \in Str(Nat) /\ cachedBuf \in Str(Nat) /\ bigBuf \in Str(Nat)
  BY StreamFacts DEF Inv, Typed, GoodBuffer
<1>4. /\ Need \in Nat /\ Grown \in Nat /\ Grown >= Need /\ Len(cachedBuf) \in Nat
  BY <1>3, NeedType, GrownFacts, StrLen
<1>5. size \in Nat /\ size >= Need
  BY <1>4
<1>6. old \in Str(Nat) /\ Len(old) = size
  BY <1>3, <1>5, ZerosType
<1> HIDE DEF b, grows, old, size
<1>7. n \in 0 .. Len(wire) /\ buf.len + n \in 0 .. Len(old) /\ buf.len + n \in Nat
  BY <1>1, <1>2, <1>3, <1>4, <1>5, <1>6
<1> HIDE DEF all, room
<1> DEFINE p == Part(wire, 0, n)
           f == From(wire, n)
           u == Cat(b, p)
           o == From(old, buf.len + n)
           dest == Cat(u, o)
           l == buf.len + n
<1>8. p \in Str(Nat) /\ Len(p) = n /\ f \in Str(Nat) /\ wire = Cat(p, f)
  BY <1>3, <1>7, PartFrom
<1>9. o \in Str(Nat) /\ Len(o) \in Nat
  BY <1>6, <1>7, PartFrom, StrLen
<1> HIDE DEF p, f, o
<1>10. u \in Str(Nat) /\ Len(u) = l
  BY <1>3, <1>8, CatType
<1> HIDE DEF u
<1>11. dest \in Str(Nat) /\ Len(dest) >= l /\ l \in Nat
  <2>1. dest \in Str(Nat) /\ Len(dest) = Len(u) + Len(o)
    BY <1>9, <1>10, CatType
  <2> QED BY <1>7, <1>9, <1>10, <2>1
<1>12. Part(dest, 0, l) = u
  <2>1. Part(Cat(u, o), 0, Len(u)) = u
    BY <1>9, <1>10, CatParts
  <2> QED BY <1>10, <2>1
<1>13. /\ buf' = SliceOf(arr, 0, l) /\ wire' = f /\ arr \in {"big", "cached"}
       /\ arr = "big" => bigBuf' = dest /\ cachedBuf' = cachedBuf
       /\ arr = "cached" => cachedBuf' = dest /\ bigBuf' = bigBuf
  BY <1>2 DEF dest, u, p, f, o
<1> HIDE DEF dest, l, arr
<1>14. GoodBuffer(cachedBuf', bigBuf', buf') /\ BytesOf(cachedBuf', bigBuf', buf') = u
  <2>1. 0 + l = l /\ 0 + l <= Len(dest) /\ 0 \in Nat
    BY <1>11
  <2>2. CASE arr = "big"
    BY <1>3, <1>11, <1>12, <1>13, <2>1, <2>2 DEF GoodBuffer, BytesOf, SliceOf
  <2>3. CASE arr = "cached"
    BY <1>3, <1>11, <1>12, <1>13, <2>1, <2>3 DEF GoodBuffer, BytesOf, SliceOf
  <2> QED BY <1>13, <2>2, <2>3
<1>15. Stream' = Stream
  <2>1. Cat(b, Cat(p, f)) = Cat(Cat(b, p), f)
    BY <1>3, <1>8, CatAssociative
  <2>2. Stream' = Cat(u, f)
    BY <1>13, <1>14 DEF Stream
  <2>3. Stream = Cat(b, wire)
    BY DEF Stream, b
  <2> QED BY <1>8, <2>1, <2>2, <2>3 DEF u
<1>16. wire' \in Str(Nat)
  BY <1>8, <1>13
<1> QED BY <1>1, <1>14, <1>15, <1>16, Undisturbed

LEMMA FillFailsStep ==
    ASSUME Inv, FillFails
    PROVE  Inv'
<1>1. fault
  BY DEF FillFails, Inv, History
<1> QED BY <1>1, ClosedStep DEF FillFails

LEMMA WriteFailsStep ==
    ASSUME Inv, WriteFails
    PROVE  Inv'
<1>1. fault
  BY DEF WriteFails, Inv, History
<1> QED BY <1>1, ClosedStep DEF WriteFails

LEMMA GoodbyeStep ==
    ASSUME Inv, fault' = TRUE, Goodbye
    PROVE  Inv'
<1> DEFINE b == BytesOf(cachedBuf, bigBuf, buf)
<1>1. /\ link = "up" /\ link' = "down" /\ wire' = Cat(wire, Farewell)
      /\ UNCHANGED <<pc, statement, queue, sequence, cachedBuf, bigBuf, buf, pktLen, prevData,
                     invalidSequence, packet, toServer, bound, skew, got>>
  BY DEF Goodbye, callVars, bufferVars, readVars, Farewell, Cat
<1>2. /\ b \in Str(Nat) /\ wire \in Str(Nat) /\ GoodBuffer(cachedBuf, bigBuf, buf)
  BY StreamFacts DEF Inv, Typed
<1>3. wire' \in Str(Nat)
  BY <1>1, <1>2, FarewellType, CatType
<1>4. Stream = Cat(b, wire) /\ Stream' = Cat(b, Cat(wire, Farewell)) /\ Read' = Read
  BY <1>1 DEF Stream, Read
<1> HIDE DEF b
<1>5. ASSUME NEW x \in Str(Nat), Arrives(Stream, link, x) PROVE Arrives(Stream', link', x)
  BY <1>1, <1>2, <1>4, <1>5, ArrivesMore
<1>6. GoodBuffer(cachedBuf', bigBuf', buf')
  BY <1>1, <1>2
<1> QED BY <1>1, <1>3, <1>4, <1>5, <1>6, Undisturbed

LEMMA LostStep ==
    ASSUME Inv, fault' = TRUE, Lost
    PROVE  Inv'
<1> DEFINE b == BytesOf(cachedBuf, bigBuf, buf)
<1>1. /\ link' = "down"
      /\ UNCHANGED <<pc, statement, queue, sequence, cachedBuf, bigBuf, buf, pktLen, prevData,
                     invalidSequence, packet, toServer, bound, skew, got>>
  BY DEF Lost, callVars, bufferVars, readVars
<1>2. PICK n \in 0 .. Len(wire) : wire' = Part(wire, 0, n)
  BY DEF Lost
<1>3. /\ b \in Str(Nat) /\ wire \in Str(Nat) /\ GoodBuffer(cachedBuf, bigBuf, buf)
  BY StreamFacts DEF Inv, Typed
<1>4. wire' \in Str(Nat)
  BY <1>2, <1>3, PartFrom
<1>5. Stream = Cat(b, wire) /\ Stream' = Cat(b, Part(wire, 0, n)) /\ Read' = Read
  BY <1>1, <1>2 DEF Stream, Read
<1> HIDE DEF b
<1>6. ASSUME NEW x \in Str(Nat), Arrives(Stream, link, x) PROVE Arrives(Stream', link', x)
  BY <1>1, <1>3, <1>5, <1>6, ArrivesLess
<1>7. GoodBuffer(cachedBuf', bigBuf', buf')
  BY <1>1, <1>3
<1> QED BY <1>1, <1>4, <1>5, <1>6, <1>7, Undisturbed

-----------------------------------------------------------------------------
(* The steps of the server: it acts on a command that is whole, which the
   client is then waiting for. *)
LEMMA AskedWaiting ==
    ASSUME Inv, Asked
    PROVE  pc = "header" /\ Waiting /\ link = "up" /\ toServer.done = Messages(statement.args)
<1>1. /\ link = "up" /\ toServer.done # <<>> /\ Last(toServer.done)[1] = ExecCmd
      /\ Typed /\ Control
  BY DEF Asked, Inv
<1>2. ~Calm
  BY <1>1 DEF Calm, Nothing
<1>3. ~(pc = "write" /\ Writing)
  <2>1. SUFFICES ASSUME Writing PROVE FALSE
    OBVIOUS
  <2> DEFINE done == toServer.done
             part == toServer.part
             args == statement.args
             all  == Messages(args)
             S    == [null : BOOLEAN, val : Seq(Byte)]
             l    == Len(done)
  <2>2. /\ done \in Str(Str(Nat)) /\ part \in Str(Nat) /\ queue \in Str(Str(Nat)) /\ queue # <<>>
        /\ done # <<>> /\ Pending(done, part, queue) = all
    BY <1>1, <2>1 DEF Typed, Writing
  <2>3. args \in Seq(S) /\ \A i \in 1 .. Len(args) : Holds("string", args[i])
    BY <1>1, StatementFacts DEF Typed
  <2>4. Last(done)[1] = ExecCmd
    BY <1>1
  <2> HIDE DEF done, part, args, S
  <2>5. \A m \in 1 .. Len(all) - 1 : all[m][1] = LongCmd
    BY <2>3, MessagesFacts
  <2> HIDE DEF all
  <2>6. Len(done) \in 1 .. Len(Pending(done, part, queue)) - 1
        /\ Pending(done, part, queue)[Len(done)] = done[Len(done)]
    BY <2>2, PendingFacts
  <2>7. done[Len(done)][1] = LongCmd
    BY <2>2, <2>5, <2>6
  <2>8. Last(done) = done[Len(done)]
    BY DEF Last
  <2> QED BY <2>4, <2>7, <2>8 DEF ExecCmd, LongCmd
<1>4. pc = "header" /\ Waiting
  BY <1>1, <1>2, <1>3 DEF Control, Idle, Refusal
<1> QED BY <1>1, <1>4 DEF Waiting

LEMMA PackedType ==
    ASSUME NEW messages \in Str(Str(Nat)), NEW b \in Nat, NEW from
    PROVE  Packed(messages, b, from) \in Str(Nat)
<1> DEFINE q == Numbered(Split(messages, from), b)
<1>1. Split(messages, from) \in Str(Packet)
  BY Starts
<1>2. q \in Str(Str(Nat))
  BY <1>1, NumberedType
<1>3. Packed(messages, b, from) = FlattenSeq(From(q, 0))
  BY ComingNext DEF Coming
<1> HIDE DEF q
<1>4. From(q, 0) = q
  BY <1>2, FromAll
<1> QED BY <1>2, <1>3, <1>4, FlatType

(* The parameters arrive. *)
LEMMA ParametersHeard ==
    ASSUME NEW s \in Statements, NEW done, done = Messages(s.args), NEW long,
           \A i \in 1 .. Len(s.args) : long[i] = Heard(i, done)
    PROVE  BoundParameters(From(Last(done), 1), Len(s.args), long) = s.args
<1> DEFINE args == s.args
           all  == Messages(args)
           S    == [null : BOOLEAN, val : Seq(Byte)]
           ahead == Ahead(args)
<1>1. args \in Seq(S) /\ \A i \in 1 .. Len(args) : Holds("string", args[i])
  BY StatementFacts
<1> HIDE DEF args, S
<1>2. /\ all[Len(all)] = ExecuteMessage(args)
      /\ From(ExecuteMessage(args), 1) = Parameters(args, ahead)
      /\ \A i \in 1 .. Len(args) :
            /\ Heard(i, all) = IF i \in ahead THEN args[i].val ELSE <<>>
            /\ i \in ahead => ~args[i].null /\ args[i].val # <<>>
  BY <1>1, MessagesFacts
<1>3. Last(done) = all[Len(all)]
  BY DEF Last, args
<1>4. From(Last(done), 1) = Parameters(args, ahead)
  BY <1>2, <1>3
<1>5. \A i \in 1 .. Len(args) :
         /\ i \in ahead => ~args[i].null /\ args[i].val # <<>>
         /\ long[i] = IF i \in ahead THEN args[i].val ELSE <<>>
  BY <1>2 DEF args
<1> HIDE DEF ahead, all
<1>6. BoundParameters(Parameters(args, ahead), Len(args), long) = args
  BY <1>1, <1>5, ParametersRoundTrip
<1> QED BY <1>4, <1>6 DEF args

(* Nothing is on its way when the server acts. *)
LEMMA ServerActs ==
    ASSUME Inv, Asked, NEW x \in Str(Nat), wire' = Cat(wire, x), link' = link, toServer' = Nothing,
           UNCHANGED <<cachedBuf, bigBuf, buf>>
    PROVE  /\ GoodBuffer(cachedBuf', bigBuf', buf') /\ wire' \in Str(Nat)
           /\ Arrives(Stream', link', x) /\ Calm'
           /\ toServer' \in [done : Str(Str(Nat)), part : Str(Nat), seq : Nat]
<1> DEFINE b == BytesOf(cachedBuf, bigBuf, buf)
<1>1. Typed /\ Waiting /\ link = "up"
  BY AskedWaiting DEF Inv
<1>2. /\ b \in Str(Nat) /\ wire \in Str(Nat) /\ GoodBuffer(cachedBuf, bigBuf, buf)
      /\ Len(b) \in Nat /\ Len(wire) \in Nat /\ Len(Stream) = Len(b) + Len(wire)
  BY <1>1, StreamFacts DEF Typed
<1>3. Stream = <<>>
  BY <1>1, StreamFacts, StrEmpty DEF Waiting
<1>4. Stream' = Cat(b, Cat(wire, x))
  BY DEF Stream
<1> HIDE DEF b
<1>5. Len(b) = 0 /\ Len(wire) = 0
  <2>1. Len(Stream) = 0
    BY <1>3, StrEmpty
  <2> QED BY <1>2, <2>1
<1>6. b = <<>> /\ wire = <<>>
  BY <1>2, <1>5, StrEmpty
<1>7. Cat(wire, x) = x /\ Cat(b, x) = x
  BY <1>6, CatEmpty
<1>8. Stream' = x
  BY <1>4, <1>7
<1>9. Arrives(x, "up", x)
  BY ArrivesUp
<1>10. toServer' \in [done : Str(Str(Nat)), part : Str(Nat), seq : Nat]
  BY StrEmpty DEF Nothing
<1> QED BY <1>1, <1>2, <1>7, <1>8, <1>9, <1>10 DEF Calm

LEMMA ServerAnswersStep ==
    ASSUME Inv, NEW from \in Skews(statement), ServerAnswers(from),
           fault' \in BOOLEAN, fault => fault', from # Never => fault'
    PROVE  Inv'
<1>0. toServer.seq + 1 \in Nat
  BY DEF Inv, Typed
<1>. PICK b \in Nat : b = toServer.seq + 1
  BY <1>0
<1>1. /\ Asked /\ skew' = from /\ toServer' = Nothing
      /\ bound' = BoundParameters(From(Last(toServer.done), 1), Len(statement.args),
                                  [i \in 1 .. Len(statement.args) |-> LongReceived(i)])
      /\ wire' = Cat(wire, Packed(Answer, b, from))
      /\ UNCHANGED <<pc, statement, queue, sequence, cachedBuf, bigBuf, buf, pktLen, prevData,
                     invalidSequence, packet, link, got>>
  BY DEF ServerAnswers, callVars, bufferVars, readVars, Cat
<1>2. /\ Typed /\ History /\ pc = "header" /\ Waiting /\ Unread /\ link = "up"
      /\ toServer.done = Messages(statement.args)
  BY <1>1, AskedWaiting DEF Inv, Waiting
<1>3. bound' = statement.args
  <2> DEFINE long == [i \in 1 .. Len(statement.args) |-> LongReceived(i)]
  <2>1. \A i \in 1 .. Len(statement.args) : long[i] = Heard(i, toServer.done)
    BY Links
  <2>2. statement \in Statements
    BY <1>2 DEF Typed
  <2> HIDE DEF long
  <2>3. BoundParameters(From(Last(toServer.done), 1), Len(statement.args), long) = statement.args
    BY <1>2, <2>1, <2>2, ParametersHeard
  <2> QED BY <1>1, <2>3 DEF long
<1>4. b \in Nat /\ sequence = b % Radix
  BY <1>2 DEF Typed, Waiting, Successor
<1>5. /\ statement \in Statements /\ All \in Str(Str(Nat)) /\ Answer = All /\ All = AnswerTo(statement)
      /\ This = 1 /\ 1 \in 1 .. Len(All) /\ 1 \in 1 .. PacketsOf(All[1]) /\ 1 \in PacketsOfThis
  BY <1>2, Now, Links DEF Typed, All, Unread, PacketsOfThis
<1> DEFINE x == Packed(All, b, from)
<1>6. x \in Str(Nat)
  BY <1>4, <1>5, PackedType
<1>7. wire' = Cat(wire, x)
  BY <1>1, <1>5
<1> HIDE DEF x
<1>8. /\ GoodBuffer(cachedBuf', bigBuf', buf') /\ wire' \in Str(Nat)
      /\ Arrives(Stream', link', x) /\ Calm'
      /\ toServer' \in [done : Str(Str(Nat)), part : Str(Nat), seq : Nat]
  BY <1>1, <1>6, <1>7, ServerActs
<1>9. Typed'
  BY <1>1, <1>2, <1>8 DEF Typed
<1>10. /\ from[1] \in Nat
       /\ from # Never => from[1] > 0
  BY <1>5, PointFacts
<1>11. History'
  <2>1. got' = <<>> /\ Len(got') = 0 /\ ~(from # Never /\ Len(got') >= from[1])
    BY <1>1, <1>2, <1>10, StrEmpty DEF Unread
  <2> QED BY <1>1, <1>2, <1>3, <2>1 DEF History, Unread
<1>12. /\ Place(statement, from, 1, 1) = 0 /\ Due(statement, from, b, 1, 1) = x
       /\ Behind(from, 1, 1) = 0
  BY <1>4, <1>5, DueFacts, NumberFacts DEF x
<1>13. /\ statement' = statement /\ All' = All /\ This' = 1 /\ skew' = from /\ PacketsOfThis' = PacketsOfThis
       /\ sequence' = sequence /\ prevData' = Nil /\ ~invalidSequence'
  BY <1>1, <1>2, <1>5 DEF All, This, PacketsOfThis, Unread
<1>14. Sent(All[1], 1) = <<>>
  <2>1. All[1] \in Str(Nat)
    BY <1>2, <1>5, Now
  <2> QED BY <1>5, <2>1, ChunkFacts
<1>15. AtHeader(b, 1)'
  <2>1. Arriving(Due(statement, skew, b, This, 1))'
    BY <1>8, <1>12, <1>13 DEF Arriving
  <2>2. sequence' = (b + Place(statement', skew', This', 1) + Behind(skew', This', 1)) % Radix
    <3>1. b + 0 + 0 = b
      BY <1>4
    <3> QED BY <1>4, <1>12, <1>13, <3>1
  <2>3. prevData' = Own(Sent(All'[This'], 1))
    BY <1>13, <1>14 DEF Nil
  <2>4. ~(1 > 1) /\ (skew'[2] > 1 => skew'[2] >= 1)
    <3>1. from[2] \in Nat
      BY <1>5, PointFacts
    <3> QED BY <1>13, <3>1
  <2> QED BY <1>13, <2>1, <2>2, <2>3, <2>4 DEF AtHeader
<1> QED BY <1>1, <1>2, <1>4, <1>5, <1>8, <1>9, <1>11, <1>13, <1>15 DEF Inv, Control

LEMMA ServerRefusesStep ==
    ASSUME Inv, ServerRefuses, fault' = fault
    PROVE  Inv'
<1>0. toServer.seq + 1 \in Nat
  BY DEF Inv, Typed
<1>. PICK n \in Nat : n = toServer.seq + 1
  BY <1>0
<1> DEFINE x == Framed(ErrMessage, n)
<1>1. /\ Asked /\ toServer' = Nothing /\ wire' = Cat(wire, x)
      /\ UNCHANGED <<pc, statement, queue, sequence, cachedBuf, bigBuf, buf, pktLen, prevData,
                     invalidSequence, packet, link, got, skew, bound>>
  BY DEF ServerRefuses, callVars, bufferVars, readVars, Cat
<1>2. Typed /\ History /\ pc = "header" /\ Waiting /\ Unread /\ link = "up"
  BY <1>1, AskedWaiting DEF Inv, Waiting
<1>3. n \in Nat /\ n % Radix = sequence
  BY <1>2 DEF Typed, Waiting, Successor
<1>4. x \in Str(Nat)
  BY <1>3, ErrorFacts
<1>5. /\ GoodBuffer(cachedBuf', bigBuf', buf') /\ wire' \in Str(Nat)
      /\ Arrives(Stream', link', x) /\ Calm'
      /\ toServer' \in [done : Str(Str(Nat)), part : Str(Nat), seq : Nat]
  <2> HIDE DEF x
  <2> QED BY <1>1, <1>4, ServerActs
<1>6. Typed'
  BY <1>1, <1>2, <1>5 DEF Typed
<1>7. History'
  <2>1. All' = All
    BY <1>1 DEF All
  <2> QED BY <1>1, <1>2, <2>1 DEF History
<1>8. Refusal'
  <2>1. Arriving(Framed(ErrMessage, n))'
    BY <1>5 DEF Arriving
  <2> QED BY <1>1, <1>2, <1>3, <1>5, <2>1 DEF Refusal, Unread
<1> QED BY <1>1, <1>2, <1>6, <1>7, <1>8 DEF Inv, Control

-----------------------------------------------------------------------------
(* The steps of the client that read. *)
LEMMA Wraps ==
    ASSUME NEW R \in Nat, R >= 8, NEW n \in Nat
    PROVE  /\ n % R \in Nat /\ (n + 1) % R \in Nat
           /\ ((n % R) + 1) % R = (n + 1) % R /\ (n + 1) % R # n % R
<1> DEFINE q == n \div R
           r == n % R
<1>1. n = R * q + r /\ r \in 0 .. R - 1 /\ q \in Nat
  BY Division
<1> HIDE DEF q, r
<1>2. R * q = q * R /\ q * R \in Nat
  BY <1>1, Products
<1>3. (q + 1) * R = q * R + R
  BY <1>1
<1> DEFINE x == q * R
<1>4. CASE r + 1 < R
  <2>1. r + 1 \in Nat /\ 0 \in Nat
    BY <1>1
  <2>2. (q * R + (r + 1)) % R = r + 1
    BY <1>1, <1>4, <2>1, DivisionUnique
  <2>3. (r + 1) % R = r + 1
    BY <1>4, <2>1, SmallRemainder
  <2>4. q * R + (r + 1) = n + 1
    <3>1. x \in Nat /\ n = x + r
      BY <1>1, <1>2
    <3> HIDE DEF x
    <3>2. x + (r + 1) = n + 1
      BY <1>1, <3>1
    <3> QED BY <3>2 DEF x
  <2>5. (n + 1) % R = r + 1
    BY <2>2, <2>4
  <2> QED BY <1>1, <2>1, <2>3, <2>5 DEF r
<1>5. CASE ~(r + 1 < R)
  <2>1. r + 1 = R
    BY <1>1, <1>5
  <2>2. ((q + 1) * R + 0) % R = 0 /\ (1 * R + 0) % R = 0
    <3>1. q + 1 \in Nat /\ 1 \in Nat /\ 0 \in Nat /\ 0 < R
      BY <1>1
    <3> QED BY <3>1, DivisionUnique
  <2>3. (q + 1) * R + 0 = n + 1 /\ 1 * R + 0 = R
    <3>1. x \in Nat /\ n = x + r /\ (q + 1) * R = x + R
      BY <1>1, <1>2, <1>3
    <3> DEFINE y == (q + 1) * R
    <3> HIDE DEF x, y
    <3>2. y = x + R
      BY <3>1 DEF y
    <3>3. y + 0 = n + 1
      BY <1>1, <2>1, <3>1, <3>2
    <3> QED BY <3>3 DEF y
  <2>4. (n + 1) % R = 0 /\ R % R = 0
    BY <2>2, <2>3
  <2>5. (r + 1) % R = 0
    BY <2>1, <2>4
  <2>6. r # 0
    BY <1>1, <2>1
  <2> QED BY <1>1, <2>4, <2>5, <2>6 DEF r
<1> QED BY <1>4, <1>5

LEMMA SuccessorType ==
    ASSUME NEW n \in Nat
    PROVE  /\ Successor(n) \in Nat /\ n % Radix \in Nat /\ Successor(n % Radix) = (n + 1) % Radix
           /\ (n + 1) % Radix # n % Radix
<1> DEFINE R == Radix
<1>1. R \in Nat /\ R >= 8
  BY RadixFacts
<1> HIDE DEF R
<1>2. n % R \in Nat /\ (n + 1) % R \in Nat /\ ((n % R) + 1) % R = (n + 1) % R /\ (n + 1) % R # n % R
  BY <1>1, Wraps
<1> QED BY <1>2 DEF Successor, R

LEMMA ReadOn ==
    ASSUME Typed, History, UNCHANGED <<statement, queue, toServer, bound, skew, fault, got>>,
           GoodBuffer(cachedBuf', bigBuf', buf'), wire' \in Str(Nat), sequence' \in Nat, pktLen' \in Nat,
           invalidSequence' \in BOOLEAN, link' \in {"up", "down"},
           link' = "down" => fault, invalidSequence' => fault
    PROVE  Typed' /\ History' /\ All' = All /\ This' = This /\ PacketsOfThis' = PacketsOfThis
<1>1. All' = All /\ This' = This /\ PacketsOfThis' = PacketsOfThis
  BY DEF All, This, PacketsOfThis
<1>2. Typed'
  BY DEF Typed
<1>3. History'
  BY <1>1 DEF History
<1> QED BY <1>1, <1>2, <1>3

(* A header is read. *)
LEMMA HeaderRead ==
    ASSUME Inv, ReadHeader, NEW h \in Str(Nat), Len(h) = Header, NEW y \in Str(Nat), Arriving(Cat(h, y)),
           NEW seq \in Nat, seq = h[Header], NEW len \in Nat, len = Number(Part(h, 0, LenBytes)),
           seq # sequence => fault
    PROVE  \/ Close /\ ((seq # sequence /\ prevData # Nil) \/ (len = 0 /\ prevData = Nil))
           \/ /\ ~((seq # sequence /\ prevData # Nil) \/ (len = 0 /\ prevData = Nil))
              /\ Typed' /\ History' /\ All' = All /\ This' = This /\ PacketsOfThis' = PacketsOfThis
              /\ Arriving(y)'
              /\ sequence' = Successor(seq) /\ pktLen' = len
              /\ invalidSequence' <=> (invalidSequence \/ seq # sequence)
              /\ len = 0 => pc' = "row" /\ packet' = prevData
              /\ len # 0 => pc' = "body"
              /\ UNCHANGED <<statement, cachedBuf, bigBuf, prevData, toServer, link, skew, fault, got>>
<1> DEFINE rest == SliceOf(buf.arr, buf.off + Header, buf.len - Header)
           bad  == (seq # sequence /\ prevData # Nil) \/ (len = 0 /\ prevData = Nil)
<1>1. Typed /\ History /\ pc = "header" /\ Need = Header /\ buf.len >= Header
  BY DEF Inv, ReadHeader, Need
<1>2. buf.len \in Nat
  BY <1>1, StreamFacts
<1>3. /\ BytesOf(cachedBuf, bigBuf, SliceOf(buf.arr, buf.off, Header)) = h
      /\ GoodBuffer(cachedBuf, bigBuf, rest)
      /\ Arrives(Cat(BytesOf(cachedBuf, bigBuf, rest), wire), link, y)
  <2>1. Len(h) <= buf.len
    BY <1>1, <1>2, Sizes
  <2> QED BY <1>1, <2>1, Reading
<1>4. Bytes(Taken) = h /\ Consumed = rest
  BY <1>1, <1>3, Links DEF Taken, Consumed
<1>5. Bytes(Taken)[Header] = seq /\ Number(Part(Bytes(Taken), 0, LenBytes)) = len
  BY <1>4
<1>6. IF bad THEN Close
      ELSE /\ buf' = rest
           /\ sequence' = Successor(seq)
           /\ invalidSequence' = (invalidSequence \/ seq # sequence)
           /\ pktLen' = len
           /\ IF len = 0 THEN Returns(prevData)
                         ELSE pc' = "body" /\ UNCHANGED packet
           /\ UNCHANGED <<callVars, cachedBuf, bigBuf, prevData, netVars, got>>
  BY <1>4, <1>5 DEF ReadHeader
<1>7. CASE bad
  BY <1>6, <1>7
<1>8. CASE ~bad
  <2>1. /\ buf' = rest /\ sequence' = Successor(seq) /\ pktLen' = len
        /\ invalidSequence' = (invalidSequence \/ seq # sequence)
        /\ len = 0 => pc' = "row" /\ packet' = prevData
        /\ len # 0 => pc' = "body"
        /\ UNCHANGED <<statement, queue, cachedBuf, bigBuf, prevData, toServer, wire, link, bound, skew, fault, got>>
    <3> HIDE DEF bad, rest
    <3> QED BY <1>6, <1>8 DEF Returns, callVars, netVars
  <2>2. GoodBuffer(cachedBuf', bigBuf', buf') /\ Arriving(y)'
    <3> HIDE DEF rest
    <3>1. Stream' = Cat(BytesOf(cachedBuf, bigBuf, rest), wire)
      BY <2>1 DEF Stream
    <3> QED BY <1>3, <2>1, <3>1 DEF Arriving
  <2>3. sequence' \in Nat
    BY <2>1, SuccessorType
  <2>4. invalidSequence' \in BOOLEAN /\ (invalidSequence' => fault)
        /\ (invalidSequence' <=> (invalidSequence \/ seq # sequence))
    BY <1>1, <2>1 DEF Typed, History
  <2>5. link' \in {"up", "down"} /\ (link' = "down" => fault) /\ wire' \in Str(Nat) /\ pktLen' \in Nat
    BY <1>1, <2>1 DEF Typed, History
  <2>6. Typed' /\ History' /\ All' = All /\ This' = This /\ PacketsOfThis' = PacketsOfThis
    BY <1>1, <2>1, <2>2, <2>3, <2>4, <2>5, ReadOn
  <2> QED BY <1>8, <2>1, <2>2, <2>4, <2>6
<1> QED BY <1>7, <1>8

(* A client that waits and finds something to read finds the last error
   message of a connection that has broken. *)
LEMMA WaitingRefused ==
    ASSUME Inv, Waiting, buf.len >= Header
    PROVE  Refusal
<1>1. Typed /\ History /\ Unread /\ Arriving(<<>>)
  BY DEF Inv, Waiting
<1>2. link = "down"
  <2>1. SUFFICES ASSUME link = "up" PROVE FALSE
    BY <1>1 DEF Typed
  <2>2. Stream = <<>>
    BY <1>1, <2>1, StreamFacts, StrEmpty
  <2>3. Len(Stream) = 0 /\ Len(Stream) = buf.len + Len(wire) /\ buf.len \in Nat /\ Len(wire) \in Nat
    BY <1>1, <2>2, StreamFacts, StrEmpty
  <2> QED BY <2>3, Sizes
<1>3. Arriving(Framed(ErrMessage, 0))
  BY <1>1, <1>2, StreamFacts, ArrivesLast DEF Arriving, Farewell
<1>4. fault /\ 0 \in Nat
  BY <1>1, <1>2 DEF History
<1> QED BY <1>1, <1>2, <1>3, <1>4 DEF Refusal, Calm

LEMMA HeaderOfErrorStep ==
    ASSUME Inv, ReadHeader, Refusal
    PROVE  Inv'
<1>1. Calm /\ Unread
  BY DEF Refusal
<1>2. PICK x \in Nat : Arriving(Framed(ErrMessage, x)) /\ (fault \/ x % Radix = sequence)
  BY DEF Refusal
<1> DEFINE h == HeaderOf(ErrMessage, x)
           seq == x % Radix
           len == Len(ErrMessage)
<1>3. /\ h \in Str(Nat) /\ Len(h) = Header /\ h[Header] = seq /\ Number(Part(h, 0, LenBytes)) = len
      /\ Framed(ErrMessage, x) = Cat(h, ErrMessage)
  BY ErrorFacts
<1>4. ErrMessage \in Str(Nat) /\ len \in Nat /\ len # 0
  <2>1. ErrMessage \in Str(Nat) /\ Len(ErrMessage) > 0
    BY ShortMessages
  <2>2. Len(ErrMessage) \in Nat
    BY <2>1, StrLen
  <2> QED BY <2>1, <2>2
<1>5. seq \in Nat /\ (seq # sequence => fault)
  BY <1>2, SuccessorType
<1>6. Arriving(Cat(h, ErrMessage)) /\ prevData = Nil
  BY <1>1, <1>2, <1>3 DEF Unread
<1> HIDE DEF h, seq, len
<1>7. /\ Typed' /\ History' /\ Arriving(ErrMessage)' /\ pktLen' = len /\ pc' = "body"
      /\ UNCHANGED <<statement, prevData, toServer, link, skew, got>>
  BY <1>3, <1>4, <1>5, <1>6, HeaderRead
<1>8. Calm' /\ ErrorBody'
  BY <1>1, <1>7 DEF Calm, ErrorBody, Unread, len
<1> QED BY <1>7, <1>8 DEF Inv, Control

LEMMA PacketNumbers ==
    ASSUME Typed, NEW b \in Nat, NEW k \in PacketsOfThis
    PROVE  LET o == Off(skew, This, k)
               q == Place(statement, skew, This, k)
           IN  /\ o \in {0, 1} /\ Behind(skew, This, k) \in {0, 1}
               /\ skew # <<This, k>> => o = Behind(skew, This, k)
               /\ skew = <<This, k>> => o = 1 /\ Behind(skew, This, k) = 0
               /\ Behind(skew, This, k + 1) = o
               /\ Place(statement, skew, This, k + 1) = q + 1
               /\ k = PacketsOf(All[This]) =>
                     /\ Behind(skew, This + 1, 1) = o
                     /\ Place(statement, skew, This + 1, 1) = q + 1
                     /\ Due(statement, skew, b, This + 1, 1) = Due(statement, skew, b, This, k + 1)
               /\ skew[1] \in Nat /\ skew[2] \in Nat /\ skew = <<skew[1], skew[2]>>
               /\ skew[1] = This => skew # Never /\ skew[2] > 0 /\ skew[2] <= PacketsOf(All[This])
<1>1. /\ statement \in Statements /\ skew \in Skews(statement)
      /\ This \in 1 .. Len(AnswerTo(statement)) /\ All = AnswerTo(statement)
      /\ k \in 1 .. PacketsOf(AnswerTo(statement)[This]) /\ This > 0 /\ Len(AnswerTo(statement)) \in Nat
  BY Now DEF Typed, All, PacketsOfThis
<1>2. /\ Off(skew, This, k) \in {0, 1} /\ Behind(skew, This, k) \in {0, 1}
      /\ skew # <<This, k>> => Off(skew, This, k) = Behind(skew, This, k)
      /\ skew = <<This, k>> => Off(skew, This, k) = 1 /\ Behind(skew, This, k) = 0
      /\ Behind(skew, This, k + 1) = Off(skew, This, k)
      /\ k = PacketsOf(AnswerTo(statement)[This]) => Behind(skew, This + 1, 1) = Off(skew, This, k)
  BY <1>1, NumberFacts
<1>3. /\ Place(statement, skew, This, k + 1) = Place(statement, skew, This, k) + 1
      /\ k = PacketsOf(AnswerTo(statement)[This]) =>
            /\ Place(statement, skew, This + 1, 1) = Place(statement, skew, This, k) + 1
            /\ Due(statement, skew, b, This + 1, 1) = Due(statement, skew, b, This, k + 1)
  <2>. PICK s, f, j : s = statement /\ f = skew /\ j = This
    OBVIOUS
  <2>1. /\ s \in Statements /\ f \in Skews(s) /\ j \in 1 .. Len(AnswerTo(s))
        /\ k \in 1 .. PacketsOf(AnswerTo(s)[j])
    BY <1>1
  <2>2. /\ Place(s, f, j, k + 1) = Place(s, f, j, k) + 1
        /\ k = PacketsOf(AnswerTo(s)[j]) =>
              /\ Place(s, f, j + 1, 1) = Place(s, f, j, k) + 1
              /\ Due(s, f, b, j + 1, 1) = Due(s, f, b, j, k + 1)
    BY <2>1, DueFacts
  <2> QED BY <2>2
<1>4. /\ skew[1] \in Nat /\ skew[2] \in Nat /\ skew = <<skew[1], skew[2]>>
      /\ \/ skew = Never /\ skew[1] = 0 /\ skew[2] = 0
         \/ /\ skew # Never /\ skew[1] \in 1 .. Len(AnswerTo(statement)) /\ skew[2] > 0
            /\ skew[2] <= PacketsOf(AnswerTo(statement)[skew[1]])
  BY <1>1, PointFacts
<1>5. skew[1] = This => skew # Never /\ skew[2] > 0 /\ skew[2] <= PacketsOf(AnswerTo(statement)[This])
  BY <1>1, <1>4
<1> QED BY <1>1, <1>2, <1>3, <1>4, <1>5

LEMMA LastMessage ==
    ASSUME Typed, This = Len(All)
    PROVE  /\ All[This] = EOFMessage
           /\ Len(All[This]) % MaxPacket # 0
<1>1. All[This] = EOFMessage
  BY AnswerFacts DEF Typed, All
<1>2. EOFLen \in Nat /\ EOFLen < MaxPacket /\ EOFLen > 0 /\ Len(EOFMessage) = EOFLen /\ MaxPacket \in Nat
  BY ShortMessages, Sizes
<1>3. EOFLen % MaxPacket = EOFLen
  BY <1>2, SmallRemainder
<1> QED BY <1>1, <1>2, <1>3

LEMMA OwnFacts ==
    ASSUME NEW v
    PROVE  (Own(v) = Nil => v = <<>>) /\ \A c, g : BytesOf(c, g, Own(v)) = v
<1>1. Own(v).own = v /\ Nil.own = <<>> /\ Own(v).arr = "own"
  BY DEF Own, Nil
<1>2. \A c, g : BytesOf(c, g, Own(v)) = v
  BY <1>1 DEF BytesOf
<1> QED BY <1>1, <1>2

LEMMA HeaderOfPacketStep ==
    ASSUME Inv, ReadHeader, Calm, NEW b \in Nat, NEW k \in PacketsOfThis, AtHeader(b, k)
    PROVE  Inv'
<1>1. Typed /\ History
  BY DEF Inv
<1>. PICK m : m = All[This]
  OBVIOUS
<1>. PICK c, q, o, d :
        /\ c = Chunk(m, k) /\ q = Place(statement, skew, This, k)
        /\ o = Off(skew, This, k) /\ d = Due(statement, skew, b, This, k + 1)
  OBVIOUS
<1>. PICK x : x = b + q + o
  OBVIOUS
<1>. PICK h, seq, len : h = HeaderOf(c, x) /\ seq = x % Radix /\ len = Len(c)
  OBVIOUS
<1>. PICK n : n = PacketsOf(m)
  OBVIOUS
<1>2. /\ c \in Str(Nat) /\ len \in Nat
      /\ len = IF k < n THEN MaxPacket ELSE Len(m) % MaxPacket
      /\ d \in Str(Nat) /\ Cat(c, d) \in Str(Nat) /\ q \in Nat /\ x \in Nat
      /\ h \in Str(Nat) /\ Len(h) = Header /\ h[Header] = seq /\ Number(Part(h, 0, LenBytes)) = len
      /\ Due(statement, skew, b, This, k) = Cat(h, Cat(c, d))
      /\ k \in Nat /\ k > 0
  BY <1>1, PacketFacts
<1>3. /\ o \in {0, 1} /\ Behind(skew, This, k) \in {0, 1}
      /\ skew # <<This, k>> => o = Behind(skew, This, k)
      /\ skew = <<This, k>> => o = 1 /\ Behind(skew, This, k) = 0
      /\ k = n =>
            /\ Behind(skew, This + 1, 1) = o
            /\ Place(statement, skew, This + 1, 1) = q + 1
            /\ Due(statement, skew, b, This + 1, 1) = d
      /\ skew[1] \in Nat /\ skew[2] \in Nat /\ skew = <<skew[1], skew[2]>>
      /\ skew[1] = This => skew # Never /\ skew[2] > 0 /\ skew[2] <= n
  BY <1>1, PacketNumbers
<1>4. /\ Arriving(Cat(h, Cat(c, d)))
      /\ sequence = (b + q + Behind(skew, This, k)) % Radix
      /\ prevData = Own(Sent(m, k))
      /\ invalidSequence <=> skew = <<This, 1>> /\ k > 1
      /\ skew[1] = This /\ skew[2] > 1 => skew[2] >= k
  BY <1>2 DEF AtHeader
<1>5. /\ m \in Str(Nat) /\ Len(m) > 0 /\ k \in 1 .. n /\ n \in Nat /\ k <= n
      /\ Len(m) \in Nat /\ MaxPacket \in Nat /\ MaxPacket > 0
  <2>1. m \in Str(Nat) /\ Len(m) > 0 /\ n \in Nat /\ k \in 1 .. n
    BY <1>1, Now DEF PacketsOfThis
  <2>2. Len(m) \in Nat /\ MaxPacket \in Nat /\ MaxPacket > 0
    BY <2>1, Sizes, StrLen
  <2> QED BY <2>1, <2>2
<1>6. /\ k = 1 => Sent(m, k) = <<>>
      /\ k > 1 => Len(Sent(m, k)) > 0
      /\ Sent(m, k) \in Str(Nat)
      /\ Cat(Sent(m, k), c) = IF k < n THEN Sent(m, k + 1) ELSE m
  BY <1>5, ChunkFacts
<1>7. prevData = Nil <=> k = 1
  <2>1. prevData = Nil => Sent(m, k) = <<>>
    BY <1>4, OwnFacts
  <2>2. Sent(m, k) = <<>> => ~(k > 1)
    <3>1. Sent(m, k) = <<>> => Len(Sent(m, k)) = 0
      BY <1>6, StrEmpty
    <3> QED BY <1>6, <3>1
  <2>3. k = 1 => prevData = Nil
    BY <1>4, <1>6 DEF Nil
  <2> QED BY <1>2, <2>1, <2>2, <2>3
<1>8. skew = <<This, k>> <=> skew[1] = This /\ skew[2] = k
  BY <1>3
<1>9. skew = <<This, 1>> <=> skew[1] = This /\ skew[2] = 1
  BY <1>3
<1>10. seq # sequence <=> skew = <<This, k>>
  <2>1. CASE skew = <<This, k>>
    <3>1. x = (b + q) + 1 /\ b + q \in Nat /\ sequence = (b + q) % Radix
      <4>1. b + q + 0 = b + q /\ b + q + 1 = (b + q) + 1 /\ b + q \in Nat
        BY <1>2
      <4> QED BY <1>3, <1>4, <2>1, <4>1
    <3>2. ((b + q) + 1) % Radix # (b + q) % Radix
      BY <3>1, SuccessorType
    <3> QED BY <2>1, <3>1, <3>2
  <2>2. CASE skew # <<This, k>>
    BY <1>3, <1>4, <2>2
  <2> QED BY <2>1, <2>2
<1>11. seq # sequence => fault
  BY <1>1, <1>3, <1>8, <1>10 DEF History
<1>12. seq \in Nat
  BY <1>2, SuccessorType
<1>13. len = 0 => k = n /\ c = <<>> /\ Sent(m, k) = m /\ Len(m) % MaxPacket = 0
  <2>1. SUFFICES ASSUME len = 0 PROVE k = n /\ c = <<>> /\ Sent(m, k) = m /\ Len(m) % MaxPacket = 0
    OBVIOUS
  <2>2. ~(k < n) /\ Len(m) % MaxPacket = 0
    <3>1. MaxPacket # 0
      BY <1>5
    <3>2. len = IF k < n THEN MaxPacket ELSE Len(m) % MaxPacket
      BY <1>2
    <3> QED BY <2>1, <3>1, <3>2
  <2>5. k = n
    <3>1. k \in Nat /\ n \in Nat /\ k <= n
      BY <1>2, <1>5
    <3> QED BY <2>2, <3>1
  <2>3. c = <<>>
    BY <1>2, <2>1, StrEmpty
  <2>4. Sent(m, k) = m
    BY <1>6, <2>2, <2>3, CatEmpty
  <2> QED BY <2>2, <2>3, <2>4, <2>5
<1>14. ~(len = 0 /\ prevData = Nil)
  <2>1. SUFFICES ASSUME len = 0, k = 1 PROVE FALSE
    BY <1>7
  <2>2. m = <<>>
    BY <1>6, <1>13, <2>1
  <2>3. Len(m) = 0
    BY <2>2, StrEmpty
  <2> QED BY <1>5, <2>3
<1>15. \/ Close /\ ((seq # sequence /\ prevData # Nil) \/ (len = 0 /\ prevData = Nil))
       \/ /\ ~((seq # sequence /\ prevData # Nil) \/ (len = 0 /\ prevData = Nil))
          /\ Typed' /\ History' /\ All' = All /\ This' = This /\ PacketsOfThis' = PacketsOfThis
          /\ Arriving(Cat(c, d))'
          /\ sequence' = Successor(seq) /\ pktLen' = len
          /\ invalidSequence' <=> (invalidSequence \/ seq # sequence)
          /\ len = 0 => pc' = "row" /\ packet' = prevData
          /\ len # 0 => pc' = "body"
          /\ UNCHANGED <<statement, cachedBuf, bigBuf, prevData, toServer, link, skew, fault, got>>
  BY <1>2, <1>4, <1>11, <1>12, HeaderRead
<1>16. CASE Close /\ ((seq # sequence /\ prevData # Nil) \/ (len = 0 /\ prevData = Nil))
  BY <1>11, <1>14, <1>16, ClosedStep
<1> DEFINE go ==
       /\ ~(seq # sequence /\ prevData # Nil)
       /\ Typed' /\ History' /\ All' = All /\ This' = This /\ PacketsOfThis' = PacketsOfThis
       /\ Arriving(Cat(c, d))'
       /\ sequence' = Successor(seq) /\ pktLen' = len
       /\ invalidSequence' <=> (invalidSequence \/ seq # sequence)
       /\ len = 0 => pc' = "row" /\ packet' = prevData
       /\ len # 0 => pc' = "body"
       /\ UNCHANGED <<statement, cachedBuf, bigBuf, prevData, toServer, link, skew, fault, got>>
<1>17. SUFFICES ASSUME go PROVE Inv'
  BY <1>15, <1>16
<1>18. sequence' = (b + q + 1 + o) % Radix
  <2>1. sequence' = (x + 1) % Radix
    BY <1>2, <1>17, SuccessorType
  <2>2. x + 1 = b + q + 1 + o
    BY <1>2, <1>3
  <2> QED BY <2>1, <2>2
<1>19. /\ invalidSequence' <=> skew = <<This, 1>>
       /\ skew[1] = This /\ skew[2] > 1 => skew[2] > k
  BY <1>2, <1>3, <1>4, <1>7, <1>8, <1>9, <1>10, <1>17
<1>20. Calm'
  BY <1>17 DEF Calm
<1>21. CASE len # 0
  <2>1. len > 0
    <3>1. len \in Nat
      BY <1>2
    <3> QED BY <1>21, <3>1
  <2>2. AtBody(b, k)'
    BY <1>4, <1>17, <1>18, <1>19, <2>1 DEF AtBody
  <2> QED BY <1>17, <1>20, <1>21, <2>2 DEF Inv, Control
<1>22. CASE len = 0
  <2>1. k = n /\ Sent(m, k) = m /\ Len(m) % MaxPacket = 0 /\ Cat(c, d) = d
    <3>1. k = n /\ Sent(m, k) = m /\ Len(m) % MaxPacket = 0 /\ c = <<>>
      BY <1>13, <1>22
    <3>2. d \in Str(Nat)
      BY <1>2
    <3> QED BY <3>1, <3>2, CatEmpty
  <2>2. Read' = m
    BY <1>4, <1>17, <1>22, <2>1, OwnFacts DEF Read
  <2>3. skew[1] = This => skew[2] = 1
    BY <1>2, <1>3, <1>5, <1>19, <2>1
  <2>4. This # Len(All)
    BY <1>1, <2>1, LastMessage
  <2>5. sequence' = (b + (q + 1) + o) % Radix
    BY <1>2, <1>3, <1>18
  <2>6. AtRow(b)'
    BY <1>3, <1>17, <2>1, <2>2, <2>3, <2>4, <2>5 DEF AtRow
  <2> QED BY <1>17, <1>20, <1>22, <2>6 DEF Inv, Control
<1> QED BY <1>21, <1>22

LEMMA ReadHeaderStep ==
    ASSUME Inv, ReadHeader
    PROVE  Inv'
<1>1. Typed /\ Control /\ pc = "header" /\ buf.len >= Header
  BY DEF Inv, ReadHeader, Need
<1>2. CASE Waiting
  BY <1>1, <1>2, WaitingRefused, HeaderOfErrorStep
<1>3. CASE Refusal
  BY <1>3, HeaderOfErrorStep
<1>4. CASE Calm /\ \E b \in Nat : \E k \in PacketsOfThis : AtHeader(b, k)
  BY <1>4, HeaderOfPacketStep
<1> QED BY <1>1, <1>2, <1>3, <1>4 DEF Control

(* The rest of a packet is read. *)
LEMMA BodyRead ==
    ASSUME Inv, ReadBody, NEW x \in Str(Nat), Len(x) = pktLen, NEW y \in Str(Nat), Arriving(Cat(x, y)),
           NEW p, prevData = Own(p)
    PROVE  \/ /\ pktLen = MaxPacket
              /\ Typed' /\ History' /\ All' = All /\ This' = This /\ PacketsOfThis' = PacketsOfThis
              /\ Arriving(y)'
              /\ prevData' = Own(Cat(p, x)) /\ pc' = "header"
              /\ UNCHANGED <<statement, sequence, invalidSequence, toServer, link, skew, got>>
           \/ pktLen # MaxPacket /\ Refused(Cat(p, x)) /\ Close
           \/ /\ pktLen # MaxPacket /\ ~Refused(Cat(p, x))
              /\ Typed' /\ History' /\ All' = All /\ This' = This /\ PacketsOfThis' = PacketsOfThis
              /\ Arriving(y)'
              /\ Read' = Cat(p, x) /\ pc' = "row"
              /\ link' = IF invalidSequence THEN "down" ELSE link
              /\ UNCHANGED <<statement, sequence, invalidSequence, toServer, skew, got>>
<1> DEFINE rest == SliceOf(buf.arr, buf.off + Len(x), buf.len - Len(x))
           taken == SliceOf(buf.arr, buf.off, Len(x))
           message == Cat(p, x)
<1>1. Typed /\ History /\ pc = "body" /\ Need = Len(x) /\ Len(x) <= buf.len
  <2>1. Typed /\ History /\ pc = "body" /\ Need = Len(x) /\ buf.len >= Len(x)
    BY DEF Inv, ReadBody, Need
  <2>2. buf.len \in Nat /\ Len(x) \in Nat
    BY <2>1, StreamFacts, StrLen
  <2> QED BY <2>1, <2>2
<1>2. /\ BytesOf(cachedBuf, bigBuf, taken) = x
      /\ GoodBuffer(cachedBuf, bigBuf, rest)
      /\ Arrives(Cat(BytesOf(cachedBuf, bigBuf, rest), wire), link, y)
  BY <1>1, Reading
<1>3. Taken = taken /\ Consumed = rest /\ Bytes(Taken) = x /\ Bytes(prevData) = p
  <2>1. Taken = taken /\ Consumed = rest
    BY <1>1 DEF Taken, Consumed
  <2>2. Bytes(taken) = x /\ Bytes(prevData) = BytesOf(cachedBuf, bigBuf, Own(p))
    BY <1>2, Links
  <2> QED BY <2>1, <2>2, OwnFacts
<1>4. Bytes(prevData) \o Bytes(Taken) = message
  BY <1>3 DEF Cat
<1> HIDE DEF rest, taken, message
<1>5. IF pktLen = MaxPacket
      THEN /\ prevData' = Own(message)
           /\ pc' = "header"
           /\ buf' = rest
           /\ UNCHANGED <<callVars, sequence, cachedBuf, bigBuf, pktLen,
                          invalidSequence, packet, netVars, got>>
      ELSE IF Refused(message) THEN Close
      ELSE /\ pc' = "row" /\ packet' = IF prevData = Nil THEN taken ELSE Own(message)
           /\ buf' = rest
           /\ link' = IF invalidSequence THEN "down" ELSE link
           /\ UNCHANGED <<callVars, sequence, cachedBuf, bigBuf, pktLen,
                          prevData, invalidSequence, toServer, wire, bound,
                          skew, fault, got>>
  BY <1>3, <1>4 DEF ReadBody, Kept, Returns
<1>6. ASSUME buf' = rest,
             UNCHANGED <<callVars, sequence, cachedBuf, bigBuf, pktLen, invalidSequence, toServer, wire,
                         bound, skew, fault, got>>,
             link' = link \/ (invalidSequence /\ link' = "down")
      PROVE  /\ Typed' /\ History' /\ All' = All /\ This' = This /\ PacketsOfThis' = PacketsOfThis
             /\ Arriving(y)'
             /\ UNCHANGED <<statement, sequence, invalidSequence, toServer, skew, got, cachedBuf, bigBuf>>
  <2>1. UNCHANGED <<statement, queue, toServer, bound, skew, fault, got, cachedBuf, bigBuf, wire,
                    sequence, pktLen, invalidSequence>>
    BY <1>6 DEF callVars
  <2>2. GoodBuffer(cachedBuf', bigBuf', buf')
    BY <1>2, <1>6, <2>1
  <2>3. Arriving(y)'
    <3>1. Stream' = Cat(BytesOf(cachedBuf, bigBuf, rest), wire)
      BY <1>6, <2>1 DEF Stream
    <3> DEFINE s == Cat(BytesOf(cachedBuf, bigBuf, rest), wire)
    <3>2. Arrives(s, link, y)
      BY <1>2
    <3> HIDE DEF s
    <3>3. Arrives(s, link', y)
      BY <1>6, <3>2, ArrivesAnyway
    <3> QED BY <3>1, <3>3 DEF Arriving, s
  <2>4. /\ wire' \in Str(Nat) /\ sequence' \in Nat /\ pktLen' \in Nat /\ invalidSequence' \in BOOLEAN
        /\ link' \in {"up", "down"} /\ (link' = "down" => fault) /\ (invalidSequence' => fault)
    BY <1>1, <1>6, <2>1 DEF Typed, History
  <2>5. Typed' /\ History' /\ All' = All /\ This' = This /\ PacketsOfThis' = PacketsOfThis
    BY <1>1, <2>1, <2>2, <2>4, ReadOn
  <2> QED BY <2>1, <2>3, <2>5
<1>7. CASE pktLen = MaxPacket
  <2>1. /\ prevData' = Own(message) /\ pc' = "header" /\ buf' = rest
        /\ UNCHANGED <<callVars, sequence, cachedBuf, bigBuf, pktLen, invalidSequence, toServer, wire,
                       bound, skew, fault, got>>
        /\ link' = link
    BY <1>5, <1>7 DEF netVars
  <2> QED BY <1>6, <1>7, <2>1 DEF message
<1>8. CASE pktLen # MaxPacket /\ Refused(message)
  BY <1>5, <1>8 DEF message
<1>9. CASE pktLen # MaxPacket /\ ~Refused(message)
  <2>1. /\ pc' = "row" /\ packet' = IF prevData = Nil THEN taken ELSE Own(message)
        /\ buf' = rest
        /\ link' = IF invalidSequence THEN "down" ELSE link
        /\ UNCHANGED <<callVars, sequence, cachedBuf, bigBuf, pktLen, invalidSequence, toServer, wire,
                       bound, skew, fault, got>>
    BY <1>5, <1>9
  <2>2. link' = link \/ (invalidSequence /\ link' = "down")
    BY <2>1
  <2>3. /\ Typed' /\ History' /\ All' = All /\ This' = This /\ PacketsOfThis' = PacketsOfThis
        /\ Arriving(y)'
        /\ UNCHANGED <<statement, sequence, invalidSequence, toServer, skew, got, cachedBuf, bigBuf>>
    BY <1>6, <2>1, <2>2
  <2>4. Read' = message
    <3>1. Read' = BytesOf(cachedBuf, bigBuf, packet')
      BY <2>3 DEF Read
    <3>2. CASE prevData = Nil
      <4>1. p = <<>> /\ Cat(<<>>, x) = x
        BY <3>2, OwnFacts, CatEmpty
      <4>2. packet' = taken
        BY <2>1, <3>2
      <4> QED BY <1>2, <3>1, <4>1, <4>2 DEF message
    <3>3. CASE prevData # Nil
      <4>1. packet' = Own(message)
        BY <2>1, <3>3
      <4> QED BY <3>1, <4>1, OwnFacts
    <3> QED BY <3>2, <3>3
  <2> QED BY <1>9, <2>1, <2>3, <2>4 DEF message
<1> QED BY <1>7, <1>8, <1>9

LEMMA BodyOfErrorStep ==
    ASSUME Inv, ReadBody, Calm, ErrorBody
    PROVE  Inv'
<1>1. /\ ErrMessage \in Str(Nat) /\ Len(ErrMessage) < MaxPacket /\ ErrMessage[1] = iERR
      /\ Len(ErrMessage) = pktLen /\ pktLen # MaxPacket
  <2>1. ErrMessage \in Str(Nat) /\ Len(ErrMessage) < MaxPacket /\ ErrMessage[1] = iERR
    BY ShortMessages
  <2>2. Len(ErrMessage) \in Nat /\ MaxPacket \in Nat
    BY <2>1, Sizes, StrLen
  <2>3. Len(ErrMessage) # MaxPacket
    BY <2>1, <2>2
  <2> QED BY <2>1, <2>3 DEF ErrorBody
<1>2. <<>> \in Str(Nat) /\ Cat(ErrMessage, <<>>) = ErrMessage /\ Cat(<<>>, ErrMessage) = ErrMessage
  BY <1>1, StrEmpty, CatEmpty
<1>3. Arriving(Cat(ErrMessage, <<>>)) /\ prevData = Own(<<>>)
  BY <1>2 DEF ErrorBody, Nil
<1>4. ~Refused(ErrMessage)
  BY <1>1 DEF Refused
<1>5. /\ Typed' /\ History' /\ Arriving(<<>>)' /\ Read' = ErrMessage /\ pc' = "row"
      /\ link' = IF invalidSequence THEN "down" ELSE link
      /\ UNCHANGED <<invalidSequence, toServer, skew, got>>
  BY <1>1, <1>2, <1>3, <1>4, BodyRead
<1>6. Calm' /\ ErrorRow'
  BY <1>5 DEF Calm, ErrorRow, ErrorBody
<1> QED BY <1>5, <1>6 DEF Inv, Control

LEMMA BodyOfPacketStep ==
    ASSUME Inv, ReadBody, Calm, NEW b \in Nat, NEW k \in PacketsOfThis, AtBody(b, k)
    PROVE  Inv'
<1>1. Typed /\ History
  BY DEF Inv
<1>. PICK m : m = All[This]
  OBVIOUS
<1>. PICK c, q, o, d :
        /\ c = Chunk(m, k) /\ q = Place(statement, skew, This, k)
        /\ o = Off(skew, This, k) /\ d = Due(statement, skew, b, This, k + 1)
  OBVIOUS
<1>. PICK n, p : n = PacketsOf(m) /\ p = Sent(m, k)
  OBVIOUS
<1>2. /\ c \in Str(Nat) /\ Len(c) \in Nat
      /\ Len(c) = IF k < n THEN MaxPacket ELSE Len(m) % MaxPacket
      /\ d \in Str(Nat) /\ q \in Nat /\ k \in Nat /\ k > 0
  BY <1>1, PacketFacts
<1>3. /\ o \in {0, 1} /\ Behind(skew, This, k + 1) = o
      /\ Place(statement, skew, This, k + 1) = q + 1
      /\ k = n =>
            /\ Behind(skew, This + 1, 1) = o
            /\ Place(statement, skew, This + 1, 1) = q + 1
            /\ Due(statement, skew, b, This + 1, 1) = d
      /\ skew[1] \in Nat /\ skew[2] \in Nat /\ skew = <<skew[1], skew[2]>>
      /\ skew[1] = This => skew # Never /\ skew[2] > 0 /\ skew[2] <= n
  BY <1>1, PacketNumbers
<1>4. /\ Arriving(Cat(c, d))
      /\ pktLen = Len(c) /\ pktLen > 0
      /\ sequence = (b + q + 1 + o) % Radix
      /\ prevData = Own(p)
      /\ invalidSequence <=> skew = <<This, 1>>
      /\ skew[1] = This /\ skew[2] > 1 => skew[2] > k
  BY DEF AtBody
<1>5. /\ m \in Str(Nat) /\ k \in 1 .. n /\ n \in Nat /\ k <= n
      /\ Len(m) \in Nat /\ MaxPacket \in Nat /\ MaxPacket > 0 /\ PacketsOfThis = 1 .. n
  <2>1. m \in Str(Nat) /\ n \in Nat /\ k \in 1 .. n /\ PacketsOfThis = 1 .. n
    BY <1>1, Now DEF PacketsOfThis
  <2>2. Len(m) \in Nat /\ MaxPacket \in Nat /\ MaxPacket > 0
    BY <2>1, Sizes, StrLen
  <2> QED BY <2>1, <2>2
<1>6. Cat(p, c) = IF k < n THEN Sent(m, k + 1) ELSE m
  BY <1>5, ChunkFacts
<1>7. pktLen = MaxPacket <=> k < n
  <2>1. CASE k < n
    BY <1>2, <1>4, <2>1
  <2>2. CASE ~(k < n)
    <3>1. Len(m) % MaxPacket \in 0 .. MaxPacket - 1
      BY <1>5, PacketCount
    <3>. PICK r : r = Len(m) % MaxPacket
      OBVIOUS
    <3>2. r # MaxPacket
      <4> DEFINE M == MaxPacket
      <4>1. M \in Nat /\ r \in 0 .. M - 1
        BY <1>5, <3>1
      <4> HIDE DEF M
      <4>2. r # M
        BY <4>1
      <4> QED BY <4>2 DEF M
    <3> QED BY <1>2, <1>4, <2>2, <3>2
  <2> QED BY <2>1, <2>2
<1>8. ~(k < n) => k = n
  BY <1>2, <1>5
<1>9. m[1] # iERR
  <2>1. statement \in Statements /\ This \in 1 .. Len(statement.rows) + 1 /\ All = AnswerTo(statement)
    BY <1>1, Now DEF Typed, All
  <2> QED BY <2>1, AnswerFacts
<1>10. (b + (q + 1)) + o = b + q + 1 + o /\ k + 1 \in Nat
  BY <1>2, <1>3
<1>11. CASE k < n
  <2>1. /\ Typed' /\ History' /\ All' = All /\ This' = This /\ PacketsOfThis' = PacketsOfThis
        /\ Arriving(d)'
        /\ prevData' = Own(Cat(p, c)) /\ pc' = "header"
        /\ UNCHANGED <<statement, sequence, invalidSequence, toServer, link, skew, got>>
    BY <1>2, <1>4, <1>7, <1>11, BodyRead
  <2>2. k + 1 \in 1 .. n /\ k + 1 > 1 /\ \A g \in Nat : g > k => g >= k + 1
    BY <1>2, <1>5, <1>11
  <2>3. AtHeader(b, k + 1)'
    <3>1. sequence' = (b + Place(statement, skew, This, k + 1) + Behind(skew, This, k + 1)) % Radix
      BY <1>3, <1>4, <1>10, <2>1
    <3>2. prevData' = Own(Sent(m, k + 1))
      BY <1>6, <1>11, <2>1
    <3>3. invalidSequence' <=> skew = <<This, 1>> /\ k + 1 > 1
      BY <1>4, <2>1, <2>2
    <3>4. skew[1] = This /\ skew[2] > 1 => skew[2] >= k + 1
      BY <1>3, <1>4, <2>2
    <3> QED BY <2>1, <3>1, <3>2, <3>3, <3>4 DEF AtHeader
  <2>4. k + 1 \in PacketsOfThis'
    BY <1>5, <2>1, <2>2
  <2>5. Calm'
    BY <2>1 DEF Calm
  <2> QED BY <2>1, <2>3, <2>4, <2>5 DEF Inv, Control
<1>12. CASE ~(k < n)
  <2>1. k = n /\ Cat(p, c) = m /\ pktLen # MaxPacket /\ Len(m) % MaxPacket # 0
    <3>1. Len(m) % MaxPacket = pktLen
      BY <1>2, <1>4, <1>12
    <3>2. pktLen # 0
      BY <1>2, <1>4
    <3> QED BY <1>6, <1>7, <1>8, <1>12, <3>1, <3>2
  <2>2. CASE Refused(m) /\ Close
    <3>1. fault
      BY <1>1, <2>2 DEF Refused, History
    <3> QED BY <2>2, <3>1, ClosedStep
  <2>3. CASE ~Refused(m)
    <3>1. ~invalidSequence
      BY <1>9, <2>3 DEF Refused
    <3>2. /\ Typed' /\ History' /\ All' = All /\ This' = This /\ PacketsOfThis' = PacketsOfThis
          /\ Arriving(d)'
          /\ Read' = m /\ pc' = "row"
          /\ link' = link
          /\ UNCHANGED <<statement, sequence, invalidSequence, toServer, skew, got>>
      BY <1>2, <1>4, <2>1, <2>3, <3>1, BodyRead
    <3>3. skew[1] # This
      <4>1. SUFFICES ASSUME skew[1] = This PROVE FALSE
        OBVIOUS
      <4>2. skew[2] \in Nat /\ skew[2] > 0 /\ skew[2] <= k /\ skew[2] # 1
        BY <1>3, <1>4, <2>1, <3>1, <4>1
      <4> QED BY <1>2, <1>4, <4>1, <4>2
    <3>4. AtRow(b)'
      <4>1. sequence' = (b + Place(statement, skew, This + 1, 1) + Behind(skew, This + 1, 1)) % Radix
        BY <1>3, <1>4, <1>10, <2>1, <3>2
      <4>2. Due(statement, skew, b, This + 1, 1) = d
        BY <1>3, <2>1
      <4> QED BY <3>1, <3>2, <3>3, <4>1, <4>2 DEF AtRow
    <3>5. Calm'
      BY <3>2 DEF Calm
    <3> QED BY <3>2, <3>4, <3>5 DEF Inv, Control
  <2> QED BY <1>2, <1>4, <2>1, <2>2, <2>3, BodyRead
<1> QED BY <1>11, <1>12

LEMMA ReadBodyStep ==
    ASSUME Inv, ReadBody
    PROVE  Inv'
<1>1. Control /\ pc = "body"
  BY DEF Inv, ReadBody
<1>2. CASE Calm /\ ErrorBody
  BY <1>2, BodyOfErrorStep
<1>3. CASE Calm /\ \E b \in Nat : \E k \in PacketsOfThis : AtBody(b, k)
  BY <1>3, BodyOfPacketStep
<1> QED BY <1>1, <1>2, <1>3 DEF Control

(* The end of an answer, or an error. *)
LEMMA ScanEndStep ==
    ASSUME Inv, Scan, NEW data, Read = data, data[1] = iERR \/ (data[1] = iEOF /\ Len(data) = EOFLen),
           Arriving(<<>>), Calm, invalidSequence => link = "down"
    PROVE  Inv'
<1>1. Typed /\ History /\ Bytes(packet) = data
  BY Links DEF Inv, Read
<1>2. /\ pc' = IF invalidSequence THEN "closed" ELSE "idle"
      /\ invalidSequence' = FALSE
      /\ UNCHANGED <<statement, queue, sequence, cachedBuf, bigBuf, buf, pktLen, toServer, wire, link,
                     bound, skew, fault, got>>
  BY <1>1 DEF Scan, callVars, bufferVars, netVars
<1>3. Typed'
  BY <1>1, <1>2 DEF Typed
<1>4. History'
  <2>1. All' = All
    BY <1>2 DEF All
  <2> QED BY <1>1, <1>2, <2>1 DEF History
<1>5. Arriving(<<>>)' /\ Calm'
  <2>1. Stream' = Stream
    BY <1>2 DEF Stream
  <2> QED BY <1>2, <2>1 DEF Arriving, Calm
<1>6. CASE invalidSequence
  <2>1. pc' = "closed" /\ fault' /\ link' = "down"
    BY <1>1, <1>2, <1>6 DEF History
  <2> QED BY <1>3, <1>4, <2>1 DEF Inv, Control
<1>7. CASE ~invalidSequence
  <2>1. pc' = "idle" /\ Idle'
    BY <1>2, <1>5, <1>7 DEF Idle
  <2> QED BY <1>3, <1>4, <2>1 DEF Inv, Control
<1> QED BY <1>6, <1>7

(* A row. *)
LEMMA ScanRowStep ==
    ASSUME Inv, Scan, Calm, NEW b \in Nat, AtRow(b), This # Len(All)
    PROVE  Inv'
<1>1. Typed /\ History /\ statement \in Statements
  BY DEF Inv, Typed
<1>. PICK s, n, rows : s = statement /\ n = Len(got) /\ rows = statement.rows
  OBVIOUS
<1>. PICK m : m = All[This]
  OBVIOUS
<1>2. /\ n \in Nat /\ Len(rows) \in Nat /\ n + 1 \in 1 .. Len(rows) /\ This = n + 1 /\ n < Len(rows)
      /\ got = Part(rows, 0, n) /\ Len(All) = Len(rows) + 1 /\ n + 1 \in 0 .. Len(rows)
  <2>1. /\ n \in Nat /\ Len(All) = Len(rows) + 1 /\ This = n + 1 /\ n \in 0 .. Len(rows)
        /\ got = Part(rows, 0, n) /\ Len(All) \in Nat
    BY <1>1, Now DEF This, Typed
  <2>2. Len(rows) \in Nat
    BY <1>1, StatementFacts
  <2> QED BY <2>1, <2>2
<1>3. /\ Read = m /\ m[1] # iERR /\ ~(m[1] = iEOF /\ Len(m) = EOFLen) /\ RowOf(s, m) = rows[n + 1]
      /\ All = AnswerTo(s)
  <2>1. m = RowBytes(s, rows[n + 1]) /\ All = AnswerTo(s)
    BY <1>1, <1>2, AnswerFacts DEF All
  <2>2. Read = m
    BY DEF AtRow
  <2> QED BY <1>1, <1>2, <2>1, <2>2, RowFacts
<1>4. Bytes(packet) = m /\ Decoded(m) = rows[n + 1]
  BY <1>3, Links DEF Read
<1>5. /\ pc' = "header" /\ got' = Append(got, rows[n + 1])
      /\ prevData' = Nil /\ invalidSequence' = FALSE
      /\ UNCHANGED <<statement, queue, sequence, cachedBuf, bigBuf, buf, pktLen, toServer, wire, link,
                     bound, skew, fault>>
  BY <1>3, <1>4 DEF Scan, callVars, bufferVars, netVars
<1>6. got' = Part(rows, 0, n + 1) /\ Len(got') = n + 1
  <2>. PICK S : S = Seq([null : BOOLEAN, val : Seq(Int)])
    OBVIOUS
  <2>1. rows \in Str(S)
    BY <1>1, StatementFacts DEF Str
  <2>2. Part(rows, 0, n + 1) = Cat(Part(rows, 0, n), <<rows[n + 1]>>)
    BY <1>2, <2>1, PartNext
  <2>3. Part(rows, 0, n) \in Seq(S)
    <3>1. n \in 0 .. Len(rows)
      BY <1>2
    <3> QED BY <2>1, <3>1, PartFrom DEF Str
  <2>4. Len(Part(rows, 0, n + 1)) = n + 1
    BY <1>2, <2>1, PartFrom
  <2>5. rows[n + 1] \in S
    BY <1>2, <2>1 DEF Str
  <2> DEFINE p == Part(rows, 0, n)
             r == rows[n + 1]
  <2>6. p \in Seq(S) /\ r \in S
    BY <2>3, <2>5
  <2> HIDE DEF p, r
  <2>7. Append(p, r) = p \o <<r>>
    BY <2>6
  <2>8. Append(p, r) = Cat(p, <<r>>)
    BY <2>7 DEF Cat
  <2> QED BY <1>2, <1>5, <2>2, <2>4, <2>8 DEF p, r
<1>7. This' = (n + 1) + 1 /\ All' = All
  BY <1>5, <1>6 DEF This, All
<1>8. /\ skew \in Skews(s) /\ skew[1] \in Nat /\ skew[2] \in Nat
  BY <1>1, PointFacts DEF Typed
<1>9. Typed'
  <2>1. Len(got') \in 0 .. Len(statement'.rows) /\ got' = Part(statement'.rows, 0, Len(got'))
    BY <1>2, <1>5, <1>6
  <2>2. invalidSequence' \in BOOLEAN
    BY <1>5
  <2> QED BY <1>1, <1>5, <2>1, <2>2 DEF Typed
<1>10. History'
  <2>1. skew # Never /\ Len(got') >= skew[1] =>
           Len(All[skew[1]]) % MaxPacket = 0 /\ skew[2] = 1
    <3>1. CASE skew[1] = n + 1
      BY <1>2, <3>1 DEF AtRow
    <3>2. CASE skew[1] # n + 1
      <4>1. n + 1 >= skew[1] => n >= skew[1]
        BY <1>2, <1>8, <3>2
      <4> QED BY <1>1, <1>6, <4>1 DEF History
    <3> QED BY <3>1, <3>2
  <2> QED BY <1>1, <1>5, <1>7, <2>1 DEF History
<1>11. AtHeader(b, 1)' /\ 1 \in PacketsOfThis'
  <2>. PICK t : t = (n + 1) + 1
    OBVIOUS
  <2>1. /\ PacketsOf(All[t]) \in Nat /\ PacketsOf(All[t]) > 0 /\ All[t] \in Str(Nat)
    <3>1. t \in 1 .. Len(rows) + 1
      BY <1>2
    <3>2. All[t] \in Str(Nat)
      BY <1>1, <1>3, <3>1, AnswerFacts
    <3> QED BY <3>2, PacketCount
  <2>2. 1 \in 1 .. PacketsOf(All[t])
    BY <2>1
  <2>3. Sent(All[t], 1) = <<>>
    BY <2>1, <2>2, ChunkFacts
  <2>4. prevData' = Own(Sent(All[t], 1))
    BY <1>5, <2>3 DEF Nil
  <2>5. Arriving(Due(statement, skew, b, t, 1))'
    <3>1. Arriving(Due(statement, skew, b, t, 1))
      BY <1>2 DEF AtRow
    <3>2. Stream' = Stream
      BY <1>5 DEF Stream
    <3> QED BY <1>5, <3>1, <3>2 DEF Arriving
  <2>6. sequence' = (b + Place(statement, skew, t, 1) + Behind(skew, t, 1)) % Radix
    BY <1>2, <1>5 DEF AtRow
  <2>7. ~(1 > 1) /\ (skew[2] > 1 => skew[2] >= 1)
    BY <1>8
  <2>8. This' = t /\ All' = All
    BY <1>7
  <2> QED BY <1>5, <2>2, <2>4, <2>5, <2>6, <2>7, <2>8 DEF AtHeader, PacketsOfThis
<1>12. Calm'
  BY <1>5 DEF Calm
<1> QED BY <1>5, <1>9, <1>10, <1>11, <1>12 DEF Inv, Control

LEMMA ScanStep ==
    ASSUME Inv, Scan
    PROVE  Inv'
<1>1. Typed /\ Control /\ pc = "row"
  BY DEF Inv, Scan
<1>2. CASE Calm /\ ErrorRow
  <2>1. ErrMessage[1] = iERR
    BY ShortMessages
  <2> QED BY <1>2, <2>1, ScanEndStep DEF ErrorRow
<1>3. CASE Calm /\ \E b \in Nat : AtRow(b)
  <2>1. PICK b \in Nat : AtRow(b)
    BY <1>3
  <2>2. CASE This = Len(All)
    <3>1. Read = EOFMessage /\ ~invalidSequence /\ Arriving(<<>>)
      BY <1>1, <2>1, <2>2, LastMessage, NextFacts DEF AtRow
    <3>2. EOFMessage[1] = iEOF /\ Len(EOFMessage) = EOFLen
      BY ShortMessages
    <3> QED BY <1>3, <3>1, <3>2, ScanEndStep
  <2>3. CASE This # Len(All)
    BY <1>3, <2>1, <2>3, ScanRowStep
  <2> QED BY <2>2, <2>3
<1> QED BY <1>1, <1>2, <1>3 DEF Control

-----------------------------------------------------------------------------
LEMMA InvInit == Init => Inv
<1>1. SUFFICES ASSUME Init PROVE Inv
  OBVIOUS
<1>2. statement \in Statements
  <2>1. Statements # {}
    BY PacketsAssumption
  <2>2. statement = CHOOSE s \in Statements : TRUE
    BY <1>1 DEF Init
  <2> QED BY <2>1, <2>2
<1>3. DefaultBufSize \in Nat
  BY PacketsAssumption
<1>4. GoodBuffer(cachedBuf, bigBuf, buf)
  <2>1. cachedBuf \in Str(Nat) /\ Len(cachedBuf) = DefaultBufSize /\ bigBuf \in Str(Nat)
    BY <1>1, <1>3, ZerosType, StrEmpty DEF Init
  <2>2. /\ buf.arr = "cached" /\ buf.off = 0 /\ buf.len = 0 /\ buf = SliceOf("cached", 0, 0)
    BY <1>1 DEF Init, SliceOf
  <2>3. 0 + 0 <= DefaultBufSize /\ 0 \in Nat
    BY <1>3
  <2> QED BY <2>1, <2>2, <2>3 DEF GoodBuffer
<1>5. Typed
  <2>1. wire \in Str(Nat) /\ queue \in Str(Str(Nat))
    BY <1>1, StrEmpty DEF Init
  <2>2. toServer \in [done : Str(Str(Nat)), part : Str(Nat), seq : Nat]
    <3>1. <<>> \in Str(Str(Nat)) /\ <<>> \in Str(Nat)
      BY StrEmpty
    <3> QED BY <1>1, <3>1 DEF Init, Nothing
  <2>3. skew \in Skews(statement)
    BY <1>1 DEF Init, Skews, Points
  <2>4. Len(got) \in 0 .. Len(statement.rows) /\ got = Part(statement.rows, 0, Len(got))
    <3>. PICK rows : rows = statement.rows
      OBVIOUS
    <3>. PICK S : S = Seq([null : BOOLEAN, val : Seq(Int)])
      OBVIOUS
    <3>1. rows \in Str(S)
      BY <1>2, StatementFacts DEF Str
    <3>2. Part(rows, 0, 0) = <<>> /\ Len(rows) \in Nat
      BY <3>1, PartNone, StrLen
    <3>3. got = <<>> /\ Len(got) = 0
      BY <1>1, StrEmpty DEF Init
    <3> QED BY <3>2, <3>3
  <2>5. sequence \in Nat /\ pktLen \in Nat /\ fault \in BOOLEAN /\ invalidSequence \in BOOLEAN
        /\ link \in {"up", "down"}
    BY <1>1 DEF Init
  <2> QED BY <1>2, <1>4, <2>1, <2>2, <2>3, <2>4, <2>5 DEF Typed
<1>6. History
  BY <1>1 DEF Init, History
<1>7. Control
  <2>1. pc = "idle" /\ Calm
    BY <1>1 DEF Init, Calm
  <2>2. link = "up" /\ <<>> \in Str(Nat)
    BY <1>1, StrEmpty DEF Init
  <2>3. Len(Stream) = buf.len + Len(wire) /\ Stream \in Str(Nat)
    BY <1>5, StreamFacts
  <2>4. buf.len = 0 /\ Len(wire) = 0
    BY <1>1, StrEmpty DEF Init, SliceOf
  <2>5. Stream = <<>>
    BY <2>3, <2>4, StrEmpty
  <2>6. Arriving(<<>>)
    BY <1>5, <2>2, <2>5, StreamFacts
  <2> QED BY <2>1, <2>6 DEF Control, Idle
<1> QED BY <1>5, <1>6, <1>7 DEF Inv

LEMMA MisnumberedStep ==
    ASSUME Inv, fault' = TRUE, Misnumbered
    PROVE  Inv'
<1>1. statement \in Statements /\ Answer = AnswerTo(statement)
  BY Links DEF Inv, Typed
<1>2. PICK j \in DOMAIN Answer : \E k \in 1 .. PacketsOf(Answer[j]) : ServerAnswers(<<j, k>>)
  BY DEF Misnumbered
<1>3. PICK k \in 1 .. PacketsOf(Answer[j]) : ServerAnswers(<<j, k>>)
  BY <1>2
<1>. PICK A : A = AnswerTo(statement)
  OBVIOUS
<1>4. j \in 1 .. Len(A) /\ A[j] \in Str(Nat) /\ A \in Str(Str(Nat))
  <2>1. A \in Str(Str(Nat))
    BY <1>1, AnswerFacts
  <2>2. DOMAIN A = 1 .. Len(A) /\ \A i \in 1 .. Len(A) : A[i] \in Str(Nat)
    BY <2>1 DEF Str
  <2> QED BY <1>1, <2>1, <2>2
<1>5. PacketsOf(A[j]) \in Nat
  BY <1>4, PacketCount
<1>6. k \in Nat \ {0} /\ k <= PacketsOf(A[j])
  <2>1. k \in 1 .. PacketsOf(A[j])
    BY <1>1
  <2> QED BY <1>5, <2>1
<1>7. <<j, k>> \in Skews(statement)
  <2>1. <<j, k>> \in Points(statement)
    BY <1>4, <1>6 DEF Points
  <2>2. <<j, k>>[1] = j /\ <<j, k>>[2] = k
    OBVIOUS
  <2> QED BY <1>6, <2>1, <2>2 DEF Skews
<1>. PICK from : from = <<j, k>>
  OBVIOUS
<1>8. from \in Skews(statement) /\ ServerAnswers(from) /\ fault' \in BOOLEAN /\ fault'
  BY <1>3, <1>7
<1> QED BY <1>8, ServerAnswersStep

LEMMA InvNext == Inv /\ [Next]_vars => Inv'
<1>1. SUFFICES ASSUME Inv, [Next]_vars PROVE Inv'
  OBVIOUS
<1>2. CASE \E s \in Statements : Execute(s)
  BY <1>1, <1>2, ExecuteStep
<1>3. CASE WriteTooLarge
  BY <1>1, <1>3, WriteTooLargeStep
<1>4. CASE WritePacket
  BY <1>1, <1>4, WritePacketStep
<1>5. CASE WriteFails
  BY <1>1, <1>5, WriteFailsStep
<1>6. CASE Fill
  BY <1>1, <1>6, FillStep
<1>7. CASE FillFails
  BY <1>1, <1>7, FillFailsStep
<1>8. CASE ReadHeader
  BY <1>1, <1>8, ReadHeaderStep
<1>9. CASE ReadBody
  BY <1>1, <1>9, ReadBodyStep
<1>10. CASE Scan
  BY <1>1, <1>10, ScanStep
<1>11. CASE ServerAnswers(Never) /\ UNCHANGED fault
  <2>1. Never \in Skews(statement)
    BY DEF Skews, Points
  <2>2. fault' \in BOOLEAN /\ (fault => fault')
    BY <1>1, <1>11 DEF Inv, Typed
  <2> QED BY <1>1, <1>11, <2>1, <2>2, ServerAnswersStep
<1>12. CASE ServerRefuses /\ UNCHANGED fault
  BY <1>1, <1>12, ServerRefusesStep
<1>13. CASE fault' = TRUE /\ Misnumbered
  BY <1>1, <1>13, MisnumberedStep
<1>14. CASE fault' = TRUE /\ Goodbye
  BY <1>1, <1>14, GoodbyeStep
<1>15. CASE fault' = TRUE /\ Lost
  BY <1>1, <1>15, LostStep
<1>16. CASE UNCHANGED vars
  <2>1. /\ UNCHANGED <<pc, statement, queue, sequence, cachedBuf, bigBuf, buf, pktLen, prevData,
                       invalidSequence, packet, toServer, wire, link, bound, skew, fault, got>>
    BY <1>16 DEF vars, callVars, bufferVars, readVars, netVars
  <2>2. GoodBuffer(cachedBuf', bigBuf', buf') /\ wire' \in Str(Nat)
    BY <1>1, <2>1 DEF Inv, Typed
  <2>3. Stream' = Stream /\ Read' = Read
    BY <2>1 DEF Stream, Read
  <2> QED BY <1>1, <2>1, <2>2, <2>3, Undisturbed
<1> QED BY <1>1, <1>2, <1>3, <1>4, <1>5, <1>6, <1>7, <1>8, <1>9, <1>10, <1>11, <1>12, <1>13,
           <1>14, <1>15, <1>16 DEF Next, Client, Server

(* What arrives is always what the client still has to read. *)
THEOREM StreamCorrect == Spec => []Inv
<1>1. Init => Inv
  BY InvInit
<1>2. Inv /\ [Next]_vars => Inv'
  BY InvNext
<1> QED BY <1>1, <1>2, PTL DEF Spec

-----------------------------------------------------------------------------
(* The server executes a statement with the parameters it was called with:
   WriteLongData, the buffer and writePacket lose and add nothing. *)
THEOREM ParametersAlwaysArrive == Spec => []ParametersArrive
<1>1. Inv => ParametersArrive
  BY DEF Inv, History, ParametersArrive
<1> QED BY <1>1, StreamCorrect, PTL

(* The rows scanned are the first rows of the answer, each of them whole: of
   readPacket, the buffer and readRow together. *)
THEOREM RowsAlwaysIntact == Spec => []RowsIntact
<1>1. Inv => RowsIntact
  <2>1. SUFFICES ASSUME Inv PROVE RowsIntact
    OBVIOUS
  <2>. PICK rows, n : rows = statement.rows /\ n = Len(got)
    OBVIOUS
  <2>. PICK S : S = Seq([null : BOOLEAN, val : Seq(Int)])
    OBVIOUS
  <2>2. statement \in Statements /\ n \in 0 .. Len(rows) /\ got = Part(rows, 0, n)
    BY <2>1 DEF Inv, Typed
  <2>3. rows \in Seq(S) /\ rows \in Str(S)
    BY <2>2, StatementFacts DEF Str
  <2>4. got \in Seq(S) /\ Len(rows) \in Nat
    BY <2>2, <2>3, PartFrom DEF Str
  <2>5. got = SubSeq(rows, 1, n)
    BY <2>2 DEF Part
  <2>6. SubSeq(got, 1, Len(got)) = got
    BY <2>4
  <2>7. Len(got) <= Len(rows)
    BY <2>2, <2>4
  <2> QED BY <2>5, <2>6, <2>7 DEF RowsIntact, IsPrefix
<1> QED BY <1>1, StreamCorrect, PTL

(* Without a fault of the server or the network, readPacket never closes the
   connection, and takeBuffer finds the buffer empty. *)
THEOREM NeverFalseAlarm == Spec => []NoFalseAlarm
<1>1. Inv => NoFalseAlarm
  <2>1. SUFFICES ASSUME Inv, ~fault PROVE pc # "closed" /\ (pc = "idle" => buf.len = 0)
    BY DEF NoFalseAlarm
  <2>2. Typed /\ History /\ Control
    BY <2>1 DEF Inv
  <2>3. link = "up"
    BY <2>1, <2>2 DEF Typed, History
  <2>4. pc # "closed"
    BY <2>1, <2>2 DEF Control
  <2>5. ASSUME pc = "idle" PROVE buf.len = 0
    <3>1. Arriving(<<>>)
      BY <2>2, <2>5 DEF Control, Idle
    <3>2. Stream = <<>> /\ Len(Stream) = 0
      BY <2>2, <2>3, <3>1, StreamFacts, StrEmpty
    <3>3. Len(Stream) = buf.len + Len(wire) /\ buf.len \in Nat /\ Len(wire) \in Nat
      BY <2>2, StreamFacts
    <3> QED BY <3>2, <3>3
  <2> QED BY <2>4, <2>5
<1> QED BY <1>1, StreamCorrect, PTL

(* readPacket passes no message of which the numbers are wrong, but one of
   nothing but full packets that is misnumbered from its first. *)
THEOREM MisnumberedAlwaysRefused == Spec => []MisnumberedRefused
<1>1. Inv => MisnumberedRefused
  <2>1. SUFFICES ASSUME Inv PROVE MisnumberedRefused
    OBVIOUS
  <2>2. Answer = All
    BY Links DEF All
  <2> QED BY <2>1, <2>2 DEF Inv, History, MisnumberedRefused
<1> QED BY <1>1, StreamCorrect, PTL

(* A client that reads and a server that answers never wait for each other:
   what the client wants is on the wire, or the server has its command. *)
THEOREM NeverMutualWait == Spec => []NoMutualWait
<1>1. Inv => NoMutualWait
  <2>1. SUFFICES ASSUME Inv, pc \in {"header", "body"}, buf.len + Len(wire) < Need, link = "up"
                 PROVE  Asked
    BY DEF NoMutualWait
  <2>2. Typed /\ Control /\ Stream \in Str(Nat) /\ Len(Stream) = buf.len + Len(wire)
    BY <2>1, StreamFacts DEF Inv
  <2>3. \A x \in Str(Nat) : Arriving(x) => Stream = x
    BY <2>1, <2>2, StreamFacts
  <2>4. ASSUME NEW x \in Str(Nat), NEW y \in Str(Nat), Arriving(Cat(x, y)), Len(x) = Need
        PROVE  FALSE
    <3>1. Cat(x, y) \in Str(Nat) /\ Len(Cat(x, y)) = Len(x) + Len(y)
      BY CatType
    <3>2. Len(x) \in Nat /\ Len(y) \in Nat
      BY StrLen
    <3>3. Stream = Cat(x, y)
      BY <2>3, <2>4, <3>1
    <3>. PICK n, m : n = Len(x) /\ m = Len(y)
      OBVIOUS
    <3>4. n + m < n /\ n \in Nat /\ m \in Nat
      BY <2>1, <2>2, <2>4, <3>1, <3>2, <3>3
    <3> QED BY <3>4
  <2>5. CASE pc = "header" /\ Waiting
    <3>. PICK args, all : args = statement.args /\ all = Messages(args)
      OBVIOUS
    <3>1. toServer.done = all /\ toServer.part = <<>>
      BY <2>1, <2>5 DEF Waiting
    <3>2. /\ args \in Seq([null : BOOLEAN, val : Seq(Byte)])
          /\ \A i \in 1 .. Len(args) : Holds("string", args[i])
      BY <2>2, StatementFacts DEF Typed
    <3>3. Len(all) > 0 /\ Len(all) \in Nat /\ all[Len(all)][1] = ExecCmd
      BY <3>2, MessagesFacts
    <3>4. all # <<>>
      BY <3>3, StrEmpty
    <3> QED BY <2>1, <3>1, <3>3, <3>4 DEF Asked, Last
  <2>6. CASE pc = "header" /\ Refusal
    <3>1. PICK x \in Nat : Arriving(Framed(ErrMessage, x))
      BY <2>6 DEF Refusal
    <3> DEFINE h == HeaderOf(ErrMessage, x)
    <3>2. h \in Str(Nat) /\ Len(h) = Header /\ Framed(ErrMessage, x) = Cat(h, ErrMessage)
      BY ErrorFacts
    <3>3. ErrMessage \in Str(Nat) /\ Need = Header
      BY <2>6, ShortMessages DEF Need
    <3> HIDE DEF h
    <3> QED BY <2>4, <3>1, <3>2, <3>3
  <2>7. CASE pc = "header" /\ \E b \in Nat : \E k \in PacketsOfThis : AtHeader(b, k)
    <3>1. PICK b \in Nat, k \in PacketsOfThis : AtHeader(b, k)
      BY <2>7
    <3>. PICK h, c, d : /\ c = Chunk(All[This], k)
                        /\ h = HeaderOf(c, b + Place(statement, skew, This, k) + Off(skew, This, k))
                        /\ d = Due(statement, skew, b, This, k + 1)
      OBVIOUS
    <3>2. /\ h \in Str(Nat) /\ Len(h) = Header /\ Cat(c, d) \in Str(Nat)
          /\ Due(statement, skew, b, This, k) = Cat(h, Cat(c, d))
      BY <2>2, PacketFacts
    <3>3. Arriving(Cat(h, Cat(c, d)))
      BY <3>1, <3>2 DEF AtHeader
    <3>4. Need = Header
      BY <2>7 DEF Need
    <3> QED BY <2>4, <3>2, <3>3, <3>4
  <2>8. CASE pc = "body" /\ ErrorBody
    <3>1. ErrMessage \in Str(Nat) /\ <<>> \in Str(Nat) /\ Cat(ErrMessage, <<>>) = ErrMessage
      BY ShortMessages, StrEmpty, CatEmpty
    <3>2. Arriving(ErrMessage) /\ Len(ErrMessage) = Need
      BY <2>8 DEF ErrorBody, Need
    <3> QED BY <2>4, <3>1, <3>2
  <2>9. CASE pc = "body" /\ \E b \in Nat : \E k \in PacketsOfThis : AtBody(b, k)
    <3>1. PICK b \in Nat, k \in PacketsOfThis : AtBody(b, k)
      BY <2>9
    <3>. PICK c, d : c = Chunk(All[This], k) /\ d = Due(statement, skew, b, This, k + 1)
      OBVIOUS
    <3>2. c \in Str(Nat) /\ d \in Str(Nat)
      BY <2>2, PacketFacts
    <3>3. Arriving(Cat(c, d)) /\ Len(c) = Need
      BY <2>9, <3>1 DEF AtBody, Need
    <3> QED BY <2>4, <3>2, <3>3
  <2> QED BY <2>1, <2>2, <2>5, <2>6, <2>7, <2>8, <2>9 DEF Control
<1> QED BY <1>1, StreamCorrect, PTL
=============================================================================
