--------------------------- MODULE CharMapProofs ---------------------------
(***************************************************************************)
(* Theorems about CharMap, for any list of code points, texts and buffers: *)
(* the loop stays within its buffers and converts what the reference reads.*)
(***************************************************************************)
EXTENDS CharMap, SequenceTheorems, Loops

Bytes == 0..255
Known == DOMAIN Values

-----------------------------------------------------------------------------
(* Characters.  The first byte says how many there are, and no other byte  *)
(* is like a first one; so no character begins another.                    *)

Width(lead) == IF lead < 128 THEN 1 ELSE IF lead < 224 THEN 2 ELSE 3
Shape(k) ==
    /\ k \in Seq(Bytes) /\ Len(k) \in 1..3 /\ Len(k) = Width(k[1])
    /\ \A j \in 2..Len(k) : Continues(k[j])

LEMMA OneByte == ASSUME NEW a \in 0..127 PROVE Shape(<<a>>)
<1> DEFINE k == <<a>>
<1>1. k \in Seq(Bytes) /\ Len(k) = 1 /\ k[1] = a
  BY DEF Bytes
<1> HIDE DEF k
<1>2. Shape(k)
  BY <1>1 DEF Shape, Width
<1> QED
  BY <1>2 DEF k

LEMMA TwoBytes == ASSUME NEW a \in 192..223, NEW b \in 128..191 PROVE Shape(<<a, b>>)
<1> DEFINE k == <<a, b>>
<1>1. k \in Seq(Bytes) /\ Len(k) = 2 /\ k[1] = a /\ k[2] = b
  BY DEF Bytes
<1> HIDE DEF k
<1>2. Width(k[1]) = 2
  BY <1>1 DEF Width
<1>3. ASSUME NEW j \in 2..Len(k) PROVE Continues(k[j])
  <2>1. j = 2
    BY <1>1
  <2> QED
    BY <1>1, <2>1 DEF Continues
<1>4. Shape(k)
  BY <1>1, <1>2, <1>3 DEF Shape
<1> QED
  BY <1>4 DEF k

LEMMA ThreeBytes ==
    ASSUME NEW a \in 224..239, NEW b \in 128..191, NEW c \in 128..191
    PROVE  Shape(<<a, b, c>>)
<1> DEFINE k == <<a, b, c>>
<1>1. k \in Seq(Bytes) /\ Len(k) = 3 /\ k[1] = a /\ k[2] = b /\ k[3] = c
  BY DEF Bytes
<1> HIDE DEF k
<1>2. Width(k[1]) = 3
  BY <1>1 DEF Width
<1>3. ASSUME NEW j \in 2..Len(k) PROVE Continues(k[j])
  <2>1. j = 2 \/ j = 3
    BY <1>1
  <2> QED
    BY <1>1, <2>1 DEF Continues
<1>4. Shape(k)
  BY <1>1, <1>2, <1>3 DEF Shape
<1> QED
  BY <1>4 DEF k

LEMMA Remainder == \A x \in Int : 128 + (x % 64) \in 128..191
<1> SUFFICES ASSUME NEW x \in Int PROVE 128 + (x % 64) \in 128..191
  OBVIOUS
<1>1. x % 64 \in 0..63
  OBVIOUS
<1> DEFINE r == x % 64
<1>2. \A y \in 0..63 : 128 + y \in 128..191
  OBVIOUS
<1> QED
  BY <1>1, <1>2, Zenon

LEMMA Encoded == ASSUME NEW cp \in Plane PROVE Shape(Utf8(cp))
<1>1. cp \in Nat /\ cp < 16 * 4096
  BY DEF Plane
<1> DEFINE a == 192 + cp \div 64
           b == 128 + (cp % 64)
           c == 224 + cp \div 4096
           d == 128 + ((cp \div 64) % 64)
<1>2. \A x \in Int : 128 + (x % 64) \in 128..191
  BY Remainder
<1>3. b \in 128..191 /\ d \in 128..191
  <2>1. cp \in Int /\ cp \div 64 \in Int
    BY <1>1
  <2> QED
    BY <1>2, <2>1, Zenon
<1>4. cp >= 128 /\ cp < 2048 => a \in 192..223
  BY <1>1
<1>5. cp >= 2048 => c \in 224..239
  BY <1>1
<1>6. Utf8(cp) = IF cp < 128 THEN <<cp>> ELSE IF cp < 2048 THEN <<a, b>> ELSE <<c, d, b>>
  BY DEF Utf8
<1> HIDE DEF a, b, c, d
<1>7. CASE cp < 128
  <2>1. Utf8(cp) = <<cp>> /\ cp \in 0..127
    BY <1>1, <1>6, <1>7
  <2> QED
    BY <2>1, OneByte
<1>8. CASE cp >= 128 /\ cp < 2048
  <2>1. Utf8(cp) = <<a, b>>
    BY <1>1, <1>6, <1>8
  <2>2. a \in 192..223
    BY <1>4, <1>8
  <2>3. Shape(<<a, b>>)
    BY <1>3, <2>2, TwoBytes, Zenon
  <2> QED
    BY <2>1, <2>3, Zenon
<1>9. CASE cp >= 2048
  <2>1. Utf8(cp) = <<c, d, b>>
    BY <1>1, <1>6, <1>9
  <2>2. c \in 224..239
    BY <1>5, <1>9
  <2>3. Shape(<<c, d, b>>)
    BY <1>3, <2>2, ThreeBytes, Zenon
  <2> QED
    BY <2>1, <2>3, Zenon
<1> QED
  BY <1>1, <1>7, <1>8, <1>9

LEMMA KnownShape == ASSUME InputsOK, NEW k \in Known PROVE Shape(k)
<1>1. PICK cp \in DOMAIN Map : k = Utf8(cp)
  BY DEF Known, Values
<1>2. cp \in Plane
  BY DEF InputsOK
<1> QED
  BY <1>1, <1>2, Encoded

LEMMA PrefixIs ==
    ASSUME NEW s \in Seq(Bytes), NEW t \in Seq(Bytes)
    PROVE  IsPrefix(s, t) <=> Len(s) <= Len(t) /\ \A j \in 1..Len(s) : s[j] = t[j]
<1> SUFFICES ASSUME Len(s) <= Len(t)
             PROVE  SubSeq(s, 1, Len(s)) = SubSeq(t, 1, Len(s)) <=> \A j \in 1..Len(s) : s[j] = t[j]
  BY DEF IsPrefix
<1>1. SubSeq(s, 1, Len(s)) = [j \in 1..Len(s) |-> s[j]]
  OBVIOUS
<1>2. SubSeq(t, 1, Len(s)) = [j \in 1..Len(s) |-> t[j]]
  OBVIOUS
<1> QED
  BY <1>1, <1>2

\* What bytes that begin a character and are not all of it have in common with it.
LEMMA Pointer ==
    ASSUME InputsOK, NEW e \in Seq(Bytes), Len(e) >= 1, Type(e) = "pointer"
    PROVE  /\ \E k \in Known : Len(e) < Len(k) /\ \A j \in 1..Len(e) : e[j] = k[j]
           /\ Len(e) < Width(e[1])
           /\ \A j \in 2..Len(e) : Continues(e[j])
<1>1. PICK k \in Known : IsStrictPrefix(e, k)
  BY DEF Type, Known
<1>2. k \in Seq(Bytes) /\ Len(k) = Width(k[1]) /\ \A j \in 2..Len(k) : Continues(k[j])
  BY KnownShape DEF Shape
<1>3. IsPrefix(e, k) /\ e # k
  BY <1>1 DEF IsStrictPrefix
<1>4. Len(e) <= Len(k) /\ \A j \in 1..Len(e) : e[j] = k[j]
  BY <1>2, <1>3, PrefixIs
<1>5. Len(e) # Len(k)
  BY <1>2, <1>3, <1>4
<1> QED
  BY <1>2, <1>4, <1>5

\* Bytes a character begins with are a value or lead on.
LEMMA Leads ==
    ASSUME InputsOK, NEW e \in Seq(Bytes), NEW k \in Known,
           Len(e) <= Len(k), \A j \in 1..Len(e) : e[j] = k[j]
    PROVE  Type(e) # "invalid"
<1>1. k \in Seq(Bytes)
  BY KnownShape DEF Shape
<1>2. IsPrefix(e, k)
  BY <1>1, PrefixIs
<1> QED
  BY <1>2 DEF Type, IsStrictPrefix, Known

-----------------------------------------------------------------------------
(* The reference.                                                          *)

LEMMA Piece ==
    ASSUME NEW t \in Seq(TextByte), NEW i \in 1..Len(t), NEW n \in 0..(Len(t) + 1 - i)
    PROVE  /\ SubSeq(t, i, i + n - 1) \in Seq(Bytes) /\ Len(SubSeq(t, i, i + n - 1)) = n
           /\ \A j \in 1..n : SubSeq(t, i, i + n - 1)[j] = t[i + j - 1]
<1>1. \A j \in 1..Len(t) : t[j] \in TextByte
  OBVIOUS
<1>2. TextByte \subseteq Bytes
  BY DEF TextByte, Bytes
<1>3. \A j \in i..(i + n - 1) : t[j] \in Bytes
  <2> TAKE j \in i..(i + n - 1)
  <2>1. j \in 1..Len(t)
    OBVIOUS
  <2> QED
    BY <1>1, <1>2, <2>1, Zenon
<1>4. i \in Int /\ i + n - 1 \in Int
  OBVIOUS
<1> DEFINE p == SubSeq(t, i, i + n - 1)
<1>5. /\ p \in Seq(Bytes) /\ Len(p) = IF i <= i + n - 1 THEN i + n - 1 - i + 1 ELSE 0
      /\ \A j \in 1..(i + n - 1 - i + 1) : p[j] = t[i + j - 1]
  BY <1>3, <1>4, SubSeqProperties
<1> HIDE DEF p
<1>6. i + n - 1 - i + 1 = n /\ (i <= i + n - 1 <=> n > 0)
  OBVIOUS
<1>7. p \in Seq(Bytes) /\ Len(p) = n /\ \A j \in 1..n : p[j] = t[i + j - 1]
  BY <1>5, <1>6
<1> QED
  BY <1>7 DEF p

LEMMA WholeIs ==
    ASSUME InputsOK, NEW t \in Seq(TextByte), NEW i \in 1..Len(t), NEW k \in Whole(t, i)
    PROVE  /\ k \in Known /\ Len(k) \in 1..(Len(t) + 1 - i)
           /\ \A j \in 1..Len(k) : k[j] = t[i + j - 1]
<1> DEFINE rest == SubSeq(t, i, Len(t))
<1>1. k \in Known /\ IsPrefix(k, rest)
  BY DEF Whole, Known
<1>2. k \in Seq(Bytes) /\ Len(k) \in 1..3
  BY <1>1, KnownShape DEF Shape
<1>3. /\ rest \in Seq(Bytes) /\ Len(rest) = Len(t) + 1 - i
      /\ \A j \in 1..(Len(t) + 1 - i) : rest[j] = t[i + j - 1]
  <2> DEFINE m == Len(t) + 1 - i
  <2>1. Len(t) = i + m - 1 /\ m \in 0..m
    OBVIOUS
  <2>2. rest = SubSeq(t, i, i + m - 1)
    BY <2>1, Zenon
  <2> HIDE DEF rest
  <2>3. rest \in Seq(Bytes) /\ Len(rest) = m /\ \A j \in 1..m : rest[j] = t[i + j - 1]
    BY <2>1, <2>2, Piece, Zenon
  <2> QED
    BY <2>3
<1> HIDE DEF rest
<1>4. Len(k) <= Len(rest) /\ \A j \in 1..Len(k) : k[j] = rest[j]
  BY <1>1, <1>2, <1>3, PrefixIs
<1>5. \A j \in 1..Len(k) : k[j] = t[i + j - 1]
  BY <1>3, <1>4
<1>6. Len(k) \in 1..(Len(t) + 1 - i)
  <2>1. Len(k) \in 1..3 /\ Len(k) <= Len(rest)
    BY <1>2, <1>4
  <2>2. Len(rest) = Len(t) + 1 - i
    BY <1>3
  <2>3. Len(rest) \in Int
    BY <1>3
  <2>4. \A a, b : a \in 1..3 /\ b \in Int /\ a <= b => a \in 1..b
    OBVIOUS
  <2>5. Len(k) \in 1..Len(rest)
    BY <2>1, <2>3, <2>4, Zenon
  <2> QED
    BY <2>2, <2>5, Zenon
<1> QED
  BY <1>1, <1>5, <1>6, Zenon

LEMMA BrokenIs ==
    ASSUME InputsOK, NEW t \in Seq(TextByte), NEW i \in 1..Len(t), NEW n \in Broken(t, i)
    PROVE  /\ n \in 1..(Len(t) + 1 - i) /\ n < Width(t[i])
           /\ \A j \in 2..n : Continues(t[i + j - 1])
           /\ i + n <= Len(t) => ~Continues(t[i + n])
           /\ \E k \in Known : n < Len(k) /\ \A j \in 1..n : t[i + j - 1] = k[j]
<1> DEFINE e == SubSeq(t, i, i + n - 1)
<1>1. n \in 1..(Len(t) + 1 - i) /\ Type(e) = "pointer" /\ (i + n <= Len(t) => ~Continues(t[i + n]))
  BY DEF Broken
<1>2. e \in Seq(Bytes) /\ Len(e) = n /\ \A j \in 1..n : e[j] = t[i + j - 1]
  <2>1. n \in 0..(Len(t) + 1 - i)
    BY <1>1
  <2> QED
    BY <2>1, Piece, Zenon
<1> HIDE DEF e
<1>3. /\ \E k \in Known : n < Len(k) /\ \A j \in 1..n : e[j] = k[j]
      /\ n < Width(e[1]) /\ \A j \in 2..n : Continues(e[j])
  <2>1. n >= 1
    BY <1>1
  <2> QED
    BY <1>1, <1>2, <2>1, Pointer
<1>4. e[1] = t[i]
  BY <1>1, <1>2
<1>5. \A j \in 2..n : Continues(t[i + j - 1])
  BY <1>2, <1>3
<1>6. \E k \in Known : n < Len(k) /\ \A j \in 1..n : t[i + j - 1] = k[j]
  BY <1>2, <1>3
<1> QED
  BY <1>1, <1>3, <1>4, <1>5, <1>6

\* What read is at i, of what it is behind.
ReadAt(t, read, i) ==
    IF i > Len(t) THEN {<<>>}
    ELSE (UNION {{<<k>> \o w : w \in read[i + Len(k)]} : k \in Whole(t, i)})
         \cup (UNION {read[i + n] : n \in Broken(t, i)})
ReadOf(t) == CHOOSE read : read = [i \in 1..(Len(t) + 1) |-> ReadAt(t, read, i)]
Words == SUBSET Seq(Known)

LEMMA ReadAtTyped ==
    ASSUME InputsOK, NEW t \in Seq(TextByte), NEW read \in [1..(Len(t) + 1) -> Words],
           NEW i \in 1..(Len(t) + 1)
    PROVE  ReadAt(t, read, i) \in Words
<1>1. CASE i > Len(t)
  BY <1>1 DEF ReadAt, Words
<1>2. CASE i \in 1..Len(t)
  <2>1. ASSUME NEW k \in Whole(t, i), NEW w \in read[i + Len(k)] PROVE <<k>> \o w \in Seq(Known)
    <3>1. k \in Known /\ i + Len(k) \in 1..(Len(t) + 1)
      BY <1>2, WholeIs
    <3>2. w \in Seq(Known)
      BY <3>1 DEF Words
    <3> QED
      BY <3>1, <3>2
  <2>2. ASSUME NEW n \in Broken(t, i), NEW w \in read[i + n] PROVE w \in Seq(Known)
    <3>1. i + n \in 1..(Len(t) + 1)
      BY <1>2, BrokenIs
    <3> QED
      BY <3>1 DEF Words
  <2> DEFINE one == UNION {{<<k>> \o w : w \in read[i + Len(k)]} : k \in Whole(t, i)}
             other == UNION {read[i + n] : n \in Broken(t, i)}
  <2>3. one \in Words
    <3> SUFFICES ASSUME NEW x \in one PROVE x \in Seq(Known)
      BY DEF Words
    <3>1. PICK k \in Whole(t, i) : x \in {<<k>> \o w : w \in read[i + Len(k)]}
      OBVIOUS
    <3>2. PICK w \in read[i + Len(k)] : x = <<k>> \o w
      BY <3>1
    <3> HIDE DEF one
    <3> QED
      BY <2>1, <3>2, Zenon
  <2>4. other \in Words
    <3> SUFFICES ASSUME NEW x \in other PROVE x \in Seq(Known)
      BY DEF Words
    <3>1. PICK n \in Broken(t, i) : x \in read[i + n]
      OBVIOUS
    <3> HIDE DEF other
    <3> QED
      BY <2>2, <3>1, Zenon
  <2>5. ReadAt(t, read, i) = one \cup other
    <3>1. ~(i > Len(t))
      BY <1>2
    <3> QED
      BY <3>1, Zenon DEF ReadAt
  <2> HIDE DEF one, other
  <2> QED
    BY <2>3, <2>4, <2>5 DEF Words
<1> QED
  BY <1>1, <1>2

LEMMA ReadAtLater ==
    ASSUME InputsOK, NEW t \in Seq(TextByte), NEW i \in 1..(Len(t) + 1), NEW f, NEW g,
           \A j \in (i + 1)..(Len(t) + 1) : f[j] = g[j]
    PROVE  ReadAt(t, f, i) = ReadAt(t, g, i)
<1>1. CASE i > Len(t)
  BY <1>1 DEF ReadAt
<1>2. CASE i \in 1..Len(t)
  <2>1. \A k \in Whole(t, i) : f[i + Len(k)] = g[i + Len(k)]
    <3> TAKE k \in Whole(t, i)
    <3>1. i + Len(k) \in (i + 1)..(Len(t) + 1)
      BY <1>2, WholeIs
    <3> QED
      BY <3>1, Zenon
  <2>2. \A n \in Broken(t, i) : f[i + n] = g[i + n]
    <3> TAKE n \in Broken(t, i)
    <3>1. i + n \in (i + 1)..(Len(t) + 1)
      BY <1>2, BrokenIs
    <3> QED
      BY <3>1, Zenon
  <2>3. \A k \in Whole(t, i) : {<<k>> \o w : w \in f[i + Len(k)]} = {<<k>> \o w : w \in g[i + Len(k)]}
    BY <2>1, Zenon
  <2>4. (UNION {{<<k>> \o w : w \in f[i + Len(k)]} : k \in Whole(t, i)})
        = UNION {{<<k>> \o w : w \in g[i + Len(k)]} : k \in Whole(t, i)}
    <3> DEFINE F(k) == {<<k>> \o w : w \in f[i + Len(k)]}
               G(k) == {<<k>> \o w : w \in g[i + Len(k)]}
    <3>1. \A k \in Whole(t, i) : F(k) = G(k)
      BY <2>3
    <3> HIDE DEF F, G
    <3>2. {F(k) : k \in Whole(t, i)} = {G(k) : k \in Whole(t, i)}
      BY <3>1
    <3>3. (UNION {F(k) : k \in Whole(t, i)}) = UNION {G(k) : k \in Whole(t, i)}
      BY <3>2
    <3> QED
      BY <3>3 DEF F, G
  <2>5. (UNION {f[i + n] : n \in Broken(t, i)}) = UNION {g[i + n] : n \in Broken(t, i)}
    BY <2>2
  <2> QED
    BY <2>4, <2>5 DEF ReadAt
<1> QED
  BY <1>1, <1>2

LEMMA ReadExists ==
    ASSUME InputsOK, NEW t \in Seq(TextByte)
    PROVE  /\ ReadOf(t) \in [1..(Len(t) + 1) -> Words]
           /\ \A i \in 1..(Len(t) + 1) : ReadOf(t)[i] = ReadAt(t, ReadOf(t), i)
<1> DEFINE N == Len(t)
           T == [0..N -> Words]
           Turned(f) == [i \in 1..(N + 1) |-> f[N + 1 - i]]
           turn == [n \in 0..N |-> [f \in T |-> ReadAt(t, Turned(f), N + 1 - n)]]
<1>1. N \in Nat
  OBVIOUS
<1>2. ASSUME NEW f \in T PROVE Turned(f) \in [1..(N + 1) -> Words]
  BY <1>1
<1>3. turn \in [0..N -> [T -> Words]]
  <2>1. ASSUME NEW n \in 0..N, NEW f \in T PROVE ReadAt(t, Turned(f), N + 1 - n) \in Words
    <3>1. N + 1 - n \in 1..(N + 1)
      BY <1>1
    <3> HIDE DEF Turned, T
    <3> QED
      BY <1>2, <3>1, ReadAtTyped
  <2> HIDE DEF Turned, T
  <2> QED
    BY <2>1
<1>4. ASSUME NEW n \in 0..N, NEW f \in T, NEW g \in T, \A m \in 0..(n - 1) : f[m] = g[m]
      PROVE  turn[n][f] = turn[n][g]
  <2>1. N + 1 - n \in 1..(N + 1)
    BY <1>1
  <2>2. \A j \in (N + 1 - n + 1)..(N + 1) : Turned(f)[j] = Turned(g)[j]
    <3> TAKE j \in (N + 1 - n + 1)..(N + 1)
    <3>1. N + 1 - j \in 0..(n - 1) /\ j \in 1..(N + 1)
      BY <1>1
    <3> QED
      BY <1>4, <3>1
  <2>3. ReadAt(t, Turned(f), N + 1 - n) = ReadAt(t, Turned(g), N + 1 - n)
    <3> HIDE DEF Turned
    <3> QED
      BY <2>1, <2>2, ReadAtLater
  <2> HIDE DEF Turned, T
  <2> QED
    BY <2>3
<1>5. PICK f \in T : \A n \in 0..N : f[n] = turn[n][f]
  <2>1. {} \in Words
    BY DEF Words
  <2> HIDE DEF turn, T, N
  <2> QED
    BY <1>1, <1>3, <1>4, <2>1, TableExists DEF T
<1> DEFINE read == Turned(f)
<1>6. read \in [1..(N + 1) -> Words]
  BY <1>2
<1>7. ASSUME NEW i \in 1..(N + 1) PROVE read[i] = ReadAt(t, read, i)
  <2>1. N + 1 - i \in 0..N /\ N + 1 - (N + 1 - i) = i
    BY <1>1
  <2>2. f[N + 1 - i] = turn[N + 1 - i][f]
    <3> HIDE DEF turn, T
    <3> QED
      BY <1>5, <2>1, Zenon
  <2>3. turn[N + 1 - i][f] = ReadAt(t, Turned(f), N + 1 - (N + 1 - i))
    <3> HIDE DEF Turned, T
    <3> QED
      BY <2>1
  <2>4. read[i] = f[N + 1 - i]
    OBVIOUS
  <2> HIDE DEF read, N
  <2> QED
    BY <2>1, <2>2, <2>3, <2>4 DEF read
<1>8. read = [i \in 1..(Len(t) + 1) |-> ReadAt(t, read, i)]
  <2>1. read = [i \in 1..(Len(t) + 1) |-> read[i]]
    <3> HIDE DEF read
    <3> QED
      BY <1>6
  <2> HIDE DEF read
  <2> QED
    BY <1>7, <2>1, Zenon
<1>9. ReadOf(t) = [i \in 1..(Len(t) + 1) |-> ReadAt(t, ReadOf(t), i)]
  <2> HIDE DEF read
  <2>1. \E r : r = [i \in 1..(Len(t) + 1) |-> ReadAt(t, r, i)]
    BY <1>8
  <2> QED
    BY <2>1, Zenon DEF ReadOf
<1> QED
  BY <1>9

\* What is read at a byte begins with a character that is whole, or the bytes are broken off.
LEMMA ReadsOn ==
    ASSUME InputsOK, NEW t \in Seq(TextByte), NEW i \in 1..Len(t), NEW v \in ReadOf(t)[i]
    PROVE  \/ \E k \in Whole(t, i) : \E w \in ReadOf(t)[i + Len(k)] : v = <<k>> \o w
           \/ \E n \in Broken(t, i) : v \in ReadOf(t)[i + n]
<1> DEFINE F == ReadOf(t)
<1>1. F[i] = ReadAt(t, F, i) /\ ~(i > Len(t))
  BY ReadExists
<1> HIDE DEF F
<1>2. F[i] = (UNION {{<<k>> \o w : w \in F[i + Len(k)]} : k \in Whole(t, i)})
             \cup (UNION {F[i + n] : n \in Broken(t, i)})
  BY <1>1, Zenon DEF ReadAt
<1>3. v \in F[i]
  BY DEF F
<1>4. CASE v \in UNION {{<<k>> \o w : w \in F[i + Len(k)]} : k \in Whole(t, i)}
  <2>1. PICK k \in Whole(t, i) : v \in {<<k>> \o w : w \in F[i + Len(k)]}
    BY <1>4
  <2>2. PICK w \in F[i + Len(k)] : v = <<k>> \o w
    BY <2>1
  <2> QED
    BY <2>2 DEF F
<1>5. CASE v \in UNION {F[i + n] : n \in Broken(t, i)}
  <2>1. PICK n \in Broken(t, i) : v \in F[i + n]
    BY <1>5
  <2> QED
    BY <2>1 DEF F
<1> QED
  BY <1>2, <1>3, <1>4, <1>5

LEMMA ReadsEnd ==
    ASSUME InputsOK, NEW t \in Seq(TextByte)
    PROVE  ReadOf(t)[Len(t) + 1] = {<<>>}
<1>1. Len(t) + 1 \in 1..(Len(t) + 1) /\ Len(t) + 1 > Len(t)
  OBVIOUS
<1> QED
  BY <1>1, ReadExists, Zenon DEF ReadAt

LEMMA ReadingsAre ==
    ASSUME InputsOK, NEW t \in Seq(TextByte)
    PROVE  Readings(t) = ReadOf(t)[1] /\ Readings(t) \subseteq Seq(Known)
<1>1. Readings(t) = ReadOf(t)[1]
  BY DEF Readings, ReadOf, ReadAt
<1>2. ReadOf(t)[1] \in Words
  BY ReadExists
<1> QED
  BY <1>1, <1>2 DEF Words

\* What is left of w after n characters.
Rest(w, n) == SubSeq(w, n + 1, Len(w))

LEMMA RestIs ==
    ASSUME NEW S, NEW w \in Seq(S), NEW n \in 0..Len(w)
    PROVE  /\ Rest(w, n) \in Seq(S) /\ Len(Rest(w, n)) = Len(w) - n
           /\ \A j \in 1..(Len(w) - n) : Rest(w, n)[j] = w[n + j]
<1>1. \A j \in (n + 1)..Len(w) : w[j] \in S
  OBVIOUS
<1>2. n + 1 \in Int /\ Len(w) \in Int
  OBVIOUS
<1> DEFINE r == Rest(w, n)
<1>3. /\ r \in Seq(S) /\ Len(r) = IF n + 1 <= Len(w) THEN Len(w) - (n + 1) + 1 ELSE 0
      /\ \A j \in 1..(Len(w) - (n + 1) + 1) : r[j] = w[n + 1 + j - 1]
  BY <1>1, <1>2, SubSeqProperties DEF Rest
<1> HIDE DEF r
<1>4. r \in Seq(S) /\ Len(r) = Len(w) - n /\ \A j \in 1..(Len(w) - n) : r[j] = w[n + j]
  BY <1>2, <1>3
<1> QED
  BY <1>4 DEF r

LEMMA NoneLeft ==
    ASSUME NEW S, NEW w \in Seq(S), NEW n \in 0..Len(w), Rest(w, n) = <<>>
    PROVE  n = Len(w)
<1>1. Len(Rest(w, n)) = Len(w) - n /\ Len(Rest(w, n)) = 0
  BY RestIs
<1> QED
  BY <1>1

LEMMA OneLess ==
    ASSUME NEW S, NEW w \in Seq(S), NEW n \in 0..Len(w), NEW k \in S, NEW u \in Seq(S),
           Rest(w, n) = <<k>> \o u
    PROVE  n < Len(w) /\ w[n + 1] = k /\ Rest(w, n + 1) = u
<1> DEFINE v == <<k>> \o u
<1>1. v \in Seq(S) /\ Len(v) = Len(u) + 1 /\ v[1] = k /\ \A j \in 1..Len(u) : v[j + 1] = u[j]
  OBVIOUS
<1> HIDE DEF v
<1>2. /\ Len(v) = Len(w) - n
      /\ \A j \in 1..(Len(w) - n) : v[j] = w[n + j]
  <2>1. Rest(w, n) = v
    BY DEF v
  <2> QED
    BY <2>1, RestIs
<1>3. n < Len(w) /\ w[n + 1] = k
  BY <1>1, <1>2
<1>4. /\ Rest(w, n + 1) \in Seq(S) /\ Len(Rest(w, n + 1)) = Len(w) - (n + 1)
      /\ \A j \in 1..(Len(w) - (n + 1)) : Rest(w, n + 1)[j] = w[n + 1 + j]
  <2>1. n + 1 \in 0..Len(w)
    BY <1>3
  <2> QED
    BY <2>1, RestIs
<1> DEFINE r == Rest(w, n + 1)
<1>5. r \in Seq(S) /\ Len(r) = Len(w) - (n + 1) /\ \A j \in 1..(Len(w) - (n + 1)) : r[j] = w[n + 1 + j]
  BY <1>4
<1> HIDE DEF r
<1>6. Len(r) = Len(u)
  <2>1. Len(u) \in Int /\ Len(w) \in Int
    OBVIOUS
  <2>2. \A a, b \in Int : a + 1 = b - n => b - (n + 1) = a
    OBVIOUS
  <2>3. Len(u) + 1 = Len(w) - n
    BY <1>1, <1>2, Zenon
  <2> QED
    BY <1>5, <2>1, <2>2, <2>3, Zenon
<1>7. \A j \in 1..Len(u) : r[j] = u[j]
  <2> TAKE j \in 1..Len(u)
  <2>1. r[j] = w[n + 1 + j]
    BY <1>5, <1>6
  <2>2. v[j + 1] = w[n + (j + 1)]
    BY <1>1, <1>2
  <2>3. n + 1 + j = n + (j + 1)
    OBVIOUS
  <2> QED
    BY <1>1, <2>1, <2>2, <2>3, Zenon
<1>8. r = u
  <2>1. r \in Seq(S) /\ u \in Seq(S)
    BY <1>5
  <2> QED
    BY <1>6, <1>7, <2>1, SeqEqual, Zenon
<1> QED
  BY <1>3, <1>8 DEF r

-----------------------------------------------------------------------------
(* The inductive invariant: while it runs, the loop has read as many        *)
(* characters as it has written, of every way to read the text; the entry   *)
(* is the bytes since then, and what is left can be read where they start.  *)

Letters == {Values[k] : k \in Known}

Bounds ==
    /\ text \in Utf8Texts /\ size \in Sizes /\ input \in 1..(Len(text) + 1)
    /\ entry \in Seq(Bytes) /\ output \in Seq(Letters) /\ Len(output) <= size
    /\ retval = "running" => Len(output) < size

Follows(start) ==
    /\ Len(entry) = input - start + 1 /\ Len(entry) <= Width(entry[1])
    /\ \A j \in 1..Len(entry) : entry[j] = ByteAt(start + j - 1)
    /\ \A j \in 2..Len(entry) : Continues(entry[j])

Written(w) == Len(output) <= Len(w) /\ \A i \in 1..Len(output) : output[i] = Values[w[i]]
On(w) == \E start \in 1..input : Follows(start) /\ Rest(w, Len(output)) \in ReadOf(text)[start]
Reads == retval = "running" => \A w \in Readings(text) : Written(w) /\ On(w)

\* TextConverted, with what the code returns for a text that just fits.
Reported ==
    retval # "running" =>
        \A w \in Readings(text) :
            /\ output = Converted(w)
            /\ retval = (IF Len(w) >= size THEN "-E2BIG" ELSE "0")

CInv == Bounds /\ Reads /\ Reported

-----------------------------------------------------------------------------
(* The bytes of a text.                                                    *)

LEMMA Inputs ==
    ASSUME InputsOK, Bounds
    PROVE  text \in Seq(TextByte) /\ Len(text) \in Nat /\ size \in Nat /\ size >= 1
BY DEF InputsOK, Bounds

LEMMA ByteIs ==
    ASSUME text \in Seq(TextByte), NEW i \in Nat \ {0}
    PROVE  /\ ByteAt(i) \in Bytes
           /\ i <= Len(text) => ByteAt(i) = text[i] /\ ByteAt(i) # NUL
           /\ i > Len(text) => ByteAt(i) = NUL /\ ~Continues(ByteAt(i))
<1>1. CASE i <= Len(text)
  <2>1. text[i] \in TextByte
    BY <1>1
  <2>2. \A b \in TextByte : b \in Bytes /\ b # NUL
    BY DEF TextByte, Bytes, NUL
  <2>3. ByteAt(i) = text[i] /\ ~(i > Len(text))
    BY <1>1 DEF ByteAt
  <2> QED
    BY <2>1, <2>2, <2>3, Zenon
<1>2. CASE i > Len(text)
  <2>1. ByteAt(i) = NUL
    BY <1>2 DEF ByteAt
  <2>2. NUL \in Bytes /\ ~Continues(NUL)
    BY DEF NUL, Bytes, Continues
  <2>3. ~(i <= Len(text))
    BY <1>2
  <2> QED
    BY <2>1, <2>2, <2>3, Zenon
<1> QED
  BY <1>1, <1>2

LEMMA SkipIs ==
    ASSUME text \in Seq(TextByte), NEW i \in 1..(Len(text) + 1)
    PROVE  /\ Skip(i) \in i..(Len(text) + 1)
           /\ ~Continues(ByteAt(i)) => Skip(i) = i
<1> DEFINE S == {j \in i..(Len(text) + 1) : ~Continues(ByteAt(j))}
<1>1. Len(text) + 1 \in S
  <2>1. Len(text) + 1 \in Nat \ {0} /\ Len(text) + 1 > Len(text) /\ Len(text) + 1 \in i..(Len(text) + 1)
    OBVIOUS
  <2> QED
    BY <2>1, ByteIs
<1>2. S \in SUBSET Nat /\ \A j \in S : j \in i..(Len(text) + 1)
  OBVIOUS
<1>3. ~Continues(ByteAt(i)) => i \in S
  OBVIOUS
<1> HIDE DEF S
<1>4. \E x \in S : \A y \in S : x <= y
  BY <1>1, <1>2, LeastElement
<1>5. Min(S) \in S /\ \A y \in S : Min(S) <= y
  BY <1>4 DEF Min
<1>6. Skip(i) = Min(S)
  BY DEF Skip, S
<1>7. Min(S) \in i..(Len(text) + 1) /\ (i \in S => Min(S) <= i)
  BY <1>2, <1>5, Zenon
<1>8. i \in S => Min(S) = i
  BY <1>7
<1> QED
  BY <1>3, <1>6, <1>7, <1>8, Zenon

-----------------------------------------------------------------------------
(* A reading at the bytes of the entry, and what the entry is.             *)

LEMMA Seen ==
    ASSUME InputsOK, Bounds, input <= Len(text), NEW start \in 1..input, Follows(start)
    PROVE  /\ start \in 1..Len(text) /\ entry[1] = text[start] /\ Len(entry) \in Nat \ {0}
           /\ start + Len(entry) = input + 1
           /\ \A j \in 1..Len(entry) : entry[j] = text[start + j - 1]
           /\ \A j \in 1..(Len(entry) - 1) : Continues(text[start + j])
<1>1. /\ text \in Seq(TextByte) /\ Len(text) \in Nat /\ input \in 1..(Len(text) + 1)
      /\ Len(entry) = input - start + 1
  BY Inputs DEF Bounds, Follows
<1>2. start \in 1..Len(text) /\ Len(entry) \in Nat \ {0} /\ start + Len(entry) = input + 1
  BY <1>1
<1>3. ASSUME NEW j \in 1..Len(entry) PROVE entry[j] = text[start + j - 1]
  <2>1. start + j - 1 \in Nat \ {0} /\ start + j - 1 <= Len(text)
    BY <1>1, <1>2
  <2>2. entry[j] = ByteAt(start + j - 1)
    BY DEF Follows
  <2> QED
    BY <1>1, <2>1, <2>2, ByteIs
<1>4. ASSUME NEW j \in 1..(Len(entry) - 1) PROVE Continues(text[start + j])
  <2>1. j + 1 \in 2..Len(entry) /\ j + 1 \in 1..Len(entry) /\ start + (j + 1) - 1 = start + j
    BY <1>2
  <2>2. Continues(entry[j + 1])
    BY <2>1 DEF Follows
  <2> QED
    BY <1>3, <2>1, <2>2, Zenon
<1>5. entry[1] = text[start]
  <2>1. 1 \in 1..Len(entry) /\ start + 1 - 1 = start
    BY <1>2
  <2> QED
    BY <1>3, <2>1, Zenon
<1> QED
  BY <1>2, <1>3, <1>4, <1>5, Zenon

\* The character that the entry has a value for is the next one of the reading.
LEMMA EntryIs ==
    ASSUME InputsOK, Bounds, input <= Len(text), NEW start \in 1..input, Follows(start),
           NEW v \in ReadOf(text)[start], entry \in Known
    PROVE  \E u \in ReadOf(text)[input + 1] : v = <<entry>> \o u
<1>1. text \in Seq(TextByte) /\ Len(text) \in Nat /\ input \in 1..(Len(text) + 1)
  BY Inputs DEF Bounds
<1>2. /\ start \in 1..Len(text) /\ entry[1] = text[start] /\ Len(entry) \in Nat \ {0}
      /\ start + Len(entry) = input + 1
      /\ \A j \in 1..Len(entry) : entry[j] = text[start + j - 1]
      /\ \A j \in 1..(Len(entry) - 1) : Continues(text[start + j])
  BY Seen
<1>3. entry \in Seq(Bytes) /\ Len(entry) = Width(entry[1])
  BY KnownShape DEF Shape
<1>4. CASE \E k \in Whole(text, start) : \E w \in ReadOf(text)[start + Len(k)] : v = <<k>> \o w
  <2>1. PICK k \in Whole(text, start) : \E w \in ReadOf(text)[start + Len(k)] : v = <<k>> \o w
    BY <1>4
  <2>2. k \in Known /\ Len(k) >= 1 /\ \A j \in 1..Len(k) : k[j] = text[start + j - 1]
    BY <1>1, <1>2, WholeIs
  <2>3. k \in Seq(Bytes) /\ Len(k) = Width(k[1])
    BY <2>2, KnownShape DEF Shape
  <2>4. k[1] = entry[1]
    <3>1. 1 \in 1..Len(k) /\ start + 1 - 1 = start
      BY <1>2, <2>2, <2>3
    <3> QED
      BY <1>2, <2>2, <3>1, Zenon
  <2>5. Len(k) = Len(entry)
    BY <1>3, <2>3, <2>4, Zenon
  <2>6. k = entry
    <3>1. \A j \in 1..Len(k) : k[j] = entry[j]
      BY <1>2, <2>2, <2>5, Zenon
    <3> QED
      BY <1>3, <2>3, <2>5, <3>1, SeqEqual, Zenon
  <2> QED
    BY <1>2, <2>1, <2>6, Zenon
<1>5. ASSUME NEW n \in Broken(text, start) PROVE FALSE
  <2>1. /\ n \in 1..(Len(text) + 1 - start) /\ n < Width(text[start])
        /\ start + n <= Len(text) => ~Continues(text[start + n])
    BY <1>1, <1>2, BrokenIs
  <2>2. n < Len(entry)
    BY <1>2, <1>3, <2>1, Zenon
  <2>3. n \in 1..(Len(entry) - 1) /\ start + n <= Len(text)
    BY <1>1, <1>2, <2>1, <2>2
  <2> QED
    BY <1>2, <2>1, <2>3, Zenon
<1> QED
  BY <1>1, <1>2, <1>4, <1>5, ReadsOn, Zenon

\* A character that the text breaks off is not one of the reading.
LEMMA BrokenOff ==
    ASSUME InputsOK, Bounds, input <= Len(text), NEW start \in 1..input, Follows(start),
           NEW v \in ReadOf(text)[start], Type(entry) = "pointer", ~Continues(ByteAt(input + 1))
    PROVE  v \in ReadOf(text)[input + 1]
<1>1. text \in Seq(TextByte) /\ Len(text) \in Nat /\ input \in 1..(Len(text) + 1) /\ entry \in Seq(Bytes)
  BY Inputs DEF Bounds
<1>2. /\ start \in 1..Len(text) /\ entry[1] = text[start] /\ Len(entry) \in Nat \ {0}
      /\ start + Len(entry) = input + 1
      /\ \A j \in 1..Len(entry) : entry[j] = text[start + j - 1]
      /\ \A j \in 1..(Len(entry) - 1) : Continues(text[start + j])
  BY Seen
<1>3. Len(entry) < Width(entry[1])
  BY <1>1, <1>2, Pointer
<1>4. input + 1 <= Len(text) => ~Continues(text[input + 1])
  <2>1. input + 1 \in Nat \ {0}
    BY <1>1
  <2> QED
    BY <1>1, <2>1, ByteIs
<1>5. ASSUME NEW k \in Whole(text, start) PROVE FALSE
  <2>1. /\ k \in Known /\ Len(k) \in 1..(Len(text) + 1 - start)
        /\ \A j \in 1..Len(k) : k[j] = text[start + j - 1]
    BY <1>1, <1>2, WholeIs
  <2>2. k \in Seq(Bytes) /\ Len(k) = Width(k[1]) /\ \A j \in 2..Len(k) : Continues(k[j])
    BY <2>1, KnownShape DEF Shape
  <2>3. k[1] = entry[1]
    <3>1. 1 \in 1..Len(k) /\ start + 1 - 1 = start
      BY <1>2, <2>1
    <3> QED
      BY <1>2, <2>1, <3>1, Zenon
  <2>4. Len(entry) < Len(k)
    BY <1>3, <2>2, <2>3
  <2>5. /\ Len(entry) + 1 \in 2..Len(k) /\ Len(entry) + 1 \in 1..Len(k)
        /\ start + (Len(entry) + 1) - 1 = input + 1 /\ input + 1 <= Len(text)
    BY <1>1, <1>2, <2>1, <2>4
  <2> QED
    BY <1>4, <2>1, <2>2, <2>5, Zenon
<1>6. ASSUME NEW n \in Broken(text, start) PROVE n = Len(entry)
  <2>1. /\ n \in 1..(Len(text) + 1 - start)
        /\ \A j \in 2..n : Continues(text[start + j - 1])
        /\ start + n <= Len(text) => ~Continues(text[start + n])
    BY <1>1, <1>2, BrokenIs
  <2>2. CASE n < Len(entry)
    <3>1. n \in 1..(Len(entry) - 1) /\ start + n <= Len(text)
      BY <1>1, <1>2, <2>1, <2>2
    <3> QED
      BY <1>2, <2>1, <3>1, Zenon
  <2>3. CASE n > Len(entry)
    <3>1. Len(entry) + 1 \in 2..n /\ start + (Len(entry) + 1) - 1 = input + 1 /\ input + 1 <= Len(text)
      BY <1>1, <1>2, <2>1, <2>3
    <3> QED
      BY <1>4, <2>1, <3>1, Zenon
  <2> QED
    BY <1>2, <2>1, <2>2, <2>3
<1>7. PICK n \in Broken(text, start) : v \in ReadOf(text)[start + n]
  BY <1>1, <1>2, <1>5, ReadsOn, Zenon
<1> QED
  BY <1>2, <1>6, <1>7, Zenon

\* Where a reading goes on, the entry is a value or leads on.
LEMMA NotInvalid ==
    ASSUME InputsOK, Bounds, input <= Len(text), NEW start \in 1..input, Follows(start),
           NEW v \in ReadOf(text)[start]
    PROVE  Type(entry) # "invalid"
<1>1. text \in Seq(TextByte) /\ Len(text) \in Nat /\ input \in 1..(Len(text) + 1) /\ entry \in Seq(Bytes)
  BY Inputs DEF Bounds
<1>2. /\ start \in 1..Len(text) /\ entry[1] = text[start] /\ Len(entry) \in Nat \ {0}
      /\ start + Len(entry) = input + 1
      /\ \A j \in 1..Len(entry) : entry[j] = text[start + j - 1]
      /\ \A j \in 1..(Len(entry) - 1) : Continues(text[start + j])
  BY Seen
<1>3. CASE \E k \in Whole(text, start) : TRUE
  <2>1. PICK k \in Whole(text, start) : TRUE
    BY <1>3
  <2>2. /\ k \in Known /\ Len(k) \in 1..(Len(text) + 1 - start)
        /\ \A j \in 1..Len(k) : k[j] = text[start + j - 1]
    BY <1>1, <1>2, WholeIs
  <2>3. k \in Seq(Bytes) /\ Len(k) = Width(k[1])
    BY <2>2, KnownShape DEF Shape
  <2>4. k[1] = entry[1]
    <3>1. 1 \in 1..Len(k) /\ start + 1 - 1 = start
      BY <1>2, <2>2
    <3> QED
      BY <1>2, <2>2, <3>1, Zenon
  <2>5. Len(entry) <= Len(k)
    BY <2>3, <2>4, Zenon DEF Follows
  <2>6. \A j \in 1..Len(entry) : entry[j] = k[j]
    <3> TAKE j \in 1..Len(entry)
    <3>1. j \in 1..Len(k)
      BY <1>2, <2>2, <2>5
    <3> QED
      BY <1>2, <2>2, <3>1, Zenon
  <2> QED
    BY <1>1, <2>2, <2>5, <2>6, Leads
<1>4. CASE \E n \in Broken(text, start) : TRUE
  <2>1. PICK n \in Broken(text, start) : TRUE
    BY <1>4
  <2>2. /\ n \in 1..(Len(text) + 1 - start)
        /\ start + n <= Len(text) => ~Continues(text[start + n])
        /\ \E k \in Known : n < Len(k) /\ \A j \in 1..n : text[start + j - 1] = k[j]
    BY <1>1, <1>2, BrokenIs
  <2>3. PICK k \in Known : n < Len(k) /\ \A j \in 1..n : text[start + j - 1] = k[j]
    BY <2>2
  <2>4. Len(k) \in Nat
    BY KnownShape DEF Shape
  <2>5. CASE n < Len(entry)
    <3>1. n \in 1..(Len(entry) - 1) /\ start + n <= Len(text)
      BY <1>1, <1>2, <2>2, <2>5
    <3> QED
      BY <1>2, <2>2, <3>1, Zenon
  <2>6. CASE n >= Len(entry)
    <3>1. Len(entry) <= Len(k)
      BY <1>2, <2>2, <2>3, <2>4, <2>6
    <3>2. \A j \in 1..Len(entry) : entry[j] = k[j]
      <4> TAKE j \in 1..Len(entry)
      <4>1. j \in 1..n
        BY <1>2, <2>2, <2>6
      <4> QED
        BY <1>2, <2>3, <4>1, Zenon
    <3> QED
      BY <1>1, <3>1, <3>2, Leads
  <2> QED
    BY <1>2, <2>2, <2>5, <2>6
<1> QED
  BY <1>1, <1>2, <1>3, <1>4, ReadsOn, Zenon

-----------------------------------------------------------------------------
(* The steps.                                                              *)

\* The entry that the root of the tables has for a byte.
LEMMA AtRoot ==
    ASSUME text \in Seq(TextByte), NEW p \in 1..(Len(text) + 1), NEW e, e = <<ByteAt(p)>>
    PROVE  /\ e \in Seq(Bytes) /\ Len(e) = 1 /\ Len(e) <= Width(e[1])
           /\ \A j \in 1..Len(e) : e[j] = ByteAt(p + j - 1)
           /\ \A j \in 2..Len(e) : Continues(e[j])
<1>1. ByteAt(p) \in Bytes
  BY ByteIs
<1>2. e \in Seq(Bytes) /\ Len(e) = 1 /\ e[1] = ByteAt(p)
  <2> DEFINE b == ByteAt(p)
  <2>1. e = <<b>> /\ b \in Bytes
    BY <1>1
  <2> HIDE DEF b
  <2>2. e \in Seq(Bytes) /\ Len(e) = 1 /\ e[1] = b
    BY <2>1
  <2> QED
    BY <2>2 DEF b
<1>3. 1 <= Width(e[1])
  BY DEF Width
<1>4. ASSUME NEW j \in 1..1 PROVE e[j] = ByteAt(p + j - 1)
  <2>1. j = 1 /\ p + j - 1 = p
    OBVIOUS
  <2> QED
    BY <1>2, <2>1, Zenon
<1> QED
  BY <1>2, <1>3, <1>4

LEMMA ConvertedIs ==
    ASSUME NEW w \in Seq(Known), size \in Nat, NEW o \in Seq(Letters),
           Len(o) = (IF Len(w) < size THEN Len(w) ELSE size),
           \A i \in 1..Len(o) : o[i] = Values[w[i]]
    PROVE  o = Converted(w)
<1> DEFINE n == Len(w)
           all == [i \in DOMAIN w |-> Values[w[i]]]
<1>1. n \in Nat /\ DOMAIN w = 1..n
  OBVIOUS
<1>2. Min({n, size}) = Len(o)
  <2>1. Len(o) \in {n, size} /\ Len(o) <= n /\ Len(o) <= size
    BY <1>1
  <2>2. \A x, y \in {n, size} : x <= y /\ y <= x => x = y
    BY <1>1
  <2> QED
    BY <2>1, <2>2 DEF Min
<1>3. \A i \in 1..n : all[i] \in Letters
  BY <1>1 DEF Letters
<1>4. Len(o) \in 0..n
  BY <1>1
<1> DEFINE c == SubSeq(all, 1, Len(o))
<1>5. \A i \in 1..Len(o) : all[i] \in Letters /\ all[i] = o[i]
  <2> TAKE i \in 1..Len(o)
  <2>1. i \in 1..n
    BY <1>4
  <2> QED
    BY <1>1, <1>3, <2>1
<1>6. /\ c \in Seq(Letters) /\ Len(c) = (IF 1 <= Len(o) THEN Len(o) - 1 + 1 ELSE 0)
      /\ \A i \in 1..(Len(o) - 1 + 1) : c[i] = all[1 + i - 1]
  <2> HIDE DEF all
  <2>1. 1 \in Int /\ Len(o) \in Int
    OBVIOUS
  <2> QED
    BY <1>5, <2>1, SubSeqProperties
<1> HIDE DEF c, all
<1>7. Len(c) = Len(o) /\ \A i \in 1..Len(o) : c[i] = o[i]
  <2>1. Len(o) \in Nat
    OBVIOUS
  <2>2. Len(c) = Len(o)
    BY <1>6, <2>1
  <2>3. ASSUME NEW i \in 1..Len(o) PROVE c[i] = o[i]
    <3>1. i \in 1..(Len(o) - 1 + 1) /\ 1 + i - 1 = i
      BY <2>1
    <3> QED
      BY <1>5, <1>6, <3>1, Zenon
  <2> QED
    BY <2>2, <2>3
<1>8. o = c
  BY <1>6, <1>7, SeqEqual, Zenon
<1>9. Converted(w) = c
  BY <1>2, Zenon DEF Converted, c, all
<1> QED
  BY <1>8, <1>9

LEMMA InitHolds == ASSUME InputsOK, ConvertInit PROVE CInv
<1>1. text \in Seq(TextByte) /\ text \in Utf8Texts /\ size \in Sizes /\ size \in Nat /\ size >= 1
  BY DEF InputsOK, ConvertInit
<1>2. Len(text) \in Nat /\ 1 \in 1..(Len(text) + 1)
  BY <1>1
<1>3. /\ entry \in Seq(Bytes) /\ Len(entry) = 1 /\ Len(entry) <= Width(entry[1])
      /\ \A j \in 1..Len(entry) : entry[j] = ByteAt(1 + j - 1)
      /\ \A j \in 2..Len(entry) : Continues(entry[j])
  BY <1>1, <1>2, AtRoot DEF ConvertInit
<1>4. input = 1 /\ output = <<>> /\ output \in Seq(Letters) /\ Len(output) = 0 /\ retval = "running"
  BY DEF ConvertInit
<1>5. Bounds
  BY <1>1, <1>2, <1>3, <1>4 DEF Bounds
<1>6. ASSUME NEW w \in Readings(text) PROVE Written(w) /\ On(w)
  <2>1. w \in Seq(Known) /\ w \in ReadOf(text)[1]
    BY <1>1, ReadingsAre
  <2>2. Written(w)
    BY <1>4, <2>1 DEF Written
  <2>3. Follows(1)
    BY <1>3, <1>4 DEF Follows
  <2>4. Rest(w, 0) = w
    <3>1. 0 \in 0..Len(w) /\ Len(w) \in Nat /\ Len(w) - 0 = Len(w)
      BY <2>1
    <3>2. /\ Rest(w, 0) \in Seq(Known) /\ Len(Rest(w, 0)) = Len(w)
          /\ \A j \in 1..Len(w) : Rest(w, 0)[j] = w[0 + j]
      BY <2>1, <3>1, RestIs
    <3>3. \A j \in 1..Len(w) : Rest(w, 0)[j] = w[j]
      BY <3>2
    <3> QED
      BY <2>1, <3>2, <3>3, SeqEqual, Zenon
  <2>5. 1 \in 1..input /\ Rest(w, Len(output)) \in ReadOf(text)[1]
    BY <1>4, <2>1, <2>4
  <2>6. On(w)
    BY <2>3, <2>5 DEF On
  <2> QED
    BY <2>2, <2>6
<1>7. Reads /\ Reported
  BY <1>4, <1>6 DEF Reads, Reported
<1> QED
  BY <1>5, <1>7 DEF CInv

\* What every round starts from, and where the byte behind it is.
LEMMA Round ==
    ASSUME InputsOK, CInv, Step
    PROVE  /\ Bounds /\ text \in Seq(TextByte) /\ Len(text) \in Nat /\ input \in 1..Len(text)
           /\ input + 1 \in 1..(Len(text) + 1) /\ Len(output) < size /\ size \in Nat
           /\ retval = "running" /\ text' = text /\ size' = size
           /\ \A i : ByteAt(i)' = ByteAt(i)
           /\ \A w \in Readings(text) : w \in Seq(Known) /\ Written(w) /\ On(w)
<1>1. Bounds /\ Reads /\ retval = "running" /\ ByteAt(input) # NUL /\ text' = text /\ size' = size
  BY DEF CInv, Step
<1>2. text \in Seq(TextByte) /\ Len(text) \in Nat /\ size \in Nat
  BY <1>1, Inputs
<1>3. input \in 1..(Len(text) + 1) /\ Len(output) < size
  BY <1>1 DEF Bounds
<1>4. input <= Len(text)
  <2>1. input \in Nat \ {0}
    BY <1>2, <1>3
  <2>2. ~(input > Len(text))
    BY <1>1, <1>2, <2>1, ByteIs
  <2> QED
    BY <1>2, <1>3, <2>2
<1>5. input \in 1..Len(text) /\ input + 1 \in 1..(Len(text) + 1)
  BY <1>2, <1>3, <1>4
<1>6. \A i : ByteAt(i)' = ByteAt(i)
  BY <1>1 DEF ByteAt
<1>7. \A w \in Readings(text) : w \in Seq(Known) /\ Written(w) /\ On(w)
  BY <1>1, <1>2, ReadingsAre DEF Reads
<1> QED
  BY <1>1, <1>2, <1>3, <1>5, <1>6, <1>7, Zenon

\* The loop goes on at the root, with what is behind the bytes of the entry.
LEMMA Restarts ==
    ASSUME InputsOK, CInv, Step, NEW p \in 1..(Len(text) + 1),
           input' = p, entry' = <<ByteAt(p)>>
    PROVE  /\ entry' \in Seq(Bytes) /\ p \in 1..input' /\ Follows(p)'
<1>1. text \in Seq(TextByte) /\ \A i : ByteAt(i)' = ByteAt(i)
  BY Round
<1>2. /\ entry' \in Seq(Bytes) /\ Len(entry') = 1 /\ Len(entry') <= Width(entry'[1])
      /\ \A j \in 1..Len(entry') : entry'[j] = ByteAt(p + j - 1)
      /\ \A j \in 2..Len(entry') : Continues(entry'[j])
  BY <1>1, AtRoot
<1>3. Len(entry') = input' - p + 1 /\ p \in 1..input'
  <2>1. p \in Nat /\ p >= 1 /\ Len(entry') = 1
    BY <1>1, <1>2
  <2> QED
    BY <2>1
<1>4. \A j \in 1..Len(entry') : entry'[j] = ByteAt(p + j - 1)'
  BY <1>1, <1>2, Zenon
<1> QED
  BY <1>2, <1>3, <1>4, Zenon DEF Follows, Continues

\* A byte that continues the entry is added to the bytes it follows.
LEMMA Extends ==
    ASSUME InputsOK, CInv, Step, Type(entry) = "pointer", NextInTable(ByteAt(input + 1)),
           input' = input + 1, entry' = Append(entry, ByteAt(input + 1)),
           NEW start \in 1..input, Follows(start)
    PROVE  start \in 1..input' /\ Follows(start)'
<1> DEFINE b == ByteAt(input + 1)
           n == Len(entry)
<1>1. /\ Bounds /\ text \in Seq(TextByte) /\ Len(text) \in Nat /\ input \in 1..Len(text)
      /\ text' = text /\ \A i : ByteAt(i)' = ByteAt(i)
  BY Round, Zenon
<1>2. entry \in Seq(Bytes)
  BY <1>1 DEF Bounds
<1>3. b \in Bytes /\ Continues(b)
  <2>1. input + 1 \in Nat \ {0}
    BY <1>1
  <2> QED
    BY <1>1, <2>1, ByteIs DEF NextInTable
<1> HIDE DEF b
<1>4. /\ entry' \in Seq(Bytes) /\ Len(entry') = n + 1 /\ entry'[n + 1] = b
      /\ \A j \in 1..n : entry'[j] = entry[j]
  <2>1. entry' = Append(entry, b)
    BY DEF b
  <2> QED
    BY <1>2, <1>3, <2>1
<1>5. start \in 1..Len(text) /\ n \in Nat \ {0} /\ start + n = input + 1
  <2>1. input <= Len(text)
    BY <1>1
  <2> QED
    BY <1>1, <2>1, Seen
<1>6. n < Width(entry[1])
  BY <1>2, <1>5, Pointer
<1>7. Len(entry') = input' - start + 1 /\ start \in 1..input'
  <2>1. Len(entry') = n + 1 /\ input' = input + 1 /\ input \in Nat /\ start \in Nat
    BY <1>1, <1>4
  <2> HIDE DEF n
  <2>2. n + 1 = input + 1 - start + 1 /\ start <= input + 1 /\ start >= 1
    BY <1>5, <2>1
  <2> QED
    BY <2>1, <2>2
<1>8. entry'[1] = entry[1]
  BY <1>4, <1>5
<1>9. Len(entry') <= Width(entry'[1])
  <2>1. Width(entry[1]) \in Nat
    BY DEF Width
  <2> QED
    BY <1>4, <1>5, <1>6, <1>8, <2>1
<1>10. ASSUME NEW j \in 1..Len(entry') PROVE entry'[j] = ByteAt(start + j - 1)
  <2>1. CASE j = n + 1
    <3>1. start + j - 1 = input + 1
      BY <1>1, <1>5, <2>1
    <3> QED
      BY <1>4, <2>1, <3>1, Zenon DEF b
  <2>2. CASE j # n + 1
    <3>1. j \in 1..n
      BY <1>4, <1>5, <2>2
    <3> QED
      BY <1>4, <3>1, Zenon DEF Follows
  <2> QED
    BY <2>1, <2>2
<1>11. ASSUME NEW j \in 2..Len(entry') PROVE Continues(entry'[j])
  <2>1. CASE j = n + 1
    BY <1>3, <1>4, <2>1, Zenon
  <2>2. CASE j # n + 1
    <3>1. j \in 1..n /\ j \in 2..n
      BY <1>4, <1>5, <2>2
    <3> QED
      BY <1>4, <3>1, Zenon DEF Follows
  <2> QED
    BY <2>1, <2>2
<1>12. Follows(start)'
  <2>1. \A j \in 1..Len(entry') : entry'[j] = ByteAt(start + j - 1)'
    BY <1>1, <1>10, Zenon
  <2> QED
    BY <1>7, <1>9, <1>11, <2>1, Zenon DEF Follows, Continues
<1> QED
  BY <1>7, <1>12

LEMMA TakeEntryHolds == ASSUME InputsOK, CInv, Step, TakeEntry PROVE CInv'
<1>1. /\ Bounds /\ text \in Seq(TextByte) /\ Len(text) \in Nat /\ input \in 1..Len(text)
      /\ input + 1 \in 1..(Len(text) + 1) /\ Len(output) < size /\ size \in Nat
      /\ retval = "running" /\ text' = text /\ size' = size
      /\ \A i : ByteAt(i)' = ByteAt(i)
      /\ \A w \in Readings(text) : w \in Seq(Known) /\ Written(w) /\ On(w)
  BY Round, Zenon
<1>2. /\ text \in Utf8Texts /\ size \in Sizes /\ entry \in Seq(Bytes) /\ output \in Seq(Letters)
  BY <1>1 DEF Bounds
<1>3. entry \in Known
  BY DEF TakeEntry, Type, Known
<1>4. input' = input + 1 /\ output' = Append(output, Values[entry])
  BY DEF TakeEntry
<1>5. /\ output' \in Seq(Letters) /\ Len(output') = Len(output) + 1
      /\ output'[Len(output) + 1] = Values[entry]
      /\ \A i \in 1..Len(output) : output'[i] = output[i]
  <2> DEFINE x == Values[entry]
  <2>1. x \in Letters
    BY <1>3 DEF Letters
  <2> HIDE DEF x
  <2>2. output' = Append(output, x)
    BY <1>4 DEF x
  <2>3. /\ output' \in Seq(Letters) /\ Len(output') = Len(output) + 1
        /\ output'[Len(output) + 1] = x /\ \A i \in 1..Len(output) : output'[i] = output[i]
    BY <1>2, <2>1, <2>2
  <2> QED
    BY <2>3 DEF x
<1>6. Len(output) \in Nat /\ Len(output') <= size
  BY <1>1, <1>2, <1>5
<1>7. ASSUME NEW w \in Readings(text)
      PROVE  /\ w \in Seq(Known) /\ Len(output') <= Len(w)
             /\ \A i \in 1..Len(output') : output'[i] = Values[w[i]]
             /\ Rest(w, Len(output')) \in ReadOf(text)[input + 1]
  <2>1. w \in Seq(Known) /\ Written(w) /\ On(w)
    BY <1>1
  <2>2. PICK start \in 1..input : Follows(start) /\ Rest(w, Len(output)) \in ReadOf(text)[start]
    BY <2>1 DEF On
  <2>3. input <= Len(text)
    BY <1>1
  <2>4. PICK u \in ReadOf(text)[input + 1] : Rest(w, Len(output)) = <<entry>> \o u
    BY <1>1, <1>3, <2>2, <2>3, EntryIs, Zenon
  <2>5. u \in Seq(Known)
    BY <1>1, ReadExists DEF Words
  <2>6. Len(output) \in 0..Len(w) /\ Len(w) \in Nat
    BY <1>6, <2>1 DEF Written
  <2> DEFINE n == Len(output)
  <2>7. n < Len(w) /\ w[n + 1] = entry /\ Rest(w, n + 1) = u
    <3>1. ASSUME NEW k \in Known, NEW v \in Seq(Known), NEW m \in 0..Len(w), Rest(w, m) = <<k>> \o v
          PROVE  m < Len(w) /\ w[m + 1] = k /\ Rest(w, m + 1) = v
      BY <2>1, <3>1, OneLess
    <3>2. n \in 0..Len(w) /\ Rest(w, n) = <<entry>> \o u
      BY <2>4, <2>6
    <3> HIDE DEF n
    <3> QED
      BY <1>3, <2>5, <3>1, <3>2, Zenon
  <2>8. Len(output') <= Len(w)
    BY <1>5, <1>6, <2>6, <2>7
  <2>9. ASSUME NEW i \in 1..Len(output') PROVE output'[i] = Values[w[i]]
    <3>1. CASE i = Len(output) + 1
      BY <1>5, <2>7, <3>1, Zenon
    <3>2. CASE i # Len(output) + 1
      <4>1. i \in 1..Len(output)
        BY <1>5, <1>6, <3>2
      <4> QED
        BY <1>5, <2>1, <4>1, Zenon DEF Written
    <3> QED
      BY <3>1, <3>2
  <2>10. Rest(w, Len(output')) \in ReadOf(text)[input + 1]
    BY <1>5, <2>7, Zenon
  <2> QED
    BY <2>1, <2>8, <2>9, <2>10, Zenon
<1>8. Readings(text)' = Readings(text)
  BY <1>1, Zenon
<1>9. CASE Len(output') >= size
  <2>1. retval' = "-E2BIG" /\ entry' = entry
    BY <1>9 DEF TakeEntry, Full
  <2>2. Bounds'
    <3>1. input' \in 1..(Len(text') + 1) /\ text' \in Utf8Texts /\ size' \in Sizes /\ entry' \in Seq(Bytes)
      BY <1>1, <1>2, <1>4, <2>1
    <3>2. output' \in Seq(Letters) /\ Len(output') <= size' /\ retval' # "running"
      BY <1>1, <1>5, <1>6, <2>1
    <3> QED
      BY <3>1, <3>2 DEF Bounds
  <2>3. Len(output') = size
    BY <1>1, <1>5, <1>6, <1>9
  <2>4. ASSUME NEW w \in Readings(text) PROVE output' = Converted(w)' /\ Len(w) >= size'
    <3>1. /\ w \in Seq(Known) /\ Len(output') <= Len(w)
          /\ \A i \in 1..Len(output') : output'[i] = Values[w[i]]
      BY <1>7
    <3>2. Len(w) \in Nat
      BY <3>1
    <3>3. Len(output') = (IF Len(w) < size THEN Len(w) ELSE size) /\ Len(w) >= size
      BY <1>1, <2>3, <3>1, <3>2
    <3>4. output' = Converted(w)
      BY <1>1, <1>5, <3>1, <3>3, ConvertedIs
    <3>5. Converted(w)' = Converted(w)
      BY <1>1 DEF Converted
    <3> QED
      BY <1>1, <3>3, <3>4, <3>5
  <2>5. Reads'
    BY <2>1 DEF Reads
  <2>6. Reported'
    BY <1>8, <2>1, <2>4, Zenon DEF Reported
  <2> QED
    BY <2>2, <2>5, <2>6 DEF CInv
<1>10. CASE ~(Len(output') >= size)
  <2>1. retval' = "running" /\ entry' = <<ByteAt(input + 1)>>
    BY <1>1, <1>10 DEF TakeEntry, Full
  <2>2. PICK p \in 1..(Len(text) + 1) : p = input + 1
    BY <1>1
  <2>3. entry' \in Seq(Bytes) /\ p \in 1..input' /\ Follows(p)'
    BY <1>4, <2>1, <2>2, Restarts
  <2>4. Bounds'
    <3>1. input' \in 1..(Len(text') + 1) /\ text' \in Utf8Texts /\ size' \in Sizes
      BY <1>1, <1>2, <1>4
    <3>2. output' \in Seq(Letters) /\ Len(output') <= size' /\ Len(output') < size'
      BY <1>1, <1>5, <1>6, <1>10
    <3> QED
      BY <2>3, <3>1, <3>2 DEF Bounds
  <2>5. ASSUME NEW w \in Readings(text)' PROVE Written(w)' /\ On(w)'
    <3>1. /\ w \in Seq(Known) /\ Len(output') <= Len(w)
          /\ \A i \in 1..Len(output') : output'[i] = Values[w[i]]
          /\ Rest(w, Len(output')) \in ReadOf(text)[input + 1]
      BY <1>7, <1>8, Zenon
    <3>2. Written(w)'
      BY <3>1 DEF Written
    <3>3. \E start \in 1..input' : Follows(start)' /\ Rest(w, Len(output')) \in ReadOf(text')[start]
      BY <1>1, <2>2, <2>3, <3>1, Zenon
    <3>4. On(w)'
      BY <3>3, Zenon DEF On, Rest
    <3> QED
      BY <3>2, <3>4
  <2>6. Reads'
    BY <2>5 DEF Reads
  <2>7. Reported'
    BY <2>1 DEF Reported
  <2> QED
    BY <2>4, <2>6, <2>7 DEF CInv
<1> QED
  BY <1>9, <1>10

LEMMA FollowPointerHolds == ASSUME InputsOK, CInv, Step, FollowPointer PROVE CInv'
<1>1. /\ Bounds /\ text \in Seq(TextByte) /\ Len(text) \in Nat /\ input \in 1..Len(text)
      /\ input + 1 \in 1..(Len(text) + 1) /\ Len(output) < size /\ size \in Nat
      /\ retval = "running" /\ text' = text /\ size' = size
      /\ \A i : ByteAt(i)' = ByteAt(i)
      /\ \A w \in Readings(text) : w \in Seq(Known) /\ Written(w) /\ On(w)
  BY Round, Zenon
<1>2. /\ text \in Utf8Texts /\ size \in Sizes /\ entry \in Seq(Bytes) /\ output \in Seq(Letters)
      /\ Len(output) <= size
  BY <1>1 DEF Bounds
<1>3. Type(entry) = "pointer" /\ output' = output /\ retval' = retval
  BY DEF FollowPointer
<1>4. Readings(text)' = Readings(text) /\ \A w : Written(w) => Written(w)'
  BY <1>1, <1>3 DEF Written
<1>5. Reported'
  BY <1>1, <1>3 DEF Reported
<1>6. ASSUME NEW p \in 1..(Len(text) + 1), input' = p, entry' \in Seq(Bytes),
             \A w \in Readings(text) :
                \E start \in 1..input' : Follows(start)' /\ Rest(w, Len(output)) \in ReadOf(text)[start]
      PROVE  CInv'
  <2>1. Bounds'
    <3>1. input' \in 1..(Len(text') + 1) /\ text' \in Utf8Texts /\ size' \in Sizes
      BY <1>1, <1>2, <1>6
    <3>2. output' \in Seq(Letters) /\ Len(output') <= size' /\ Len(output') < size'
      BY <1>1, <1>2, <1>3
    <3> QED
      BY <1>6, <3>1, <3>2 DEF Bounds
  <2>2. ASSUME NEW w \in Readings(text)' PROVE Written(w)' /\ On(w)'
    <3>1. w \in Readings(text)
      BY <1>4
    <3>2. \E start \in 1..input' : Follows(start)' /\ Rest(w, Len(output')) \in ReadOf(text')[start]
      BY <1>1, <1>3, <1>6, <3>1, Zenon
    <3>3. On(w)'
      BY <3>2, Zenon DEF On, Rest
    <3> QED
      BY <1>1, <1>4, <3>1, <3>3, Zenon
  <2>3. Reads'
    BY <2>2 DEF Reads
  <2> QED
    BY <1>5, <2>1, <2>3 DEF CInv
<1>7. CASE NextInTable(ByteAt(input + 1)) /\ input' = input + 1 /\ entry' = Append(entry, ByteAt(input + 1))
  <2> DEFINE b == ByteAt(input + 1)
  <2>1. b \in Bytes
    <3>1. input + 1 \in Nat \ {0}
      BY <1>1
    <3> QED
      BY <1>1, <3>1, ByteIs
  <2>2. entry' = Append(entry, b)
    BY <1>7
  <2> HIDE DEF b
  <2>3. entry' \in Seq(Bytes)
    BY <1>2, <2>1, <2>2
  <2>4. PICK p \in 1..(Len(text) + 1) : p = input + 1
    BY <1>1
  <2>5. ASSUME NEW w \in Readings(text)
        PROVE  \E start \in 1..input' : Follows(start)' /\ Rest(w, Len(output)) \in ReadOf(text)[start]
    <3>1. PICK start \in 1..input : Follows(start) /\ Rest(w, Len(output)) \in ReadOf(text)[start]
      BY <1>1 DEF On
    <3>2. start \in 1..input' /\ Follows(start)'
      BY <1>3, <1>7, <3>1, Extends
    <3> QED
      BY <3>1, <3>2, Zenon
  <2> QED
    BY <1>6, <1>7, <2>3, <2>4, <2>5
<1>8. CASE /\ ~NextInTable(ByteAt(input + 1))
           /\ input' = Skip(input + 1) /\ entry' = <<ByteAt(Skip(input + 1))>>
  <2>1. ~Continues(ByteAt(input + 1))
    BY <1>8 DEF NextInTable
  <2>2. PICK p \in 1..(Len(text) + 1) : p = input + 1
    BY <1>1
  <2>3. Skip(input + 1) = p
    BY <1>1, <2>1, <2>2, SkipIs
  <2>4. input' = p /\ entry' = <<ByteAt(p)>>
    BY <1>8, <2>3
  <2>5. entry' \in Seq(Bytes) /\ p \in 1..input' /\ Follows(p)'
    BY <2>4, Restarts
  <2>6. ASSUME NEW w \in Readings(text)
        PROVE  \E start \in 1..input' : Follows(start)' /\ Rest(w, Len(output)) \in ReadOf(text)[start]
    <3>1. PICK start \in 1..input : Follows(start) /\ Rest(w, Len(output)) \in ReadOf(text)[start]
      BY <1>1 DEF On
    <3>2. input <= Len(text)
      BY <1>1
    <3>3. Rest(w, Len(output)) \in ReadOf(text)[input + 1]
      BY <1>1, <1>3, <2>1, <3>1, <3>2, BrokenOff
    <3> QED
      BY <2>2, <2>5, <3>3, Zenon
  <2> QED
    BY <1>6, <2>4, <2>5, <2>6
<1> QED
  BY <1>7, <1>8 DEF FollowPointer

LEMMA SkipInvalidHolds == ASSUME InputsOK, CInv, Step, SkipInvalid PROVE CInv'
<1>1. /\ Bounds /\ text \in Seq(TextByte) /\ Len(text) \in Nat /\ input \in 1..Len(text)
      /\ input + 1 \in 1..(Len(text) + 1) /\ Len(output) < size /\ size \in Nat
      /\ retval = "running" /\ text' = text /\ size' = size
      /\ \A w \in Readings(text) : w \in Seq(Known) /\ Written(w) /\ On(w)
  BY Round, Zenon
<1>2. /\ text \in Utf8Texts /\ size \in Sizes /\ entry \in Seq(Bytes) /\ output \in Seq(Letters)
      /\ Len(output) <= size
  BY <1>1 DEF Bounds
<1>3. /\ Type(entry) = "invalid" /\ input' = Skip(input + 1)
      /\ entry' = entry /\ output' = output /\ retval' = retval
  BY DEF SkipInvalid
<1>4. input' \in 1..(Len(text) + 1)
  <2>1. Skip(input + 1) \in (input + 1)..(Len(text) + 1)
    BY <1>1, SkipIs
  <2> QED
    BY <1>1, <1>3, <2>1
<1>5. Bounds'
  BY <1>1, <1>2, <1>3, <1>4 DEF Bounds
<1>6. ASSUME NEW w \in Readings(text) PROVE FALSE
  <2>1. PICK start \in 1..input : Follows(start) /\ Rest(w, Len(output)) \in ReadOf(text)[start]
    BY <1>1, <1>6 DEF On
  <2>2. input <= Len(text)
    BY <1>1
  <2> QED
    BY <1>1, <1>3, <2>1, <2>2, NotInvalid
<1>7. Readings(text)' = Readings(text)
  BY <1>1, Zenon
<1>8. Reads' /\ Reported'
  BY <1>1, <1>3, <1>6, <1>7 DEF Reads, Reported
<1> QED
  BY <1>5, <1>8 DEF CInv

LEMMA ReturnHolds == ASSUME InputsOK, CInv, Return PROVE CInv'
<1>1. Bounds /\ Reads /\ retval = "running" /\ ByteAt(input) = NUL
  BY DEF CInv, Return
<1>2. text' = text /\ size' = size /\ input' = input /\ entry' = entry /\ output' = output /\ retval' = "0"
  BY DEF Return
<1>3. text \in Seq(TextByte) /\ Len(text) \in Nat /\ size \in Nat
  BY <1>1, Inputs
<1>4. /\ input \in 1..(Len(text) + 1) /\ output \in Seq(Letters) /\ Len(output) < size
  BY <1>1 DEF Bounds
<1>5. input = Len(text) + 1
  <2>1. input \in Nat \ {0}
    BY <1>3, <1>4
  <2>2. ~(input <= Len(text))
    BY <1>1, <1>3, <2>1, ByteIs
  <2> QED
    BY <1>3, <1>4, <2>2
<1>6. ASSUME NEW w \in Readings(text) PROVE output = Converted(w) /\ Len(w) < size
  <2>1. w \in Seq(Known) /\ Written(w) /\ On(w)
    BY <1>1, <1>3, ReadingsAre DEF Reads
  <2>2. PICK start \in 1..input : Follows(start) /\ Rest(w, Len(output)) \in ReadOf(text)[start]
    BY <2>1 DEF On
  <2>3. start = input
    <3>1. SUFFICES ASSUME start # input PROVE FALSE
      OBVIOUS
    <3> DEFINE n == Len(entry)
    <3>2. n = input - start + 1
      BY <2>2 DEF Follows
    <3>3. n \in 2..n /\ n \in 1..n /\ start + n - 1 = input
      BY <1>3, <1>4, <3>1, <3>2
    <3>4. Continues(ByteAt(input))
      <4>1. Continues(entry[n]) /\ entry[n] = ByteAt(start + n - 1)
        BY <2>2, <3>3, Zenon DEF Follows
      <4> QED
        BY <3>3, <4>1, Zenon
    <3> QED
      BY <1>1, <3>4 DEF Continues, NUL
  <2>4. Rest(w, Len(output)) = <<>>
    BY <1>3, <1>5, <2>2, <2>3, ReadsEnd
  <2>5. Len(output) \in 0..Len(w) /\ Len(w) \in Nat
    BY <1>4, <2>1 DEF Written
  <2>6. Len(output) = Len(w)
    BY <2>1, <2>4, <2>5, NoneLeft
  <2>7. Len(output) = (IF Len(w) < size THEN Len(w) ELSE size)
    BY <1>4, <2>6
  <2>8. \A i \in 1..Len(output) : output[i] = Values[w[i]]
    BY <2>1 DEF Written
  <2> QED
    BY <1>3, <1>4, <2>1, <2>6, <2>7, <2>8, ConvertedIs
<1>7. ASSUME NEW w \in Readings(text) PROVE output' = Converted(w)' /\ ~(Len(w) >= size')
  <2>1. output = Converted(w) /\ Len(w) < size /\ Len(w) \in Nat
    BY <1>3, <1>6, ReadingsAre
  <2>2. Converted(w)' = Converted(w)
    BY <1>2 DEF Converted
  <2> QED
    BY <1>2, <1>3, <2>1, <2>2
<1>8. Readings(text)' = Readings(text)
  BY <1>2, Zenon
<1>9. Reported'
  BY <1>2, <1>7, <1>8, Zenon DEF Reported
<1>10. Bounds' /\ Reads'
  BY <1>1, <1>2 DEF Bounds, Reads
<1> QED
  BY <1>9, <1>10 DEF CInv

LEMMA StepHolds == ASSUME InputsOK, CInv, [ConvertNext]_mvars PROVE CInv'
<1>1. CASE Step
  BY <1>1, TakeEntryHolds, FollowPointerHolds, SkipInvalidHolds DEF Step
<1>2. CASE Return
  BY <1>2, ReturnHolds
<1>3. CASE UNCHANGED mvars
  <2>1. /\ text' = text /\ size' = size /\ input' = input /\ entry' = entry
        /\ output' = output /\ retval' = retval
    BY <1>3 DEF mvars
  <2>2. Bounds'
    BY <2>1 DEF CInv, Bounds
  <2>3. Readings(text)' = Readings(text) /\ \A w : Converted(w)' = Converted(w)
    BY <2>1 DEF Converted
  <2>4. Reported'
    BY <2>1, <2>3, Zenon DEF CInv, Reported
  <2>5. \A i : ByteAt(i)' = ByteAt(i)
    BY <2>1 DEF ByteAt
  <2>6. \A s : Follows(s) => Follows(s)'
    BY <2>1, <2>5, Zenon DEF Follows, Continues
  <2>7. ASSUME NEW w \in Readings(text)', retval' = "running" PROVE Written(w)' /\ On(w)'
    <3>1. Written(w) /\ On(w)
      BY <2>1, <2>3, <2>7, Zenon DEF CInv, Reads
    <3>2. Written(w)'
      BY <2>1, <3>1 DEF Written
    <3>3. \E start \in 1..input' : Follows(start)' /\ Rest(w, Len(output')) \in ReadOf(text')[start]
      BY <2>1, <2>6, <3>1, Zenon DEF On
    <3>4. On(w)'
      BY <3>3, Zenon DEF On, Rest
    <3> QED
      BY <3>2, <3>4
  <2>8. Reads'
    BY <2>7 DEF Reads
  <2> QED
    BY <2>2, <2>4, <2>8 DEF CInv
<1> QED
  BY <1>1, <1>2, <1>3 DEF ConvertNext

LEMMA Invariant == ASSUME InputsOK PROVE ConvertSpec => []CInv
<1>1. ConvertInit => CInv
  BY InitHolds
<1>2. CInv /\ [ConvertNext]_mvars => CInv'
  BY StepHolds
<1> QED
  BY <1>1, <1>2, PTL DEF ConvertSpec

\* Whatever bytes a text has, well formed or not, the loop reads none behind its NUL and
\* writes none behind the end of the buffer.
THEOREM StaysInBounds == ASSUME InputsOK PROVE ConvertSpec => []InBounds
<1>1. CInv => InBounds
  <2> SUFFICES ASSUME CInv PROVE InBounds
    OBVIOUS
  <2>1. Len(text) \in Nat /\ input \in 1..(Len(text) + 1) /\ Len(output) <= size
    BY Inputs DEF CInv, Bounds
  <2> QED
    BY <2>1 DEF InBounds
<1> QED
  BY <1>1, Invariant, PTL

\* A text of characters of the map, some broken off, is converted character by character
\* as far as the buffer goes, without the broken ones; a text that is cut is reported.
THEOREM Converts == ASSUME InputsOK PROVE ConvertSpec => []TextConverted
<1>1. CInv => TextConverted
  <2> SUFFICES ASSUME CInv, retval # "running", NEW w \in Readings(text)
               PROVE  /\ output = Converted(w)
                      /\ Len(w) > size => retval = "-E2BIG"
                      /\ retval = "-E2BIG" => Len(w) >= size
    BY DEF TextConverted
  <2>1. text \in Seq(TextByte) /\ size \in Nat
    BY Inputs DEF CInv
  <2>2. Len(w) \in Nat
    BY <2>1, ReadingsAre
  <2>3. output = Converted(w) /\ retval = (IF Len(w) >= size THEN "-E2BIG" ELSE "0")
    BY DEF CInv, Reported
  <2> QED
    BY <2>1, <2>2, <2>3
<1> QED
  BY <1>1, Invariant, PTL

-----------------------------------------------------------------------------
(* What is written are characters of the text.  Unlike the readings this is *)
(* about texts with unknown characters as well, so it is followed apart:    *)
(* the places of the characters written, all before the bytes of the entry. *)

Taken(at, p) ==
    \A j \in 1..Len(output) : \E k \in Whole(text, at[j]) :
        /\ Values[k] = output[j]
        /\ at[j] + Len(k) <= (IF j < Len(output) THEN at[j + 1] ELSE p)

Picked ==
    \E p \in 1..(Len(text) + 1) :
        /\ \E at \in [1..Len(output) -> 1..Len(text)] : Taken(at, p)
        /\ retval = "running" /\ Type(entry) # "invalid" => p \in 1..input /\ Follows(p)

LEMMA EntryWhole ==
    ASSUME InputsOK, Bounds, input <= Len(text), NEW p \in 1..input, Follows(p), entry \in Known
    PROVE  p \in 1..Len(text) /\ entry \in Whole(text, p) /\ p + Len(entry) = input + 1
<1>1. text \in Seq(TextByte) /\ Len(text) \in Nat /\ input \in 1..(Len(text) + 1)
  BY Inputs DEF Bounds
<1>2. /\ p \in 1..Len(text) /\ Len(entry) \in Nat \ {0} /\ p + Len(entry) = input + 1
      /\ \A j \in 1..Len(entry) : entry[j] = text[p + j - 1]
  BY Seen
<1> DEFINE rest == SubSeq(text, p, Len(text))
           m == Len(text) + 1 - p
<1>3. /\ rest \in Seq(Bytes) /\ Len(rest) = m
      /\ \A j \in 1..m : rest[j] = text[p + j - 1]
  <2>1. Len(text) = p + m - 1 /\ m \in 0..m
    BY <1>1, <1>2
  <2>2. rest = SubSeq(text, p, p + m - 1)
    BY <2>1, Zenon
  <2> HIDE DEF rest
  <2> QED
    BY <1>1, <1>2, <2>1, <2>2, Piece, Zenon
<1> HIDE DEF rest
<1>4. Len(entry) <= Len(rest) /\ \A j \in 1..Len(entry) : j \in 1..m
  BY <1>1, <1>2, <1>3
<1>5. \A j \in 1..Len(entry) : entry[j] = rest[j]
  BY <1>2, <1>3, <1>4, Zenon
<1>6. entry \in Seq(Bytes)
  BY DEF Bounds
<1>7. IsPrefix(entry, rest)
  BY <1>3, <1>4, <1>5, <1>6, PrefixIs
<1>8. entry \in Whole(text, p)
  BY <1>7 DEF Whole, Known, rest
<1> QED
  BY <1>2, <1>8

LEMMA TakenLater ==
    ASSUME InputsOK, Bounds, NEW p \in 1..(Len(text) + 1), NEW q \in 1..(Len(text) + 1), p <= q,
           NEW at \in [1..Len(output) -> 1..Len(text)], Taken(at, p)
    PROVE  Taken(at, q)
<1>1. text \in Seq(TextByte) /\ Len(text) \in Nat
  BY Inputs
<1> SUFFICES ASSUME NEW j \in 1..Len(output)
             PROVE  \E k \in Whole(text, at[j]) :
                        /\ Values[k] = output[j]
                        /\ at[j] + Len(k) <= (IF j < Len(output) THEN at[j + 1] ELSE q)
  BY DEF Taken
<1>2. PICK k \in Whole(text, at[j]) :
          /\ Values[k] = output[j]
          /\ at[j] + Len(k) <= (IF j < Len(output) THEN at[j + 1] ELSE p)
  BY DEF Taken
<1>3. at[j] \in 1..Len(text)
  OBVIOUS
<1>4. Len(k) \in 1..(Len(text) + 1 - at[j])
  BY <1>1, <1>3, WholeIs
<1>5. at[j] + Len(k) <= (IF j < Len(output) THEN at[j + 1] ELSE q)
  BY <1>1, <1>2, <1>3, <1>4
<1> QED
  BY <1>2, <1>5

LEMMA PickedTakeEntry == ASSUME InputsOK, CInv, Picked, Step, TakeEntry PROVE Picked'
<1>1. /\ Bounds /\ text \in Seq(TextByte) /\ Len(text) \in Nat /\ input \in 1..Len(text)
      /\ input + 1 \in 1..(Len(text) + 1) /\ retval = "running" /\ text' = text
  BY Round, Zenon
<1>2. Type(entry) = "entry" /\ entry \in Known /\ input' = input + 1
  BY DEF TakeEntry, Type, Known
<1> DEFINE n == Len(output)
<1>3. /\ n \in Nat /\ Len(output') = n + 1 /\ output'[n + 1] = Values[entry]
      /\ \A i \in 1..n : output'[i] = output[i]
  <2> DEFINE x == Values[entry]
  <2>1. output \in Seq(Letters) /\ x \in Letters
    BY <1>1, <1>2 DEF Bounds, Letters
  <2>2. output' = Append(output, x)
    BY DEF TakeEntry
  <2> HIDE DEF x
  <2>3. /\ n \in Nat /\ Len(output') = n + 1 /\ output'[n + 1] = x
        /\ \A i \in 1..n : output'[i] = output[i]
    BY <2>1, <2>2
  <2> QED
    BY <2>3 DEF x
<1>4. PICK p \in 1..(Len(text) + 1) :
          /\ \E at \in [1..n -> 1..Len(text)] : Taken(at, p)
          /\ p \in 1..input /\ Follows(p)
  BY <1>1, <1>2 DEF Picked
<1>5. PICK at \in [1..n -> 1..Len(text)] : Taken(at, p)
  BY <1>4
<1>6. p \in 1..Len(text) /\ entry \in Whole(text, p) /\ p + Len(entry) = input + 1
  <2>1. input <= Len(text)
    BY <1>1
  <2> QED
    BY <1>1, <1>2, <1>4, <2>1, EntryWhole
<1>7. PICK next \in [1..(n + 1) -> 1..Len(text)] :
          next[n + 1] = p /\ \A j \in 1..n : next[j] = at[j]
  <2> DEFINE f == [j \in 1..(n + 1) |-> IF j <= n THEN at[j] ELSE p]
  <2>1. f \in [1..(n + 1) -> 1..Len(text)]
    BY <1>3, <1>6
  <2>2. f[n + 1] = p /\ \A j \in 1..n : f[j] = at[j]
    BY <1>3
  <2> HIDE DEF f, n
  <2> QED
    BY <2>1, <2>2, Zenon
<1> HIDE DEF n
<1>9. ASSUME NEW j \in 1..(n + 1)
      PROVE  \E k \in Whole(text, next[j]) :
                /\ Values[k] = output'[j]
                /\ next[j] + Len(k) <= (IF j < n + 1 THEN next[j + 1] ELSE input + 1)
  <2>1. CASE j = n + 1
    <3>1. ~(j < n + 1) /\ input + 1 <= input + 1
      BY <1>1, <1>3, <2>1
    <3>2. next[j] = p /\ output'[j] = Values[entry]
      BY <1>3, <1>7, <2>1
    <3>3. next[j] + Len(entry) <= input + 1
      BY <1>6, <3>1, <3>2
    <3> QED
      BY <1>6, <3>1, <3>2, <3>3
  <2>2. CASE j # n + 1
    <3>1. j \in 1..n /\ j < n + 1
      BY <1>3, <2>2
    <3>2. PICK k \in Whole(text, at[j]) :
              /\ Values[k] = output[j]
              /\ at[j] + Len(k) <= (IF j < n THEN at[j + 1] ELSE p)
      BY <1>5, <3>1 DEF Taken, n
    <3>3. next[j + 1] = (IF j < n THEN at[j + 1] ELSE p)
      <4>1. CASE j < n
        <5>1. j + 1 \in 1..n
          BY <1>3, <3>1, <4>1
        <5> QED
          BY <1>7, <4>1, <5>1
      <4>2. CASE ~(j < n)
        <5>1. j + 1 = n + 1
          BY <1>3, <3>1, <4>2
        <5> QED
          BY <1>7, <4>2, <5>1
      <4> QED
        BY <4>1, <4>2
    <3>4. next[j] = at[j] /\ output'[j] = output[j]
      BY <1>3, <1>7, <3>1
    <3>5. next[j] + Len(k) <= next[j + 1]
      BY <3>2, <3>3, <3>4
    <3> QED
      BY <3>1, <3>2, <3>4, <3>5
  <2> QED
    BY <2>1, <2>2
<1>10. PICK q \in 1..(Len(text) + 1) : q = input + 1
  BY <1>1
<1>11. Taken(next, q)'
  <2>1. \A j \in 1..Len(output') : \E k \in Whole(text', next[j]) :
            /\ Values[k] = output'[j]
            /\ next[j] + Len(k) <= (IF j < Len(output') THEN next[j + 1] ELSE q)
    BY <1>1, <1>3, <1>9, <1>10
  <2> QED
    BY <2>1 DEF Taken
<1>12. retval' = "running" => q \in 1..input' /\ Follows(q)'
  <2> SUFFICES ASSUME retval' = "running" PROVE q \in 1..input' /\ Follows(q)'
    OBVIOUS
  <2>1. entry' = <<ByteAt(q)>> /\ input' = q
    BY <1>2, <1>10 DEF TakeEntry
  <2> QED
    BY <2>1, Restarts
<1>13. next \in [1..Len(output') -> 1..Len(text')] /\ q \in 1..(Len(text') + 1)
  BY <1>1, <1>3, <1>7
<1> QED
  BY <1>11, <1>12, <1>13, Zenon DEF Picked

\* Nothing is written, and what was written ends where the bytes of the entry begin.
LEMMA PickedStays ==
    ASSUME InputsOK, Bounds, Picked, text' = text, output' = output,
           NEW p \in 1..(Len(text) + 1), \E at \in [1..Len(output) -> 1..Len(text)] : Taken(at, p),
           retval' = "running" /\ Type(entry') # "invalid" => p \in 1..input' /\ Follows(p)'
    PROVE  Picked'
<1>1. PICK at \in [1..Len(output) -> 1..Len(text)] : Taken(at, p)
  OBVIOUS
<1>2. Taken(at, p)'
  BY <1>1 DEF Taken
<1>3. at \in [1..Len(output') -> 1..Len(text')] /\ p \in 1..(Len(text') + 1)
  OBVIOUS
<1>4. Type(entry)' # "invalid" => Type(entry') # "invalid"
  BY DEF Type
<1> QED
  BY <1>2, <1>3, <1>4, Zenon DEF Picked

LEMMA PickedFollowPointer == ASSUME InputsOK, CInv, Picked, Step, FollowPointer PROVE Picked'
<1>1. /\ Bounds /\ text \in Seq(TextByte) /\ Len(text) \in Nat /\ input \in 1..Len(text)
      /\ input + 1 \in 1..(Len(text) + 1) /\ retval = "running" /\ text' = text
  BY Round, Zenon
<1>2. Type(entry) = "pointer" /\ output' = output /\ retval' = retval
  BY DEF FollowPointer
<1>3. PICK p \in 1..(Len(text) + 1) :
          /\ \E at \in [1..Len(output) -> 1..Len(text)] : Taken(at, p)
          /\ p \in 1..input /\ Follows(p)
  BY <1>1, <1>2 DEF Picked
<1>4. CASE NextInTable(ByteAt(input + 1)) /\ input' = input + 1 /\ entry' = Append(entry, ByteAt(input + 1))
  <2>1. p \in 1..input' /\ Follows(p)'
    BY <1>2, <1>3, <1>4, Extends
  <2> QED
    BY <1>1, <1>2, <1>3, <2>1, PickedStays
<1>5. CASE /\ ~NextInTable(ByteAt(input + 1))
           /\ input' = Skip(input + 1) /\ entry' = <<ByteAt(Skip(input + 1))>>
  <2>1. Skip(input + 1) \in (input + 1)..(Len(text) + 1)
    BY <1>1, SkipIs
  <2>2. PICK q \in 1..(Len(text) + 1) : q = Skip(input + 1) /\ p <= q
    BY <1>1, <1>3, <2>1
  <2>3. q \in 1..input' /\ Follows(q)'
    BY <1>5, <2>2, Restarts
  <2>4. \E at \in [1..Len(output) -> 1..Len(text)] : Taken(at, q)
    BY <1>1, <1>3, <2>2, TakenLater
  <2> QED
    BY <1>1, <1>2, <2>3, <2>4, PickedStays
<1> QED
  BY <1>4, <1>5 DEF FollowPointer

LEMMA PickedStep == ASSUME InputsOK, CInv, Picked, [ConvertNext]_mvars PROVE Picked'
<1>1. Bounds
  BY DEF CInv
<1>2. PICK p \in 1..(Len(text) + 1) :
          /\ \E at \in [1..Len(output) -> 1..Len(text)] : Taken(at, p)
          /\ retval = "running" /\ Type(entry) # "invalid" => p \in 1..input /\ Follows(p)
  BY DEF Picked
<1>3. CASE Step /\ SkipInvalid
  <2>1. text' = text /\ output' = output /\ Type(entry') = "invalid"
    BY <1>3 DEF Step, SkipInvalid
  <2> QED
    BY <1>1, <1>2, <2>1, PickedStays
<1>4. CASE Return
  <2>1. text' = text /\ output' = output /\ retval' # "running"
    BY <1>4 DEF Return
  <2> QED
    BY <1>1, <1>2, <2>1, PickedStays
<1>5. CASE UNCHANGED mvars
  <2>1. /\ text' = text /\ output' = output /\ input' = input
        /\ entry' = entry /\ retval' = retval
    BY <1>5 DEF mvars
  <2>2. Follows(p) => Follows(p)'
    BY <2>1 DEF Follows, ByteAt, Continues
  <2> QED
    BY <1>1, <1>2, <2>1, <2>2, PickedStays
<1> QED
  BY <1>3, <1>4, <1>5, PickedTakeEntry, PickedFollowPointer DEF ConvertNext, Step

LEMMA PickedInit == ASSUME InputsOK, ConvertInit PROVE Picked
<1>1. text \in Seq(TextByte) /\ Len(text) \in Nat
  BY DEF InputsOK, ConvertInit
<1>2. /\ Len(entry) = 1 /\ Len(entry) <= Width(entry[1])
      /\ \A j \in 1..Len(entry) : entry[j] = ByteAt(1 + j - 1)
      /\ \A j \in 2..Len(entry) : Continues(entry[j])
  BY <1>1, AtRoot DEF ConvertInit
<1>3. input = 1 /\ Len(output) = 0
  BY DEF ConvertInit
<1>4. Follows(1)
  BY <1>2, <1>3 DEF Follows
<1>5. \E at \in [1..Len(output) -> 1..Len(text)] : Taken(at, 1)
  <2> DEFINE none == [j \in 1..Len(output) |-> 1]
  <2>1. none \in [1..Len(output) -> 1..Len(text)] /\ Taken(none, 1)
    BY <1>3 DEF Taken
  <2> QED
    BY <2>1
<1>6. 1 \in 1..(Len(text) + 1) /\ 1 \in 1..input
  BY <1>1, <1>3
<1> QED
  BY <1>4, <1>5, <1>6 DEF Picked

\* Whatever bytes a text has, unknown characters among them, only characters that it has
\* whole are written, in their order.
THEOREM WritesOnlyText == ASSUME InputsOK PROVE ConvertSpec => []NothingInvented
<1>1. ConvertInit => CInv /\ Picked
  BY InitHolds, PickedInit
<1>2. CInv /\ Picked /\ [ConvertNext]_mvars => (CInv /\ Picked)'
  BY StepHolds, PickedStep
<1>3. Picked => NothingInvented
  <2> SUFFICES ASSUME Picked PROVE NothingInvented
    OBVIOUS
  <2>1. PICK p \in 1..(Len(text) + 1) : \E at \in [1..Len(output) -> 1..Len(text)] : Taken(at, p)
    BY DEF Picked
  <2>2. PICK at \in [1..Len(output) -> 1..Len(text)] : Taken(at, p)
    BY <2>1
  <2>3. ASSUME NEW j \in 1..Len(output)
        PROVE  \E k \in Whole(text, at[j]) :
                  /\ Values[k] = output[j]
                  /\ j < Len(output) => at[j] + Len(k) <= at[j + 1]
    BY <2>2 DEF Taken
  <2> QED
    BY <2>3 DEF NothingInvented
<1> QED
  BY <1>1, <1>2, <1>3, PTL DEF ConvertSpec
=============================================================================
