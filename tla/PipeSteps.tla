----------------------------- MODULE PipeSteps ------------------------------
(***************************************************************************)
(* The inductive invariant of Pipe, and what each step does to the         *)
(* counters although they wrap, the bytes in a page, the types, the        *)
(* reference counts of files and the open ends of a pipe; what it takes to *)
(* leave the control of a process, or its sleep, as it is.                 *)
(***************************************************************************)
EXTENDS Pipe, FiniteSetTheorems, TLAPS
-----------------------------------------------------------------------------
(* Sequences *)

LEMMA SeqWiden ==
  ASSUME NEW S, NEW T, NEW s \in Seq(S), S \subseteq T
  PROVE  s \in Seq(T)
<1>1. Len(s) \in Nat /\ s \in [1 .. Len(s) -> S]
  OBVIOUS
<1>2. s \in [1 .. Len(s) -> T]
  BY Zenon, <1>1
<1> QED BY <1>1, <1>2

LEMMA SeqSame ==
  ASSUME NEW S, NEW s \in Seq(S), NEW t \in Seq(S), Len(s) = Len(t), \A i \in 1 .. Len(s) : s[i] = t[i]
  PROVE  s = t
OBVIOUS

LEMMA SeqJoined ==
  ASSUME NEW S, NEW s \in Seq(S), NEW t \in Seq(S)
  PROVE  /\ s \o t \in Seq(S) /\ Len(s \o t) = Len(s) + Len(t)
         /\ \A i \in 1 .. Len(s) + Len(t) : (s \o t)[i] = IF i <= Len(s) THEN s[i] ELSE t[i - Len(s)]
OBVIOUS

\* The whole of a sequence and nothing of it.
LEMMA SeqCuts ==
  ASSUME NEW S, NEW s \in Seq(S)
  PROVE  /\ SubSeq(s, 1, 0) = << >> /\ SubSeq(s, 0 + 1, Len(s)) = s
         /\ SubSeq(s, 1, Len(s)) = s /\ SubSeq(s, Len(s) + 1, Len(s)) = << >>
         /\ s \o << >> = s /\ (Len(s) = 0 => s = << >>)
OBVIOUS
-----------------------------------------------------------------------------
(* Arithmetic of the counters *)

LEMMA DivMod ==
  ASSUME NEW n \in Nat \ {0}, NEW a \in Int
  PROVE  /\ a % n \in 0 .. n - 1
         /\ a \div n \in Int
         /\ a = n * (a \div n) + (a % n)
  OBVIOUS

LEMMA Scale ==
  ASSUME NEW n \in Nat \ {0}, NEW a \in Int, NEW b \in Int, a < b
  PROVE  n * b >= n * a + n
<1>1. n * (b - a - 1) >= 0
  OBVIOUS
<1>2. n * (b - a) >= n
  BY <1>1
<1> QED BY <1>2

\* A number has one quotient and one remainder.
LEMMA DivUnique ==
  ASSUME NEW n \in Nat \ {0}, NEW q \in Int, NEW r \in 0 .. n - 1,
         NEW s \in Int, NEW t \in 0 .. n - 1, n * q + r = n * s + t
  PROVE  r = t
<1>0. n * q \in Int /\ n * s \in Int
  OBVIOUS
<1>1. ~ (q < s)
  BY <1>0, Scale
<1>2. ~ (s < q)
  BY <1>0, Scale
<1> QED BY <1>1, <1>2

LEMMA Remainder ==
  ASSUME NEW n \in Nat \ {0}, NEW a \in Int, NEW q \in Int, NEW r \in 0 .. n - 1, a = n * q + r
  PROVE  a % n = r
<1> DEFINE s == a \div n
           t == a % n
<1>1. s \in Int /\ t \in 0 .. n - 1 /\ a = n * s + t
  BY DivMod
<1> HIDE DEF s, t
<1>2. n * q + r = n * s + t
  BY <1>1
<1>3. r = t
  BY Zenon, <1>1, <1>2, DivUnique
<1> QED BY <1>3 DEF t

LEMMA ModSmall ==
  ASSUME NEW n \in Nat \ {0}, NEW a \in 0 .. n - 1
  PROVE  a % n = a
  OBVIOUS

\* Multiples of the modulus do not count.
LEMMA ModShift ==
  ASSUME NEW n \in Nat \ {0}, NEW a \in Int, NEW k \in Int
  PROVE  (a + n * k) % n = a % n
<1> DEFINE q == a \div n
           r == a % n
<1>1. q \in Int /\ r \in 0 .. n - 1 /\ a = n * q + r
  BY DivMod
<1> HIDE DEF q, r
<1>2. n * (q + k) = n * q + n * k /\ q + k \in Int /\ n * k \in Int /\ n * q \in Int
  BY <1>1
<1>3. a + n * k = n * (q + k) + r /\ a + n * k \in Int
  BY <1>1, <1>2
<1>4. (a + n * k) % n = r
  BY <1>1, <1>2, <1>3, Remainder
<1> QED BY <1>4 DEF r

\* Two numbers that are near and have the same remainder are equal.
LEMMA ModNear ==
  ASSUME NEW n \in Nat \ {0}, NEW a \in Int, NEW b \in Int, a <= b, b < a + n, a % n = b % n
  PROVE  a = b
<1> DEFINE q == a \div n
           r == a % n
           d == b - a
<1>1. q \in Int /\ r \in 0 .. n - 1 /\ a = n * q + r
  BY DivMod
<1>2. d \in 0 .. n - 1 /\ b = a + d
  OBVIOUS
<1> HIDE DEF q, r, d
<1>3. n * q \in Int /\ n * (q + 1) = n * q + n /\ q + 1 \in Int
  BY <1>1
<1>4. CASE r + d < n
  <2>1. r + d \in 0 .. n - 1 /\ b = n * q + (r + d)
    BY <1>1, <1>2, <1>3, <1>4
  <2>2. b % n = r + d
    BY Zenon, <1>1, <2>1, Remainder
  <2> QED BY <1>1, <1>2, <2>2 DEF r
<1>5. CASE r + d >= n
  <2>1. r + d - n \in 0 .. n - 1 /\ b = n * (q + 1) + (r + d - n)
    BY <1>1, <1>2, <1>3, <1>5
  <2>2. b % n = r + d - n
    BY ZenonT(60), <1>3, <2>1, Remainder
  <2> QED BY <1>1, <1>2, <2>2 DEF r
<1> QED BY <1>1, <1>2, <1>4, <1>5

\* A remainder modulo a multiple of n is as good as the number.
LEMMA ModOfMod ==
  ASSUME NEW n \in Nat \ {0}, NEW u \in Nat \ {0}, u % n = 0, NEW a \in Int, NEW b \in Int
  PROVE  ((a % u) + b) % n = (a + b) % n
<1> DEFINE q == a \div u
           r == a % u
           m == u \div n
<1>1. q \in Int /\ r \in 0 .. u - 1 /\ a = u * q + r
  BY DivMod
<1>2. m \in Int /\ u = n * m
  BY DivMod
<1> HIDE DEF q, r, m
<1>3. u * q = n * (m * q) /\ m * q \in Int
  BY <1>1, <1>2
<1>4. a + b = (r + b) + n * (m * q) /\ r + b \in Int
  BY <1>1, <1>3
<1>5. ((r + b) + n * (m * q)) % n = (r + b) % n
  BY Zenon, <1>3, <1>4, ModShift
<1> QED BY <1>4, <1>5 DEF r

LEMMA ModSelf ==
  ASSUME NEW n \in Nat \ {0}
  PROVE  n % n = 0
<1>1. n = n * 1 + 0
  OBVIOUS
<1> QED BY <1>1, Remainder

\* A read of k bytes, and a write of k bytes, change the count by k.
LEMMA CountMoves ==
  ASSUME NEW n \in Nat \ {0}, NEW w \in Int, NEW r \in Int, NEW k \in Nat
  PROVE  /\ k <= (w - r) % n => (w - ((r + k) % n)) % n = ((w - r) % n) - k
         /\ ((w - r) % n) + k < n => (((w + k) % n) - r) % n = ((w - r) % n) + k
<1> DEFINE q == (w - r) \div n
           c == (w - r) % n
           s == (r + k) \div n
           t == (r + k) % n
<1>0. w - r \in Int /\ r + k \in Int /\ w + k \in Int /\ -r \in Int
  OBVIOUS
<1>1. q \in Int /\ c \in 0 .. n - 1 /\ w - r = n * q + c
  BY Zenon, <1>0, DivMod
<1>2. s \in Int /\ t \in 0 .. n - 1 /\ r + k = n * s + t
  BY Zenon, <1>0, DivMod
<1>3. (((w + k) % n) - r) % n = (w + k - r) % n
  <2>1. (((w + k) % n) + (-r)) % n = ((w + k) + (-r)) % n
    BY ZenonT(60), <1>0, ModSelf, ModOfMod
  <2>2. (w + k) % n \in 0 .. n - 1
    BY Zenon, <1>0, DivMod
  <2>3. ((w + k) % n) + (-r) = ((w + k) % n) - r /\ (w + k) + (-r) = w + k - r
    BY <2>2
  <2> QED BY <2>1, <2>3
<1> HIDE DEF q, c, s, t
<1>4. n * (q + s) = n * q + n * s /\ q + s \in Int /\ n * q \in Int /\ n * s \in Int
  BY <1>1, <1>2
<1>5. k <= c => (w - t) % n = c - k
  <2> HAVE k <= c
  <2>1. q + s \in Int /\ c - k \in 0 .. n - 1 /\ w - t = n * (q + s) + (c - k) /\ w - t \in Int
    BY <1>1, <1>2, <1>4
  <2> QED BY Zenon, <2>1, Remainder
<1>6. c + k < n => (w + k - r) % n = c + k
  <2> HAVE c + k < n
  <2>1. c + k \in 0 .. n - 1 /\ w + k - r = n * q + (c + k) /\ w + k - r \in Int
    BY <1>1, <1>4
  <2> QED BY Zenon, <1>1, <2>1, Remainder
<1> QED BY <1>3, <1>5, <1>6 DEF c, t
-----------------------------------------------------------------------------
(* The bytes of a pipe *)

Bytes == UNION {Range(m) : m \in Messages}

Buffer == [nread : 0 .. UINT - 1, nwrite : 0 .. UINT - 1, readopen : BOOLEAN, writeopen : BOOLEAN,
           data : [0 .. PIPESIZE - 1 -> Bytes \cup {Null}]]

\* Count and Contents of a page, as functions of the page.
CountOf(b)    == (b.nwrite - b.nread) % UINT
Index(b, i)   == (b.nread + i - 1) % PIPESIZE
ContentsOf(b) == [i \in 1 .. CountOf(b) |-> b.data[Index(b, i)]]

LEMMA Sizes == PIPESIZE \in Nat \ {0} /\ UINT \in Nat \ {0} /\ PIPESIZE < UINT /\ UINT % PIPESIZE = 0
  BY PipeAssumption

LEMMA Wrapped == \A a, b \in Int : ((a % UINT) + b) % PIPESIZE = (a + b) % PIPESIZE
  BY Zenon, Sizes, ModOfMod

LEMMA MessageType == \A m \in Messages : m \in Seq(Bytes)
<1> TAKE m \in Messages
<1>1. m \in Seq(Range(m)) /\ Range(m) \subseteq Bytes
  BY Zenon, PipeAssumption DEF Bytes
<1> QED BY <1>1, SeqWiden

LEMMA ContentsType ==
  ASSUME NEW b \in Buffer
  PROVE  /\ CountOf(b) \in 0 .. UINT - 1
         /\ \A i \in Int : Index(b, i) \in 0 .. PIPESIZE - 1
         /\ ContentsOf(b) \in Seq(Bytes \cup {Null})
         /\ Len(ContentsOf(b)) = CountOf(b)
         /\ \A i \in 1 .. CountOf(b) : ContentsOf(b)[i] = b.data[Index(b, i)]
<1>1. CountOf(b) \in 0 .. UINT - 1
  <2>1. b.nwrite - b.nread \in Int
    BY Sizes DEF Buffer
  <2> QED BY Zenon, <2>1, Sizes, DivMod DEF CountOf
<1>2. \A i \in Int : Index(b, i) \in 0 .. PIPESIZE - 1
  <2> TAKE i \in Int
  <2>1. b.nread + i - 1 \in Int
    BY Sizes DEF Buffer
  <2> QED BY Zenon, <2>1, Sizes, DivMod DEF Index
<1>3. \A i \in 1 .. CountOf(b) : b.data[Index(b, i)] \in Bytes \cup {Null}
  <2> TAKE i \in 1 .. CountOf(b)
  <2>1. Index(b, i) \in 0 .. PIPESIZE - 1
    BY <1>1, <1>2
  <2>2. b.data \in [0 .. PIPESIZE - 1 -> Bytes \cup {Null}]
    BY DEF Buffer
  <2> QED BY Zenon, <2>1, <2>2
<1> DEFINE n == CountOf(b)
<1> HIDE DEF n
<1>4. ContentsOf(b) = [i \in 1 .. n |-> b.data[Index(b, i)]]
  BY DEF ContentsOf, n
<1>5. n \in Nat
  BY <1>1 DEF n
<1>6. ContentsOf(b) \in Seq(Bytes \cup {Null}) /\ Len(ContentsOf(b)) = n
  BY <1>3, <1>4, <1>5 DEF n
<1> QED BY <1>1, <1>2, <1>4, <1>6 DEF n

LEMMA CountNat == \A b \in Buffer : CountOf(b) \in Nat
<1> TAKE b \in Buffer
<1>1. CountOf(b) \in 0 .. UINT - 1
  BY Zenon, ContentsType
<1> QED BY <1>1

\* piperead: n bytes leave at the front.
LEMMA ReadBytes ==
  ASSUME NEW b \in Buffer, NEW n \in 0 .. CountOf(b), NEW c,
         c = [b EXCEPT !.nread = (b.nread + n) % UINT]
  PROVE  /\ c \in Buffer /\ CountOf(c) = CountOf(b) - n
         /\ ContentsOf(c) = SubSeq(ContentsOf(b), n + 1, Len(ContentsOf(b)))
<1>1. CountOf(b) \in Nat /\ n \in Nat /\ b.nread \in Int /\ b.nwrite \in Int
  BY ContentsType DEF Buffer
<1>2. (b.nread + n) % UINT \in 0 .. UINT - 1
  <2>1. b.nread + n \in Int
    BY <1>1
  <2> QED BY Zenon, <2>1, Sizes, DivMod
<1>3. c \in Buffer
  BY <1>2 DEF Buffer
<1>4. c.nread = (b.nread + n) % UINT /\ c.nwrite = b.nwrite /\ c.data = b.data
  BY DEF Buffer
<1>5. CountOf(c) = CountOf(b) - n
  BY <1>1, <1>4, Sizes, CountMoves DEF CountOf
<1>6. ASSUME NEW i \in Int PROVE Index(c, i) = Index(b, n + i)
  <2>1. (((b.nread + n) % UINT) + (i - 1)) % PIPESIZE = ((b.nread + n) + (i - 1)) % PIPESIZE
    <3>1. b.nread + n \in Int /\ i - 1 \in Int
      BY <1>1
    <3> QED BY Zenon, <3>1, Wrapped
  <2>2. ((b.nread + n) % UINT) + (i - 1) = c.nread + i - 1 /\ (b.nread + n) + (i - 1) = b.nread + (n + i) - 1
    BY <1>1, <1>2, <1>4
  <2> QED BY <2>1, <2>2 DEF Index
<1> DEFINE s == ContentsOf(b)
           t == SubSeq(s, n + 1, Len(s))
<1>7. s \in Seq(Bytes \cup {Null}) /\ Len(s) = CountOf(b)
  BY ContentsType
<1>8. ContentsOf(c) \in Seq(Bytes \cup {Null}) /\ Len(ContentsOf(c)) = CountOf(b) - n
  BY <1>3, <1>5, ContentsType
<1>9. t \in Seq(Bytes \cup {Null}) /\ Len(t) = CountOf(b) - n /\ \A i \in 1 .. CountOf(b) - n : t[i] = s[n + i]
  <2> HIDE DEF s
  <2>1. n + 1 \in 1 .. Len(s) + 1 /\ Len(s) \in Nat
    BY <1>1, <1>7
  <2> QED BY SMTT(60), <1>1, <1>7, <2>1
<1>10. ASSUME NEW i \in 1 .. CountOf(b) - n PROVE ContentsOf(c)[i] = t[i]
  <2>1. n + i \in 1 .. CountOf(b) /\ i \in Int /\ i \in 1 .. CountOf(c)
    BY <1>1, <1>5
  <2>2. t[i] = b.data[Index(b, n + i)]
    <3>1. t[i] = s[n + i]
      BY Zenon, <1>9
    <3>2. s[n + i] = b.data[Index(b, n + i)]
      BY Zenon, <2>1, ContentsType
    <3> QED BY Zenon, <3>1, <3>2
  <2>3. ContentsOf(c)[i] = c.data[Index(c, i)]
    BY Zenon, <1>3, <2>1, ContentsType
  <2> QED BY Zenon, <1>4, <1>6, <2>1, <2>2, <2>3
<1> HIDE DEF s, t
<1>11. ContentsOf(c) = t
  BY Zenon, <1>8, <1>9, <1>10, SeqSame
<1> QED BY Zenon, <1>3, <1>5, <1>11 DEF s, t

\* pipewrite: where the k-th byte goes, and the byte that goes to a place.
SlotOf(b, k) == (b.nwrite + k - 1) % PIPESIZE
ByteOf(b, i) == CHOOSE k \in 1 .. PIPESIZE : SlotOf(b, k) = i

\* The k-th byte written follows the bytes that are there.
LEMMA SlotNext ==
  ASSUME NEW b \in Buffer, NEW k \in Int
  PROVE  SlotOf(b, k) = Index(b, CountOf(b) + k)
<1> DEFINE n == CountOf(b)
           r == b.nread
           w == b.nwrite
<1>1. n \in Int /\ r \in Int /\ w \in Int
  BY ContentsType, Sizes DEF Buffer
<1>2. n = (w - r) % UINT
  BY DEF CountOf
<1> HIDE DEF n, r, w
<1>3. w - r \in Int /\ r + k - 1 \in Int
  BY <1>1
<1>4. (((w - r) % UINT) + (r + k - 1)) % PIPESIZE = ((w - r) + (r + k - 1)) % PIPESIZE
  BY Zenon, <1>3, Wrapped
<1>5. n + (r + k - 1) = r + (n + k) - 1 /\ (w - r) + (r + k - 1) = w + k - 1
  BY <1>1
<1>6. (r + (n + k) - 1) % PIPESIZE = (w + k - 1) % PIPESIZE
  BY <1>2, <1>4, <1>5
<1> QED BY <1>6 DEF SlotOf, Index, n, r, w

LEMMA IndexNear ==
  ASSUME NEW b \in Buffer, NEW i \in Int, NEW j \in Int, i <= j, j < i + PIPESIZE, Index(b, i) = Index(b, j)
  PROVE  i = j
<1> DEFINE r == b.nread
<1>1. r \in Int
  BY Sizes DEF Buffer
<1>2. (r + i - 1) % PIPESIZE = (r + j - 1) % PIPESIZE
  BY DEF Index
<1> HIDE DEF r
<1>3. r + i - 1 \in Int /\ r + j - 1 \in Int /\ r + i - 1 <= r + j - 1 /\ r + j - 1 < r + i - 1 + PIPESIZE
  BY <1>1, Sizes
<1>4. r + i - 1 = r + j - 1
  BY Zenon, <1>2, <1>3, Sizes, ModNear
<1> QED BY <1>1, <1>4

LEMMA IndexAround ==
  ASSUME NEW b \in Buffer, NEW i \in Int
  PROVE  Index(b, i + PIPESIZE) = Index(b, i)
<1> DEFINE r == b.nread
<1>1. r \in Int
  BY Sizes DEF Buffer
<1> HIDE DEF r
<1>2. r + i - 1 \in Int /\ 1 \in Int /\ (r + i - 1) + PIPESIZE * 1 = r + (i + PIPESIZE) - 1
  BY <1>1, Sizes
<1>3. ((r + i - 1) + PIPESIZE * 1) % PIPESIZE = (r + i - 1) % PIPESIZE
  BY Zenon, <1>2, Sizes, ModShift
<1> QED BY <1>2, <1>3 DEF Index, r

LEMMA ByteOfSlot ==
  ASSUME NEW b \in Buffer, NEW k \in 1 .. PIPESIZE
  PROVE  ByteOf(b, SlotOf(b, k)) = k
<1> DEFINE l == ByteOf(b, SlotOf(b, k))
           n == CountOf(b)
<1>1. l \in 1 .. PIPESIZE /\ SlotOf(b, l) = SlotOf(b, k)
  BY DEF ByteOf
<1>2. n \in Int /\ k \in Int
  BY ContentsType, Sizes
<1> HIDE DEF l
<1>3. Index(b, n + l) = Index(b, n + k)
  BY <1>1, <1>2, SlotNext
<1> HIDE DEF n
<1>4. /\ l \in Int /\ n + l \in Int /\ n + k \in Int
      /\ n + k < (n + l) + PIPESIZE /\ n + l < (n + k) + PIPESIZE
      /\ (n + l <= n + k \/ n + k <= n + l)
  BY <1>1, <1>2, Sizes
<1>5. n + l = n + k
  BY Zenon, <1>3, <1>4, IndexNear
<1>6. l = k
  BY <1>2, <1>4, <1>5
<1> QED BY <1>6 DEF l

LEMMA EverySlot ==
  ASSUME NEW b \in Buffer, NEW i \in 0 .. PIPESIZE - 1
  PROVE  ByteOf(b, i) \in 1 .. PIPESIZE
<1> DEFINE w == b.nwrite
           d == (i - w) % PIPESIZE
           e == (i - w) \div PIPESIZE
<1>1. w \in Int /\ i \in Int /\ PIPESIZE \in Int
  BY Sizes DEF Buffer
<1> HIDE DEF w
<1>2. i - w \in Int
  BY <1>1
<1>3. d \in 0 .. PIPESIZE - 1 /\ e \in Int /\ i - w = PIPESIZE * e + d
  BY Zenon, <1>2, Sizes, DivMod
<1> HIDE DEF d, e
<1>4. PIPESIZE * (-e) = -(PIPESIZE * e) /\ -e \in Int /\ PIPESIZE * e \in Int
  BY <1>1, <1>3
<1>5. d + 1 \in 1 .. PIPESIZE /\ w + (d + 1) - 1 \in Int /\ w + (d + 1) - 1 = PIPESIZE * (-e) + i
  BY <1>1, <1>3, <1>4, Sizes
<1>6. SlotOf(b, d + 1) = i
  BY Zenon, <1>4, <1>5, Sizes, Remainder DEF SlotOf, w
<1> QED BY <1>5, <1>6 DEF ByteOf

\* The page after the write of m.
Stored(b, m) ==
  [b EXCEPT !.data = [i \in 0 .. PIPESIZE - 1 |->
                        IF ByteOf(b, i) <= Len(m) THEN m[ByteOf(b, i)] ELSE b.data[i]],
            !.nwrite = (b.nwrite + Len(m)) % UINT]

LEMMA StoredType ==
  ASSUME NEW b \in Buffer, NEW m \in Seq(Bytes)
  PROVE  /\ Stored(b, m) \in Buffer
         /\ Stored(b, m).nread = b.nread /\ Stored(b, m).nwrite = (b.nwrite + Len(m)) % UINT
         /\ Stored(b, m).readopen = b.readopen /\ Stored(b, m).writeopen = b.writeopen
         /\ \A i \in 0 .. PIPESIZE - 1 :
              Stored(b, m).data[i] = IF ByteOf(b, i) <= Len(m) THEN m[ByteOf(b, i)] ELSE b.data[i]
<1> DEFINE w == (b.nwrite + Len(m)) % UINT
           D(i) == IF ByteOf(b, i) <= Len(m) THEN m[ByteOf(b, i)] ELSE b.data[i]
<1>1. w \in 0 .. UINT - 1
  <2>1. b.nwrite + Len(m) \in Int
    BY Sizes DEF Buffer
  <2> QED BY Zenon, <2>1, Sizes, DivMod
<1>2. ASSUME NEW i \in 0 .. PIPESIZE - 1 PROVE D(i) \in Bytes \cup {Null}
  <2>1. ByteOf(b, i) \in 1 .. PIPESIZE
    BY EverySlot
  <2>2. ByteOf(b, i) <= Len(m) => m[ByteOf(b, i)] \in Bytes
    BY <2>1, Sizes
  <2>3. b.data[i] \in Bytes \cup {Null}
    BY Zenon DEF Buffer
  <2> QED BY Zenon, <2>2, <2>3
<1> HIDE DEF w, D
<1>3. Stored(b, m) = [b EXCEPT !.data = [i \in 0 .. PIPESIZE - 1 |-> D(i)], !.nwrite = w]
  BY DEF Stored, D, w
<1>4. Stored(b, m) \in Buffer
  <2> DEFINE d == [i \in 0 .. PIPESIZE - 1 |-> D(i)]
  <2>1. d \in [0 .. PIPESIZE - 1 -> Bytes \cup {Null}]
    BY <1>2
  <2>2. Stored(b, m) = [b EXCEPT !.data = d, !.nwrite = w]
    BY <1>3
  <2> HIDE DEF d
  <2> QED BY Zenon, <1>1, <2>1, <2>2 DEF Buffer
<1>5. /\ Stored(b, m).nread = b.nread /\ Stored(b, m).nwrite = w
      /\ Stored(b, m).readopen = b.readopen /\ Stored(b, m).writeopen = b.writeopen
      /\ Stored(b, m).data = [i \in 0 .. PIPESIZE - 1 |-> D(i)]
  BY <1>3 DEF Buffer
<1> QED BY <1>4, <1>5 DEF D, w

\* pipewrite: a message that fits goes in at the back, and overwrites no byte.
LEMMA FillBytes ==
  ASSUME NEW b \in Buffer, NEW m \in Seq(Bytes), CountOf(b) + Len(m) <= PIPESIZE
  PROVE  /\ CountOf(Stored(b, m)) = CountOf(b) + Len(m)
         /\ ContentsOf(Stored(b, m)) = ContentsOf(b) \o m
<1> DEFINE n == CountOf(b)
           c == Stored(b, m)
<1>1. n \in Nat /\ Len(m) \in Nat /\ n + Len(m) \in Nat /\ n + Len(m) < UINT
  <2>1. n \in 0 .. UINT - 1
    BY Zenon, ContentsType
  <2> QED BY <2>1, Sizes
<1>2. /\ c \in Buffer /\ c.nread = b.nread /\ c.nwrite = (b.nwrite + Len(m)) % UINT
      /\ \A i \in 0 .. PIPESIZE - 1 : c.data[i] = IF ByteOf(b, i) <= Len(m) THEN m[ByteOf(b, i)] ELSE b.data[i]
  BY StoredType
<1> HIDE DEF c
<1>3. CountOf(c) = n + Len(m)
  <2>1. b.nwrite \in Int /\ b.nread \in Int
    BY Sizes DEF Buffer
  <2>2. ((b.nwrite - b.nread) % UINT) + Len(m) < UINT
    BY <1>1 DEF CountOf
  <2>3. (((b.nwrite + Len(m)) % UINT) - b.nread) % UINT = ((b.nwrite - b.nread) % UINT) + Len(m)
    <3>1. UINT \in Nat \ {0} /\ Len(m) \in Int
      BY <1>1, Sizes
    <3> QED BY SMTT(60), <1>1, <2>1, <2>2, <3>1, CountMoves
  <2> QED BY <1>2, <2>3 DEF CountOf
<1>4. ASSUME NEW i \in Int PROVE Index(c, i) = Index(b, i)
  BY <1>2 DEF Index
<1>5. ASSUME NEW i \in 1 .. n PROVE c.data[Index(b, i)] = b.data[Index(b, i)]
  <2> DEFINE k == PIPESIZE + i - n
  <2>1. k \in 1 .. PIPESIZE /\ ~(k <= Len(m)) /\ n + k = i + PIPESIZE /\ k \in Int /\ i \in Int
    BY <1>1, Sizes
  <2> HIDE DEF k
  <2>2. SlotOf(b, k) = Index(b, i)
    BY <2>1, SlotNext, IndexAround
  <2>3. ByteOf(b, Index(b, i)) = k
    BY <2>1, <2>2, ByteOfSlot
  <2>4. Index(b, i) \in 0 .. PIPESIZE - 1
    BY <2>1, ContentsType
  <2> QED BY Zenon, <1>2, <2>1, <2>3, <2>4
<1>6. ASSUME NEW k \in 1 .. Len(m) PROVE c.data[Index(b, n + k)] = m[k]
  <2>1. k \in 1 .. PIPESIZE /\ k \in Int /\ n + k \in Int /\ k <= Len(m)
    BY <1>1, Sizes
  <2>2. ByteOf(b, Index(b, n + k)) = k
    BY <2>1, SlotNext, ByteOfSlot
  <2>3. Index(b, n + k) \in 0 .. PIPESIZE - 1
    BY <2>1, ContentsType
  <2> QED BY Zenon, <1>2, <2>1, <2>2, <2>3
<1> DEFINE s == ContentsOf(b)
           t == ContentsOf(c)
<1>7. /\ s \in Seq(Bytes \cup {Null}) /\ Len(s) = n
      /\ \A i \in 1 .. n : s[i] = b.data[Index(b, i)]
  BY Zenon, ContentsType
<1>8. /\ t \in Seq(Bytes \cup {Null}) /\ Len(t) = n + Len(m)
      /\ \A i \in 1 .. n + Len(m) : t[i] = c.data[Index(c, i)]
  BY Zenon, <1>2, <1>3, ContentsType
<1> HIDE DEF s, t, n
<1>9. m \in Seq(Bytes \cup {Null})
  BY Zenon, SeqWiden
<1>10. /\ s \o m \in Seq(Bytes \cup {Null}) /\ Len(s \o m) = n + Len(m)
       /\ \A i \in 1 .. n + Len(m) : (s \o m)[i] = IF i <= n THEN s[i] ELSE m[i - n]
  BY ZenonT(60), <1>7, <1>9, SeqJoined
<1>11. ASSUME NEW i \in 1 .. n + Len(m) PROVE t[i] = (s \o m)[i]
  <2>1. i \in Int
    BY <1>1
  <2>2. t[i] = c.data[Index(b, i)]
    BY Zenon, <1>4, <1>8, <2>1
  <2>3. CASE i <= n
    <3>1. i \in 1 .. n
      BY <1>1, <2>3
    <3> QED BY Zenon, <1>5, <1>7, <1>10, <2>2, <2>3, <3>1
  <2>4. CASE ~(i <= n)
    <3>1. i - n \in 1 .. Len(m) /\ n + (i - n) = i
      BY <1>1, <2>4
    <3>2. c.data[Index(b, n + (i - n))] = m[i - n]
      BY Zenon, <1>6, <3>1
    <3>3. (s \o m)[i] = m[i - n]
      BY Zenon, <1>10, <2>4
    <3> QED BY Zenon, <2>2, <3>1, <3>2, <3>3
  <2> QED BY Zenon, <2>3, <2>4
<1>12. t = s \o m
  BY Zenon, <1>8, <1>10, <1>11, SeqSame
<1> QED BY Zenon, <1>3, <1>12 DEF s, t, n, c
-----------------------------------------------------------------------------
(* The inductive invariant *)

Files == [ref : Nat, type : {"FD_NONE", "FD_PIPE"}, writable : BOOLEAN, pipe : Pages \cup {Null}]

Types ==
  /\ file \in [File -> Files]
  /\ pipe \in [Pages -> Buffer]
  /\ free \subseteq Pages /\ unheard \subseteq Pages
  /\ ofile \in [Procs -> [Fd -> File \cup {0}]]
  /\ state \in [Procs -> {"UNUSED", "RUNNABLE", "SLEEPING", "EXITING", "ZOMBIE"}]
  /\ killed \in [Procs -> BOOLEAN]
  /\ pc \in [Procs -> {"user", "read", "write", "pipeclose", "exit"}]
  /\ ff \in [Procs -> Files]
  /\ todo \in [Procs -> Seq(Bytes)]
  /\ want \in [Procs -> ReadArgs \cup {0}]

\* A page holds no more than PIPESIZE bytes.
Bounded == \A x \in Pages : CountOf(pipe[x]) <= PIPESIZE

\* The files and the processes that stand for an end of a pipe, and whether it is open.
Holds(f, x, w)  == file[f].ref > 0 /\ file[f].pipe = x /\ file[f].writable = w
Closes(q, x, w) == pc[q] = "pipeclose" /\ ff[q].pipe = x /\ ff[q].writable = w
Open(x, w)      == IF w THEN pipe[x].writeopen ELSE pipe[x].readopen

\* An end is open as long as something stands for it, and one thing at most does.
EndKept(x, w) ==
  /\ Open(x, w) <=> (\E f \in File : Holds(f, x, w)) \/ (\E q \in Procs : Closes(q, x, w))
  /\ Open(x, w) => x \notin free
  /\ \A f, g \in File : Holds(f, x, w) /\ Holds(g, x, w) => f = g
  /\ \A q, r \in Procs : Closes(q, x, w) /\ Closes(r, x, w) => q = r
  /\ \A f \in File, q \in Procs : ~(Holds(f, x, w) /\ Closes(q, x, w))

Ends == \A x \in Pages, w \in BOOLEAN : EndKept(x, w)

\* A file that is in use is an end of a pipe.
InUse == \A f \in File : file[f].ref > 0 => file[f].type = "FD_PIPE" /\ file[f].pipe \in Pages

\* The end a process reads or writes is one of its descriptors.
Has(q, x, w) == \E fd \in Fd : ofile[q][fd] # 0 /\ file[ofile[q][fd]].pipe = x /\ file[ofile[q][fd]].writable = w

Idles(q) == pc[q] = "user" /\ \A fd \in Fd : ofile[q][fd] = 0

Controlled(q) ==
  /\ pc[q] = "pipeclose" => ff[q].pipe \in Pages
  /\ pc[q] \in {"read", "write"} => ff[q].pipe \in Pages /\ Has(q, ff[q].pipe, pc[q] = "write")
  /\ pc[q] = "write" => todo[q] # << >>
  /\ state[q] \in {"UNUSED", "ZOMBIE"} => Idles(q)
  /\ state[q] = "SLEEPING" => pc[q] \in {"read", "write"}

Control == \A q \in Procs : Controlled(q)

\* SleepersWait for one process.
Waits(q) ==
  LET b == pipe[ff[q].pipe]
  IN  /\ state[q] = "SLEEPING" /\ pc[q] = "read" => b.writeopen /\ (CountOf(b) = 0 \/ ff[q].pipe \in unheard)
      /\ state[q] = "SLEEPING" /\ pc[q] = "write" => b.readopen /\ CountOf(b) = PIPESIZE

IInv == Types /\ Bounded /\ RefIsDescriptors /\ Ends /\ InUse /\ Control /\ SleepersWait
-----------------------------------------------------------------------------
(* Descriptors and counts *)

LEMMA NoZero == 0 \notin File
  BY PipeAssumption DEF File

\* The first free descriptor or file is one of the free ones.
LEMMA MinMember ==
  ASSUME NEW T \in SUBSET Nat, T # {}
  PROVE  Min(T) \in T
<1>1. PICK n \in T : \A m \in T : ~(<<m, n>> \in OpToRel(<, Nat))
  BY Zenon, NatLessThanWellFounded, WFMin
<1>2. \A m \in T : m < n => <<m, n>> \in OpToRel(<, Nat)
  BY DEF OpToRel
<1>3. \A m \in T : ~(m < n)
  BY Zenon, <1>1, <1>2
<1>4. \A m \in T : n =< m
  BY <1>3
<1> QED BY Zenon, <1>4 DEF Min

LEMMA TwoMembers ==
  ASSUME NEW T \in SUBSET Nat, IsFiniteSet(T), Cardinality(T) >= 2
  PROVE  Min(T) \in T /\ Min(T \ {Min(T)}) \in T /\ Min(T \ {Min(T)}) # Min(T)
<1>1. T # {}
  BY FS_EmptySet
<1>2. Min(T) \in T
  BY Zenon, <1>1, MinMember
<1> DEFINE a == Min(T)
<1> HIDE DEF a
<1>3. Cardinality(T \ {a}) = Cardinality(T) - 1 /\ IsFiniteSet(T \ {a}) /\ Cardinality(T) \in Nat
  BY <1>2, FS_RemoveElement, FS_CardinalityType DEF a
<1>4. T \ {a} # {} /\ T \ {a} \in SUBSET Nat
  <2>1. T \ {a} = {} => Cardinality(T \ {a}) = 0
    BY Zenon, FS_EmptySet
  <2>2. Cardinality(T \ {a}) # 0
    BY <1>3
  <2> QED BY Zenon, <2>1, <2>2
<1>5. Min(T \ {a}) \in T \ {a}
  BY Zenon, <1>4, MinMember
<1> QED BY <1>2, <1>5 DEF a

\* The descriptors that name f.
Naming(of, f) == {d \in Procs \X Fd : of[d[1]][d[2]] = f}

LEMMA SomeFinite ==
  /\ IsFiniteSet(Procs) /\ IsFiniteSet(Fd) /\ IsFiniteSet(File)
  /\ IsFiniteSet(Procs \X Fd)
  /\ \A of, f : IsFiniteSet(Naming(of, f)) /\ Cardinality(Naming(of, f)) \in Nat
<1>1. IsFiniteSet(Procs) /\ IsFiniteSet(Fd) /\ IsFiniteSet(File)
  <2>1. NOFILE - 1 \in Int /\ NFILE \in Int /\ 0 \in Int /\ 1 \in Int
    BY PipeAssumption
  <2> QED BY <2>1, PipeAssumption, FS_Interval DEF Fd, File
<1>2. IsFiniteSet(Procs \X Fd)
  BY Zenon, <1>1, FS_Product
<1>3. ASSUME NEW of, NEW f PROVE IsFiniteSet(Naming(of, f)) /\ Cardinality(Naming(of, f)) \in Nat
  <2>1. Naming(of, f) \in SUBSET (Procs \X Fd)
    BY Zenon DEF Naming
  <2> QED BY Zenon, <1>2, <2>1, FS_Subset, FS_CardinalityType
<1> QED BY Zenon, <1>1, <1>2, <1>3

\* The descriptors to are those of of, but for fd of p, or for all of q's.
PutAt(of, to, p, fd, g) == \A q \in Procs, e \in Fd : to[q][e] = IF q = p /\ e = fd THEN g ELSE of[q][e]
CopyTo(of, to, p, q) ==
  /\ \A fd \in Fd : of[q][fd] = 0
  /\ \A r \in Procs, e \in Fd : to[r][e] = IF r = q THEN of[p][e] ELSE of[r][e]

\* A descriptor that named none names g.
LEMMA NamePut ==
  ASSUME NEW of, NEW to, NEW p \in Procs, NEW fd \in Fd, of[p][fd] = 0, NEW g \in File,
         PutAt(of, to, p, fd, g)
  PROVE  /\ Cardinality(Naming(to, g)) = Cardinality(Naming(of, g)) + 1
         /\ \A f \in File : f # g => Cardinality(Naming(to, f)) = Cardinality(Naming(of, f))
<1>1. 0 \notin File
  BY Zenon, NoZero
<1>2. Naming(to, g) = Naming(of, g) \cup {<<p, fd>>} /\ <<p, fd>> \notin Naming(of, g)
  BY <1>1 DEF Naming, PutAt
<1>3. IsFiniteSet(Naming(of, g)) /\ Cardinality(Naming(of, g)) \in Nat
  BY Zenon, SomeFinite
<1>4. Cardinality(Naming(to, g)) = Cardinality(Naming(of, g)) + 1
  BY ZenonT(60), <1>2, <1>3, FS_AddElement
<1>5. ASSUME NEW f \in File, f # g PROVE Naming(to, f) = Naming(of, f)
  BY <1>1, <1>5 DEF Naming, PutAt
<1> QED BY Zenon, <1>4, <1>5

\* A descriptor that named g names none.
LEMMA NameDrop ==
  ASSUME NEW of, NEW to, NEW p \in Procs, NEW fd \in Fd, NEW g \in File, of[p][fd] = g,
         PutAt(of, to, p, fd, 0)
  PROVE  /\ Cardinality(Naming(to, g)) = Cardinality(Naming(of, g)) - 1
         /\ \A f \in File : f # g => Cardinality(Naming(to, f)) = Cardinality(Naming(of, f))
<1>1. 0 \notin File
  BY Zenon, NoZero
<1>2. Naming(to, g) = Naming(of, g) \ {<<p, fd>>} /\ <<p, fd>> \in Naming(of, g)
  BY <1>1 DEF Naming, PutAt
<1>3. IsFiniteSet(Naming(of, g)) /\ Cardinality(Naming(of, g)) \in Nat
  BY Zenon, SomeFinite
<1>4. Cardinality(Naming(to, g)) = Cardinality(Naming(of, g)) - 1
  BY Zenon, <1>2, <1>3, FS_RemoveElement
<1>5. ASSUME NEW f \in File, f # g PROVE Naming(to, f) = Naming(of, f)
  BY <1>1, <1>5 DEF Naming, PutAt
<1> QED BY Zenon, <1>4, <1>5

\* How often p names f.
Times(of, p, f) == Cardinality({fd \in Fd : of[p][fd] = f})

\* fork copies the descriptors to a process that had none.
LEMMA NameCopy ==
  ASSUME NEW of, NEW to, NEW p \in Procs, NEW q \in Procs, NEW f \in File, CopyTo(of, to, p, q)
  PROVE  Times(of, p, f) \in Nat /\ Cardinality(Naming(to, f)) = Cardinality(Naming(of, f)) + Times(of, p, f)
<1> DEFINE S == {fd \in Fd : of[p][fd] = f}
           T == {q} \X S
           h == [fd \in S |-> <<q, fd>>]
<1>1. 0 \notin File
  BY Zenon, NoZero
<1>2. IsFiniteSet(S)
  BY Zenon, SomeFinite, FS_Subset
<1>3. h \in Bijection(S, T)
  BY DEF Bijection, Injection, Surjection, IsInjective
<1>4. IsFiniteSet(T) /\ Cardinality(T) = Cardinality(S)
  BY Zenon, <1>2, <1>3, FS_Bijection DEF ExistsBijection
<1>5. Naming(to, f) = Naming(of, f) \cup T /\ Naming(of, f) \cap T = {}
  BY <1>1 DEF Naming, CopyTo
<1> HIDE DEF T, S
<1>6. Cardinality(Naming(of, f) \cup T) =
        Cardinality(Naming(of, f)) + Cardinality(T) - Cardinality(Naming(of, f) \cap T)
  BY Zenon, <1>4, SomeFinite, FS_Union
<1>7. Cardinality({}) = 0 /\ Cardinality(S) \in Nat /\ Cardinality(Naming(of, f)) \in Nat
  BY Zenon, <1>2, SomeFinite, FS_EmptySet, FS_CardinalityType
<1> DEFINE a == Cardinality(Naming(of, f))
           b == Cardinality(S)
           c == Cardinality(Naming(to, f))
<1>8. a \in Nat /\ b \in Nat /\ c = a + b - 0
  BY Zenon, <1>4, <1>5, <1>6, <1>7
<1> HIDE DEF a, b, c
<1>9. c = a + b
  BY <1>8
<1> QED BY Zenon, <1>7, <1>9 DEF S, a, b, c, Times
-----------------------------------------------------------------------------
(* Types *)

States == {"UNUSED", "RUNNABLE", "SLEEPING", "EXITING", "ZOMBIE"}

LEMMA NoFileType == NoFile \in Files
  BY DEF NoFile, Files

\* The entry of the file table that sys_pipe makes of an end.
IsEnd(e, x, w) == e = [ref |-> 1, type |-> "FD_PIPE", writable |-> w, pipe |-> x]

LEMMA EndFields ==
  ASSUME NEW e, NEW x, NEW w, IsEnd(e, x, w)
  PROVE  e.ref > 0 /\ e.type = "FD_PIPE" /\ e.pipe = x
  BY DEF IsEnd

LEMMA EndWritable ==
  ASSUME NEW e, NEW x
  PROVE  (IsEnd(e, x, TRUE) => e.writable = TRUE) /\ (IsEnd(e, x, FALSE) => e.writable = FALSE)
  BY DEF IsEnd

LEMMA JunkType == Junk \in Buffer /\ CountOf(Junk) = 0
<1>1. Junk \in Buffer
  BY Sizes DEF Junk, Buffer
<1>2. CountOf(Junk) = 0 % UINT
  BY DEF CountOf, Junk
<1>3. 0 % UINT = 0
  BY Sizes
<1> QED BY Zenon, <1>1, <1>2, <1>3

LEMMA ReturnTypes ==
  ASSUME Types, NEW p \in Procs, Return(p)
  PROVE  /\ pc' \in [Procs -> {"user", "read", "write", "pipeclose", "exit"}]
         /\ ff' \in [Procs -> Files] /\ todo' \in [Procs -> Seq(Bytes)]
         /\ want' \in [Procs -> ReadArgs \cup {0}]
  BY NoFileType DEF Types, Return

LEMMA WakeupTypes ==
  ASSUME Types, NEW c, NEW x, Wakeup(c, x)
  PROVE  state' \in [Procs -> States]
  BY DEF Types, Wakeup, States

\* The steps that leave files and pages alone.
LEMMA TypesCalm ==
  ASSUME Types, NEW p \in Procs,
         \/ PipeReadBlock(p) \/ Exit(p) \/ ExitZombie(p) \/ Reap(p) \/ Kill(p)
         \/ \E fd \in Fd, n \in ReadArgs : SysRead(p, fd, n)
         \/ \E fd \in Fd, m \in Messages : SysWrite(p, fd, m)
  PROVE  Types'
<1>1. CASE PipeReadBlock(p)
  <2>1. CASE killed[p]
    BY Zenon, <1>1, <2>1, ReturnTypes DEF Types, PipeReadBlock, pageVars
  <2>2. CASE ~killed[p]
    BY Zenon, <1>1, <2>2 DEF Types, PipeReadBlock, Sleep, ctlVars, pageVars
  <2> QED BY Zenon, <2>1, <2>2
<1>2. CASE Exit(p)
  BY Zenon, <1>2 DEF Types, Exit, pageVars
<1>3. CASE ExitZombie(p)
  BY Zenon, <1>3 DEF Types, ExitZombie, pageVars
<1>4. CASE Reap(p)
  BY Zenon, <1>4 DEF Types, Reap, ctlVars, pageVars
<1>5. CASE Kill(p)
  BY Zenon, <1>5 DEF Types, Kill, ctlVars, pageVars
<1>6. ASSUME NEW fd \in Fd, NEW n \in ReadArgs, SysRead(p, fd, n) PROVE Types'
  <2>1. ofile[p][fd] \in File
    BY <1>6 DEF Types, SysRead
  <2> QED BY Zenon, <1>6, <2>1 DEF Types, SysRead, procVars, pageVars
<1>7. ASSUME NEW fd \in Fd, NEW m \in Messages, SysWrite(p, fd, m) PROVE Types'
  <2>1. ofile[p][fd] \in File /\ m \in Seq(Bytes)
    BY <1>7, MessageType DEF Types, SysWrite
  <2> QED BY Zenon, <1>7, <2>1 DEF Types, SysWrite, procVars, pageVars
<1> QED BY Zenon, <1>1, <1>2, <1>3, <1>4, <1>5, <1>6, <1>7

\* What PipeRead, PipeWrite and PipeWriteBlock do to the page.
LEMMA ReadPage ==
  ASSUME Types, NEW p \in Procs, ff[p].pipe \in Pages, PipeRead(p)
  PROVE  LET x == ff[p].pipe
             n == Min({want[p], CountOf(pipe[x])})
         IN  /\ n \in 0 .. CountOf(pipe[x]) /\ (n = 0 => CountOf(pipe[x]) = 0 \/ want[p] = 0)
             /\ pipe' = [pipe EXCEPT ![x] = [pipe[x] EXCEPT !.nread = (pipe[x].nread + n) % UINT]]
<1> DEFINE x == ff[p].pipe
           c == CountOf(pipe[x])
           n == Min({want[p], c})
<1>1. c \in Nat /\ want[p] \in Nat /\ pipe[x] \in Buffer
  <2>1. pipe[x] \in Buffer
    BY DEF Types
  <2>2. c \in 0 .. UINT - 1
    BY Zenon, <2>1, ContentsType
  <2>3. want[p] \in ReadArgs \cup {0}
    BY DEF Types
  <2> HIDE DEF c
  <2>4. c \in Nat
    BY <2>2, Sizes
  <2>5. want[p] \in Nat
    <3>1. \A y \in ReadArgs \cup {0} : y \in Nat
      BY PipeAssumption
    <3> QED BY Zenon, <2>3, <3>1
  <2> QED BY Zenon, <2>1, <2>4, <2>5
<1>2. n \in {want[p], c}
  <2>1. {want[p], c} \in SUBSET Nat /\ {want[p], c} # {}
    BY <1>1
  <2> QED BY Zenon, <2>1, MinMember
<1>3. n <= c
  <2> DEFINE T == {want[p], c}
  <2>1. \E y \in T : \A z \in T : y =< z
    BY <1>1
  <2>2. \A z \in T : n =< z
    BY Zenon, <2>1 DEF Min
  <2> QED BY Zenon, <2>2
<1>4. pipe' = [pipe EXCEPT ![x].nread = (@ + n) % UINT]
  BY Zenon DEF PipeRead, Count, CountOf
<1> HIDE DEF n, c
<1>5. pipe' = [pipe EXCEPT ![x] = [pipe[x] EXCEPT !.nread = (pipe[x].nread + n) % UINT]]
  BY <1>4 DEF Types
<1>6. n \in 0 .. c /\ (n = 0 => c = 0 \/ want[p] = 0)
  BY <1>1, <1>2, <1>3
<1> QED BY <1>5, <1>6 DEF n, c

LEMMA FilledPage ==
  ASSUME Types, NEW x \in Pages, NEW m
  PROVE  Filled(x, m) = [pipe EXCEPT ![x] = Stored(pipe[x], m)]
<1> DEFINE D(i) == LET k == CHOOSE k \in 1 .. PIPESIZE : Slot(x, k) = i
                   IN  IF k <= Len(m) THEN m[k] ELSE pipe[x].data[i]
           E(i) == IF ByteOf(pipe[x], i) <= Len(m) THEN m[ByteOf(pipe[x], i)] ELSE pipe[x].data[i]
<1>1. \A i : D(i) = E(i)
  BY DEF ByteOf, SlotOf, Slot
<1>2. Stored(pipe[x], m) = [pipe[x] EXCEPT !.data = [i \in 0 .. PIPESIZE - 1 |-> E(i)],
                                           !.nwrite = (pipe[x].nwrite + Len(m)) % UINT]
  BY DEF Stored
<1>3. Filled(x, m) = [pipe EXCEPT ![x].data = [i \in 0 .. PIPESIZE - 1 |-> D(i)],
                                  ![x].nwrite = (@ + Len(m)) % UINT]
  BY DEF Filled
<1> HIDE DEF D, E
<1>4. [i \in 0 .. PIPESIZE - 1 |-> D(i)] = [i \in 0 .. PIPESIZE - 1 |-> E(i)]
  BY <1>1
<1> DEFINE d == [i \in 0 .. PIPESIZE - 1 |-> E(i)]
<1> HIDE DEF d
<1>5. pipe \in [Pages -> Buffer]
  BY DEF Types
<1>6. [pipe EXCEPT ![x].data = d, ![x].nwrite = (@ + Len(m)) % UINT]
        = [pipe EXCEPT ![x] = [pipe[x] EXCEPT !.data = d, !.nwrite = (pipe[x].nwrite + Len(m)) % UINT]]
  BY ZenonT(60), <1>5 DEF Buffer
<1> QED BY Zenon, <1>2, <1>3, <1>4, <1>6 DEF d

LEMMA TypesPipe ==
  ASSUME Types, Bounded, NEW p \in Procs, ff[p].pipe \in Pages, PipeRead(p) \/ PipeWrite(p) \/ PipeWriteBlock(p)
  PROVE  Types'
<1> DEFINE x == ff[p].pipe
<1>0. pipe[x] \in Buffer /\ todo[p] \in Seq(Bytes)
  BY DEF Types
<1>1. CASE PipeRead(p)
  <2> DEFINE n == Min({want[p], CountOf(pipe[x])})
             b == [pipe[x] EXCEPT !.nread = (pipe[x].nread + n) % UINT]
  <2>1. n \in 0 .. CountOf(pipe[x]) /\ pipe' = [pipe EXCEPT ![x] = b]
    BY Zenon, <1>1, ReadPage
  <2>2. b \in Buffer
    BY Zenon, <1>0, <2>1, ReadBytes
  <2> HIDE DEF n, b
  <2>3. pipe' \in [Pages -> Buffer]
    BY Zenon, <2>1, <2>2 DEF Types
  <2>4. Return(p) /\ Wakeup("write", x) /\ UNCHANGED <<file, pageVars, ofile, killed>>
    BY <1>1 DEF PipeRead
  <2>5. state' \in [Procs -> States]
    BY Zenon, <2>4, WakeupTypes
  <2> QED BY Zenon, <2>3, <2>4, <2>5, ReturnTypes DEF Types, pageVars, States
<1>2. CASE PipeWrite(p)
  <2>1. /\ pipe' = [pipe EXCEPT ![x] = Stored(pipe[x], todo[p])]
        /\ Return(p) /\ Wakeup("read", x) /\ unheard' = unheard \ {x} /\ UNCHANGED <<file, free, ofile, killed>>
    BY ZenonT(60), <1>2, FilledPage DEF PipeWrite
  <2>2. pipe' \in [Pages -> Buffer]
    BY <1>0, <2>1, StoredType DEF Types
  <2>3. state' \in [Procs -> States]
    BY Zenon, <2>1, WakeupTypes
  <2>4. /\ pc' \in [Procs -> {"user", "read", "write", "pipeclose", "exit"}]
        /\ ff' \in [Procs -> Files] /\ todo' \in [Procs -> Seq(Bytes)]
        /\ want' \in [Procs -> ReadArgs \cup {0}]
    BY Zenon, <2>1, ReturnTypes
  <2>5. free' \subseteq Pages /\ unheard' \subseteq Pages
    BY <2>1 DEF Types
  <2> QED BY Zenon, <2>1, <2>2, <2>3, <2>4, <2>5 DEF Types, States
<1>3. CASE PipeWriteBlock(p)
  <2> DEFINE m == SubSeq(todo[p], 1, Room(x))
             t == SubSeq(todo[p], Room(x) + 1, Len(todo[p]))
  <2>1. /\ pipe' = [pipe EXCEPT ![x] = Stored(pipe[x], m)]
        /\ UNCHANGED <<file, free, ofile, killed>> /\ Len(todo[p]) > Room(x)
    BY ZenonT(60), <1>3, FilledPage DEF PipeWriteBlock
  <2>2. Room(x) \in Nat
    <3>1. Room(x) = PIPESIZE - CountOf(pipe[x]) /\ CountOf(pipe[x]) <= PIPESIZE
      BY Zenon DEF Room, Count, CountOf, Bounded
    <3>2. CountOf(pipe[x]) \in 0 .. UINT - 1
      BY Zenon, <1>0, ContentsType
    <3> QED BY <3>1, <3>2, Sizes
  <2>3. m \in Seq(Bytes) /\ t \in Seq(Bytes)
    <3> DEFINE n == Room(x)
    <3>1. n \in Nat /\ Len(todo[p]) > n
      BY Zenon, <2>1, <2>2
    <3> HIDE DEF n
    <3>2. SubSeq(todo[p], 1, n) \in Seq(Bytes) /\ SubSeq(todo[p], n + 1, Len(todo[p])) \in Seq(Bytes)
      BY <1>0, <3>1
    <3> QED BY <3>2 DEF n
  <2> HIDE DEF m, t
  <2>4. pipe' \in [Pages -> Buffer]
    BY Zenon, <1>0, <2>1, <2>3, StoredType DEF Types
  <2>5. CASE ~pipe[x].readopen \/ killed[p]
    <3>1. Return(p) /\ unheard' = unheard \cup {x} /\ UNCHANGED state
      BY <1>3, <2>5 DEF PipeWriteBlock
    <3>2. /\ pc' \in [Procs -> {"user", "read", "write", "pipeclose", "exit"}]
          /\ ff' \in [Procs -> Files] /\ todo' \in [Procs -> Seq(Bytes)]
          /\ want' \in [Procs -> ReadArgs \cup {0}]
      BY Zenon, <3>1, ReturnTypes
    <3>3. free' \subseteq Pages /\ unheard' \subseteq Pages
      BY Zenon, <2>1, <3>1 DEF Types
    <3> QED BY ZenonT(60), <2>1, <2>4, <3>1, <3>2, <3>3 DEF Types
  <2>6. CASE ~(~pipe[x].readopen \/ killed[p])
    <3>1. /\ state' \in [Procs -> States]
          /\ todo' = [todo EXCEPT ![p] = t]
          /\ unheard' = unheard \ {x} /\ UNCHANGED <<pc, want, ff>>
      BY <1>3, <2>6 DEF PipeWriteBlock, Types, States, t
    <3>2. todo' \in [Procs -> Seq(Bytes)]
      <4>1. todo \in [Procs -> Seq(Bytes)]
        BY Zenon DEF Types
      <4> QED BY Zenon, <2>3, <3>1, <4>1
    <3>3. free' \subseteq Pages /\ unheard' \subseteq Pages
      BY Zenon, <2>1, <3>1 DEF Types
    <3> QED BY ZenonT(60), <2>1, <2>4, <3>1, <3>2, <3>3 DEF Types, States
  <2> QED BY Zenon, <2>5, <2>6
<1> QED BY Zenon, <1>1, <1>2, <1>3

LEMMA TypesClose ==
  ASSUME Types, NEW p \in Procs, ff[p].pipe \in Pages, PipeClose(p)
  PROVE  Types'
<1> DEFINE x == ff[p].pipe
<1>1. pipe' \in [Pages -> Buffer] /\ free' \subseteq Pages
  <2>1. \/ pipe' = [pipe EXCEPT ![x] = Junk] \/ pipe' = [pipe EXCEPT ![x].writeopen = FALSE]
        \/ pipe' = [pipe EXCEPT ![x].readopen = FALSE]
    BY DEF PipeClose
  <2>2. pipe' \in [Pages -> Buffer]
    <3>1. [pipe[x] EXCEPT !.writeopen = FALSE] \in Buffer /\ [pipe[x] EXCEPT !.readopen = FALSE] \in Buffer
      BY ZenonT(60) DEF Types, Buffer
    <3> QED BY Zenon, <2>1, <3>1, JunkType DEF Types
  <2> QED BY Zenon, <2>2 DEF PipeClose, Types
<1>2. Return(p) /\ Wakeup(IF ff[p].writable THEN "read" ELSE "write", x) /\ UNCHANGED <<file, unheard, ofile, killed>>
  BY DEF PipeClose
<1>3. state' \in [Procs -> States]
  BY Zenon, <1>2, WakeupTypes
<1> QED BY Zenon, <1>1, <1>2, <1>3, ReturnTypes DEF Types, States

\* The files and descriptors that pipe takes.
LEMMA TwoFree ==
  ASSUME Types, NEW p \in Procs, Cardinality(FreeFiles) >= 2, Cardinality(FreeFds(p)) >= 2
  PROVE  LET f0  == Min(FreeFiles)
             f1  == Min(FreeFiles \ {f0})
             fd0 == Min(FreeFds(p))
             fd1 == Min(FreeFds(p) \ {fd0})
         IN  /\ {f0, f1} \subseteq FreeFiles /\ f0 # f1
             /\ {fd0, fd1} \subseteq FreeFds(p) /\ fd0 # fd1
<1>1. FreeFiles \in SUBSET File /\ FreeFds(p) \in SUBSET Fd
  BY Zenon DEF FreeFiles, FreeFds
<1>2. IsFiniteSet(FreeFiles) /\ IsFiniteSet(FreeFds(p))
  BY Zenon, <1>1, SomeFinite, FS_Subset
<1>3. FreeFiles \in SUBSET Nat /\ FreeFds(p) \in SUBSET Nat
  BY <1>1, PipeAssumption DEF File, Fd
<1>4. /\ Min(FreeFiles) \in FreeFiles /\ Min(FreeFiles \ {Min(FreeFiles)}) \in FreeFiles
      /\ Min(FreeFiles \ {Min(FreeFiles)}) # Min(FreeFiles)
  BY Zenon, <1>2, <1>3, TwoMembers
<1>5. /\ Min(FreeFds(p)) \in FreeFds(p) /\ Min(FreeFds(p) \ {Min(FreeFds(p))}) \in FreeFds(p)
      /\ Min(FreeFds(p) \ {Min(FreeFds(p))}) # Min(FreeFds(p))
  BY Zenon, <1>2, <1>3, TwoMembers
<1> QED BY Zenon, <1>4, <1>5

\* What pipe does, with names for what it takes.
PipeStep(p, x, f0, f1, fd0, fd1) ==
  /\ x \in free /\ {f0, f1} \subseteq FreeFiles /\ f0 # f1
  /\ {fd0, fd1} \subseteq FreeFds(p) /\ fd0 # fd1
  /\ PipeAlloc(x, f0, f1)
  /\ ofile' = [ofile EXCEPT ![p][fd0] = f0, ![p][fd1] = f1]
  /\ UNCHANGED <<state, killed, ctlVars>>

LEMMA SysPipeStep ==
  ASSUME Types, NEW p \in Procs, SysPipe(p)
  PROVE  \E x \in Pages, f0, f1 \in File, fd0, fd1 \in Fd : PipeStep(p, x, f0, f1, fd0, fd1)
<1> DEFINE f0  == Min(FreeFiles)
           f1  == Min(FreeFiles \ {f0})
           fd0 == Min(FreeFds(p))
           fd1 == Min(FreeFds(p) \ {fd0})
<1>1. {f0, f1} \subseteq FreeFiles /\ f0 # f1 /\ {fd0, fd1} \subseteq FreeFds(p) /\ fd0 # fd1
  BY Zenon, TwoFree DEF SysPipe
<1>2. PICK x \in free : PipeAlloc(x, f0, f1)
  BY Zenon DEF SysPipe
<1>3. ofile' = [ofile EXCEPT ![p][fd0] = f0, ![p][fd1] = f1] /\ UNCHANGED <<state, killed, ctlVars>>
  BY Zenon DEF SysPipe
<1> HIDE DEF f0, f1, fd0, fd1
<1>4. PipeStep(p, x, f0, f1, fd0, fd1)
  BY Zenon, <1>1, <1>2, <1>3 DEF PipeStep
<1>5. x \in Pages /\ f0 \in File /\ f1 \in File /\ fd0 \in Fd /\ fd1 \in Fd
  BY <1>1 DEF Types, FreeFiles, FreeFds
<1> QED BY Zenon, <1>4, <1>5

\* dup, fork and close.
CloseStep(p, fd) ==
  /\ pc[p] \in {"user", "exit"} /\ state[p] \in {"RUNNABLE", "EXITING"}
  /\ ofile[p][fd] # 0
  /\ FileClose(p, ofile[p][fd])
  /\ ofile' = [ofile EXCEPT ![p][fd] = 0]
  /\ UNCHANGED <<pipe, pageVars, state, killed>>

LEMMA IsCloseStep ==
  ASSUME Types, NEW p \in Procs, ExitClose(p) \/ \E fd \in Fd : SysClose(p, fd)
  PROVE  \E fd \in Fd : CloseStep(p, fd)
<1>1. CASE ExitClose(p)
  <2> DEFINE fd == Min(Fd \ FreeFds(p))
  <2>1. Fd \ FreeFds(p) # {} /\ Fd \ FreeFds(p) \in SUBSET Nat
    BY <1>1, PipeAssumption DEF ExitClose, FreeFds, Fd
  <2>2. fd \in Fd \ FreeFds(p)
    BY Zenon, <2>1, MinMember
  <2>3. FileClose(p, ofile[p][fd]) /\ ofile' = [ofile EXCEPT ![p][fd] = 0] /\ UNCHANGED <<pipe, pageVars, state, killed>>
    BY Zenon, <1>1 DEF ExitClose
  <2>4. pc[p] \in {"user", "exit"} /\ state[p] \in {"RUNNABLE", "EXITING"}
    BY Zenon, <1>1 DEF ExitClose, At
  <2> HIDE DEF fd
  <2>5. fd \in Fd /\ ofile[p][fd] # 0
    BY Zenon, <2>2 DEF FreeFds
  <2> QED BY Zenon, <2>3, <2>4, <2>5 DEF CloseStep
<1>2. ASSUME NEW fd \in Fd, SysClose(p, fd) PROVE CloseStep(p, fd)
  BY <1>2 DEF SysClose, CloseStep, Enter, At
<1> QED BY <1>1, <1>2

LEMMA RecordTypes ==
  /\ \A g \in Files, n \in Nat : [g EXCEPT !.ref = n] \in Files
  /\ \A g \in Files, n \in Nat, t \in {"FD_NONE", "FD_PIPE"} : [g EXCEPT !.ref = n, !.type = t] \in Files
  /\ \A b \in Buffer : [b EXCEPT !.readopen = TRUE, !.writeopen = TRUE, !.nread = 0, !.nwrite = 0] \in Buffer
<1>1. \A g \in Files, n \in Nat : [g EXCEPT !.ref = n] \in Files
  BY DEF Files
<1>2. \A g \in Files, n \in Nat, t \in {"FD_NONE", "FD_PIPE"} : [g EXCEPT !.ref = n, !.type = t] \in Files
  BY Zenon DEF Files
<1>3. 0 \in 0 .. UINT - 1
  BY Sizes
<1>4. \A b \in Buffer : [b EXCEPT !.readopen = TRUE, !.writeopen = TRUE, !.nread = 0, !.nwrite = 0] \in Buffer
  BY Zenon, <1>3 DEF Buffer
<1> QED BY Zenon, <1>1, <1>2, <1>4

\* A file that a descriptor names is in use.
LEMMA Named ==
  ASSUME Types, RefIsDescriptors, NEW p \in Procs, NEW fd \in Fd, ofile[p][fd] # 0
  PROVE  /\ ofile[p][fd] \in File /\ file[ofile[p][fd]] \in Files
         /\ file[ofile[p][fd]].ref \in Nat /\ file[ofile[p][fd]].ref > 0
<1> DEFINE f == ofile[p][fd]
<1>1. f \in File
  BY DEF Types
<1>2. file[f].ref = Cardinality(Naming(ofile, f)) /\ file[f] \in Files
  BY Zenon, <1>1 DEF RefIsDescriptors, Naming, Types
<1>3. <<p, fd>> \in Naming(ofile, f)
  BY DEF Naming
<1>4. Cardinality(Naming(ofile, f)) \in Nat /\ Cardinality(Naming(ofile, f)) # 0
  BY Zenon, <1>3, SomeFinite, FS_EmptySet
<1> HIDE DEF f
<1>5. file[f].ref > 0 /\ file[f].ref \in Nat
  BY <1>2, <1>4
<1> QED BY Zenon, <1>1, <1>2, <1>5 DEF f

LEMMA TypesPipeAlloc ==
  ASSUME Types, NEW p \in Procs, NEW x \in Pages, NEW f0 \in File, NEW f1 \in File, NEW fd0 \in Fd, NEW fd1 \in Fd,
         PipeStep(p, x, f0, f1, fd0, fd1)
  PROVE  Types'
<1> DEFINE b == [pipe[x] EXCEPT !.readopen = TRUE, !.writeopen = TRUE, !.nread = 0, !.nwrite = 0]
<1>1. pipe[x] \in Buffer /\ b \in Buffer
  BY Zenon, RecordTypes DEF Types
<1>2. pipe' = [pipe EXCEPT ![x] = b]
  BY Zenon, <1>1 DEF PipeStep, PipeAlloc, Types, Buffer
<1> HIDE DEF b
<1>3. pipe' \in [Pages -> Buffer]
  BY <1>1, <1>2 DEF Types
<1>4. file' \in [File -> Files]
  BY Zenon DEF PipeStep, PipeAlloc, Types, Files
<1>5. ofile' \in [Procs -> [Fd -> File \cup {0}]]
  BY Zenon DEF PipeStep, Types
<1> QED BY Zenon, <1>3, <1>4, <1>5 DEF PipeStep, PipeAlloc, Types, ctlVars

LEMMA DupStep ==
  ASSUME Types, NEW p \in Procs, NEW fd \in Fd, SysDup(p, fd)
  PROVE  \E e \in Fd : ofile[p][e] = 0 /\ ofile' = [ofile EXCEPT ![p][e] = ofile[p][fd]]
<1> DEFINE e == Min(FreeFds(p))
<1>1. FreeFds(p) # {} /\ FreeFds(p) \in SUBSET Nat
  BY PipeAssumption DEF SysDup, FreeFds, Fd
<1>2. e \in FreeFds(p)
  BY Zenon, <1>1, MinMember
<1>3. ofile' = [ofile EXCEPT ![p][e] = ofile[p][fd]]
  BY DEF SysDup
<1> HIDE DEF e
<1> QED BY Zenon, <1>2, <1>3 DEF FreeFds

LEMMA TypesDup ==
  ASSUME Types, RefIsDescriptors, NEW p \in Procs, NEW fd \in Fd, SysDup(p, fd)
  PROVE  Types'
<1> DEFINE f == ofile[p][fd]
<1>1. f \in File /\ file[f] \in Files /\ file[f].ref \in Nat
  BY Zenon, Named DEF SysDup
<1>2. PICK e \in Fd : ofile' = [ofile EXCEPT ![p][e] = f]
  BY Zenon, DupStep
<1>3. file' = [file EXCEPT ![f] = [file[f] EXCEPT !.ref = file[f].ref + 1]]
  BY <1>1 DEF SysDup, Types
<1>4. UNCHANGED <<pipe, free, unheard, state, killed, pc, ff, todo, want>>
  BY DEF SysDup, ctlVars, pageVars
<1> HIDE DEF f
<1>5. ofile' \in [Procs -> [Fd -> File \cup {0}]]
  BY Zenon, <1>1, <1>2 DEF Types
<1>6. [file[f] EXCEPT !.ref = file[f].ref + 1] \in Files
  <2>1. file[f].ref + 1 \in Nat
    BY <1>1
  <2> QED BY Zenon, <1>1, <2>1, RecordTypes
<1>7. file' \in [File -> Files]
  BY Zenon, <1>1, <1>3, <1>6 DEF Types
<1> QED BY Zenon, <1>4, <1>5, <1>7 DEF Types

\* FileClose, with the file that is left.
LEMMA CloseFile ==
  ASSUME Types, RefIsDescriptors, NEW p \in Procs, NEW fd \in Fd, CloseStep(p, fd)
  PROVE  LET f == ofile[p][fd]
             g == [file[f] EXCEPT !.ref = file[f].ref - 1,
                                  !.type = IF file[f].ref > 1 THEN file[f].type ELSE "FD_NONE"]
         IN  f \in File /\ file[f].ref > 0 /\ file' = [file EXCEPT ![f] = g] /\ g \in Files
<1> DEFINE f == ofile[p][fd]
           n == file[f].ref - 1
           t == IF file[f].ref > 1 THEN file[f].type ELSE "FD_NONE"
<1>1. f \in File /\ file[f] \in Files /\ file[f].ref \in Nat /\ file[f].ref > 0
  BY Zenon, Named DEF CloseStep
<1>2. FileClose(p, f)
  BY DEF CloseStep
<1> HIDE DEF f
<1>3. file' = [file EXCEPT ![f] = [file[f] EXCEPT !.ref = n, !.type = t]]
  BY Zenon, <1>1, <1>2 DEF FileClose, Types, Files
<1>4. n \in Nat /\ t \in {"FD_NONE", "FD_PIPE"}
  BY <1>1 DEF Files
<1> HIDE DEF n, t
<1>5. [file[f] EXCEPT !.ref = n, !.type = t] \in Files
  BY Zenon, <1>1, <1>4, RecordTypes
<1> QED BY Zenon, <1>1, <1>3, <1>5 DEF f, n, t

LEMMA TypesFileClose ==
  ASSUME Types, RefIsDescriptors, NEW p \in Procs, NEW fd \in Fd, CloseStep(p, fd)
  PROVE  Types'
<1> DEFINE f == ofile[p][fd]
<1>1. f \in File /\ file[f] \in Files
  BY Zenon, Named DEF CloseStep
<1>2. file' \in [File -> Files]
  BY Zenon, CloseFile DEF Types
<1>3. ofile' \in [Procs -> [Fd -> File \cup {0}]]
  BY DEF CloseStep, Types
<1>4. FileClose(p, f) /\ UNCHANGED <<pipe, free, unheard, state, killed>>
  BY DEF CloseStep, pageVars
<1> HIDE DEF f
<1>5. pc' \in [Procs -> {"user", "read", "write", "pipeclose", "exit"}] /\ ff' \in [Procs -> Files] /\ UNCHANGED <<todo, want>>
  BY Zenon, <1>1, <1>4 DEF FileClose, Types
<1> QED BY Zenon, <1>2, <1>3, <1>4, <1>5 DEF Types

LEMMA TypesFork ==
  ASSUME Types, NEW p \in Procs, NEW q \in Procs, Fork(p, q)
  PROVE  Types'
<1> DEFINE N(f) == Cardinality({fd \in Fd : ofile[p][fd] = f})
<1>1. \A f \in File : N(f) \in Nat
  BY Zenon, SomeFinite, FS_Subset, FS_CardinalityType
<1>2. file' = [f \in File |-> [file[f] EXCEPT !.ref = file[f].ref + N(f)]]
  BY DEF Fork, Duplicated
<1> HIDE DEF N
<1>3. \A f \in File : file[f] \in Files /\ file[f].ref + N(f) \in Nat
  BY <1>1 DEF Types, Files
<1>4. file' \in [File -> Files]
  BY Zenon, <1>2, <1>3, RecordTypes
<1>5. ofile' \in [Procs -> [Fd -> File \cup {0}]] /\ state' \in [Procs -> States]
  BY DEF Fork, Types, States
<1>6. UNCHANGED <<pipe, free, unheard, killed, pc, ff, todo, want>>
  BY DEF Fork, ctlVars, pageVars
<1> QED BY Zenon, <1>4, <1>5, <1>6 DEF Types, States
-----------------------------------------------------------------------------
(* Counts *)

LEMMA RefsAre == RefIsDescriptors <=> \A f \in File : file[f].ref = Cardinality(Naming(ofile, f))
  BY Zenon DEF RefIsDescriptors, Naming

LEMMA RefsAreNext == RefIsDescriptors' <=> \A f \in File : file'[f].ref = Cardinality(Naming(ofile', f))
  BY Zenon DEF RefIsDescriptors, Naming

\* The files after pipe, dup, fork and close, one by one.
LEMMA RefsPipeAlloc ==
  ASSUME Types, RefIsDescriptors, NEW p \in Procs, NEW x \in Pages,
         NEW f0 \in File, NEW f1 \in File, NEW fd0 \in Fd, NEW fd1 \in Fd, PipeStep(p, x, f0, f1, fd0, fd1)
  PROVE  RefIsDescriptors'
<1> DEFINE of == [ofile EXCEPT ![p][fd0] = f0]
<1>1. PutAt(ofile, of, p, fd0, f0) /\ PutAt(of, ofile', p, fd1, f1)
  BY DEF Types, PipeStep, PutAt
<1>2. /\ ofile[p][fd0] = 0 /\ ofile[p][fd1] = 0 /\ fd0 # fd1 /\ f0 # f1 /\ file[f0].ref = 0 /\ file[f1].ref = 0
  BY DEF PipeStep, FreeFds, FreeFiles
<1>3. of[p][fd1] = 0
  BY <1>1, <1>2 DEF PutAt
<1>4. \A f \in File : file'[f].ref = IF f = f0 \/ f = f1 THEN 1 ELSE file[f].ref
  BY Zenon DEF Types, PipeStep, PipeAlloc
<1> HIDE DEF of
<1>5. /\ Cardinality(Naming(of, f0)) = Cardinality(Naming(ofile, f0)) + 1
      /\ \A f \in File : f # f0 => Cardinality(Naming(of, f)) = Cardinality(Naming(ofile, f))
  BY SMTT(30), <1>1, <1>2, NamePut
<1>6. /\ Cardinality(Naming(ofile', f1)) = Cardinality(Naming(of, f1)) + 1
      /\ \A f \in File : f # f1 => Cardinality(Naming(ofile', f)) = Cardinality(Naming(of, f))
  BY SMTT(30), <1>1, <1>3, NamePut
<1>7. \A f \in File : file[f].ref = Cardinality(Naming(ofile, f))
  BY Zenon, RefsAre
<1>8. ASSUME NEW f \in File PROVE file'[f].ref = Cardinality(Naming(ofile', f))
  <2>1. CASE f = f0
    <3>1. Cardinality(Naming(ofile', f)) = Cardinality(Naming(ofile, f)) + 1
      BY Zenon, <1>2, <1>5, <1>6, <2>1
    <3>2. Cardinality(Naming(ofile, f)) = 0 /\ file'[f].ref = 1
      BY Zenon, <1>2, <1>4, <1>7, <2>1
    <3> QED BY <3>1, <3>2
  <2>2. CASE f = f1
    <3>1. Cardinality(Naming(ofile', f)) = Cardinality(Naming(ofile, f)) + 1
      BY Zenon, <1>2, <1>5, <1>6, <2>2
    <3>2. Cardinality(Naming(ofile, f)) = 0 /\ file'[f].ref = 1
      BY Zenon, <1>2, <1>4, <1>7, <2>2
    <3> QED BY <3>1, <3>2
  <2>3. CASE f # f0 /\ f # f1
    BY Zenon, <1>4, <1>5, <1>6, <1>7, <2>3
  <2> QED BY Zenon, <2>1, <2>2, <2>3
<1> QED BY Zenon, <1>8, RefsAreNext

\* Which fields of files a step leaves alone.
SameFile(f) ==
  /\ file'[f].pipe = file[f].pipe /\ file'[f].writable = file[f].writable /\ file'[f].type = file[f].type
  /\ file'[f].ref > 0 <=> file[f].ref > 0

LEMMA RefsDup ==
  ASSUME Types, RefIsDescriptors, NEW p \in Procs, NEW fd \in Fd, SysDup(p, fd)
  PROVE  RefIsDescriptors' /\ \A g \in File : SameFile(g)
<1> DEFINE f == ofile[p][fd]
<1>1. f \in File /\ file[f].ref \in Nat /\ file[f].ref > 0
  BY Zenon, Named DEF SysDup
<1>2. PICK e \in Fd : ofile[p][e] = 0 /\ ofile' = [ofile EXCEPT ![p][e] = f]
  BY Zenon, DupStep
<1>3. \A g \in File : file'[g].ref = IF g = f THEN file[f].ref + 1 ELSE file[g].ref
  BY <1>1 DEF SysDup, Types, Files
<1>4. \A g \in File : file'[g].pipe = file[g].pipe /\ file'[g].writable = file[g].writable /\ file'[g].type = file[g].type
  BY <1>1 DEF SysDup, Types, Files
<1> HIDE DEF f
<1>5. PutAt(ofile, ofile', p, e, f)
  BY Zenon, <1>2 DEF Types, PutAt
<1>6. /\ Cardinality(Naming(ofile', f)) = Cardinality(Naming(ofile, f)) + 1
      /\ \A g \in File : g # f => Cardinality(Naming(ofile', g)) = Cardinality(Naming(ofile, g))
  <2>1. f \in File /\ ofile[p][e] = 0
    BY Zenon, <1>1, <1>2
  <2> QED BY SMTT(30), <1>5, <2>1, NamePut
<1>7. \A g \in File : file[g].ref = Cardinality(Naming(ofile, g))
  BY Zenon, RefsAre
<1>8. \A g \in File : file'[g].ref = Cardinality(Naming(ofile', g))
  BY Zenon, <1>1, <1>3, <1>6, <1>7
<1>9. \A g \in File : SameFile(g)
  BY <1>1, <1>3, <1>4 DEF SameFile
<1> QED BY Zenon, <1>8, <1>9, RefsAreNext

LEMMA RefsFork ==
  ASSUME Types, RefIsDescriptors, NEW p \in Procs, NEW q \in Procs, Fork(p, q), \A fd \in Fd : ofile[q][fd] = 0
  PROVE  RefIsDescriptors' /\ \A g \in File : SameFile(g)
<1>1. file' = [f \in File |-> [file[f] EXCEPT !.ref = file[f].ref + Times(ofile, p, f)]]
  BY DEF Fork, Duplicated, Times
<1>2. CopyTo(ofile, ofile', p, q)
  BY DEF Fork, Types, CopyTo
<1>3. \A f \in File : Times(ofile, p, f) \in Nat /\ Cardinality(Naming(ofile', f)) = Cardinality(Naming(ofile, f)) + Times(ofile, p, f)
  BY Zenon, <1>2, NameCopy
<1>4. \A f \in File : file[f].ref = Cardinality(Naming(ofile, f))
  BY Zenon, RefsAre
<1>5. ASSUME NEW f \in File, Times(ofile, p, f) # 0 PROVE file[f].ref > 0
  <2>1. {fd \in Fd : ofile[p][fd] = f} # {}
    BY Zenon, <1>5, FS_EmptySet DEF Times
  <2>2. PICK fd \in Fd : ofile[p][fd] = f
    BY Zenon, <2>1
  <2> QED BY Zenon, <2>2, NoZero, Named
<1>6. \A f \in File : /\ file'[f].ref = file[f].ref + Times(ofile, p, f) /\ file[f].ref \in Nat /\ file'[f].pipe = file[f].pipe
                      /\ file'[f].writable = file[f].writable /\ file'[f].type = file[f].type
  BY <1>1 DEF Types, Files
<1>7. \A f \in File : file'[f].ref = Cardinality(Naming(ofile', f))
  BY Zenon, <1>3, <1>4, <1>6
<1>8. ASSUME NEW f \in File PROVE file'[f].ref > 0 <=> file[f].ref > 0
  <2>1. Times(ofile, p, f) \in Nat /\ file'[f].ref = file[f].ref + Times(ofile, p, f) /\ file[f].ref \in Nat /\ (Times(ofile, p, f) # 0 => file[f].ref > 0)
    BY Zenon, <1>3, <1>5, <1>6
  <2> QED BY <2>1
<1> QED BY Zenon, <1>6, <1>7, <1>8, RefsAreNext DEF SameFile

LEMMA RefsClose ==
  ASSUME Types, RefIsDescriptors, NEW p \in Procs, NEW fd \in Fd, CloseStep(p, fd)
  PROVE  LET f == ofile[p][fd]
         IN  /\ RefIsDescriptors'
             /\ \A g \in File : g # f => file'[g] = file[g]
             /\ file'[f].ref = file[f].ref - 1 /\ file'[f].pipe = file[f].pipe /\ file'[f].writable = file[f].writable
             /\ file[f].ref > 1 => file'[f].type = file[f].type
<1> DEFINE f == ofile[p][fd]
           h == [file[f] EXCEPT !.ref = file[f].ref - 1,
                                !.type = IF file[f].ref > 1 THEN file[f].type ELSE "FD_NONE"]
<1>1. f \in File /\ file' = [file EXCEPT ![f] = h]
  BY Zenon, CloseFile
<1>2. file \in [File -> Files] /\ file[f] \in Files
  BY Zenon, <1>1 DEF Types
<1>3. PutAt(ofile, ofile', p, fd, 0)
  BY DEF CloseStep, Types, PutAt
<1>4. ofile[p][fd] = f
  OBVIOUS
<1> HIDE DEF f
<1>5. /\ h.ref = file[f].ref - 1 /\ h.pipe = file[f].pipe /\ h.writable = file[f].writable
      /\ file[f].ref > 1 => h.type = file[f].type
  BY <1>2 DEF Files
<1> HIDE DEF h
<1>6. (\A g \in File : g # f => file'[g] = file[g]) /\ file'[f] = h
  BY Zenon, <1>1, <1>2
<1>7. /\ Cardinality(Naming(ofile', f)) = Cardinality(Naming(ofile, f)) - 1
      /\ \A g \in File : g # f => Cardinality(Naming(ofile', g)) = Cardinality(Naming(ofile, g))
  BY SMTT(30), <1>1, <1>3, <1>4, NameDrop
<1>8. \A g \in File : file[g].ref = Cardinality(Naming(ofile, g))
  BY Zenon, RefsAre
<1>9. \A g \in File : file'[g].ref = Cardinality(Naming(ofile', g))
  BY Zenon, <1>1, <1>5, <1>6, <1>7, <1>8
<1> QED BY Zenon, <1>5, <1>6, <1>9, RefsAreNext DEF f
-----------------------------------------------------------------------------
(* Pages *)

SameOpen == \A y \in Pages : pipe'[y].readopen = pipe[y].readopen /\ pipe'[y].writeopen = pipe[y].writeopen

\* Pages other than x are left alone; x keeps its ends and holds n bytes.
OnlyPage(x, n) ==
  /\ SameOpen
  /\ \A y \in Pages : y # x => pipe'[y] = pipe[y]
  /\ CountOf(pipe'[x]) = n

LEMMA ReadEffect ==
  ASSUME Types, NEW p \in Procs, ff[p].pipe \in Pages, PipeRead(p)
  PROVE  LET x == ff[p].pipe
             n == Min({want[p], CountOf(pipe[x])})
         IN  /\ CountOf(pipe[x]) \in Nat /\ n \in 0 .. CountOf(pipe[x])
             /\ OnlyPage(x, CountOf(pipe[x]) - n)
             /\ ContentsOf(pipe'[x]) = SubSeq(ContentsOf(pipe[x]), n + 1, Len(ContentsOf(pipe[x])))
<1> DEFINE x == ff[p].pipe
           c == CountOf(pipe[x])
           n == Min({want[p], c})
           b == [pipe[x] EXCEPT !.nread = (pipe[x].nread + n) % UINT]
<1>1. n \in 0 .. c /\ pipe' = [pipe EXCEPT ![x] = b]
  BY Zenon, ReadPage
<1>2. pipe[x] \in Buffer /\ pipe \in [Pages -> Buffer]
  BY DEF Types
<1>3. c \in Nat
  BY ZenonT(60), <1>2, CountNat
<1> HIDE DEF n
<1>4. CountOf(b) = c - n /\ ContentsOf(b) = SubSeq(ContentsOf(pipe[x]), n + 1, Len(ContentsOf(pipe[x])))
  BY Zenon, <1>1, <1>2, ReadBytes
<1>5. b.readopen = pipe[x].readopen /\ b.writeopen = pipe[x].writeopen
  BY Zenon, <1>2 DEF Buffer
<1> HIDE DEF b, c
<1>6. pipe'[x] = b /\ \A y \in Pages : y # x => pipe'[y] = pipe[y]
  BY <1>1, <1>2
<1>7. OnlyPage(x, c - n)
  BY Zenon, <1>4, <1>5, <1>6 DEF OnlyPage, SameOpen
<1> QED BY Zenon, <1>1, <1>3, <1>4, <1>6, <1>7 DEF c, n

\* A write of m, which fits.
LEMMA FillEffect ==
  ASSUME Types, NEW x \in Pages, NEW m \in Seq(Bytes), CountOf(pipe[x]) + Len(m) <= PIPESIZE,
         pipe' = Filled(x, m)
  PROVE  OnlyPage(x, CountOf(pipe[x]) + Len(m)) /\ ContentsOf(pipe'[x]) = ContentsOf(pipe[x]) \o m
<1> DEFINE b == Stored(pipe[x], m)
           n == CountOf(pipe[x]) + Len(m)
<1>1. pipe' = [pipe EXCEPT ![x] = b] /\ pipe[x] \in Buffer /\ pipe \in [Pages -> Buffer]
  BY Zenon, FilledPage DEF Types
<1>2. CountOf(b) = n /\ ContentsOf(b) = ContentsOf(pipe[x]) \o m
  BY Zenon, <1>1, FillBytes
<1>3. b.readopen = pipe[x].readopen /\ b.writeopen = pipe[x].writeopen
  BY Zenon, <1>1, StoredType
<1> HIDE DEF b, n
<1>4. pipe'[x] = b /\ \A y \in Pages : y # x => pipe'[y] = pipe[y]
  BY <1>1
<1>5. OnlyPage(x, n)
  BY Zenon, <1>2, <1>3, <1>4 DEF OnlyPage, SameOpen
<1> QED BY Zenon, <1>2, <1>4, <1>5 DEF n

LEMMA WriteEffect ==
  ASSUME Types, NEW p \in Procs, ff[p].pipe \in Pages, PipeWrite(p)
  PROVE  LET x == ff[p].pipe
         IN  /\ CountOf(pipe[x]) \in Nat /\ Len(todo[p]) \in Nat /\ CountOf(pipe[x]) + Len(todo[p]) <= PIPESIZE
             /\ OnlyPage(x, CountOf(pipe[x]) + Len(todo[p]))
             /\ ContentsOf(pipe'[x]) = ContentsOf(pipe[x]) \o todo[p]
<1> DEFINE x == ff[p].pipe
           c == CountOf(pipe[x])
<1>1. pipe[x] \in Buffer /\ todo[p] \in Seq(Bytes)
  BY DEF Types
<1>2. c \in 0 .. UINT - 1
  BY Zenon, <1>1, ContentsType
<1>3. Len(todo[p]) <= PIPESIZE - c /\ pipe' = Filled(x, todo[p])
  BY Zenon DEF PipeWrite, Room, Count, CountOf
<1> HIDE DEF c
<1>4. c \in Nat /\ Len(todo[p]) \in Nat /\ c + Len(todo[p]) <= PIPESIZE
  BY <1>1, <1>2, <1>3, Sizes
<1> QED BY Zenon, <1>1, <1>3, <1>4, FillEffect DEF c

LEMMA BlockEffect ==
  ASSUME Types, Bounded, NEW p \in Procs, ff[p].pipe \in Pages, PipeWriteBlock(p)
  PROVE  LET x == ff[p].pipe
             n == PIPESIZE - CountOf(pipe[x])
         IN  /\ n \in Nat /\ Len(todo[p]) \in Nat /\ Len(todo[p]) > n /\ Room(x) = n
             /\ OnlyPage(x, PIPESIZE)
             /\ ContentsOf(pipe'[x]) = ContentsOf(pipe[x]) \o SubSeq(todo[p], 1, n)
<1> DEFINE x == ff[p].pipe
           c == CountOf(pipe[x])
           n == PIPESIZE - c
           m == SubSeq(todo[p], 1, n)
<1>1. pipe[x] \in Buffer /\ todo[p] \in Seq(Bytes) /\ c <= PIPESIZE
  BY Zenon DEF Types, Bounded
<1>2. c \in 0 .. UINT - 1
  BY Zenon, <1>1, ContentsType
<1>3. Len(todo[p]) > n /\ pipe' = Filled(x, m) /\ Room(x) = n
  BY Zenon DEF PipeWriteBlock, Room, Count, CountOf
<1> HIDE DEF c, m
<1>4. c \in Nat /\ n \in Nat /\ c + n = PIPESIZE /\ Len(todo[p]) \in Nat
  BY SMTT(60), <1>1, <1>2, Sizes
<1> HIDE DEF n
<1>5. m \in Seq(Bytes) /\ Len(m) = n
  BY <1>1, <1>3, <1>4 DEF m
<1>6. c + Len(m) = PIPESIZE /\ c + Len(m) <= PIPESIZE
  BY <1>4, <1>5, Sizes
<1>7. OnlyPage(x, c + Len(m)) /\ ContentsOf(pipe'[x]) = ContentsOf(pipe[x]) \o m
  BY Zenon, <1>3, <1>5, <1>6, FillEffect DEF c
<1> QED BY Zenon, <1>3, <1>4, <1>6, <1>7 DEF c, n, m

LEMMA BoundedPage ==
  ASSUME Bounded, NEW x \in Pages, NEW n \in Nat, OnlyPage(x, n), n <= PIPESIZE
  PROVE  Bounded'
<1>1. ASSUME NEW y \in Pages PROVE CountOf(pipe'[y]) <= PIPESIZE
  BY Zenon DEF Bounded, OnlyPage
<1> QED BY Zenon, <1>1 DEF Bounded, CountOf

\* The steps that leave the pages alone, but for what is in one of them.
LEMMA BoundedSteps ==
  ASSUME Types, Bounded, NEW p \in Procs, ff[p].pipe \in Pages,
         PipeRead(p) \/ PipeWrite(p) \/ PipeWriteBlock(p)
  PROVE  Bounded' /\ SameOpen
<1> DEFINE x == ff[p].pipe
           c == CountOf(pipe[x])
<1>1. c <= PIPESIZE
  BY Zenon DEF Bounded
<1>2. CASE PipeRead(p)
  <2> DEFINE n == Min({want[p], c})
  <2>1. c \in Nat /\ n \in 0 .. c /\ OnlyPage(x, c - n)
    BY Zenon, <1>2, ReadEffect
  <2> HIDE DEF n, c
  <2>2. c - n \in Nat /\ c - n <= PIPESIZE
    BY <1>1, <2>1, Sizes
  <2> QED BY Zenon, <2>1, <2>2, BoundedPage DEF OnlyPage
<1>3. CASE PipeWrite(p)
  <2> DEFINE n == c + Len(todo[p])
  <2>1. c \in Nat /\ Len(todo[p]) \in Nat /\ n <= PIPESIZE /\ OnlyPage(x, n)
    BY Zenon, <1>3, WriteEffect
  <2> HIDE DEF c
  <2>2. n \in Nat
    BY <2>1
  <2> QED BY Zenon, <2>1, <2>2, BoundedPage DEF OnlyPage
<1>4. CASE PipeWriteBlock(p)
  <2>1. OnlyPage(x, PIPESIZE)
    BY Zenon, <1>4, BlockEffect
  <2>2. PIPESIZE \in Nat /\ PIPESIZE <= PIPESIZE
    BY Sizes
  <2> QED BY Zenon, <2>1, <2>2, BoundedPage DEF OnlyPage
<1> QED BY Zenon, <1>2, <1>3, <1>4

\* What pipeclose does to the page, for either end.
LEMMA CloseEffect ==
  ASSUME Types, NEW p \in Procs, ff[p].pipe \in Pages, PipeClose(p)
  PROVE  LET x == ff[p].pipe
             w == ff[p].writable
         IN  /\ w \in BOOLEAN /\ \A y \in Pages : y # x => pipe'[y] = pipe[y]
             /\ ~Open(x, ~w) => pipe'[x] = Junk /\ free' = free \cup {x}
             /\ Open(x, ~w) => /\ free' = free
                               /\ CountOf(pipe'[x]) = CountOf(pipe[x]) /\ ContentsOf(pipe'[x]) = ContentsOf(pipe[x])
                               /\ pipe'[x].writeopen = (IF w THEN FALSE ELSE pipe[x].writeopen)
                               /\ pipe'[x].readopen = (IF w THEN pipe[x].readopen ELSE FALSE)
<1> DEFINE x == ff[p].pipe
           w == ff[p].writable
<1>1. w \in BOOLEAN /\ pipe \in [Pages -> Buffer] /\ pipe[x] \in Buffer
  BY Zenon DEF Types, Files
<1>2. Gone(ff[p]) <=> ~Open(x, ~w)
  BY Zenon, <1>1 DEF Gone, Open
<1>3. /\ pipe' = IF Gone(ff[p]) THEN [pipe EXCEPT ![x] = Junk]
                 ELSE IF w THEN [pipe EXCEPT ![x].writeopen = FALSE] ELSE [pipe EXCEPT ![x].readopen = FALSE]
      /\ free' = IF Gone(ff[p]) THEN free \cup {x} ELSE free
  BY DEF PipeClose
<1> DEFINE g == Gone(ff[p])
           o == Open(x, ~w)
<1> HIDE DEF w, g, o
<1>4. \A y \in Pages : y # x => pipe'[y] = pipe[y]
  BY Zenon, <1>1, <1>3 DEF g
<1>5. ASSUME g PROVE pipe'[x] = Junk /\ free' = free \cup {x}
  BY Zenon, <1>1, <1>3, <1>5 DEF g
<1>6. ASSUME ~g
      PROVE  /\ free' = free
             /\ pipe'[x].nread = pipe[x].nread /\ pipe'[x].nwrite = pipe[x].nwrite /\ pipe'[x].data = pipe[x].data
             /\ pipe'[x].writeopen = (IF w THEN FALSE ELSE pipe[x].writeopen)
             /\ pipe'[x].readopen = (IF w THEN pipe[x].readopen ELSE FALSE)
  <2>1. CASE w
    <3>1. pipe'[x] = [pipe[x] EXCEPT !.writeopen = FALSE] /\ free' = free
      BY Zenon, <1>1, <1>3, <1>6, <2>1 DEF g
    <3> QED BY Zenon, <1>1, <2>1, <3>1 DEF Buffer
  <2>2. CASE ~w
    <3>1. pipe'[x] = [pipe[x] EXCEPT !.readopen = FALSE] /\ free' = free
      BY Zenon, <1>1, <1>3, <1>6, <2>2 DEF g
    <3> QED BY Zenon, <1>1, <2>2, <3>1 DEF Buffer
  <2> QED BY Zenon, <2>1, <2>2
<1>7. ASSUME ~g PROVE CountOf(pipe'[x]) = CountOf(pipe[x]) /\ ContentsOf(pipe'[x]) = ContentsOf(pipe[x])
  <2>1. CountOf(pipe'[x]) = CountOf(pipe[x]) /\ \A i : Index(pipe'[x], i) = Index(pipe[x], i)
    BY ZenonT(60), <1>6, <1>7 DEF CountOf, Index
  <2> QED BY Zenon, <1>6, <1>7, <2>1 DEF ContentsOf
<1>8. g <=> ~o
  BY <1>2 DEF g, o, w
<1> QED BY Zenon, <1>1, <1>4, <1>5, <1>6, <1>7, <1>8 DEF w, o

LEMMA AllocEffect ==
  ASSUME Types, NEW p \in Procs, NEW x \in Pages,
         NEW f0 \in File, NEW f1 \in File, NEW fd0 \in Fd, NEW fd1 \in Fd, PipeStep(p, x, f0, f1, fd0, fd1)
  PROVE  /\ \A y \in Pages : y # x => pipe'[y] = pipe[y]
         /\ pipe'[x].readopen /\ pipe'[x].writeopen /\ CountOf(pipe'[x]) = 0
<1> DEFINE b == [pipe[x] EXCEPT !.readopen = TRUE, !.writeopen = TRUE, !.nread = 0, !.nwrite = 0]
<1>1. pipe \in [Pages -> Buffer] /\ pipe[x] \in Buffer
  BY DEF Types
<1>2. pipe' = [pipe EXCEPT ![x] = b]
  BY Zenon, <1>1 DEF PipeStep, PipeAlloc, Types, Buffer
<1>3. b.readopen /\ b.writeopen /\ b.nread = 0 /\ b.nwrite = 0
  BY Zenon, <1>1 DEF Buffer
<1> HIDE DEF b
<1>4. CountOf(b) = 0
  <2>1. CountOf(b) = 0 % UINT
    BY <1>3 DEF CountOf
  <2>2. 0 % UINT = 0
    BY Sizes
  <2> QED BY ZenonT(60), <2>1, <2>2
<1>5. pipe'[x] = b /\ \A y \in Pages : y # x => pipe'[y] = pipe[y]
  BY Zenon, <1>1, <1>2
<1> QED BY Zenon, <1>3, <1>4, <1>5

LEMMA BoundedClose ==
  ASSUME Types, Bounded, NEW p \in Procs, ff[p].pipe \in Pages, PipeClose(p)
  PROVE  Bounded'
<1> DEFINE x == ff[p].pipe
<1>1. (\A y \in Pages : y # x => pipe'[y] = pipe[y]) /\ (pipe'[x] = Junk \/ CountOf(pipe'[x]) = CountOf(pipe[x]))
  BY Zenon, CloseEffect
<1>2. CountOf(Junk) <= PIPESIZE
  BY JunkType, Sizes
<1>3. ASSUME NEW y \in Pages PROVE CountOf(pipe'[y]) <= PIPESIZE
  BY Zenon, <1>1, <1>2 DEF Bounded
<1> QED BY Zenon, <1>3 DEF Bounded, CountOf

LEMMA BoundedAlloc ==
  ASSUME Types, Bounded, NEW p \in Procs, NEW x \in Pages,
         NEW f0 \in File, NEW f1 \in File, NEW fd0 \in Fd, NEW fd1 \in Fd, PipeStep(p, x, f0, f1, fd0, fd1)
  PROVE  Bounded'
<1>1. (\A y \in Pages : y # x => pipe'[y] = pipe[y]) /\ CountOf(pipe'[x]) = 0
  BY Zenon, AllocEffect
<1>2. 0 <= PIPESIZE
  BY Sizes
<1>3. ASSUME NEW y \in Pages PROVE CountOf(pipe'[y]) <= PIPESIZE
  BY Zenon, <1>1, <1>2 DEF Bounded
<1> QED BY Zenon, <1>3 DEF Bounded, CountOf

-----------------------------------------------------------------------------
(* Ends *)

SameClosers ==
  \A q \in Procs : /\ pc'[q] = "pipeclose" <=> pc[q] = "pipeclose"
                   /\ pc[q] = "pipeclose" => ff'[q] = ff[q]

\* An end that a step does not touch.
LEMMA EndSame ==
  ASSUME NEW x \in Pages, NEW w \in BOOLEAN, EndKept(x, w),
         Open(x, w)' <=> Open(x, w), x \in free' => x \in free,
         \A f \in File : Holds(f, x, w)' <=> Holds(f, x, w),
         \A q \in Procs : Closes(q, x, w)' <=> Closes(q, x, w)
  PROVE  EndKept(x, w)'
  BY DEF EndKept

LEMMA HoldsSame ==
  ASSUME \A f \in File : SameFile(f)
  PROVE  \A x \in Pages, w \in BOOLEAN, f \in File : Holds(f, x, w)' <=> Holds(f, x, w)
  BY Zenon DEF SameFile, Holds

LEMMA ClosesSame ==
  ASSUME SameClosers
  PROVE  \A x \in Pages, w \in BOOLEAN, q \in Procs : Closes(q, x, w)' <=> Closes(q, x, w)
  BY Zenon DEF SameClosers, Closes

LEMMA EndsSame ==
  ASSUME Ends, InUse, \A f \in File : SameFile(f), SameOpen, SameClosers, free' = free
  PROVE  Ends' /\ InUse'
<1>1. \A x \in Pages, w \in BOOLEAN : Open(x, w)' <=> Open(x, w)
  BY Zenon DEF SameOpen, Open
<1>2. ASSUME NEW x \in Pages, NEW w \in BOOLEAN PROVE EndKept(x, w)'
  <2>1. EndKept(x, w) /\ (Open(x, w)' <=> Open(x, w)) /\ (x \in free' => x \in free)
    BY Zenon, <1>1 DEF Ends
  <2>2. \A f \in File : Holds(f, x, w)' <=> Holds(f, x, w)
    BY Zenon, HoldsSame
  <2>3. \A q \in Procs : Closes(q, x, w)' <=> Closes(q, x, w)
    BY Zenon, ClosesSame
  <2> QED BY Zenon, <2>1, <2>2, <2>3, EndSame
<1>3. InUse'
  BY Zenon DEF InUse, SameFile
<1> QED BY Zenon, <1>2, <1>3 DEF Ends

\* The end that pipeclose closes: nothing stands for it any more.
LEMMA EndsClose ==
  ASSUME Types, Ends, InUse, NEW p \in Procs, PipeClose(p),
         NEW x \in Pages, NEW w \in BOOLEAN, NEW u \in BOOLEAN, ff[p].pipe = x, ff[p].writable = w, u = ~w
  PROVE  Ends' /\ InUse'
<1>1. /\ \A y \in Pages : y # x => pipe'[y] = pipe[y]
      /\ ~Open(x, u) => pipe'[x] = Junk /\ free' = free \cup {x}
      /\ Open(x, u) => /\ free' = free
                        /\ pipe'[x].writeopen = (IF w THEN FALSE ELSE pipe[x].writeopen)
                        /\ pipe'[x].readopen = (IF w THEN pipe[x].readopen ELSE FALSE)
  BY Zenon, CloseEffect
<1>2. Closes(p, x, w) /\ file' = file
  BY Zenon DEF PipeClose, At, Closes
<1>3. pc'[p] # "pipeclose" /\ \A q \in Procs : q # p => pc'[q] = pc[q] /\ ff'[q] = ff[q]
  BY DEF PipeClose, Return, Types
<1>4. \A y \in Pages, v \in BOOLEAN, f \in File : Holds(f, y, v)' <=> Holds(f, y, v)
  BY Zenon, <1>2 DEF Holds
<1>5. \A y \in Pages, v \in BOOLEAN, q \in Procs : Closes(q, y, v)' <=> q # p /\ Closes(q, y, v)
  BY Zenon, <1>3 DEF Closes
<1>7. ~Open(x, w)' /\ (Open(x, u)' <=> Open(x, u)) /\ (~Open(x, u) \/ free' = free)
  <2>1. ~Junk.readopen /\ ~Junk.writeopen
    BY DEF Junk
  <2>2. CASE w
    BY Zenon, <1>1, <2>1, <2>2 DEF Open
  <2>3. CASE ~w
    BY Zenon, <1>1, <2>1, <2>3 DEF Open
  <2> QED BY Zenon, <2>2, <2>3
<1>8. EndKept(x, w) /\ EndKept(x, u)
  BY Zenon, <1>1 DEF Ends
<1>9. EndKept(x, w)'
  <2>1. (\A f \in File : ~Holds(f, x, w)) /\ \A q \in Procs : Closes(q, x, w) => q = p
    BY Zenon, <1>2, <1>8 DEF EndKept
  <2>2. (\A f \in File : ~Holds(f, x, w)') /\ \A q \in Procs : ~Closes(q, x, w)'
    BY Zenon, <1>1, <1>4, <1>5, <2>1
  <2> QED BY Zenon, <1>7, <2>2 DEF EndKept
<1>10. \A v \in BOOLEAN : v # w => v = u
  OBVIOUS
<1>11. \A y \in Pages, v \in BOOLEAN : y # x \/ v # w => ~Closes(p, y, v)
  BY Zenon, <1>2 DEF Closes
<1>12. ASSUME NEW y \in Pages, NEW v \in BOOLEAN, y # x \/ v # w PROVE EndKept(y, v)'
  <2>1. (\A f \in File : Holds(f, y, v)' <=> Holds(f, y, v)) /\ (\A q \in Procs : Closes(q, y, v)' <=> Closes(q, y, v))
    BY Zenon, <1>4, <1>5, <1>11, <1>12
  <2>2. EndKept(y, v)
    BY Zenon DEF Ends
  <2>3. CASE y = x
    <3>1. v = u
      BY Zenon, <1>10, <1>12, <2>3
    <3>2. (Open(y, v)' <=> Open(y, v)) /\ (Open(y, v) => y \notin free')
      BY Zenon, <1>7, <1>8, <2>3, <3>1 DEF EndKept
    <3> QED BY Zenon, <2>1, <2>2, <3>2 DEF EndKept
  <2>4. CASE y # x
    <3>1. (Open(y, v)' <=> Open(y, v)) /\ (y \in free' => y \in free)
      BY Zenon, <1>1, <2>4 DEF Open
    <3> QED BY Zenon, <2>1, <2>2, <3>1, EndSame
  <2> QED BY Zenon, <2>3, <2>4
<1>13. InUse'
  BY Zenon, <1>2 DEF InUse
<1> QED BY Zenon, <1>9, <1>12, <1>13 DEF Ends

\* The last descriptor of an end is closed: its process stands for it now.
LEMMA EndsFileClose ==
  ASSUME Types, RefIsDescriptors, Ends, InUse, NEW p \in Procs, NEW fd \in Fd, CloseStep(p, fd),
         NEW f \in File, ofile[p][fd] = f
  PROVE  Ends' /\ InUse'
<1>1. /\ \A g \in File : g # f => file'[g] = file[g]
      /\ file'[f].ref = file[f].ref - 1 /\ file'[f].pipe = file[f].pipe /\ file'[f].writable = file[f].writable
      /\ file[f].ref > 1 => file'[f].type = file[f].type
  BY Zenon, RefsClose
<1>2. file[f] \in Files /\ file[f].ref \in Nat /\ file[f].ref > 0
  BY Zenon, Named DEF CloseStep
<1>3. UNCHANGED <<pipe, free>> /\ FileClose(p, f) /\ pc[p] # "pipeclose"
  BY DEF CloseStep, pageVars
<1>4. CASE file[f].ref > 1
  <2>1. file'[f].ref > 0 <=> file[f].ref > 0
    BY <1>1, <1>2, <1>4
  <2>2. \A g \in File : SameFile(g)
    BY Zenon, <1>1, <1>4, <2>1 DEF SameFile
  <2>3. UNCHANGED <<pc, ff>>
    BY Zenon, <1>3, <1>4 DEF FileClose
  <2>4. SameOpen /\ SameClosers
    BY Zenon, <1>3, <2>3 DEF SameOpen, SameClosers
  <2> QED BY ZenonT(60), <1>3, <2>2, <2>4, EndsSame
<1>5. CASE ~(file[f].ref > 1)
  <2>1. ~(file'[f].ref > 0)
    BY <1>1, <1>2, <1>5
  <2>2. PICK x \in Pages, w \in BOOLEAN : x = file[f].pipe /\ w = file[f].writable
    BY Zenon, <1>2 DEF Files, InUse
  <2>3. /\ pc'[p] = "pipeclose" /\ ff'[p].pipe = x /\ ff'[p].writable = w
        /\ \A q \in Procs : q # p => pc'[q] = pc[q] /\ ff'[q] = ff[q]
    <3>1. pc' = [pc EXCEPT ![p] = "pipeclose"] /\ ff' = [ff EXCEPT ![p] = file[f]]
      BY Zenon, <1>3, <1>5 DEF FileClose
    <3> QED BY Zenon, <2>2, <3>1 DEF Types
  <2>4. \A y \in Pages, v \in BOOLEAN, g \in File : Holds(g, y, v)' <=> g # f /\ Holds(g, y, v)
    BY Zenon, <1>1, <2>1 DEF Holds
  <2>5. \A y \in Pages, v \in BOOLEAN, q \in Procs : Closes(q, y, v)' <=> (q = p /\ y = x /\ v = w) \/ Closes(q, y, v)
    <3>1. \A y \in Pages, v \in BOOLEAN : ~Closes(p, y, v)
      BY Zenon, <1>3 DEF Closes
    <3> QED BY Zenon, <2>3, <3>1 DEF Closes
  <2>6. Holds(f, x, w) /\ \A y \in Pages, v \in BOOLEAN : Holds(f, y, v) => y = x /\ v = w
    BY Zenon, <1>2, <2>2 DEF Holds
  <2>7. \A y \in Pages, v \in BOOLEAN : Open(y, v)' <=> Open(y, v)
    BY Zenon, <1>3 DEF Open
  <2>8. EndKept(x, w)
    BY Zenon DEF Ends
  <2>9. Open(x, w) /\ x \notin free /\ (\A g \in File : Holds(g, x, w) => g = f) /\ \A q \in Procs : ~Closes(q, x, w)
    BY Zenon, <2>6, <2>8 DEF EndKept
  <2>10. EndKept(x, w)'
    <3>1. Open(x, w)' /\ x \notin free'
      BY Zenon, <1>3, <2>7, <2>9
    <3>2. (\A g \in File : ~Holds(g, x, w)') /\ \A q \in Procs : Closes(q, x, w)' <=> q = p
      BY Zenon, <2>4, <2>5, <2>9
    <3> QED BY Zenon, <3>1, <3>2 DEF EndKept
  <2>11. ASSUME NEW y \in Pages, NEW v \in BOOLEAN, y # x \/ v # w PROVE EndKept(y, v)'
    <3>1. (\A g \in File : Holds(g, y, v)' <=> Holds(g, y, v)) /\ (\A q \in Procs : Closes(q, y, v)' <=> Closes(q, y, v))
      BY Zenon, <2>4, <2>5, <2>6, <2>11
    <3>2. EndKept(y, v) /\ (Open(y, v)' <=> Open(y, v)) /\ (y \in free' => y \in free)
      BY Zenon, <1>3, <2>7 DEF Ends
    <3> QED BY Zenon, <3>1, <3>2, EndSame
  <2>12. InUse'
    BY Zenon, <1>1, <2>1 DEF InUse
  <2> QED BY Zenon, <2>10, <2>11, <2>12 DEF Ends
<1> QED BY Zenon, <1>4, <1>5

\* A new pipe: its page was free, so that nothing stood for its ends.
LEMMA EndsAlloc ==
  ASSUME Types, Ends, InUse, NEW p \in Procs, NEW x \in Pages,
         NEW f0 \in File, NEW f1 \in File, NEW fd0 \in Fd, NEW fd1 \in Fd, PipeStep(p, x, f0, f1, fd0, fd1)
  PROVE  Ends' /\ InUse'
<1>1. /\ x \in free /\ f0 # f1 /\ ~(file[f0].ref > 0) /\ ~(file[f1].ref > 0)
      /\ free' = free \ {x} /\ UNCHANGED <<pc, ff>>
  BY DEF PipeStep, PipeAlloc, FreeFiles, ctlVars
<1>2. /\ IsEnd(file'[f0], x, FALSE) /\ IsEnd(file'[f1], x, TRUE)
      /\ \A f \in File : f # f0 /\ f # f1 => file'[f] = file[f]
  BY Zenon DEF PipeStep, PipeAlloc, Types, IsEnd
<1>0. /\ file'[f0].ref > 0 /\ file'[f0].type = "FD_PIPE" /\ file'[f0].pipe = x /\ file'[f0].writable = FALSE
      /\ file'[f1].ref > 0 /\ file'[f1].type = "FD_PIPE" /\ file'[f1].pipe = x /\ file'[f1].writable = TRUE
  BY Zenon, <1>2, EndFields, EndWritable
<1>3. /\ \A y \in Pages : y # x => pipe'[y] = pipe[y]
      /\ pipe'[x].readopen /\ pipe'[x].writeopen
  BY Zenon, AllocEffect
<1>4. \A y \in Pages, v \in BOOLEAN, q \in Procs : Closes(q, y, v)' <=> Closes(q, y, v)
  BY Zenon, <1>1 DEF Closes
<1>5. \A y \in Pages, v \in BOOLEAN, f \in File :
        Holds(f, y, v)' <=> (f = f0 /\ y = x /\ v = FALSE) \/ (f = f1 /\ y = x /\ v = TRUE) \/ Holds(f, y, v)
  <2>1. \A y \in Pages, v \in BOOLEAN : ~Holds(f0, y, v) /\ ~Holds(f1, y, v)
    BY Zenon, <1>1 DEF Holds
  <2>2. \A y \in Pages, v \in BOOLEAN : Holds(f0, y, v)' <=> y = x /\ v = FALSE
    BY Zenon, <1>0 DEF Holds
  <2>3. \A y \in Pages, v \in BOOLEAN : Holds(f1, y, v)' <=> y = x /\ v = TRUE
    BY Zenon, <1>0 DEF Holds
  <2>4. \A y \in Pages, v \in BOOLEAN, f \in File : f # f0 /\ f # f1 => (Holds(f, y, v)' <=> Holds(f, y, v))
    BY Zenon, <1>2 DEF Holds
  <2> QED BY Zenon, <1>1, <2>1, <2>2, <2>3, <2>4
<1>6. ASSUME NEW v \in BOOLEAN PROVE EndKept(x, v)'
  <2>1. EndKept(x, v)
    BY Zenon DEF Ends
  <2>2. (\A f \in File : ~Holds(f, x, v)) /\ (\A q \in Procs : ~Closes(q, x, v))
    BY ZenonT(60), <1>1, <2>1 DEF EndKept
  <2>3. Open(x, v)' /\ x \notin free'
    BY Zenon, <1>1, <1>3 DEF Open
  <2>4. \A q \in Procs : ~Closes(q, x, v)'
    BY Zenon, <1>4, <2>2
  <2>5. \A f \in File : Holds(f, x, v)' <=> (f = f0 /\ v = FALSE) \/ (f = f1 /\ v = TRUE)
    BY Zenon, <1>5, <2>2
  <2>6. CASE v = TRUE
    BY Zenon, <2>3, <2>4, <2>5, <2>6 DEF EndKept
  <2>7. CASE v = FALSE
    BY Zenon, <2>3, <2>4, <2>5, <2>7 DEF EndKept
  <2> QED BY Zenon, <2>6, <2>7
<1>7. ASSUME NEW y \in Pages, NEW v \in BOOLEAN, y # x PROVE EndKept(y, v)'
  <2>1. (\A f \in File : Holds(f, y, v)' <=> Holds(f, y, v)) /\ (\A q \in Procs : Closes(q, y, v)' <=> Closes(q, y, v))
    BY Zenon, <1>4, <1>5, <1>7
  <2>2. EndKept(y, v) /\ (Open(y, v)' <=> Open(y, v))
    BY ZenonT(60), <1>3, <1>7 DEF Ends, Open
  <2>3. y \in free' => y \in free
    BY <1>1
  <2> QED BY Zenon, <2>1, <2>2, <2>3, EndSame
<1>8. InUse'
  <2>1. \A f \in File : f # f0 /\ f # f1 => (file'[f].ref > 0 => file'[f].type = "FD_PIPE" /\ file'[f].pipe \in Pages)
    BY Zenon, <1>2 DEF InUse
  <2>2. file'[f0].type = "FD_PIPE" /\ file'[f0].pipe \in Pages /\ file'[f1].type = "FD_PIPE" /\ file'[f1].pipe \in Pages
    BY Zenon, <1>0
  <2> QED BY Zenon, <2>1, <2>2 DEF InUse
<1> QED BY Zenon, <1>6, <1>7, <1>8 DEF Ends
-----------------------------------------------------------------------------
(* Control, and those who sleep *)

KeepsFiles(q) ==
  \A fd \in Fd : ofile[q][fd] # 0 =>
    /\ ofile'[q][fd] = ofile[q][fd]
    /\ file'[ofile[q][fd]].pipe = file[ofile[q][fd]].pipe /\ file'[ofile[q][fd]].writable = file[ofile[q][fd]].writable

\* A process that goes on where it was; one that is back from a call.
Stays(q) ==
  /\ KeepsFiles(q)
  /\ pc'[q] = pc[q] /\ ff'[q] = ff[q] /\ (todo[q] # << >> => todo'[q] # << >>)
  /\ state'[q] \in {"UNUSED", "ZOMBIE"} => state[q] \in {"UNUSED", "ZOMBIE"} /\ \A fd \in Fd : ofile'[q][fd] = ofile[q][fd]
  /\ state'[q] = "SLEEPING" => state[q] = "SLEEPING" \/ pc[q] \in {"read", "write"}

Rests(q) == pc'[q] \in {"user", "exit"} /\ state'[q] \in {"RUNNABLE", "EXITING"}

LEMMA HasKept ==
  ASSUME NEW q \in Procs, KeepsFiles(q)
  PROVE  \A x, w : Has(q, x, w) => Has(q, x, w)'
  BY Zenon DEF Has, KeepsFiles

LEMMA StaysControlled ==
  ASSUME NEW q \in Procs, Controlled(q), Stays(q)
  PROVE  Controlled(q)'
<1>1. pc'[q] = pc[q] /\ ff'[q] = ff[q] /\ KeepsFiles(q)
  BY Zenon DEF Stays
<1>2. PICK x, w : x = ff[q].pipe /\ w = (pc[q] = "write")
  OBVIOUS
<1>3. Has(q, x, w) => Has(q, x, w)'
  BY Zenon, <1>1, HasKept
<1>4. pc'[q] \in {"read", "write"} => ff'[q].pipe \in Pages /\ Has(q, x, w)'
  BY Zenon, <1>1, <1>2, <1>3 DEF Controlled
<1>5. x = ff'[q].pipe /\ w = (pc'[q] = "write")
  BY Zenon, <1>1, <1>2
<1>6. Has(q, x, w)' => Has(q, ff[q].pipe, pc[q] = "write")'
  BY Zenon, <1>5 DEF Has
<1>7. (pc'[q] = "pipeclose" => ff'[q].pipe \in Pages) /\ (pc'[q] = "write" => todo'[q] # << >>)
  BY Zenon, <1>1 DEF Controlled, Stays
<1>8. state'[q] \in {"UNUSED", "ZOMBIE"} => Idles(q)'
  BY Zenon, <1>1 DEF Controlled, Stays, Idles
<1>9. state'[q] = "SLEEPING" => pc'[q] \in {"read", "write"}
  BY Zenon, <1>1 DEF Controlled, Stays
<1> QED BY Zenon, <1>4, <1>6, <1>7, <1>8, <1>9 DEF Controlled

LEMMA RestsControlled ==
  ASSUME NEW q \in Procs, Rests(q)
  PROVE  Controlled(q)'
  BY Zenon DEF Rests, Controlled

LEMMA ControlKept ==
  ASSUME Control, \A q \in Procs : Stays(q) \/ Rests(q) \/ Controlled(q)'
  PROVE  Control'
  BY Zenon, StaysControlled, RestsControlled DEF Control

LEMMA WaitsAre == SleepersWait <=> \A q \in Procs : Waits(q)
  BY Zenon DEF SleepersWait, Waits, Count, CountOf

\* A process that does not sleep, or whose page is left alone.
Undisturbed(q) ==
  \/ state'[q] # "SLEEPING"
  \/ /\ state'[q] = state[q] /\ pc'[q] = pc[q] /\ ff'[q] = ff[q]
     /\ pipe'[ff[q].pipe] = pipe[ff[q].pipe]
     /\ ff[q].pipe \in unheard => ff[q].pipe \in unheard'

LEMMA WaitKept ==
  ASSUME NEW q \in Procs, Waits(q), Undisturbed(q)
  PROVE  Waits(q)'
<1>1. CASE state'[q] # "SLEEPING"
  BY Zenon, <1>1 DEF Waits
<1>2. CASE state'[q] = "SLEEPING"
  <2>1. PICK b : b = pipe[ff[q].pipe]
    OBVIOUS
  <2>2. /\ state'[q] = state[q] /\ pc'[q] = pc[q] /\ ff'[q] = ff[q] /\ b = pipe'[ff'[q].pipe]
        /\ ff[q].pipe \in unheard => ff'[q].pipe \in unheard'
    BY Zenon, <1>2, <2>1 DEF Undisturbed
  <2>3. /\ state[q] = "SLEEPING" /\ pc[q] = "read" => b.writeopen /\ (CountOf(b) = 0 \/ ff[q].pipe \in unheard)
        /\ state[q] = "SLEEPING" /\ pc[q] = "write" => b.readopen /\ CountOf(b) = PIPESIZE
    BY Zenon, <2>1 DEF Waits
  <2> QED BY Zenon, <2>2, <2>3 DEF Waits, CountOf
<1> QED BY Zenon, <1>1, <1>2

LEMMA WaitsKept ==
  ASSUME SleepersWait, \A q \in Procs : Undisturbed(q) \/ Waits(q)'
  PROVE  SleepersWait'
<1>1. \A q \in Procs : Waits(q)'
  BY Zenon, WaitKept, WaitsAre
<1>2. SleepersWait' <=> \A q \in Procs : Waits(q)'
  BY Zenon DEF SleepersWait, Waits, Count, CountOf
<1> QED BY Zenon, <1>1, <1>2

\* The other processes, and their files.
Others(p) ==
  \A q \in Procs : q # p => /\ pc'[q] = pc[q] /\ ff'[q] = ff[q] /\ todo'[q] = todo[q]
                            /\ state'[q] = state[q] \/ state'[q] = "RUNNABLE"

LEMMA OthersStay ==
  ASSUME NEW p \in Procs, Others(p), UNCHANGED <<file, ofile>>
  PROVE  \A q \in Procs : KeepsFiles(q) /\ (q # p => Stays(q))
<1>1. \A q \in Procs : KeepsFiles(q)
  BY Zenon DEF KeepsFiles
<1>2. ASSUME NEW q \in Procs, q # p PROVE Stays(q)
  <2>1. pc'[q] = pc[q] /\ ff'[q] = ff[q] /\ todo'[q] = todo[q] /\ (state'[q] = state[q] \/ state'[q] = "RUNNABLE")
    BY Zenon, <1>2 DEF Others
  <2>2. "RUNNABLE" # "UNUSED" /\ "RUNNABLE" # "ZOMBIE" /\ "RUNNABLE" # "SLEEPING"
    OBVIOUS
  <2>3. state'[q] \in {"UNUSED", "ZOMBIE"} => state'[q] = state[q]
    BY Zenon, <2>1, <2>2
  <2> QED BY Zenon, <1>1, <2>1, <2>2, <2>3 DEF Stays, KeepsFiles
<1> QED BY Zenon, <1>1, <1>2

LEMMA ReturnEffect ==
  ASSUME Types, NEW p \in Procs, Return(p)
  PROVE  /\ pc'[p] \in {"user", "exit"}
         /\ \A q \in Procs : q # p => pc'[q] = pc[q] /\ ff'[q] = ff[q] /\ todo'[q] = todo[q]
  BY Zenon DEF Types, Return

LEMMA WakeupEffect ==
  ASSUME Types, NEW c, NEW x, Wakeup(c, x)
  PROVE  /\ \A q \in Procs : state'[q] = state[q] \/ state'[q] = "RUNNABLE"
         /\ \A q \in Procs : state'[q] = "SLEEPING" => state[q] = "SLEEPING" /\ ~(pc[q] = c /\ ff[q].pipe = x)
  BY DEF Types, Wakeup, SleepsOn
=============================================================================
