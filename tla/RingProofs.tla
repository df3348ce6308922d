---------------------------- MODULE RingProofs ------------------------------
(***************************************************************************)
(* The rings of bytes whose indices wrap around, for any size of the ring. *)
(* The pipe: a queue of bytes, as an implementation of Fifo, whose readers *)
(* and writers sleep only while they have to.  The console: a reader gets  *)
(* the lines as they were typed and edited.                                *)
(***************************************************************************)
EXTENDS Integers, Sequences, TLAPS

CONSTANTS Thread, Size, Wrap

CONSTANTS Creator, Values, MaxIO, Writes         \* of a pipe
VARIABLES data, nread, nwrite, readopen, writeopen, freed, readers, writers,
          ppc, todo, room, pkilled, born

P == INSTANCE Pipe WITH PIPESIZE <- Size, pc <- ppc, killed <- pkilled

CONSTANT MaxRead                                 \* of the console
VARIABLES cbuf, cr, cw, ce, clock, crd, cline, clines

K == INSTANCE Console WITH INPUT_BUF <- Size, buf <- cbuf, r <- cr, w <- cw, e <- ce,
                           lock <- clock, rd <- crd, line <- cline, lines <- clines

-----------------------------------------------------------------------------
(***************************************************************************)
(* Sequences.                                                              *)
(***************************************************************************)
\* The empty sequence is one over any set, and the only one without elements.
LEMMA NoElements ==
  \A S : <<>> \in Seq(S) /\ Len(<<>>) = 0 /\ \A a \in Seq(S) : a # <<>> => Len(a) # 0
OBVIOUS

\* Sequences with the same elements are equal.
LEMMA SameElements ==
  ASSUME NEW S, NEW a \in Seq(S), NEW b \in Seq(S), Len(a) = Len(b),
         \A k \in 1..Len(a) : a[k] = b[k]
  PROVE  a = b
OBVIOUS

\* The elements of two sequences one after the other.
LEMMA Joined ==
  ASSUME NEW S, NEW a \in Seq(S), NEW b \in Seq(S)
  PROVE  /\ a \o b \in Seq(S) /\ Len(a \o b) = Len(a) + Len(b)
         /\ \A k \in 1..(Len(a) + Len(b)) :
              (a \o b)[k] = IF k <= Len(a) THEN a[k] ELSE b[k - Len(a)]
OBVIOUS

\* The empty sequence adds nothing.
LEMMA JoinedEmpty ==
  ASSUME NEW S, NEW a \in Seq(S)
  PROVE  a \o <<>> = a /\ <<>> \o a = a
OBVIOUS

\* The elements of a part of a sequence.
LEMMA Part ==
  ASSUME NEW S, NEW a, NEW m \in Int, NEW n \in Int, \A k \in m..n : a[k] \in S
  PROVE  LET b == SubSeq(a, m, n)
         IN  /\ b \in Seq(S) /\ Len(b) = IF m <= n THEN n - m + 1 ELSE 0
             /\ \A k \in 1..(n - m + 1) : b[k] = a[m + k - 1]
OBVIOUS

\* A part that ends before it begins.
LEMMA NoPart ==
  ASSUME NEW a, NEW m \in Int, NEW n \in Int, n < m
  PROVE  SubSeq(a, m, n) = <<>>
OBVIOUS

\* One element at the end.
LEMMA OneMore ==
  ASSUME NEW S, NEW a \in Seq(S), NEW x \in S
  PROVE  LET b == Append(a, x)
         IN  /\ b \in Seq(S) /\ b # <<>> /\ Len(b) = Len(a) + 1
             /\ \A k \in 1..Len(a) : b[k] = a[k]
             /\ b[Len(a) + 1] = x
OBVIOUS

\* One element less at the front.
LEMMA OneLess ==
  ASSUME NEW S, NEW a \in Seq(S), a # <<>>
  PROVE  /\ Head(a) \in S /\ Tail(a) \in Seq(S) /\ Len(Tail(a)) = Len(a) - 1
         /\ \A k \in 1..Len(Tail(a)) : Tail(a)[k] = a[k + 1]
OBVIOUS

-----------------------------------------------------------------------------
(***************************************************************************)
(* Counters that wrap around.                                              *)
(***************************************************************************)
\* Division with remainder.
LEMMA DivMod ==
  ASSUME NEW a \in Nat, NEW p \in Nat, p > 0
  PROVE  \E q \in Nat : a = q * p + (a % p) /\ a % p \in 0..(p-1)
<1>1. a = p * (a \div p) + (a % p)
  BY SMTT(30)
<1>2. a \div p \in Nat /\ a % p \in 0..(p-1)
  OBVIOUS
<1> DEFINE q == a \div p
           r == a % p
<1>3. q \in Nat /\ r \in Nat /\ a = p * q + r
  BY <1>1, <1>2
<1> HIDE DEF q, r
<1>4. a = q * p + r
  BY <1>3
<1> QED
  BY <1>2, <1>3, <1>4 DEF r

\* The remainder is the only one.
LEMMA ModUnique ==
  ASSUME NEW q \in Nat, NEW p \in Nat, p > 0, NEW r \in 0..(p-1)
  PROVE  (q * p + r) % p = r
OBVIOUS

\* The multiples of a number lie apart.
LEMMA Multiples ==
  ASSUME NEW p \in Nat, NEW q \in Nat, NEW m \in Nat, q < m
  PROVE  m * p >= q * p + p
<1>1. PICK d \in Nat : m = q + 1 + d
  <2>1. m - q - 1 \in Nat /\ m = q + 1 + (m - q - 1)
    OBVIOUS
  <2> QED
    BY <2>1
<1>2. m * p = q * p + p + d * p /\ d * p \in Nat /\ q * p \in Nat
  BY <1>1
<1> QED
  BY <1>2

\* Numbers that are close have different remainders.
LEMMA ModInjective ==
  ASSUME NEW p \in Nat, p > 0, NEW x \in Nat, NEW y \in Nat, x <= y, y - x < p, x % p = y % p
  PROVE  x = y
<1>1. PICK q \in Nat : x = q * p + (x % p)
  BY DivMod
<1>2. PICK s \in Nat : y = s * p + (y % p)
  BY DivMod
<1>3. q * p \in Nat /\ s * p \in Nat /\ x % p \in Nat
  OBVIOUS
<1>4. CASE q < s
  BY <1>1, <1>2, <1>3, <1>4, Multiples
<1>5. CASE s < q
  BY <1>1, <1>2, <1>3, <1>5, Multiples
<1>6. CASE q = s
  BY <1>1, <1>2, <1>6
<1> QED
  BY <1>4, <1>5, <1>6

\* Whole rounds do not change a remainder.
LEMMA ModLess ==
  ASSUME NEW p \in Nat, p > 0, NEW m \in Nat, NEW a \in Nat, a >= m * p
  PROVE  (a - m * p) % p = a % p
<1>1. PICK q \in Nat : a = q * p + (a % p) /\ a % p \in 0..(p-1)
  BY DivMod
<1>2. q >= m
  <2>1. m * p \in Nat /\ q * p \in Nat
    OBVIOUS
  <2> QED
    BY <1>1, <2>1, Multiples
<1>3. PICK d \in Nat : q = m + d
  <2>1. q - m \in Nat /\ q = m + (q - m)
    BY <1>2
  <2> QED
    BY <2>1
<1>4. a - m * p = d * p + (a % p)
  BY <1>1, <1>3
<1> QED
  BY <1>1, <1>4, ModUnique

\* What lies between two counters of R values.
Dist(r, w, R) == (w + R - r) % R

\* The distance between two counters, without the remainder.
LEMMA DistIs ==
  ASSUME NEW R \in Nat, NEW r \in 0..(R-1), NEW w \in 0..(R-1)
  PROVE  Dist(r, w, R) = IF r <= w THEN w - r ELSE w + R - r
<1>1. CASE r <= w
  <2>1. w - r \in 0..(R-1)
    BY <1>1
  <2>2. (1 * R + (w - r)) % R = w - r
    BY <2>1, ModUnique
  <2> QED
    BY <1>1, <2>2 DEF Dist
<1>2. CASE ~(r <= w)
  BY <1>2 DEF Dist
<1> QED
  BY <1>1, <1>2

\* A counter that is moved by at most one round.
LEMMA SumIs ==
  ASSUME NEW R \in Nat, NEW w \in 0..(R-1), NEW k \in 0..R
  PROVE  (w + k) % R = IF w + k < R THEN w + k ELSE w + k - R
<1>1. CASE w + k < R
  BY <1>1
<1>2. CASE w + k >= R
  <2>1. w + k - R \in 0..(R-1)
    BY <1>2
  <2>2. (1 * R + (w + k - R)) % R = w + k - R
    BY <2>1, ModUnique
  <2> QED
    BY <1>2, <2>2
<1> QED
  BY <1>1, <1>2

\* nwrite moves away from nread.
LEMMA DistPut ==
  ASSUME NEW R \in Nat, NEW r \in 0..(R-1), NEW w \in 0..(R-1), NEW k \in Nat,
         Dist(r, w, R) + k < R
  PROVE  (w + k) % R \in 0..(R-1) /\ Dist(r, (w + k) % R, R) = Dist(r, w, R) + k
<1> DEFINE v == (w + k) % R
<1>1. Dist(r, w, R) = IF r <= w THEN w - r ELSE w + R - r
  BY DistIs
<1>2. k \in 0..R
  BY <1>1
<1>3. v = IF w + k < R THEN w + k ELSE w + k - R
  BY <1>2, SumIs
<1>4. v \in 0..(R-1)
  BY <1>2, <1>3
<1> HIDE DEF v
<1>5. Dist(r, v, R) = IF r <= v THEN v - r ELSE v + R - r
  BY <1>4, DistIs
<1>6. Dist(r, v, R) = Dist(r, w, R) + k
  BY <1>1, <1>2, <1>3, <1>4, <1>5
<1> QED
  BY <1>4, <1>6 DEF v

\* nread follows nwrite.
LEMMA DistGet ==
  ASSUME NEW R \in Nat, NEW r \in 0..(R-1), NEW w \in 0..(R-1), NEW k \in Nat,
         k <= Dist(r, w, R)
  PROVE  (r + k) % R \in 0..(R-1) /\ Dist((r + k) % R, w, R) = Dist(r, w, R) - k
<1> DEFINE v == (r + k) % R
<1>1. Dist(r, w, R) = IF r <= w THEN w - r ELSE w + R - r
  BY DistIs
<1>2. k \in 0..R
  BY <1>1
<1>3. v = IF r + k < R THEN r + k ELSE r + k - R
  BY <1>2, SumIs
<1>4. v \in 0..(R-1)
  BY <1>2, <1>3
<1> HIDE DEF v
<1>5. Dist(v, w, R) = IF v <= w THEN w - v ELSE w + R - v
  BY <1>4, DistIs
<1>6. Dist(v, w, R) = Dist(r, w, R) - k
  BY <1>1, <1>2, <1>3, <1>4, <1>5
<1> QED
  BY <1>4, <1>6 DEF v

\* pipewrite's test of a full pipe is a test of the distance.
LEMMA DistFull ==
  ASSUME NEW R \in Nat, NEW r \in 0..(R-1), NEW w \in 0..(R-1), NEW p \in Nat, p < R
  PROVE  w = (r + p) % R <=> Dist(r, w, R) = p
<1>0. p \in 0..R
  OBVIOUS
<1>1. (r + p) % R = IF r + p < R THEN r + p ELSE r + p - R
  BY <1>0, SumIs
<1>2. Dist(r, w, R) = IF r <= w THEN w - r ELSE w + R - r
  BY DistIs
<1> QED
  BY <1>1, <1>2

\* The place in the ring of a counter, or of a sum of two.
LEMMA Place ==
  ASSUME NEW p \in Nat, p > 0, NEW R \in Nat, NEW m \in Nat, R = m * p, NEW x \in 0..(2*R - 1)
  PROVE  (x % R) % p = x % p
<1>1. CASE x < R
  BY <1>1
<1>2. CASE x >= R
  <2>1. x % R = x - R
    <3>1. x - R \in 0..(R-1)
      BY <1>2
    <3>2. (1 * R + (x - R)) % R = x - R
      BY <3>1, ModUnique
    <3> QED
      BY <1>2, <3>2
  <2>2. (x - R) % p = x % p
    <3>1. x >= m * p /\ x \in Nat
      BY <1>2
    <3>2. (x - m * p) % p = x % p
      BY <3>1, ModLess
    <3> QED
      BY <3>2
  <2> QED
    BY <2>1, <2>2
<1> QED
  BY <1>1, <1>2

-----------------------------------------------------------------------------
(***************************************************************************)
(* The pipe: its ring of bytes.                                            *)
(***************************************************************************)
\* The counters go around a whole number of times more than the ring.
RingBounds ==
  /\ Size \in Nat /\ Size > 0 /\ Wrap \in Nat /\ Size < Wrap
  /\ \E m \in Nat : Wrap = m * Size
PipeBounds ==
  Creator \in Thread /\ MaxIO \in Nat /\ Writes \subseteq Seq(Values)

Ring ==
  /\ data \in [0..(Size - 1) -> Values]
  /\ nread \in 0..(Wrap - 1) /\ nwrite \in 0..(Wrap - 1)
  /\ P!Used <= Size

\* What the ring holds, by the number of its bytes.
LEMMA RingFacts ==
  ASSUME RingBounds, Ring
  PROVE  /\ P!Used = Dist(nread, nwrite, Wrap) /\ P!Used \in 0..Size
         /\ nwrite = nread + P!Used \/ nwrite = nread + P!Used - Wrap
         /\ \A x \in 0..(2*Wrap - 1) : P!Slot(x) = x % Size /\ P!Slot(x) \in 0..(Size-1)
<1>1. P!Used = Dist(nread, nwrite, Wrap)
  BY DEF P!Used, Dist
<1>2. Dist(nread, nwrite, Wrap) = IF nread <= nwrite THEN nwrite - nread ELSE nwrite + Wrap - nread
  BY DistIs DEF RingBounds, Ring
<1>3. P!Used \in 0..Size /\ (nwrite = nread + P!Used \/ nwrite = nread + P!Used - Wrap)
  BY <1>1, <1>2 DEF RingBounds, Ring
<1>4. ASSUME NEW x \in 0..(2*Wrap - 1)
      PROVE  P!Slot(x) = x % Size /\ P!Slot(x) \in 0..(Size-1)
  <2>1. (x % Wrap) % Size = x % Size
    BY Place DEF RingBounds
  <2>2. x % Size \in 0..(Size-1)
    BY DEF RingBounds
  <2> QED
    BY <2>1, <2>2 DEF P!Slot
<1> QED
  BY <1>1, <1>3, <1>4

\* The bytes to come lie behind the ones in the ring.
LEMMA Places ==
  ASSUME RingBounds, Ring
  PROVE  /\ \A i \in 1..Size : P!Slot(nread + i - 1) = (nread + i - 1) % Size
         /\ \A i \in 1..Size : P!Slot(nread + i - 1) \in 0..(Size-1)
         /\ \A j \in 1..Size : P!Slot(nwrite + j - 1) = (nread + P!Used + j - 1) % Size
<1> DEFINE U == P!Used
<1>1. U \in 0..Size /\ (nwrite = nread + U \/ nwrite = nread + U - Wrap)
  BY RingFacts
<1>2. \A x \in 0..(2*Wrap - 1) : P!Slot(x) = x % Size /\ P!Slot(x) \in 0..(Size-1)
  BY RingFacts
<1> HIDE DEF U
<1>3. ASSUME NEW i \in 1..Size
      PROVE  nread + i - 1 \in 0..(2*Wrap - 1) /\ nwrite + i - 1 \in 0..(2*Wrap - 1)
  BY DEF RingBounds, Ring
<1>4. ASSUME NEW j \in 1..Size
      PROVE  P!Slot(nwrite + j - 1) = (nread + U + j - 1) % Size
  <2>1. P!Slot(nwrite + j - 1) = (nwrite + j - 1) % Size
    BY <1>2, <1>3
  <2>2. CASE nwrite = nread + U
    BY <2>1, <2>2
  <2>3. CASE nwrite = nread + U - Wrap
    <3>1. PICK m \in Nat : Wrap = m * Size
      BY DEF RingBounds
    <3> DEFINE x == nread + U + j - 1
    <3>2. x \in Nat /\ nwrite + j - 1 = x - Wrap /\ x >= Wrap
      BY <1>1, <2>3 DEF RingBounds, Ring
    <3> HIDE DEF x
    <3>3. (x - m * Size) % Size = x % Size
      BY <3>1, <3>2, ModLess DEF RingBounds
    <3> QED
      BY <2>1, <3>1, <3>2, <3>3 DEF x
  <2> QED
    BY <1>1, <2>2, <2>3
<1> QED
  BY <1>2, <1>3, <1>4 DEF U

\* No two of Size places in a row are the same.
LEMMA Apart ==
  ASSUME RingBounds, NEW r \in 0..(Wrap - 1), NEW x \in 1..Size, NEW y \in 1..Size,
         (r + x - 1) % Size = (r + y - 1) % Size
  PROVE  x = y
<1> DEFINE v == r + x - 1
           w == r + y - 1
<1>1. v \in Nat /\ w \in Nat /\ (v = w => x = y)
  BY DEF RingBounds
<1>2. CASE v <= w
  <2>1. w - v < Size
    BY DEF RingBounds
  <2> QED
    BY <1>1, <1>2, <2>1, ModInjective DEF RingBounds
<1>3. CASE w <= v
  <2>1. v - w < Size
    BY DEF RingBounds
  <2> QED
    BY <1>1, <1>3, <2>1, ModInjective DEF RingBounds
<1> HIDE DEF v, w
<1> QED
  BY <1>1, <1>2, <1>3

\* What the ring holds when k bytes of s have been copied into it.
LEMMA FilledRing ==
  ASSUME RingBounds, Ring, NEW s \in Seq(Values), NEW k \in Nat,
         k <= Len(s), P!Used + k <= Size
  PROVE  /\ P!Filled(s, k) \in [0..(Size - 1) -> Values]
         /\ \A i \in 1..P!Used :
              P!Filled(s, k)[(nread + i - 1) % Size] = data[(nread + i - 1) % Size]
         /\ \A j \in 1..k :
              P!Filled(s, k)[(nread + P!Used + j - 1) % Size] = s[j]
<1> DEFINE U == P!Used
           at(j) == (nread + j - 1) % Size
           wr(i) == {j \in 1..k : P!Slot(nwrite + j - 1) = i}
           G == P!Filled(s, k)
<1>1. U \in 0..Size /\ Size \in Nat /\ U + k <= Size
  BY RingFacts DEF RingBounds
<1>2. \A j \in 1..k : U + j \in 1..Size /\ j \in 1..Size
  BY <1>1
<1>3. \A j \in 1..Size : P!Slot(nread + j - 1) = at(j) /\ at(j) \in 0..(Size-1)
  BY Places
<1>4. \A j \in 1..k : P!Slot(nwrite + j - 1) = at(U + j)
  <2>1. \A j \in 1..k : P!Slot(nwrite + j - 1) = (nread + U + j - 1) % Size
    BY <1>2, Places
  <2>2. \A j \in 1..k : nread + U + j - 1 = nread + (U + j) - 1
    BY <1>1 DEF Ring
  <2> QED
    BY <2>1, <2>2
<1>5. \A x, y \in 1..Size : at(x) = at(y) => x = y
  BY Apart DEF Ring
<1>6. DOMAIN data = 0..(Size-1) /\ \A i \in DOMAIN data : data[i] \in Values
  BY DEF Ring
<1>7. \A j \in 1..k : s[j] \in Values
  OBVIOUS
<1>8. \A i \in DOMAIN data : /\ wr(i) = {} => G[i] = data[i]
                             /\ wr(i) # {} => \E j \in wr(i) : G[i] = s[j]
  BY DEF P!Filled
<1>9. DOMAIN G = DOMAIN data /\ G = [i \in DOMAIN data |-> G[i]]
  BY DEF P!Filled
<1> HIDE DEF U, at, G
<1>10. G \in [0..(Size - 1) -> Values]
  BY <1>6, <1>7, <1>8, <1>9
<1>11. ASSUME NEW i \in 1..U
       PROVE  G[at(i)] = data[at(i)]
  <2>1. i \in 1..Size /\ \A j \in 1..k : U + j # i
    BY <1>1
  <2>2. wr(at(i)) = {}
    BY <1>2, <1>4, <1>5, <2>1
  <2> QED
    BY <1>3, <1>6, <1>8, <2>1, <2>2
<1>12. ASSUME NEW j \in 1..k
       PROVE  G[at(U + j)] = s[j]
  <2>1. j \in wr(at(U + j))
    BY <1>4
  <2>2. \A x \in wr(at(U + j)) : x = j
    <3>1. \A x \in wr(at(U + j)) : U + x = U + j
      BY <1>2, <1>4, <1>5
    <3> QED
      BY <1>1, <3>1
  <2> QED
    BY <1>2, <1>3, <1>6, <1>8, <2>1, <2>2
<1>13. \A j \in 1..k : at(U + j) = (nread + U + j - 1) % Size
  <2>1. \A j \in 1..k : nread + U + j - 1 = nread + (U + j) - 1
    BY <1>1 DEF Ring
  <2> QED
    BY <2>1 DEF at
<1> QED
  BY <1>10, <1>11, <1>12, <1>13 DEF U, at, G

\* The bytes of a ring D that has U of them from r on.
Bytes(D, r, U) == [i \in 1..U |-> D[((r + i - 1) % Wrap) % Size]]

\* They are a sequence.
LEMMA BytesSeq ==
  ASSUME RingBounds, NEW D \in [0..(Size - 1) -> Values],
         NEW r \in 0..(Wrap - 1), NEW U \in 0..Size
  PROVE  /\ Bytes(D, r, U) \in Seq(Values) /\ Len(Bytes(D, r, U)) = U
         /\ \A i \in 1..U : Bytes(D, r, U)[i] = D[(r + i - 1) % Size]
<1>1. ASSUME NEW i \in 1..U
      PROVE  /\ ((r + i - 1) % Wrap) % Size = (r + i - 1) % Size
             /\ D[((r + i - 1) % Wrap) % Size] \in Values
  <2>1. r + i - 1 \in 0..(2*Wrap - 1)
    BY DEF RingBounds
  <2> DEFINE x == r + i - 1
  <2> HIDE DEF x
  <2>2. x \in 0..(2*Wrap - 1)
    BY <2>1 DEF x
  <2>3. (x % Wrap) % Size = x % Size
    BY <2>2, Place DEF RingBounds
  <2>4. x % Size \in 0..(Size-1)
    BY <2>2 DEF RingBounds
  <2> QED
    BY <2>3, <2>4 DEF x
<1>2. Bytes(D, r, U) \in [1..U -> Values] /\ \A i \in 1..U : Bytes(D, r, U)[i] = D[(r + i - 1) % Size]
  BY <1>1 DEF Bytes
<1> QED
  BY <1>2

\* The first k elements of s, and how ring E follows from D when they are added
\* behind the U bytes that there are from r on.
First(s, k) == [j \in 1..k |-> s[j]]
Added(D, E, r, U, s, k) ==
  /\ \A i \in 1..U : E[(r + i - 1) % Size] = D[(r + i - 1) % Size]
  /\ \A j \in 1..k : E[(r + U + j - 1) % Size] = s[j]

\* k bytes are added behind the U that there are.
LEMMA BytesPut ==
  ASSUME RingBounds, NEW D \in [0..(Size - 1) -> Values], NEW E \in [0..(Size - 1) -> Values],
         NEW r \in 0..(Wrap - 1), NEW U \in 0..Size, NEW k \in Nat, U + k <= Size,
         NEW s \in Seq(Values), k <= Len(s), Added(D, E, r, U, s, k)
  PROVE  Bytes(E, r, U + k) = Bytes(D, r, U) \o First(s, k)
<1> DEFINE b == Bytes(D, r, U)
           c == Bytes(E, r, U + k)
           x == First(s, k)
<1>0. /\ \A i \in 1..U : E[(r + i - 1) % Size] = D[(r + i - 1) % Size]
      /\ \A j \in 1..k : E[(r + U + j - 1) % Size] = s[j]
  BY DEF Added
<1>1. b \in Seq(Values) /\ Len(b) = U /\ \A i \in 1..U : b[i] = D[(r + i - 1) % Size]
  BY BytesSeq
<1>2. c \in Seq(Values) /\ Len(c) = U + k /\ \A i \in 1..(U + k) : c[i] = E[(r + i - 1) % Size]
  <2>1. PICK W \in 0..Size : W = U + k
    BY DEF RingBounds
  <2>2. /\ Bytes(E, r, W) \in Seq(Values) /\ Len(Bytes(E, r, W)) = W
        /\ \A i \in 1..W : Bytes(E, r, W)[i] = E[(r + i - 1) % Size]
    BY BytesSeq
  <2> QED
    BY ONLY <2>1, <2>2 DEF c
<1>3. x \in Seq(Values) /\ Len(x) = k /\ \A j \in 1..k : x[j] = s[j]
  BY DEF First
<1> HIDE DEF b, c, x
<1>4. /\ b \o x \in Seq(Values) /\ Len(b \o x) = U + k
      /\ \A i \in 1..(U + k) : (b \o x)[i] = IF i <= U THEN b[i] ELSE x[i - U]
  <2>1. /\ b \o x \in Seq(Values) /\ Len(b \o x) = Len(b) + Len(x)
        /\ \A i \in 1..(Len(b) + Len(x)) : (b \o x)[i] = IF i <= Len(b) THEN b[i] ELSE x[i - Len(b)]
    BY <1>1, <1>3, Joined
  <2> QED
    BY <1>1, <1>3, <2>1
<1>5. ASSUME NEW i \in 1..(U + k)
      PROVE  c[i] = (b \o x)[i]
  <2>1. CASE i <= U
    <3>1. i \in 1..U
      BY <2>1
    <3> QED
      BY <1>0, <1>1, <1>2, <1>4, <2>1, <3>1
  <2>2. CASE i > U
    <3>1. i - U \in 1..k /\ r + i - 1 = r + U + (i - U) - 1 /\ ~(i <= U)
      BY <2>2
    <3>2. E[(r + U + (i - U) - 1) % Size] = s[i - U]
      BY <1>0, <3>1
    <3>3. x[i - U] = s[i - U]
      BY <1>3, <3>1
    <3> QED
      BY <1>2, <1>4, <3>1, <3>2, <3>3
  <2>3. i <= U \/ i > U
    OBVIOUS
  <2> QED
    BY ONLY <2>1, <2>2, <2>3
<1> QED
  BY <1>2, <1>4, <1>5, SameElements DEF b, c, x

\* k bytes are taken from the front.
LEMMA BytesGet ==
  ASSUME RingBounds, NEW D \in [0..(Size - 1) -> Values],
         NEW r \in 0..(Wrap - 1), NEW U \in 0..Size, NEW k \in 0..U
  PROVE  Bytes(D, (r + k) % Wrap, U - k) = SubSeq(Bytes(D, r, U), k + 1, U)
<1> DEFINE b == Bytes(D, r, U)
           q == (r + k) % Wrap
           c == Bytes(D, q, U - k)
<1>1. b \in Seq(Values) /\ Len(b) = U /\ \A i \in 1..U : b[i] = D[(r + i - 1) % Size]
  BY BytesSeq
<1>2. q \in 0..(Wrap - 1) /\ (q = r + k \/ q = r + k - Wrap) /\ U - k \in 0..Size
  <2>1. k \in 0..Wrap /\ Wrap \in Nat
    BY DEF RingBounds
  <2>2. q = IF r + k < Wrap THEN r + k ELSE r + k - Wrap
    BY <2>1, SumIs
  <2> HIDE DEF q
  <2> QED
    BY <2>1, <2>2 DEF RingBounds
<1> HIDE DEF q
<1>3. c \in Seq(Values) /\ Len(c) = U - k /\ \A i \in 1..(U - k) : c[i] = D[(q + i - 1) % Size]
  BY <1>2, BytesSeq
<1> HIDE DEF b, c
<1>4. /\ SubSeq(b, k + 1, U) \in Seq(Values) /\ Len(SubSeq(b, k + 1, U)) = U - k
      /\ \A i \in 1..(U - k) : SubSeq(b, k + 1, U)[i] = b[k + i]
  BY <1>1
<1>5. ASSUME NEW i \in 1..(U - k)
      PROVE  c[i] = SubSeq(b, k + 1, U)[i]
  <2>1. k + i \in 1..U
    OBVIOUS
  <2>2. (q + i - 1) % Size = (r + (k + i) - 1) % Size
    <3>1. CASE q = r + k
      BY <3>1
    <3>2. CASE q = r + k - Wrap
      <4>1. PICK m \in Nat : Wrap = m * Size
        BY DEF RingBounds
      <4> DEFINE x == r + (k + i) - 1
      <4>2. x \in Nat /\ q + i - 1 = x - Wrap /\ x >= Wrap
        BY <1>2, <3>2 DEF RingBounds
      <4> HIDE DEF x
      <4>3. (x - m * Size) % Size = x % Size
        BY <4>1, <4>2, ModLess DEF RingBounds
      <4> QED
        BY <4>1, <4>2, <4>3 DEF x
    <3> QED
      BY <1>2, <3>1, <3>2
  <2> QED
    BY <1>1, <1>3, <1>4, <2>1, <2>2
<1> QED
  BY <1>3, <1>4, <1>5, SameElements DEF b, c, q

-----------------------------------------------------------------------------
(***************************************************************************)
(* The pipe: it is a queue.                                                *)
(***************************************************************************)
\* pipewrite appends the k bytes that it copies.
LEMMA WriteStep ==
  ASSUME RingBounds, Ring, NEW s \in Seq(Values), NEW k \in Nat,
         k <= Len(s), P!Used + k <= Size,
         data' = P!Filled(s, k), nwrite' = (nwrite + k) % Wrap, nread' = nread
  PROVE  Ring' /\ P!Used' = P!Used + k /\ [P!F!Next]_(P!Contents)
<1> DEFINE U == P!Used
<1>1. U = Dist(nread, nwrite, Wrap) /\ U \in 0..Size
  BY RingFacts
<1>2. nread \in 0..(Wrap - 1) /\ nwrite \in 0..(Wrap - 1) /\ Wrap \in Nat /\ Size \in Nat
      /\ Size < Wrap
  BY DEF Ring, RingBounds, PipeBounds
<1>3. nwrite' \in 0..(Wrap - 1) /\ P!Used' = U + k
  <2>1. (nwrite + k) % Wrap \in 0..(Wrap-1) /\ Dist(nread, (nwrite + k) % Wrap, Wrap) = U + k
    <3> HIDE DEF U
    <3>1. U + k < Wrap
      BY <1>1, <1>2 DEF U
    <3>2. Dist(nread, nwrite, Wrap) + k < Wrap
      BY <1>1, <3>1
    <3>3. (nwrite + k) % Wrap \in 0..(Wrap-1) /\ Dist(nread, (nwrite + k) % Wrap, Wrap) = Dist(nread, nwrite, Wrap) + k
      BY <1>2, <3>2, DistPut
    <3> QED
      BY <1>1, <3>3
  <2>2. P!Used' = Dist(nread, (nwrite + k) % Wrap, Wrap)
    BY DEF P!Used, Dist
  <2> QED
    BY <2>1, <2>2
<1>4. /\ data' \in [0..(Size - 1) -> Values]
      /\ \A i \in 1..U : data'[(nread + i - 1) % Size] = data[(nread + i - 1) % Size]
      /\ \A j \in 1..k : data'[(nread + U + j - 1) % Size] = s[j]
  BY FilledRing
<1>5. Ring'
  BY <1>2, <1>3, <1>4 DEF Ring
<1>6. P!Contents = Bytes(data, nread, U) /\ P!Contents' = Bytes(data', nread, U + k)
  BY <1>3 DEF P!Contents, P!Slot, Bytes
<1>7. data \in [0..(Size - 1) -> Values]
  BY DEF Ring
<1> HIDE DEF U
<1>8. U + k <= Size
  BY DEF U
<1>9. P!Contents' = P!Contents \o First(s, k)
  <2>1. PICK D \in [0..(Size - 1) -> Values] : D = data
    BY <1>7
  <2>2. PICK E \in [0..(Size - 1) -> Values] : E = data'
    BY <1>4
  <2>3. PICK r \in 0..(Wrap - 1) : r = nread
    BY <1>2
  <2>4. PICK V \in 0..Size : V = U
    BY <1>1
  <2>5. Added(D, E, r, V, s, k)
    BY <1>4, <2>1, <2>2, <2>3, <2>4 DEF Added
  <2>6. V + k <= Size
    BY <1>8, <2>4
  <2>7. /\ RingBounds /\ D \in [0..(Size - 1) -> Values] /\ E \in [0..(Size - 1) -> Values]
        /\ r \in 0..(Wrap - 1) /\ V \in 0..Size /\ s \in Seq(Values) /\ k \in Nat /\ k <= Len(s)
    OBVIOUS
  <2>8. Bytes(E, r, V + k) = Bytes(D, r, V) \o First(s, k)
    BY ONLY <2>5, <2>6, <2>7, BytesPut
  <2> QED
    BY <1>6, <2>1, <2>2, <2>3, <2>4, <2>8
<1>10. P!Contents \in Seq(Values) /\ Len(P!Contents) = U
  BY <1>1, <1>2, <1>6, <1>7, BytesSeq
<1>11. [P!F!Next]_(P!Contents)
  <2>1. CASE k = 0
    <3>1. First(s, k) = <<>>
      BY <2>1 DEF First
    <3> QED
      BY <1>9, <1>10, <3>1, JoinedEmpty
  <2>2. CASE k > 0
    <3>1. k \in 1..Size /\ First(s, k) \in [1..k -> Values] /\ Len(P!Contents) + k <= Size
      BY <1>1, <1>2, <1>8, <1>10, <2>2 DEF First
    <3>2. P!F!Put
      BY <3>1, <1>9 DEF P!F!Put
    <3> QED
      BY <3>2 DEF P!F!Next
  <2> QED
    BY <2>1, <2>2
<1> QED
  BY <1>3, <1>5, <1>11 DEF U

\* piperead removes the k oldest bytes.
LEMMA ReadStep ==
  ASSUME RingBounds, Ring, NEW k \in Nat, k <= P!Used,
         nread' = (nread + k) % Wrap, data' = data, nwrite' = nwrite
  PROVE  Ring' /\ P!Used' = P!Used - k /\ [P!F!Next]_(P!Contents)
<1> DEFINE U == P!Used
<1>1. U = Dist(nread, nwrite, Wrap) /\ U \in 0..Size
  BY RingFacts
<1>2. nread \in 0..(Wrap - 1) /\ nwrite \in 0..(Wrap - 1) /\ Wrap \in Nat /\ Size \in Nat
      /\ data \in [0..(Size - 1) -> Values]
  BY DEF Ring, RingBounds, PipeBounds
<1>3. nread' \in 0..(Wrap - 1) /\ P!Used' = U - k
  <2>1. (nread + k) % Wrap \in 0..(Wrap-1) /\ Dist((nread + k) % Wrap, nwrite, Wrap) = U - k
    <3> HIDE DEF U
    <3>1. k <= Dist(nread, nwrite, Wrap)
      BY <1>1 DEF U
    <3>2. /\ (nread + k) % Wrap \in 0..(Wrap-1)
          /\ Dist((nread + k) % Wrap, nwrite, Wrap) = Dist(nread, nwrite, Wrap) - k
      BY <1>2, <3>1, DistGet
    <3> QED
      BY <1>1, <3>2
  <2>2. P!Used' = Dist((nread + k) % Wrap, nwrite, Wrap)
    BY DEF P!Used, Dist
  <2> QED
    BY <2>1, <2>2
<1>4. Ring'
  BY <1>1, <1>2, <1>3 DEF Ring
<1>5. P!Contents = Bytes(data, nread, U) /\ P!Contents' = Bytes(data, (nread + k) % Wrap, U - k)
  BY <1>3 DEF P!Contents, P!Slot, Bytes
<1>6. k \in 0..U
  OBVIOUS
<1> HIDE DEF U
<1>7. P!Contents' = SubSeq(P!Contents, k + 1, U) /\ Len(P!Contents) = U /\ P!Contents \in Seq(Values)
  <2>1. PICK D \in [0..(Size - 1) -> Values] : D = data
    BY <1>2
  <2>2. PICK r \in 0..(Wrap - 1) : r = nread
    BY <1>2
  <2>3. PICK V \in 0..Size : V = U
    BY <1>1
  <2>4. Bytes(D, (r + k) % Wrap, V - k) = SubSeq(Bytes(D, r, V), k + 1, V)
    BY <1>6, <2>3, BytesGet
  <2>5. Bytes(D, r, V) \in Seq(Values) /\ Len(Bytes(D, r, V)) = V
    BY BytesSeq
  <2> QED
    BY <1>5, <2>1, <2>2, <2>3, <2>4, <2>5
<1>8. [P!F!Next]_(P!Contents)
  <2> DEFINE c == P!Contents
  <2>1. CASE k = 0
    <3>1. c' = SubSeq(c, 1, Len(c)) /\ c \in Seq(Values)
      BY <1>7, <2>1
    <3>2. c' = c
      BY <3>1
    <3> QED
      BY <3>2
  <2>2. CASE k > 0
    <3>1. k \in 1..Len(P!Contents)
      BY <1>1, <1>6, <1>7, <2>2
    <3>2. P!F!Get
      BY <3>1, <1>7 DEF P!F!Get
    <3> QED
      BY <3>2 DEF P!F!Next
  <2> QED
    BY <2>1, <2>2
<1> QED
  BY <1>3, <1>4, <1>8 DEF U

\* The tests of pipewrite and of piperead, by the number of bytes in the ring.
LEMMA FullAndEmpty ==
  ASSUME RingBounds, NEW r \in 0..(Wrap - 1), NEW w \in 0..(Wrap - 1)
  PROVE  /\ w = (r + Size) % Wrap <=> (w + Wrap - r) % Wrap = Size
         /\ r = w <=> (w + Wrap - r) % Wrap = 0
<1>1. Size \in Nat /\ Size < Wrap /\ Wrap \in Nat
  BY DEF RingBounds, PipeBounds
<1>2. w = (r + Size) % Wrap <=> Dist(r, w, Wrap) = Size
  BY ONLY <1>1, r \in 0..(Wrap - 1), w \in 0..(Wrap - 1), DistFull
<1>3. Dist(r, w, Wrap) = IF r <= w THEN w - r ELSE w + Wrap - r
  BY <1>1, DistIs
<1>4. r = w <=> Dist(r, w, Wrap) = 0
  BY <1>1, <1>3
<1> QED
  BY <1>2, <1>4 DEF Dist

PipeInv == P!TypeOK /\ P!EndsInv /\ P!SleepersMustWait

\* Only these steps touch the ring.
LEMMA RingStep ==
  ASSUME RingBounds, PipeBounds, PipeInv, [P!Next]_(P!vars)
  PROVE  Ring' /\ [P!F!Next]_(P!Contents)
<1>0. Ring
  BY DEF PipeInv, P!TypeOK, P!EndsInv, Ring
<1>1. ASSUME NEW t \in Thread, P!PipeWriteAll(t) PROVE Ring' /\ [P!F!Next]_(P!Contents)
  <2>1. PICK s \in Seq(Values) : s = todo[t]
    BY DEF PipeInv, P!TypeOK
  <2>2. Len(s) \in Nat /\ P!Used + Len(s) <= Size
    <3>1. P!Used \in 0..Size /\ Size \in Nat
      BY <1>0, RingFacts DEF RingBounds
    <3>2. Len(s) <= Size - P!Used /\ Len(s) \in Nat
      BY <1>1, <2>1 DEF P!PipeWriteAll
    <3> QED
      BY <3>1, <3>2
  <2>3. PICK k \in Nat : k = Len(s)
    BY <2>2
  <2>4. k <= Len(s) /\ P!Used + k <= Size
    BY <2>2, <2>3
  <2>5. data' = P!Filled(s, k) /\ nwrite' = (nwrite + k) % Wrap /\ nread' = nread
    BY <1>1, <2>1, <2>3 DEF P!PipeWriteAll
  <2> QED
    BY <1>0, <2>4, <2>5, WriteStep
<1>2. ASSUME NEW t \in Thread, P!PipeWriteFull(t) PROVE Ring' /\ [P!F!Next]_(P!Contents)
  <2>1. PICK s \in Seq(Values) : s = todo[t]
    BY DEF PipeInv, P!TypeOK
  <2>2. Size - P!Used \in Nat /\ P!Used + (Size - P!Used) <= Size
    BY <1>0, RingFacts DEF RingBounds, PipeBounds
  <2>3. PICK k \in Nat : k = Size - P!Used
    BY <2>2
  <2>4. k <= Len(s) /\ P!Used + k <= Size
    BY <1>2, <2>1, <2>2, <2>3 DEF P!PipeWriteFull
  <2>5. data' = P!Filled(s, k) /\ nwrite' = (nwrite + k) % Wrap /\ nread' = nread
    BY <1>2, <2>1, <2>3 DEF P!PipeWriteFull
  <2> QED
    BY <1>0, <2>4, <2>5, WriteStep
<1>3. ASSUME NEW t \in Thread, P!PipeReadSome(t) PROVE Ring' /\ [P!F!Next]_(P!Contents)
  <2> DEFINE j == IF room[t] < P!Used THEN room[t] ELSE P!Used
  <2>1. room[t] \in Nat /\ P!Used \in Nat
    <3>1. room[t] \in 0..MaxIO /\ MaxIO \in Nat /\ Size \in Nat
      BY DEF PipeInv, P!TypeOK, RingBounds, PipeBounds
    <3>2. P!Used \in 0..Size
      BY <1>0, RingFacts
    <3> QED
      BY ONLY <3>1, <3>2
  <2>2. PICK k \in Nat : k = j
    BY <2>1
  <2>3. k <= P!Used
    BY <2>1, <2>2
  <2>4. nread' = (nread + k) % Wrap /\ data' = data /\ nwrite' = nwrite
    BY <1>3, <2>2 DEF P!PipeReadSome
  <2> QED
    BY <1>0, <2>3, <2>4, ReadStep
<1>4. CASE UNCHANGED <<data, nread, nwrite>>
  BY <1>0, <1>4 DEF Ring, P!Used, P!Contents, P!Slot
<1>5. \/ \E t \in Thread : P!PipeWriteAll(t) \/ P!PipeWriteFull(t) \/ P!PipeReadSome(t)
      \/ UNCHANGED <<data, nread, nwrite>>
  BY DEF P!Next, P!PipeStep, P!vars, P!pipe, P!PipeReadEmpty, P!CloseRead, P!CloseWrite, P!Kill,
         P!CallRead, P!CallWrite, P!Fork
<1> QED
  BY <1>1, <1>2, <1>3, <1>4, <1>5

\* The first state: an empty pipe whose two ends are those of its creator.
LEMMA PipeInit ==
  ASSUME RingBounds, PipeBounds, P!Init
  PROVE  PipeInv /\ P!F!Init
<1>1. P!Used = 0
  <2>1. 0 \in 0..(Wrap - 1)
    BY DEF RingBounds, PipeBounds
  <2>2. (0 + Wrap - 0) % Wrap = 0
    BY <2>1, FullAndEmpty
  <2> QED
    BY <2>2 DEF P!Init, P!Used
<1>2. P!TypeOK
  <2>1. data \in [0..(Size - 1) -> Values]
    BY DEF P!Init
  <2>2. 0 \in 0..(Wrap - 1) /\ 0 \in 0..MaxIO /\ Creator \in Thread
    BY DEF RingBounds, PipeBounds
  <2>3. ppc \in [Thread -> P!Places] /\ todo \in [Thread -> Seq(Values)] /\ room \in [Thread -> 0..MaxIO]
    BY <2>2 DEF P!Init, P!Places
  <2> QED
    BY <2>1, <2>2, <2>3 DEF P!Init, P!TypeOK
<1>3. P!EndsInv /\ P!SleepersMustWait
  BY <1>1 DEF P!Init, P!EndsInv, P!SleepersMustWait, RingBounds, PipeBounds
<1>4. P!F!Init
  <2>1. P!Contents = Bytes(data, nread, 0)
    BY <1>1 DEF P!Contents, P!Slot, Bytes
  <2>2. data \in [0..(Size - 1) -> Values] /\ nread \in 0..(Wrap - 1) /\ 0 \in 0..Size
    BY <1>2 DEF P!TypeOK, RingBounds, PipeBounds
  <2>3. P!Contents \in Seq(Values) /\ Len(P!Contents) = 0
    BY <2>1, <2>2, BytesSeq
  <2> QED
    BY <2>3, NoElements DEF P!F!Init
<1> QED
  BY <1>2, <1>3, <1>4 DEF PipeInv

\* Every call keeps the types.
LEMMA PipeTypes ==
  ASSUME RingBounds, PipeBounds, PipeInv, [P!Next]_(P!vars)
  PROVE  P!TypeOK'
<1>0. Ring'
  BY RingStep
<1>1. P!TypeOK
  BY DEF PipeInv
<1> SUFFICES /\ readopen' \in BOOLEAN /\ writeopen' \in BOOLEAN /\ freed' \in BOOLEAN
             /\ readers' \subseteq Thread /\ writers' \subseteq Thread
             /\ ppc' \in [Thread -> P!Places] /\ todo' \in [Thread -> Seq(Values)]
             /\ room' \in [Thread -> 0..MaxIO]
             /\ pkilled' \subseteq Thread /\ born' \subseteq Thread
  BY <1>0 DEF P!TypeOK, Ring
<1>2. CASE UNCHANGED P!vars
  BY <1>1, <1>2 DEF P!TypeOK, P!vars
<1>3. ASSUME NEW t \in Thread, P!PipeWriteAll(t)
      PROVE  ppc' \in [Thread -> P!Places] /\ todo' \in [Thread -> Seq(Values)]
  BY <1>1, <1>3 DEF P!TypeOK, P!PipeWriteAll, P!WokenReaders, P!Places
<1>4. ASSUME NEW t \in Thread, P!PipeWriteFull(t)
      PROVE  ppc' \in [Thread -> P!Places] /\ todo' \in [Thread -> Seq(Values)]
  <2>1. ppc' \in [Thread -> P!Places]
    BY <1>1, <1>4 DEF P!TypeOK, P!PipeWriteFull, P!WokenReaders, P!Places
  <2> DEFINE k == Size - P!Used
             rest == SubSeq(todo[t], k + 1, Len(todo[t]))
  <2>2. rest \in Seq(Values)
    <3>1. Ring /\ Size \in Nat
      BY <1>1 DEF Ring, P!TypeOK, PipeInv, P!EndsInv, RingBounds, PipeBounds
    <3>2. k \in Nat
      BY <3>1, RingFacts
    <3>3. todo[t] \in Seq(Values) /\ Len(todo[t]) \in Nat
      BY <1>1 DEF P!TypeOK
    <3> HIDE DEF k
    <3>4. \A i \in (k + 1)..Len(todo[t]) : i \in 1..Len(todo[t])
      BY <3>2, <3>3
    <3> QED
      BY <3>2, <3>3, <3>4, Part
  <2>3. <<>> \in Seq(Values)
    OBVIOUS
  <2>4. todo' = [todo EXCEPT ![t] = <<>>] \/ todo' = [todo EXCEPT ![t] = rest]
    BY <1>4 DEF P!PipeWriteFull
  <2> HIDE DEF rest
  <2>5. todo' \in [Thread -> Seq(Values)]
    BY <1>1, <2>2, <2>3, <2>4 DEF P!TypeOK
  <2> QED
    BY <2>1, <2>5
<1>5. ASSUME NEW t \in Thread, P!PipeReadEmpty(t) PROVE ppc' \in [Thread -> P!Places]
  BY <1>1, <1>5 DEF P!TypeOK, P!PipeReadEmpty, P!Places
<1>6. ASSUME NEW t \in Thread, P!PipeReadSome(t)
      PROVE  ppc' \in [Thread -> P!Places] /\ room' \in [Thread -> 0..MaxIO]
  <2>1. 0 \in 0..MaxIO
    BY DEF RingBounds, PipeBounds
  <2> QED
    BY <1>1, <1>6, <2>1 DEF P!TypeOK, P!PipeReadSome, P!WokenWriters, P!Places
<1>7. ASSUME NEW t \in Thread, P!CloseRead(t)
      PROVE  ppc' \in [Thread -> P!Places] /\ readopen' \in BOOLEAN /\ freed' \in BOOLEAN
             /\ readers' \subseteq Thread
  BY <1>1, <1>7 DEF P!TypeOK, P!CloseRead, P!WokenWriters, P!Places
<1>8. ASSUME NEW t \in Thread, P!CloseWrite(t)
      PROVE  ppc' \in [Thread -> P!Places] /\ writeopen' \in BOOLEAN /\ freed' \in BOOLEAN
             /\ writers' \subseteq Thread
  BY <1>1, <1>8 DEF P!TypeOK, P!CloseWrite, P!WokenReaders, P!Places
<1>9. ASSUME NEW t \in Thread, NEW m \in 0..MaxIO, P!CallRead(t, m)
      PROVE  ppc' \in [Thread -> P!Places] /\ room' \in [Thread -> 0..MaxIO]
  BY <1>1, <1>9 DEF P!TypeOK, P!CallRead, P!Places
<1>10. ASSUME NEW t \in Thread, NEW s \in Writes, P!CallWrite(t, s)
       PROVE  ppc' \in [Thread -> P!Places] /\ todo' \in [Thread -> Seq(Values)]
  <2>1. s \in Seq(Values)
    BY DEF RingBounds, PipeBounds
  <2> QED
    BY <1>1, <1>10, <2>1 DEF P!TypeOK, P!CallWrite, P!Places
<1>11. ASSUME NEW t \in Thread, NEW u \in Thread, P!Fork(t, u)
       PROVE  readers' \subseteq Thread /\ writers' \subseteq Thread /\ born' \subseteq Thread
  BY <1>1, <1>11 DEF P!TypeOK, P!Fork
<1> QED
  <2> USE <1>1
  <2>1. ASSUME NEW t \in Thread, P!PipeStep(t)
        PROVE  /\ ppc' \in [Thread -> P!Places] /\ todo' \in [Thread -> Seq(Values)]
               /\ room' \in [Thread -> 0..MaxIO]
               /\ UNCHANGED <<readopen, writeopen, freed, readers, writers, pkilled, born>>
    BY <2>1, <1>3, <1>4, <1>5, <1>6 DEF P!PipeStep, P!TypeOK, P!pipe,
       P!PipeWriteAll, P!PipeWriteFull, P!PipeReadEmpty, P!PipeReadSome
  <2>2. ASSUME NEW t \in Thread, P!CloseRead(t) \/ P!CloseWrite(t)
        PROVE  /\ ppc' \in [Thread -> P!Places]
               /\ readopen' \in BOOLEAN /\ writeopen' \in BOOLEAN /\ freed' \in BOOLEAN
               /\ readers' \subseteq Thread /\ writers' \subseteq Thread
               /\ UNCHANGED <<todo, room, pkilled, born>>
    BY <2>2, <1>7, <1>8 DEF P!TypeOK, P!CloseRead, P!CloseWrite
  <2>3. ASSUME NEW t \in Thread, P!Kill(t)
        PROVE  /\ pkilled' \subseteq Thread
               /\ UNCHANGED <<readopen, writeopen, freed, readers, writers, ppc, todo, room, born>>
    BY <2>3 DEF P!TypeOK, P!Kill, P!pipe
  <2>4. ASSUME NEW t \in Thread,
               (\E m \in 0..MaxIO : P!CallRead(t, m)) \/ (\E s \in Writes : P!CallWrite(t, s))
        PROVE  /\ ppc' \in [Thread -> P!Places] /\ todo' \in [Thread -> Seq(Values)]
               /\ room' \in [Thread -> 0..MaxIO]
               /\ UNCHANGED <<readopen, writeopen, freed, readers, writers, pkilled, born>>
    BY <2>4, <1>9, <1>10 DEF P!TypeOK, P!CallRead, P!CallWrite, P!pipe
  <2>5. ASSUME NEW t \in Thread, \E u \in Thread : P!Fork(t, u)
        PROVE  /\ readers' \subseteq Thread /\ writers' \subseteq Thread /\ born' \subseteq Thread
               /\ UNCHANGED <<readopen, writeopen, freed, ppc, todo, room, pkilled>>
    BY <2>5, <1>11 DEF P!Fork, P!pipe
  <2> QED
    BY <1>2, <2>1, <2>2, <2>3, <2>4, <2>5 DEF P!Next, P!TypeOK

\* Every call keeps what the ends of the pipe are for.
LEMMA PipeEnds ==
  ASSUME RingBounds, PipeBounds, PipeInv, [P!Next]_(P!vars)
  PROVE  P!EndsInv'
<1>0. P!Used' <= Size
  BY RingStep DEF Ring
<1>1. P!TypeOK /\ P!EndsInv
  BY DEF PipeInv
<1> DEFINE Held(r, w, p) ==
      \A t \in Thread : /\ p[t] \in {"read", "sleep_read"} => t \in r
                        /\ p[t] \in {"write", "sleep_write"} => t \in w
           Ends(ro, wo, f, r, w) ==
      /\ ro = (r # {}) /\ wo = (w # {}) /\ f = (~ro /\ ~wo)
<1>2. Held(readers, writers, ppc) /\ Ends(readopen, writeopen, freed, readers, writers)
  BY <1>1 DEF P!EndsInv
<1> SUFFICES Held(readers', writers', ppc')
             /\ Ends(readopen', writeopen', freed', readers', writers')
  BY <1>0 DEF P!EndsInv
<1>3. CASE UNCHANGED P!vars
  BY <1>2, <1>3 DEF P!vars
<1>4. ASSUME NEW t \in Thread, P!PipeStep(t)
      PROVE  Held(readers', writers', ppc')
             /\ Ends(readopen', writeopen', freed', readers', writers')
  <2>1. UNCHANGED <<readopen, writeopen, freed, readers, writers>>
    BY <1>4 DEF P!PipeStep, P!PipeWriteAll, P!PipeWriteFull, P!PipeReadEmpty, P!PipeReadSome, P!pipe
  <2>2. CASE P!PipeWriteAll(t)
    BY <1>1, <1>2, <2>1, <2>2 DEF P!TypeOK, P!PipeWriteAll, P!WokenReaders
  <2>3. CASE P!PipeWriteFull(t)
    BY <1>1, <1>2, <2>1, <2>3 DEF P!TypeOK, P!PipeWriteFull, P!WokenReaders
  <2>4. CASE P!PipeReadEmpty(t)
    BY <1>1, <1>2, <2>1, <2>4 DEF P!TypeOK, P!PipeReadEmpty
  <2>5. CASE P!PipeReadSome(t)
    BY <1>1, <1>2, <2>1, <2>5 DEF P!TypeOK, P!PipeReadSome, P!WokenWriters
  <2> QED
    BY <1>4, <2>2, <2>3, <2>4, <2>5 DEF P!PipeStep
<1>5. ASSUME NEW t \in Thread, P!CloseRead(t)
      PROVE  Held(readers', writers', ppc')
             /\ Ends(readopen', writeopen', freed', readers', writers')
  <2>1. Held(readers', writers', ppc')
    BY <1>1, <1>2, <1>5 DEF P!TypeOK, P!CloseRead, P!WokenWriters
  <2>2. Ends(readopen', writeopen', freed', readers', writers')
    BY <1>1, <1>2, <1>5 DEF P!TypeOK, P!CloseRead
  <2> QED
    BY <2>1, <2>2
<1>6. ASSUME NEW t \in Thread, P!CloseWrite(t)
      PROVE  Held(readers', writers', ppc')
             /\ Ends(readopen', writeopen', freed', readers', writers')
  <2>1. Held(readers', writers', ppc')
    BY <1>1, <1>2, <1>6 DEF P!TypeOK, P!CloseWrite, P!WokenReaders
  <2>2. Ends(readopen', writeopen', freed', readers', writers')
    BY <1>1, <1>2, <1>6 DEF P!TypeOK, P!CloseWrite
  <2> QED
    BY <2>1, <2>2
<1>7. ASSUME NEW t \in Thread, P!Kill(t)
      PROVE  Held(readers', writers', ppc')
             /\ Ends(readopen', writeopen', freed', readers', writers')
  BY <1>2, <1>7 DEF P!Kill, P!pipe
<1>8. ASSUME NEW t \in Thread,
             (\E m \in 0..MaxIO : P!CallRead(t, m)) \/ (\E s \in Writes : P!CallWrite(t, s))
      PROVE  Held(readers', writers', ppc')
             /\ Ends(readopen', writeopen', freed', readers', writers')
  BY <1>1, <1>2, <1>8 DEF P!TypeOK, P!CallRead, P!CallWrite, P!pipe
<1>9. ASSUME NEW t \in Thread, NEW u \in Thread, P!Fork(t, u)
      PROVE  Held(readers', writers', ppc')
             /\ Ends(readopen', writeopen', freed', readers', writers')
  BY <1>1, <1>2, <1>9 DEF P!TypeOK, P!Fork, P!pipe
<1> QED
  BY <1>3, <1>4, <1>5, <1>6, <1>7, <1>8, <1>9 DEF P!Next

\* Whoever ends the wait of a sleeper wakes it.
LEMMA PipeSleepers ==
  ASSUME RingBounds, PipeBounds, PipeInv, [P!Next]_(P!vars)
  PROVE  P!SleepersMustWait'
<1>0. Ring /\ P!TypeOK /\ P!EndsInv /\ P!SleepersMustWait
  BY DEF PipeInv, P!TypeOK, P!EndsInv, Ring
<1>1. Ring'
  BY RingStep
<1>2. P!Used \in 0..Size /\ Size \in Nat /\ Size > 0
  BY <1>0, RingFacts DEF RingBounds, PipeBounds
<1>3. (P!Full <=> P!Used = Size) /\ (nread = nwrite <=> P!Used = 0)
  <2>1. nread \in 0..(Wrap - 1) /\ nwrite \in 0..(Wrap - 1)
    BY <1>0 DEF Ring
  <2> QED
    BY <2>1, FullAndEmpty DEF P!Full, P!Used
<1>4. (P!Full' <=> P!Used' = Size) /\ (nread' = nwrite' <=> P!Used' = 0)
  <2>1. nread' \in 0..(Wrap - 1) /\ nwrite' \in 0..(Wrap - 1)
    BY <1>1 DEF Ring
  <2>2. PICK r \in 0..(Wrap - 1) : r = nread'
    BY <2>1
  <2>3. PICK w \in 0..(Wrap - 1) : w = nwrite'
    BY <2>1
  <2>4. /\ w = (r + Size) % Wrap <=> (w + Wrap - r) % Wrap = Size
        /\ r = w <=> (w + Wrap - r) % Wrap = 0
    BY FullAndEmpty
  <2> QED
    BY <2>2, <2>3, <2>4 DEF P!Full, P!Used
<1>5. CASE UNCHANGED P!vars
  BY <1>0, <1>5 DEF P!SleepersMustWait, P!Full, P!vars
<1>6. ASSUME NEW t \in Thread, P!PipeWriteAll(t) PROVE P!SleepersMustWait'
  <2>1. ASSUME NEW u \in Thread PROVE ppc'[u] # "sleep_read" /\ (ppc'[u] = "sleep_write" => ppc[u] = "sleep_write")
    BY <1>0, <1>6 DEF P!TypeOK, P!PipeWriteAll, P!WokenReaders
  <2>2. P!Full => P!Full'
    <3>1. PICK s \in Seq(Values) : s = todo[t]
      BY <1>0 DEF P!TypeOK
    <3>2. PICK k \in Nat : k = Len(s)
      OBVIOUS
    <3>3. k <= Size - P!Used /\ nwrite' = (nwrite + k) % Wrap /\ nread' = nread
      BY <1>6, <3>1, <3>2 DEF P!PipeWriteAll
    <3>4. P!Full => k = 0
      BY <1>2, <1>3, <3>3
    <3>5. nwrite + 0 = nwrite /\ nwrite % Wrap = nwrite
      BY <1>0 DEF Ring, RingBounds, PipeBounds
    <3> QED
      BY <3>3, <3>4, <3>5 DEF P!Full
  <2>3. readopen' = readopen
    BY <1>6 DEF P!PipeWriteAll
  <2> QED
    BY <1>0, <2>1, <2>2, <2>3 DEF P!SleepersMustWait
<1>7. ASSUME NEW t \in Thread, P!PipeWriteFull(t) PROVE P!SleepersMustWait'
  <2>1. P!Full'
    <3>1. PICK s \in Seq(Values) : s = todo[t]
      BY <1>0 DEF P!TypeOK
    <3>2. PICK k \in Nat : k = Size - P!Used
      BY <1>2
    <3>3. k <= Len(s) /\ P!Used + k <= Size /\ P!Used + k = Size
      BY <1>2, <1>7, <3>1, <3>2 DEF P!PipeWriteFull
    <3>4. data' = P!Filled(s, k) /\ nwrite' = (nwrite + k) % Wrap /\ nread' = nread
      BY <1>7, <3>1, <3>2 DEF P!PipeWriteFull
    <3>5. P!Used' = P!Used + k
      BY <1>0, <3>3, <3>4, WriteStep
    <3> QED
      BY <1>4, <3>3, <3>5
  <2>2. UNCHANGED <<readopen, writeopen, pkilled>>
    BY <1>7 DEF P!PipeWriteFull
  <2>3. CASE ~readopen \/ t \in pkilled
    <3>1. ASSUME NEW u \in Thread PROVE ppc'[u] \in {"sleep_read", "sleep_write"} => ppc'[u] = ppc[u]
      BY <1>0, <1>7, <2>3 DEF P!TypeOK, P!PipeWriteFull
    <3>2. ASSUME NEW u \in Thread, ppc'[u] = "sleep_read" PROVE writeopen /\ pkilled # {}
      BY <1>0, <2>3, <3>1, <3>2 DEF P!SleepersMustWait, P!EndsInv
    <3>3. ASSUME NEW u \in Thread, ppc'[u] = "sleep_write" PROVE readopen
      BY <1>0, <3>1, <3>3 DEF P!SleepersMustWait
    <3> QED
      BY <2>1, <2>2, <3>2, <3>3 DEF P!SleepersMustWait
  <2>4. CASE ~(~readopen \/ t \in pkilled)
    <3>1. ASSUME NEW u \in Thread PROVE ppc'[u] # "sleep_read"
      BY <1>0, <1>7, <2>4 DEF P!TypeOK, P!PipeWriteFull, P!WokenReaders
    <3> QED
      BY <2>1, <2>2, <2>4, <3>1 DEF P!SleepersMustWait
  <2> QED
    BY <2>3, <2>4
<1>8. ASSUME NEW t \in Thread, P!PipeReadEmpty(t) PROVE P!SleepersMustWait'
  BY <1>0, <1>8 DEF P!TypeOK, P!PipeReadEmpty, P!SleepersMustWait, P!Full, P!pipe
<1>9. ASSUME NEW t \in Thread, P!PipeReadSome(t) PROVE P!SleepersMustWait'
  <2>1. ASSUME NEW u \in Thread PROVE ppc'[u] # "sleep_write" /\ (ppc'[u] = "sleep_read" => ppc[u] = "sleep_read")
    BY <1>0, <1>9 DEF P!TypeOK, P!PipeReadSome, P!WokenWriters
  <2>2. UNCHANGED <<writeopen, pkilled>> /\ ~(nread = nwrite /\ writeopen)
    BY <1>9 DEF P!PipeReadSome
  <2> QED
    BY <1>0, <2>1, <2>2 DEF P!SleepersMustWait
<1>10. ASSUME NEW t \in Thread, P!CloseRead(t) PROVE P!SleepersMustWait'
  BY <1>0, <1>10 DEF P!TypeOK, P!CloseRead, P!WokenWriters, P!SleepersMustWait, P!Full
<1>11. ASSUME NEW t \in Thread, P!CloseWrite(t) PROVE P!SleepersMustWait'
  BY <1>0, <1>11 DEF P!TypeOK, P!CloseWrite, P!WokenReaders, P!SleepersMustWait, P!Full
<1>12. ASSUME NEW t \in Thread, P!Kill(t) PROVE P!SleepersMustWait'
  BY <1>0, <1>12 DEF P!TypeOK, P!Kill, P!SleepersMustWait, P!Full, P!pipe
<1>13. ASSUME NEW t \in Thread,
              (\E m \in 0..MaxIO : P!CallRead(t, m)) \/ (\E s \in Writes : P!CallWrite(t, s))
       PROVE  P!SleepersMustWait'
  BY <1>0, <1>13 DEF P!TypeOK, P!CallRead, P!CallWrite, P!SleepersMustWait, P!Full, P!pipe
<1>14. ASSUME NEW t \in Thread, NEW u \in Thread, P!Fork(t, u) PROVE P!SleepersMustWait'
  BY <1>0, <1>14 DEF P!Fork, P!SleepersMustWait, P!Full, P!pipe
<1> QED
  BY <1>5, <1>6, <1>7, <1>8, <1>9, <1>10, <1>11, <1>12, <1>13, <1>14 DEF P!Next, P!PipeStep

\* The invariant of the pipe holds in every state.
LEMMA PipeInvariant == RingBounds /\ PipeBounds => (P!Spec => []PipeInv)
<1> SUFFICES ASSUME RingBounds, PipeBounds PROVE P!Spec => []PipeInv
  OBVIOUS
<1>1. P!Init => PipeInv
  BY PipeInit
<1>2. PipeInv /\ [P!Next]_(P!vars) => PipeInv'
  BY PipeTypes, PipeEnds, PipeSleepers DEF PipeInv
<1> QED
  BY <1>1, <1>2, PTL DEF P!Spec

\* A process sleeps in piperead or pipewrite only as long as it has to, and the
\* page of a pipe is freed when no process can use it, for any number of
\* processes that share the pipe, any size of it and any counter that wraps at
\* a multiple of that size.
THEOREM PipeIsSafe == RingBounds /\ PipeBounds => (P!Spec => [](P!SleepersMustWait /\ P!FreedIsUnused))
<1> SUFFICES ASSUME RingBounds, PipeBounds PROVE P!Spec => [](P!SleepersMustWait /\ P!FreedIsUnused)
  OBVIOUS
<1>1. PipeInv => P!SleepersMustWait /\ P!FreedIsUnused
  BY DEF PipeInv, P!TypeOK, P!EndsInv, P!FreedIsUnused, P!Places
<1>2. P!Spec => []PipeInv
  BY PipeInvariant
<1> QED
  BY <1>1, <1>2, PTL

\* pipewrite and piperead implement a bounded queue of bytes: none is lost,
\* repeated, reordered or overwritten, wherever the counters wrap.
THEOREM PipeIsFifo == RingBounds /\ PipeBounds => (P!Spec => P!ImplementsFifo)
<1> SUFFICES ASSUME RingBounds, PipeBounds PROVE P!Spec => P!ImplementsFifo
  OBVIOUS
<1>1. P!Init => P!F!Init
  BY PipeInit
<1>2. PipeInv /\ [P!Next]_(P!vars) => [P!F!Next]_(P!Contents)
  BY RingStep
<1>3. P!Spec => []PipeInv
  BY PipeInvariant
<1> QED
  BY <1>1, <1>2, <1>3, PTL DEF P!Spec, P!ImplementsFifo, P!F!Spec

-----------------------------------------------------------------------------
(***************************************************************************)
(* The console.                                                            *)
(***************************************************************************)

\* A place that is counted from a counter that has moved on by k.
LEMMA PlaceFrom ==
  ASSUME RingBounds, NEW r \in 0..(Wrap - 1), NEW k \in 0..Wrap, NEW i \in Nat
  PROVE  (((r + k) % Wrap) + i) % Size = (r + k + i) % Size
<1>1. (r + k) % Wrap = IF r + k < Wrap THEN r + k ELSE r + k - Wrap
  BY SumIs DEF RingBounds
<1>2. CASE r + k < Wrap
  BY <1>1, <1>2
<1>3. CASE r + k >= Wrap
  <2>1. PICK m \in Nat : Wrap = m * Size
    BY DEF RingBounds
  <2> DEFINE x == r + k + i
  <2>2. x \in Nat /\ x >= Wrap /\ ((r + k) % Wrap) + i = x - Wrap
    BY <1>1, <1>3 DEF RingBounds
  <2> HIDE DEF x
  <2>3. (x - m * Size) % Size = x % Size
    BY <2>1, <2>2, ModLess DEF RingBounds
  <2> QED
    BY <2>1, <2>2, <2>3 DEF x
<1> QED
  BY <1>2, <1>3 DEF RingBounds

\* The three indices, as distances from r.
LEMMA Indices ==
  ASSUME RingBounds, NEW r \in 0..(Wrap - 1), NEW w \in 0..(Wrap - 1), NEW e \in 0..(Wrap - 1),
         NEW a \in Nat, NEW b \in Nat, a = Dist(r, w, Wrap), b = Dist(w, e, Wrap), a + b <= Size
  PROVE  /\ Dist(r, e, Wrap) = a + b
         /\ w = (r + a) % Wrap /\ e = (r + (a + b)) % Wrap
         /\ (w = e <=> b = 0) /\ (r = w <=> a = 0)
<1>0. Wrap \in Nat /\ Size < Wrap /\ Size \in Nat
  BY DEF RingBounds
<1>1. a = IF r <= w THEN w - r ELSE w + Wrap - r
  BY <1>0, DistIs
<1>2. b = IF w <= e THEN e - w ELSE e + Wrap - w
  BY <1>0, DistIs
<1>3. Dist(r, e, Wrap) = IF r <= e THEN e - r ELSE e + Wrap - r
  BY <1>0, DistIs
<1>4. a \in 0..Wrap /\ a + b \in 0..Wrap
  BY <1>0
<1>5. (r + a) % Wrap = IF r + a < Wrap THEN r + a ELSE r + a - Wrap
  BY <1>0, <1>4, SumIs
<1>6. (r + (a + b)) % Wrap = IF r + (a + b) < Wrap THEN r + (a + b) ELSE r + (a + b) - Wrap
  BY <1>0, <1>4, SumIs
<1>7. Dist(r, e, Wrap) = a + b
  BY <1>0, <1>1, <1>2, <1>3
<1>8. w = (r + a) % Wrap
  BY <1>0, <1>1, <1>5
<1>9. e = (r + (a + b)) % Wrap
  BY <1>0, <1>1, <1>2, <1>6
<1>10. (w = e <=> b = 0) /\ (r = w <=> a = 0)
  BY <1>0, <1>1, <1>2
<1> QED
  BY <1>7, <1>8, <1>9, <1>10

\* An index that goes back by k, and stays behind another.
LEMMA DistBack ==
  ASSUME NEW R \in Nat, NEW w \in 0..(R-1), NEW e \in 0..(R-1), NEW k \in Nat,
         k <= Dist(w, e, R)
  PROVE  (e + R - k) % R \in 0..(R-1) /\ Dist(w, (e + R - k) % R, R) = Dist(w, e, R) - k
<1> DEFINE v == (e + R - k) % R
<1>1. Dist(w, e, R) = IF w <= e THEN e - w ELSE e + R - w
  BY DistIs
<1>2. k \in 0..(R-1)
  BY <1>1
<1>3. v = IF k <= e THEN e - k ELSE e + R - k
  BY <1>2, DistIs DEF Dist
<1>4. v \in 0..(R-1)
  BY <1>2, <1>3
<1> HIDE DEF v
<1>5. Dist(w, v, R) = IF w <= v THEN v - w ELSE v + R - w
  BY <1>4, DistIs
<1>6. Dist(w, v, R) = Dist(w, e, R) - k
  BY <1>1, <1>2, <1>3, <1>4, <1>5
<1> QED
  BY <1>4, <1>6 DEF v

\* The place of the i-th character from r on.
At(r, i) == (r + i - 1) % Size

\* Places are in the ring, apart, and can be counted from any index.
LEMMA AtFacts ==
  ASSUME RingBounds, NEW r \in 0..(Wrap - 1)
  PROVE  /\ \A i \in 1..(Size + 1) : At(r, i) \in 0..(Size - 1)
         /\ \A x, y \in 1..Size : At(r, x) = At(r, y) => x = y
         /\ \A k \in 0..Wrap : ((r + k) % Wrap) % Size = At(r, k + 1)
         /\ \A k \in 0..Wrap, i \in Nat \ {0} : At((r + k) % Wrap, i) = At(r, k + i)
<1>0. Wrap \in Nat /\ Size \in Nat /\ Size > 0 /\ Size < Wrap
  BY DEF RingBounds
<1>1. \A i \in 1..(Size + 1) : At(r, i) \in 0..(Size - 1)
  BY <1>0 DEF At
<1>2. \A x, y \in 1..Size : At(r, x) = At(r, y) => x = y
  BY Apart DEF At
<1>3. ASSUME NEW k \in 0..Wrap, NEW i \in Nat
      PROVE  (((r + k) % Wrap) + i) % Size = (r + k + i) % Size
  BY PlaceFrom
<1>4. ASSUME NEW k \in 0..Wrap
      PROVE  ((r + k) % Wrap) % Size = At(r, k + 1)
  <2>1. (((r + k) % Wrap) + 0) % Size = (r + k + 0) % Size
    BY <1>3
  <2>2. (r + k) % Wrap \in 0..(Wrap - 1)
    BY <1>0
  <2>3. ((r + k) % Wrap) + 0 = (r + k) % Wrap /\ r + k + 0 = r + (k + 1) - 1
    BY <1>0, <2>2
  <2> QED
    BY <2>1, <2>3 DEF At
<1>5. ASSUME NEW k \in 0..Wrap, NEW i \in Nat \ {0}
      PROVE  At((r + k) % Wrap, i) = At(r, k + i)
  <2>1. PICK j \in Nat : j = i - 1
    OBVIOUS
  <2>2. (((r + k) % Wrap) + j) % Size = (r + k + j) % Size
    BY <1>3
  <2>3. (r + k) % Wrap \in 0..(Wrap - 1)
    BY <1>0
  <2>4. ((r + k) % Wrap) + i - 1 = ((r + k) % Wrap) + j /\ r + (k + i) - 1 = r + k + j
    BY <1>0, <2>1, <2>3
  <2> QED
    BY <2>2, <2>4 DEF At
<1> QED
  BY <1>1, <1>2, <1>4, <1>5

\* Ring D holds the committed characters s from r to w and the line t from w to e,
\* has room for one more while a line is edited, and the line does not end.
Typed(D, r, w, e, s, t) ==
  /\ D \in [0..(Size - 1) -> K!Char]
  /\ r \in 0..(Wrap - 1) /\ w \in 0..(Wrap - 1) /\ e \in 0..(Wrap - 1)
  /\ s \in Seq(K!Char) /\ t \in Seq(K!Char)
  /\ Len(s) = Dist(r, w, Wrap) /\ Len(t) = Dist(w, e, Wrap)
  /\ Len(s) + Len(t) <= Size /\ (Len(t) > 0 => Len(s) + Len(t) < Size)
  /\ \A i \in 1..Len(s) : s[i] = D[At(r, i)]
  /\ \A i \in 1..Len(t) : t[i] = D[At(r, Len(s) + i)]
  /\ \A i \in 1..Len(t) : t[i] # "nl"

\* The place of the next character, and how far its index is from the others.
LEMMA TypedEnd ==
  ASSUME RingBounds, NEW D, NEW r, NEW w, NEW e, NEW s, NEW t, Typed(D, r, w, e, s, t)
  PROVE  /\ Dist(r, e, Wrap) = Len(s) + Len(t)
         /\ e % Size = At(r, Len(s) + Len(t) + 1)
         /\ (w = e <=> Len(t) = 0) /\ (r = w <=> Len(s) = 0)
         /\ Dist(e, e, Wrap) = 0 /\ w = (r + Len(s)) % Wrap
<1>0. Wrap \in Nat /\ Size \in Nat /\ Size > 0 /\ Size < Wrap
  BY DEF RingBounds
<1>1. r \in 0..(Wrap - 1) /\ w \in 0..(Wrap - 1) /\ e \in 0..(Wrap - 1)
  BY DEF Typed
<1>2. PICK a \in Nat, b \in Nat : a = Len(s) /\ b = Len(t)
  BY DEF Typed
<1>3. a = Dist(r, w, Wrap) /\ b = Dist(w, e, Wrap) /\ a + b <= Size
  BY <1>2 DEF Typed
<1>4. /\ Dist(r, e, Wrap) = a + b
      /\ w = (r + a) % Wrap /\ e = (r + (a + b)) % Wrap
      /\ (w = e <=> b = 0) /\ (r = w <=> a = 0)
  BY <1>1, <1>3, Indices
<1>5. a + b \in 0..Wrap
  BY <1>0, <1>3
<1>6. ((r + (a + b)) % Wrap) % Size = At(r, (a + b) + 1)
  BY <1>1, <1>5, AtFacts
<1>7. Dist(e, e, Wrap) = 0
  BY <1>0, <1>1, DistIs
<1> QED
  BY <1>2, <1>4, <1>6, <1>7

\* The ring with c at p.
Put(D, p, c) == [D EXCEPT ![p] = c]

\* consoleintr puts a character behind the line.
LEMMA TypedMore ==
  ASSUME RingBounds, NEW D \in [0..(Size - 1) -> K!Char], NEW r \in 0..(Wrap - 1),
         NEW w \in 0..(Wrap - 1), NEW e \in 0..(Wrap - 1),
         NEW s \in Seq(K!Char), NEW t \in Seq(K!Char), Typed(D, r, w, e, s, t),
         NEW c \in K!Char, Dist(r, e, Wrap) < Size, NEW f, f = (e + 1) % Wrap
  PROVE  /\ Dist(r, f, Wrap) = Len(s) + Len(t) + 1
         /\ c # "nl" /\ Dist(r, f, Wrap) # Size => Typed(Put(D, e % Size, c), r, w, f, s, Append(t, c))
         /\ Typed(Put(D, e % Size, c), r, f, f, s \o Append(t, c), <<>>)
<1> DEFINE E == Put(D, e % Size, c)
<1>0. Wrap \in Nat /\ Size \in Nat /\ Size > 0 /\ Size < Wrap
  BY DEF RingBounds
<1>2. PICK a \in Nat, b \in Nat : a = Len(s) /\ b = Len(t)
  OBVIOUS
<1>3. Dist(r, e, Wrap) = a + b /\ e % Size = At(r, a + b + 1)
  BY <1>2, TypedEnd
<1>4. Dist(r, w, Wrap) = a /\ Dist(w, e, Wrap) = b /\ a + b < Size
  BY <1>2, <1>3 DEF Typed
<1>5. f \in 0..(Wrap - 1) /\ Dist(r, f, Wrap) = a + b + 1
  <2>1. Dist(r, e, Wrap) + 1 < Wrap
    BY <1>0, <1>3, <1>4
  <2> QED
    BY <1>0, <1>3, <2>1, DistPut
<1>6. Dist(w, f, Wrap) = b + 1
  <2>1. Dist(w, e, Wrap) + 1 < Wrap
    BY <1>0, <1>4
  <2>2. Dist(w, (e + 1) % Wrap, Wrap) = Dist(w, e, Wrap) + 1
    BY <1>0, <2>1, DistPut
  <2> QED
    BY <1>4, <2>2
<1>7. PICK N \in Nat : N = a + b
  OBVIOUS
<1>8. /\ E \in [0..(Size - 1) -> K!Char]
      /\ \A i \in 1..N : E[At(r, i)] = D[At(r, i)]
      /\ E[At(r, N + 1)] = c
  <2>1. E = [D EXCEPT ![At(r, N + 1)] = c] /\ N < Size
    BY <1>3, <1>4, <1>7 DEF Put
  <2>2. N + 1 \in 1..Size /\ \A i \in 1..N : i \in 1..Size /\ i # N + 1
    BY <1>0, <2>1
  <2>3. \A i \in 1..Size : At(r, i) \in 0..(Size - 1)
    <3>1. \A i \in 1..Size : i \in 1..(Size + 1)
      BY <1>0
    <3> QED
      BY <3>1, AtFacts
  <2>4. \A i \in 1..N : At(r, i) # At(r, N + 1)
    BY <2>2, AtFacts
  <2> QED
    BY <2>1, <2>2, <2>3, <2>4
<1> HIDE DEF E
<1>9. /\ \A i \in 1..a : s[i] = E[At(r, i)]
      /\ \A i \in 1..b : t[i] = E[At(r, a + i)]
  <2>1. \A i \in 1..a : s[i] = D[At(r, i)] /\ i \in 1..N
    BY <1>2, <1>7 DEF Typed
  <2>2. \A i \in 1..b : t[i] = D[At(r, a + i)] /\ a + i \in 1..N
    BY <1>2, <1>7 DEF Typed
  <2> QED
    BY <1>8, <2>1, <2>2
<1>10. PICK u \in Seq(K!Char) : u = Append(t, c)
  <2>1. Append(t, c) \in Seq(K!Char)
    BY OneMore
  <2> QED
    BY ONLY <2>1
<1>11. Len(u) = b + 1 /\ \A i \in 1..(b + 1) : (i <= b => u[i] = t[i]) /\ (i = b + 1 => u[i] = c)
  BY <1>2, <1>10, OneMore
<1>12. ASSUME NEW i \in 1..(b + 1) PROVE u[i] = E[At(r, a + i)]
  <2>1. CASE i <= b
    <3>1. i \in 1..b
      BY <2>1
    <3> QED
      BY <1>9, <1>11, <2>1, <3>1
  <2>2. CASE i = b + 1
    <3>1. a + i = N + 1
      BY <1>7, <2>2
    <3> QED
      BY <1>8, <1>11, <2>2, <3>1
  <2> QED
    BY <2>1, <2>2
<1>13. c # "nl" /\ a + b + 1 # Size => Typed(E, r, w, f, s, u)
  <2> SUFFICES ASSUME c # "nl", a + b + 1 # Size PROVE Typed(E, r, w, f, s, u)
    OBVIOUS
  <2>1. \A i \in 1..b : t[i] # "nl"
    BY <1>2 DEF Typed
  <2>2. ASSUME NEW i \in 1..(b + 1) PROVE u[i] # "nl"
    <3>1. i \in 1..b \/ i = b + 1
      OBVIOUS
    <3> QED
      BY <1>11, <2>1, <3>1
  <2>3. a + (b + 1) <= Size /\ a + (b + 1) < Size
    BY <1>0, <1>4
  <2>4. /\ E \in [0..(Size - 1) -> K!Char] /\ r \in 0..(Wrap - 1) /\ w \in 0..(Wrap - 1)
        /\ f \in 0..(Wrap - 1) /\ s \in Seq(K!Char) /\ u \in Seq(K!Char)
    BY <1>5, <1>8
  <2> QED
    BY ONLY <1>2, <1>4, <1>6, <1>9, <1>11, <1>12, <2>2, <2>3, <2>4 DEF Typed
<1>14. PICK v \in Seq(K!Char) : v = s \o u
  <2>1. s \o u \in Seq(K!Char)
    BY Joined
  <2> QED
    BY ONLY <2>1
<1>15. Len(v) = a + b + 1 /\ \A i \in 1..(a + b + 1) : v[i] = IF i <= a THEN s[i] ELSE u[i - a]
  <2>1. /\ Len(v) = Len(s) + Len(u)
        /\ \A i \in 1..(Len(s) + Len(u)) : v[i] = IF i <= Len(s) THEN s[i] ELSE u[i - Len(s)]
    BY <1>14, Joined
  <2>2. Len(s) + Len(u) = a + b + 1 /\ Len(s) = a
    BY <1>2, <1>11
  <2> QED
    BY ONLY <2>1, <2>2
<1>16. \A i \in 1..(a + b + 1) : v[i] = E[At(r, i)]
  <2>1. \A i \in 1..(a + b + 1) : i \in 1..a \/ (~(i <= a) /\ i - a \in 1..(b + 1) /\ a + (i - a) = i)
    OBVIOUS
  <2>2. ASSUME NEW i \in 1..(a + b + 1) PROVE v[i] = E[At(r, i)]
    <3>1. CASE i \in 1..a
      <4>1. i <= a
        BY <3>1
      <4> QED
        BY <1>9, <1>15, <3>1, <4>1
    <3>2. CASE ~(i <= a) /\ i - a \in 1..(b + 1) /\ a + (i - a) = i
      <4>1. PICK j \in 1..(b + 1) : j = i - a /\ a + j = i
        BY <3>2
      <4> QED
        BY <1>12, <1>15, <3>2, <4>1
    <3> QED
      BY <2>1, <3>1, <3>2
  <2> QED
    BY <2>2
<1>17. Typed(E, r, f, f, v, <<>>)
  <2>1. Dist(f, f, Wrap) = 0
    BY <1>0, <1>5, DistIs
  <2>2. <<>> \in Seq(K!Char) /\ Len(<<>>) = 0
    BY NoElements
  <2> QED
    BY <1>0, <1>4, <1>5, <1>8, <1>15, <1>16, <2>1, <2>2 DEF Typed
<1> QED
  BY <1>2, <1>5, <1>10, <1>13, <1>14, <1>17 DEF E

\* Backspace and ^U take k characters off the line.
LEMMA TypedLess ==
  ASSUME RingBounds, NEW D \in [0..(Size - 1) -> K!Char], NEW r \in 0..(Wrap - 1),
         NEW w \in 0..(Wrap - 1), NEW e \in 0..(Wrap - 1),
         NEW s \in Seq(K!Char), NEW t \in Seq(K!Char), Typed(D, r, w, e, s, t),
         NEW k \in 0..Len(t), NEW f, f = (e + Wrap - k) % Wrap
  PROVE  Typed(D, r, w, f, s, SubSeq(t, 1, Len(t) - k))
<1>0. Wrap \in Nat /\ Size \in Nat /\ Size > 0 /\ Size < Wrap
  BY DEF RingBounds
<1>1. PICK b \in Nat : b = Len(t) /\ b = Dist(w, e, Wrap) /\ k <= b
  BY DEF Typed
<1>2. f \in 0..(Wrap - 1) /\ Dist(w, f, Wrap) = b - k
  <2>1. k \in Nat /\ k <= Dist(w, e, Wrap)
    BY <1>1
  <2>2. (e + Wrap - k) % Wrap \in 0..(Wrap-1) /\ Dist(w, (e + Wrap - k) % Wrap, Wrap) = Dist(w, e, Wrap) - k
    BY <1>0, <2>1, DistBack
  <2> QED
    BY <1>1, <2>2
<1>3. PICK u \in Seq(K!Char) : u = SubSeq(t, 1, b - k)
  <2>1. b - k \in 0..Len(t) /\ \A i \in 1..(b - k) : i \in 1..Len(t)
    BY <1>1
  <2>2. SubSeq(t, 1, b - k) \in Seq(K!Char)
    BY <2>1, Part
  <2> QED
    BY ONLY <2>2
<1>4. Len(u) = b - k /\ \A i \in 1..(b - k) : u[i] = t[i]
  BY <1>1, <1>3
<1>5. \A i \in 1..(b - k) : i \in 1..Len(t)
  BY <1>1
<1>6. b - k \in Nat /\ b - k <= Len(t) /\ (b - k > 0 => Len(t) > 0)
  BY <1>1
<1>7. Len(s) + (b - k) <= Size /\ (b - k > 0 => Len(s) + (b - k) < Size)
  BY <1>0, <1>1, <1>6 DEF Typed
<1>8. \A i \in 1..(b - k) : u[i] = D[At(r, Len(s) + i)] /\ u[i] # "nl"
  BY <1>4, <1>5 DEF Typed
<1>9. Len(s) = Dist(r, w, Wrap) /\ \A i \in 1..Len(s) : s[i] = D[At(r, i)]
  BY DEF Typed
<1>10. Typed(D, r, w, f, s, u)
  BY <1>2, <1>4, <1>7, <1>8, <1>9 DEF Typed
<1> QED
  BY <1>1, <1>3, <1>10

\* consoleread takes the oldest committed character.
LEMMA TypedTail ==
  ASSUME RingBounds, NEW D \in [0..(Size - 1) -> K!Char], NEW r \in 0..(Wrap - 1),
         NEW w \in 0..(Wrap - 1), NEW e \in 0..(Wrap - 1),
         NEW s \in Seq(K!Char), NEW t \in Seq(K!Char), Typed(D, r, w, e, s, t),
         r # w, NEW q, q = (r + 1) % Wrap
  PROVE  Typed(D, q, w, e, Tail(s), t)
<1>0. Wrap \in Nat /\ Size \in Nat /\ Size > 0 /\ Size < Wrap
  BY DEF RingBounds
<1>1. Len(s) # 0
  BY TypedEnd
<1>2. PICK a \in Nat : a = Len(s) /\ a = Dist(r, w, Wrap) /\ a >= 1
  BY <1>1 DEF Typed
<1>3. q \in 0..(Wrap - 1) /\ Dist(q, w, Wrap) = a - 1
  <2>1. 1 <= Dist(r, w, Wrap)
    BY <1>2
  <2>2. (r + 1) % Wrap \in 0..(Wrap-1) /\ Dist((r + 1) % Wrap, w, Wrap) = Dist(r, w, Wrap) - 1
    BY <1>0, <2>1, DistGet
  <2> QED
    BY <1>2, <2>2
<1>4. PICK u \in Seq(K!Char) : u = Tail(s)
  <2>1. s # <<>>
    BY <1>1
  <2>2. Tail(s) \in Seq(K!Char)
    BY <2>1, OneLess
  <2> QED
    BY ONLY <2>2
<1>5. Len(u) = a - 1 /\ \A i \in 1..(a - 1) : u[i] = s[i + 1]
  <2>1. s # <<>>
    BY <1>1
  <2> QED
    BY <1>2, <1>4, <2>1, OneLess
<1>6. \A i \in Nat \ {0} : At(q, i) = At(r, 1 + i)
  <2>1. 1 \in 0..Wrap
    BY <1>0
  <2> QED
    BY <2>1, AtFacts
<1>7. ASSUME NEW i \in 1..(a - 1) PROVE u[i] = D[At(q, i)]
  <2>1. i + 1 \in 1..Len(s) /\ i \in Nat \ {0} /\ i + 1 = 1 + i
    BY <1>2
  <2> QED
    BY <1>5, <1>6, <2>1 DEF Typed
<1>8. ASSUME NEW i \in 1..Len(t) PROVE t[i] = D[At(q, (a - 1) + i)] /\ t[i] # "nl"
  <2>1. (a - 1) + i \in Nat \ {0} /\ 1 + ((a - 1) + i) = a + i
    BY <1>2
  <2> QED
    BY <1>2, <1>6, <2>1 DEF Typed
<1>9. (a - 1) + Len(t) <= Size /\ (Len(t) > 0 => (a - 1) + Len(t) < Size)
  BY <1>0, <1>2 DEF Typed
<1>10. Len(t) = Dist(w, e, Wrap)
  BY DEF Typed
<1>11. Typed(D, q, w, e, u, t)
  BY <1>3, <1>5, <1>7, <1>8, <1>9, <1>10 DEF Typed
<1> QED
  BY <1>4, <1>11

\* What the ring holds is what was typed.
LEMMA TypedExact ==
  ASSUME RingBounds, Typed(cbuf, cr, cw, ce, clines, cline)
  PROVE  K!InputExact
<1>0. Wrap \in Nat /\ Size \in Nat /\ Size > 0 /\ Size < Wrap
  BY DEF RingBounds
<1>1. PICK r \in 0..(Wrap - 1), w \in 0..(Wrap - 1), a \in Nat, b \in Nat :
        r = cr /\ w = cw /\ a = Len(clines) /\ b = Len(cline)
  BY DEF Typed
<1>2. /\ clines \in Seq(K!Char) /\ cline \in Seq(K!Char)
      /\ K!Minus(cw, cr) = a /\ K!Minus(ce, cw) = b /\ a + b <= Size
      /\ \A i \in 1..a : clines[i] = cbuf[At(r, i)]
      /\ \A i \in 1..b : cline[i] = cbuf[At(r, a + i)]
  BY <1>1 DEF Typed, Dist, K!Minus
<1>3. w = (r + a) % Wrap
  BY <1>1, TypedEnd
<1>4. ASSUME NEW i \in 1..Size, NEW v \in 0..(Wrap - 1)
      PROVE  K!Plus(v, i - 1) % Size = At(v, i)
  <2>1. i - 1 \in 0..Wrap /\ (i - 1) + 1 = i
    BY <1>0
  <2> QED
    BY <2>1, AtFacts DEF K!Plus
<1>5. K!Content(cr, cw) = clines
  <2>1. \A i \in 1..a : i \in 1..Size
    BY <1>0, <1>2
  <2>2. K!Content(cr, cw) = [i \in 1..a |-> clines[i]]
    BY <1>1, <1>2, <1>4, <2>1 DEF K!Content
  <2> QED
    BY <1>1, <1>2, <2>2
<1>6. K!Content(cw, ce) = cline
  <2>1. \A i \in 1..b : i \in 1..Size /\ i \in Nat \ {0}
    BY <1>0, <1>2
  <2>2. a \in 0..Wrap
    BY <1>0, <1>2
  <2>3. \A i \in 1..b : At(w, i) = At(r, a + i)
    BY <1>3, <2>1, <2>2, AtFacts
  <2>4. K!Content(cw, ce) = [i \in 1..b |-> cline[i]]
    BY <1>1, <1>2, <1>4, <2>1, <2>3 DEF K!Content
  <2> QED
    BY <1>1, <1>2, <2>4
<1> QED
  BY <1>5, <1>6 DEF K!InputExact

\* ^U stops at w: there is no end of line in the line.
LEMMA KillsLine ==
  ASSUME RingBounds, Typed(cbuf, cr, cw, ce, clines, cline)
  PROVE  K!KillTo = Len(cline)
<1>1. PICK D \in [0..(Size - 1) -> K!Char], r \in 0..(Wrap - 1), w \in 0..(Wrap - 1),
           e \in 0..(Wrap - 1), s \in Seq(K!Char), t \in Seq(K!Char) :
        D = cbuf /\ r = cr /\ w = cw /\ e = ce /\ s = clines /\ t = cline
  BY DEF Typed
<1>2. Typed(D, r, w, e, s, t)
  BY <1>1
<1>3. PICK b \in Nat : b = Len(t) /\ K!Minus(ce, cw) = b
  BY <1>1, <1>2 DEF Typed, K!Minus, Dist
<1>4. ASSUME NEW i \in 0..(b - 1) PROVE cbuf[K!Minus(ce, i + 1) % Size] # "nl"
  <2>1. PICK k \in 0..Len(t) : k = i + 1
    BY <1>3
  <2>2. PICK f : f = (e + Wrap - k) % Wrap
    OBVIOUS
  <2>3. PICK u \in Seq(K!Char) : u = SubSeq(t, 1, Len(t) - k) /\ Len(u) = b - k
    <3>1. b - k \in Int /\ \A j \in 1..(b - k) : j \in 1..Len(t)
      BY <1>3, <2>1
    <3>2. /\ SubSeq(t, 1, b - k) \in Seq(K!Char)
          /\ Len(SubSeq(t, 1, b - k)) = IF 1 <= b - k THEN (b - k) - 1 + 1 ELSE 0
      BY <3>1, Part
    <3>3. Len(SubSeq(t, 1, b - k)) = b - k
      BY <1>3, <2>1, <3>2
    <3> QED
      BY <1>3, <3>2, <3>3
  <2>4. Typed(D, r, w, f, s, u)
    BY <1>2, <2>2, <2>3, TypedLess
  <2>5. f % Size = At(r, Len(s) + Len(u) + 1)
    BY <2>4, TypedEnd
  <2>6. b - i \in 1..Len(t) /\ Len(s) + Len(u) + 1 = Len(s) + (b - i)
    <3>1. Len(u) = b - (i + 1) /\ Len(s) \in Nat
      BY <2>1, <2>3
    <3>2. \A a \in Nat : a + (b - (i + 1)) + 1 = a + (b - i)
      OBVIOUS
    <3> QED
      BY <1>3, <3>1, <3>2
  <2>7. t[b - i] = D[At(r, Len(s) + (b - i))] /\ t[b - i] # "nl"
    BY <1>2, <2>6 DEF Typed
  <2>8. K!Minus(ce, i + 1) = f
    BY <1>1, <2>1, <2>2 DEF K!Minus
  <2> QED
    BY <1>1, <2>5, <2>6, <2>7, <2>8
<1> DEFINE Good(i) == /\ i = b \/ cbuf[K!Minus(ce, i + 1) % Size] = "nl"
                      /\ \A j \in 0..(i - 1) : cbuf[K!Minus(ce, j + 1) % Size] # "nl"
<1>5. K!KillTo = CHOOSE i \in 0..b : Good(i)
  BY <1>3 DEF K!KillTo
<1>6. b \in 0..b /\ Good(b)
  BY <1>4
<1>7. \A i \in 0..b : Good(i) => i = b
  <2> SUFFICES ASSUME NEW i \in 0..b, Good(i), i # b PROVE FALSE
    OBVIOUS
  <2>1. i \in 0..(b - 1)
    OBVIOUS
  <2> QED
    BY <1>4, <2>1
<1> HIDE DEF Good
<1> QED
  BY <1>1, <1>3, <1>5, <1>6, <1>7

ConsoleInv == K!TypeOK /\ Typed(cbuf, cr, cw, ce, clines, cline) /\ K!ReaderServed

\* A sleeping reader can be served: there is room, as soon as nothing is committed.
LEMMA RoomToType ==
  ASSUME RingBounds, Typed(cbuf, cr, cw, ce, clines, cline)
  PROVE  /\ K!Minus(ce, cr) = Len(clines) + Len(cline)
         /\ cr = cw => K!Minus(ce, cr) < Size
         /\ Len(clines) \in Nat /\ Len(cline) \in Nat
<1>1. /\ Dist(cr, ce, Wrap) = Len(clines) + Len(cline)
      /\ (cr = cw <=> Len(clines) = 0)
  BY TypedEnd
<1>2. K!Minus(ce, cr) = Dist(cr, ce, Wrap)
  BY DEF K!Minus, Dist
<1>3. Len(clines) \in Nat /\ Len(cline) \in Nat /\ (Len(cline) > 0 => Len(clines) + Len(cline) < Size)
  BY DEF Typed
<1> QED
  BY <1>1, <1>2, <1>3 DEF RingBounds

\* The initial ring is empty.
LEMMA ConsoleInit ==
  ASSUME RingBounds, MaxRead \in Nat, K!Init
  PROVE  ConsoleInv
<1>0. Wrap \in Nat /\ Size \in Nat /\ Size > 0 /\ Size < Wrap
  BY DEF RingBounds
<1>1. cr = 0 /\ cw = 0 /\ ce = 0 /\ cline = <<>> /\ clines = <<>>
  BY DEF K!Init
<1>2. cbuf \in [0..(Size - 1) -> K!Char]
  BY DEF K!Init, K!Char
<1>3. <<>> \in Seq(K!Char) /\ Len(<<>>) = 0
  BY NoElements
<1>4. 0 \in 0..(Wrap - 1) /\ Dist(0, 0, Wrap) = 0
  <2>1. 0 \in 0..(Wrap - 1)
    BY <1>0
  <2> QED
    BY <1>0, <2>1, DistIs
<1>5. Typed(cbuf, cr, cw, ce, clines, cline)
  BY <1>0, <1>1, <1>2, <1>3, <1>4 DEF Typed
<1>6. crd \in [Thread -> K!Reading] /\ \A t \in Thread : crd[t].st = "out"
  BY DEF K!Init, K!NoRead, K!Reading
<1>7. K!ReaderServed
  BY <1>6 DEF K!ReaderServed
<1>8. K!TypeOK
  BY <1>1, <1>2, <1>3, <1>4, <1>6 DEF K!TypeOK, K!Init
<1> QED
  BY <1>5, <1>7, <1>8 DEF ConsoleInv

\* Typed, of the next state.
LEMMA TypedNext ==
  ASSUME Typed(cbuf', cr', cw', ce', clines', cline')
  PROVE  Typed(cbuf, cr, cw, ce, clines, cline)'
  BY DEF Typed, Dist, At, K!Char

\* consoleintr: a character that is kept.
LEMMA KeyStep ==
  ASSUME RingBounds, MaxRead \in Nat, ConsoleInv, NEW c \in K!Char, K!Type(c)
  PROVE  ConsoleInv'
<1>0. Wrap \in Nat /\ Size \in Nat /\ Size > 0 /\ Size < Wrap
  BY DEF RingBounds
<1>1. PICK D \in [0..(Size - 1) -> K!Char], r \in 0..(Wrap - 1), w \in 0..(Wrap - 1),
           e \in 0..(Wrap - 1), s \in Seq(K!Char), t \in Seq(K!Char) :
        D = cbuf /\ r = cr /\ w = cw /\ e = ce /\ s = clines /\ t = cline
  BY DEF ConsoleInv, Typed
<1>2. Typed(D, r, w, e, s, t)
  BY <1>1 DEF ConsoleInv
<1>3. PICK E : E = Put(D, e % Size, c)
  OBVIOUS
<1>31. PICK f : f = (e + 1) % Wrap
  OBVIOUS
<1>4. Dist(r, e, Wrap) < Size /\ cbuf' = E /\ ce' = f /\ cr' = r /\ clock' = clock /\ clock = 0
  BY <1>1, <1>3, <1>31 DEF K!Type, K!Minus, K!Plus, Dist, Put
<1>5. /\ Dist(r, f, Wrap) = Len(s) + Len(t) + 1
      /\ c # "nl" /\ Dist(r, f, Wrap) # Size => Typed(E, r, w, f, s, Append(t, c))
      /\ Typed(E, r, f, f, s \o Append(t, c), <<>>)
  BY <1>2, <1>3, <1>31, <1>4, TypedMore
<1>6. f \in 0..(Wrap - 1)
  BY <1>5 DEF Typed
<1>7. K!Plus(ce, 1) = K!Plus(cr, Size) <=> Dist(r, f, Wrap) = Size
  <2>1. K!Plus(ce, 1) = f /\ K!Plus(cr, Size) = (r + Size) % Wrap
    BY <1>1, <1>31 DEF K!Plus
  <2>2. f = (r + Size) % Wrap <=> Dist(r, f, Wrap) = Size
    BY <1>0, <1>6, DistFull
  <2> QED
    BY <2>1, <2>2
<1>8. crd \in [Thread -> K!Reading]
  BY DEF ConsoleInv, K!TypeOK
<1>9. CASE K!Commits(c)
  <2>1. cw' = f /\ crd' = K!Woken /\ clines' = s \o Append(t, c) /\ cline' = <<>>
    BY <1>1, <1>4, <1>9 DEF K!Type
  <2>2. Typed(cbuf', cr', cw', ce', clines', cline')
    BY <1>4, <1>5, <2>1
  <2>3. Typed(cbuf, cr, cw, ce, clines, cline)'
    BY <2>2, TypedNext
  <2>4. crd' \in [Thread -> K!Reading] /\ \A q \in Thread : crd'[q].st # "asleep"
    BY <1>8, <2>1 DEF K!Woken, K!Reading
  <2>5. K!ReaderServed'
    BY <2>4 DEF K!ReaderServed
  <2>6. K!TypeOK'
    BY <1>4, <2>2, <2>4 DEF K!TypeOK, Typed
  <2> QED
    BY <2>3, <2>5, <2>6 DEF ConsoleInv
<1>10. CASE ~K!Commits(c)
  <2>1. cw' = w /\ crd' = crd /\ clines' = s /\ cline' = Append(t, c)
    BY <1>1, <1>4, <1>10 DEF K!Type
  <2>2. c # "nl" /\ Dist(r, f, Wrap) # Size
    BY <1>7, <1>10 DEF K!Commits
  <2>3. Typed(cbuf', cr', cw', ce', clines', cline')
    BY <1>4, <1>5, <2>1, <2>2
  <2>4. Typed(cbuf, cr, cw, ce, clines, cline)'
    BY <2>3, TypedNext
  <2>5. Dist(r, f, Wrap) < Size
    <3>1. Dist(r, e, Wrap) = Len(s) + Len(t)
      BY <1>2, TypedEnd
    <3> QED
      BY <1>0, <1>4, <1>5, <2>2, <3>1
  <2>6. K!Minus(ce', cr') < Size
    BY <1>4, <2>5 DEF K!Minus, Dist
  <2>7. \A q \in Thread : crd[q].st = "asleep" => cr = cw
    BY DEF ConsoleInv, K!ReaderServed
  <2>8. K!ReaderServed'
    BY <1>1, <1>4, <2>1, <2>6, <2>7 DEF K!ReaderServed, K!Minus
  <2>9. K!TypeOK'
    BY <1>4, <1>8, <2>1, <2>3 DEF K!TypeOK, Typed
  <2> QED
    BY <2>4, <2>8, <2>9 DEF ConsoleInv
<1> QED
  BY Zenon, <1>9, <1>10

\* consoleintr: k characters of the line are erased.
LEMMA EraseStep ==
  ASSUME RingBounds, ConsoleInv, NEW k \in Nat, k <= Len(cline),
         ce' = K!Minus(ce, k), cline' = SubSeq(cline, 1, Len(cline) - k),
         UNCHANGED <<cbuf, cr, cw, clock, crd, clines>>
  PROVE  ConsoleInv'
<1>0. Wrap \in Nat /\ Size \in Nat /\ Size > 0 /\ Size < Wrap
  BY DEF RingBounds
<1>1. PICK D \in [0..(Size - 1) -> K!Char], r \in 0..(Wrap - 1), w \in 0..(Wrap - 1),
           e \in 0..(Wrap - 1), s \in Seq(K!Char), t \in Seq(K!Char) :
        D = cbuf /\ r = cr /\ w = cw /\ e = ce /\ s = clines /\ t = cline
  BY DEF ConsoleInv, Typed
<1>2. Typed(D, r, w, e, s, t)
  BY <1>1 DEF ConsoleInv
<1>3. PICK j \in 0..Len(t) : j = k
  BY <1>1
<1>4. PICK f : f = (e + Wrap - j) % Wrap
  OBVIOUS
<1>5. Typed(D, r, w, f, s, SubSeq(t, 1, Len(t) - j))
  BY <1>2, <1>4, TypedLess
<1>6. ce' = f
  BY <1>1, <1>3, <1>4 DEF K!Minus
<1>7. Typed(cbuf', cr', cw', ce', clines', cline')
  BY <1>1, <1>3, <1>5, <1>6
<1>8. Typed(cbuf, cr, cw, ce, clines, cline)'
  BY <1>7, TypedNext
<1>9. (cr = cw => K!Minus(ce, cr) < Size)'
  BY <1>8, RoomToType, PTL
<1>10. K!ReaderServed'
  BY <1>9 DEF ConsoleInv, K!ReaderServed
<1>11. K!TypeOK'
  BY <1>7 DEF ConsoleInv, K!TypeOK, Typed
<1> QED
  BY <1>8, <1>10, <1>11 DEF ConsoleInv

\* consoleread: a character is taken, or left for the next read.
LEMMA ByteStep ==
  ASSUME RingBounds, MaxRead \in Nat, ConsoleInv, NEW t \in Thread, K!Byte(t)
  PROVE  ConsoleInv'
<1>1. PICK D \in [0..(Size - 1) -> K!Char], r \in 0..(Wrap - 1), w \in 0..(Wrap - 1),
           e \in 0..(Wrap - 1), s \in Seq(K!Char), u \in Seq(K!Char) :
        D = cbuf /\ r = cr /\ w = cw /\ e = ce /\ s = clines /\ u = cline
  BY DEF ConsoleInv, Typed
<1>2. Typed(D, r, w, e, s, u)
  BY <1>1 DEF ConsoleInv
<1>3. r # w /\ cbuf' = D /\ cw' = w /\ ce' = e /\ cline' = u
  BY <1>1 DEF K!Byte
<1>4. \/ cr' = cr /\ clines' = clines
      \/ cr' = K!Plus(cr, 1) /\ clines' = Tail(clines)
  BY DEF K!Byte
<1>5. Typed(cbuf', cr', cw', ce', clines', cline')
  <2>1. CASE cr' = cr /\ clines' = clines
    BY <1>1, <1>2, <1>3, <2>1
  <2>2. CASE cr' = K!Plus(cr, 1) /\ clines' = Tail(clines)
    <3>1. PICK q : q = (r + 1) % Wrap
      OBVIOUS
    <3>2. Typed(D, q, w, e, Tail(s), u)
      BY <1>2, <1>3, <3>1, TypedTail
    <3> QED
      BY <1>1, <1>3, <2>2, <3>1, <3>2 DEF K!Plus
  <2> QED
    BY <1>4, <2>1, <2>2
<1>6. Typed(cbuf, cr, cw, ce, clines, cline)'
  BY <1>5, TypedNext
<1>7. crd \in [Thread -> K!Reading] /\ clock \in Thread \cup {0}
  BY DEF ConsoleInv, K!TypeOK
<1>8. \A q \in Thread : crd[q].st # "asleep"
  BY <1>1, <1>3 DEF ConsoleInv, K!ReaderServed
<1>9. crd[t] \in K!Reading /\ crd[t].n - 1 \in 0..MaxRead
  <2>1. crd[t] \in K!Reading /\ crd[t].n > 0
    BY <1>7 DEF K!Byte
  <2> QED
    BY <2>1 DEF K!Reading
<1>10. crd' \in [Thread -> K!Reading] /\ \A q \in Thread : crd'[q].st # "asleep"
  <2>1. CASE crd' = [crd EXCEPT ![t] = K!NoRead]
    <3>1. K!NoRead \in K!Reading /\ K!NoRead.st # "asleep"
      BY DEF K!NoRead, K!Reading
    <3> QED
      BY <1>7, <1>8, <2>1, <3>1
  <2>2. CASE crd' = [crd EXCEPT ![t].n = @ - 1]
    <3>1. crd' \in [Thread -> K!Reading]
      BY <1>7, <1>9, <2>2 DEF K!Reading
    <3>2. \A q \in Thread : crd'[q].st = crd[q].st
      BY <1>7, <2>2 DEF K!Reading
    <3> QED
      BY <1>8, <3>1, <3>2
  <2>3. crd' = [crd EXCEPT ![t] = K!NoRead] \/ crd' = [crd EXCEPT ![t].n = @ - 1]
    BY DEF K!Byte
  <2> QED
    BY <2>1, <2>2, <2>3
<1>11. clock' \in Thread \cup {0}
  BY <1>7 DEF K!Byte
<1>12. K!ReaderServed'
  BY <1>10 DEF K!ReaderServed
<1>13. K!TypeOK'
  BY <1>5, <1>10, <1>11 DEF K!TypeOK, Typed
<1> QED
  BY <1>6, <1>12, <1>13 DEF ConsoleInv

\* consoleread: a reader comes, goes on or goes to sleep.
LEMMA ReaderStep ==
  ASSUME RingBounds, MaxRead \in Nat, ConsoleInv, NEW t \in Thread,
         K!Resume(t) \/ K!Wait(t) \/ \E m \in 1..MaxRead : K!Read(t, m)
  PROVE  ConsoleInv'
<1>1. UNCHANGED <<cbuf, cr, cw, ce, cline, clines>>
  BY DEF K!Resume, K!Wait, K!Read
<1>2. Typed(cbuf', cr', cw', ce', clines', cline')
  BY <1>1 DEF ConsoleInv
<1>3. Typed(cbuf, cr, cw, ce, clines, cline)'
  BY <1>2, TypedNext
<1>4. crd \in [Thread -> K!Reading] /\ clock' \in Thread \cup {0}
  BY DEF ConsoleInv, K!TypeOK, K!Resume, K!Wait, K!Read
<1>5. PICK x \in K!Reading : crd' = [crd EXCEPT ![t] = x] /\ (x.st = "asleep" => cr = cw)
  <2>1. crd[t] \in K!Reading
    BY <1>4
  <2>2. CASE K!Resume(t)
    <3>1. [crd[t] EXCEPT !.st = "in"] \in K!Reading /\ [crd[t] EXCEPT !.st = "in"].st = "in"
      BY <2>1 DEF K!Reading
    <3>2. crd' = [crd EXCEPT ![t] = [crd[t] EXCEPT !.st = "in"]]
      BY <2>2 DEF K!Resume
    <3> QED
      BY <3>1, <3>2
  <2>3. CASE K!Wait(t)
    <3>1. [crd[t] EXCEPT !.st = "asleep"] \in K!Reading /\ K!NoRead \in K!Reading
      BY <2>1 DEF K!Reading, K!NoRead
    <3>2. /\ cr = cw
          /\ \/ crd' = [crd EXCEPT ![t] = [crd[t] EXCEPT !.st = "asleep"]]
             \/ crd' = [crd EXCEPT ![t] = K!NoRead]
      BY <2>3 DEF K!Wait
    <3> QED
      BY <3>1, <3>2
  <2>4. ASSUME NEW m \in 1..MaxRead, K!Read(t, m)
        PROVE  \E x \in K!Reading : crd' = [crd EXCEPT ![t] = x] /\ (x.st = "asleep" => cr = cw)
    <3>1. [st |-> "in", target |-> m, n |-> m] \in K!Reading
      BY DEF K!Reading
    <3>2. crd' = [crd EXCEPT ![t] = [st |-> "in", target |-> m, n |-> m]]
      BY <2>4 DEF K!Read
    <3> QED
      BY <3>1, <3>2
  <2> QED
    BY <2>2, <2>3, <2>4
<1>6. /\ crd' \in [Thread -> K!Reading]
      /\ \A q \in Thread : crd'[q].st = "asleep" => cr = cw
  BY <1>4, <1>5 DEF ConsoleInv, K!ReaderServed
<1>7. cr = cw => K!Minus(ce, cr) < Size
  BY RoomToType DEF ConsoleInv
<1>8. K!ReaderServed'
  BY <1>1, <1>6, <1>7 DEF K!ReaderServed, K!Minus
<1>9. K!TypeOK'
  BY <1>2, <1>4, <1>6 DEF K!TypeOK, Typed
<1> QED
  BY <1>3, <1>8, <1>9 DEF ConsoleInv

\* Every step of the console keeps the invariant.
LEMMA ConsoleStep ==
  ASSUME RingBounds, MaxRead \in Nat, ConsoleInv, [K!Next]_(K!vars)
  PROVE  ConsoleInv'
<1>0. cline \in Seq(K!Char) /\ Len(cline) \in Nat
  BY DEF ConsoleInv, Typed
<1>1. CASE K!Backspace
  <2>1. cw = ce <=> Len(cline) = 0
    BY TypedEnd DEF ConsoleInv
  <2>2. 1 <= Len(cline)
    BY <1>0, <1>1, <2>1 DEF K!Backspace
  <2>3. /\ ce' = K!Minus(ce, 1) /\ cline' = SubSeq(cline, 1, Len(cline) - 1)
        /\ UNCHANGED <<cbuf, cr, cw, clock, crd, clines>>
    BY <1>1 DEF K!Backspace
  <2> QED
    BY <2>2, <2>3, EraseStep
<1>2. CASE K!KillLine
  <2>1. K!KillTo = Len(cline)
    BY KillsLine DEF ConsoleInv
  <2>2. PICK k \in Nat : k = Len(cline)
    BY <1>0
  <2>3. SubSeq(cline, 1, Len(cline) - k) = <<>>
    <3>1. Len(cline) - k = 0
      BY <2>2
    <3>2. SubSeq(cline, 1, 0) = <<>>
      BY NoPart
    <3> QED
      BY <3>1, <3>2
  <2>4. /\ ce' = K!Minus(ce, k) /\ cline' = SubSeq(cline, 1, Len(cline) - k) /\ k <= Len(cline)
        /\ UNCHANGED <<cbuf, cr, cw, clock, crd, clines>>
    BY <1>2, <2>1, <2>2, <2>3 DEF K!KillLine
  <2> QED
    BY <2>4, EraseStep
<1>3. ASSUME NEW c \in K!Char, K!Type(c) PROVE ConsoleInv'
  BY <1>3, KeyStep
<1>4. ASSUME NEW t \in Thread, K!Byte(t) PROVE ConsoleInv'
  BY <1>4, ByteStep
<1>5. ASSUME NEW t \in Thread, K!Resume(t) \/ K!Wait(t) \/ \E m \in 1..MaxRead : K!Read(t, m)
      PROVE  ConsoleInv'
  BY <1>5, ReaderStep
<1>6. CASE UNCHANGED K!vars
  <2>1. UNCHANGED <<cbuf, cr, cw, ce, clock, crd, cline, clines>>
    BY <1>6 DEF K!vars
  <2>2. Typed(cbuf, cr, cw, ce, clines, cline)'
    BY <2>1, TypedNext DEF ConsoleInv
  <2> QED
    BY <2>1, <2>2 DEF ConsoleInv, K!TypeOK, K!ReaderServed, K!Minus
<1> QED
  BY Zenon, <1>1, <1>2, <1>3, <1>4, <1>5, <1>6 DEF K!Next

\* Readers of the console get the characters typed and not erased, in order, and
\* sleep only when nothing is committed and there is room to type (consoleintr,
\* consoleread), whatever the size of the ring and wherever its indices wrap.
THEOREM ConsoleIsExact ==
  RingBounds /\ MaxRead \in Nat => (K!Spec => [](K!InputExact /\ K!ReaderServed))
<1> SUFFICES ASSUME RingBounds, MaxRead \in Nat
             PROVE  K!Spec => [](K!InputExact /\ K!ReaderServed)
  OBVIOUS
<1>1. K!Init => ConsoleInv
  BY ConsoleInit
<1>2. ConsoleInv /\ [K!Next]_(K!vars) => ConsoleInv'
  BY ConsoleStep
<1>3. ConsoleInv => K!InputExact /\ K!ReaderServed
  BY TypedExact DEF ConsoleInv
<1> QED
  BY <1>1, <1>2, <1>3, PTL DEF K!Spec
=============================================================================
