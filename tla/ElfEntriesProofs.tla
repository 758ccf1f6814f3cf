--------------------------- MODULE ElfEntriesProofs ---------------------------
(***************************************************************************)
(* The accessors of the other tables: what was added through one is read   *)
(* back by another, for every section, class and byte order.               *)
(*                                                                         *)
(* The notes and the attributes of a section are found by going through    *)
(* it: a trail, which another entry makes longer by one.                   *)
(***************************************************************************)
EXTENDS ElfEntries, ElfSectionProofs, SequenceTheorems

(***************************************************************************)
(* Numbers and their digits.                                               *)
(***************************************************************************)

LEMMA QuotientUnique ==
  ASSUME NEW q \in Int, NEW m \in Nat, m > 0, NEW r \in 0 .. m - 1
  PROVE  (q * m + r) % m = r /\ (q * m + r) \div m = q
OBVIOUS

LEMMA Divided ==
  ASSUME NEW x \in Nat, NEW m \in Nat, m > 0
  PROVE  x % m \in 0..m - 1 /\ x \div m \in Nat /\ x = (x \div m) * m + (x % m)
OBVIOUS

\* The quotient of a number below a square is below its root.
LEMMA QuotientBound ==
  ASSUME NEW q \in Nat, NEW m \in Nat, m > 0, q * m < m * m
  PROVE  q < m
<1> SUFFICES ASSUME q >= m PROVE FALSE
  OBVIOUS
<1>1. q * m >= m * m
  OBVIOUS
<1> QED
  BY <1>1

LEMMA ProductBound ==
  ASSUME NEW m \in Nat, m > 0, NEW hi \in 0..m - 1, NEW lo \in 0..m - 1
  PROVE  m * hi + lo \in 0..m * m - 1
<1>1. m * hi <= m * (m - 1)
  OBVIOUS
<1>2. m * (m - 1) = m * m - m
  OBVIOUS
<1>3. m * hi \in Nat /\ m * m \in Nat
  OBVIOUS
<1> QED
  BY <1>1, <1>2, <1>3

LEMMA ExchangedIs ==
  ASSUME NEW m \in Nat, m > 0, NEW hi \in 0..m - 1, NEW lo \in 0..m - 1
  PROVE  Exchanged(m * hi + lo, m) = m * lo + hi
<1>1. (hi * m + lo) % m = lo /\ (hi * m + lo) \div m = hi
  BY QuotientUnique
<1>2. m * hi + lo = hi * m + lo
  OBVIOUS
<1>3. hi % m = hi
  OBVIOUS
<1> QED
  BY <1>1, <1>2, <1>3 DEF Exchanged

\* Halves that are exchanged twice are where they were.
LEMMA ExchangedTwice ==
  ASSUME NEW m \in Nat, m > 0, NEW x \in 0..m * m - 1
  PROVE  Exchanged(x, m) \in 0..m * m - 1 /\ Exchanged(Exchanged(x, m), m) = x
<1> DEFINE hi == x \div m
           lo == x % m
<1>1. x \in Nat /\ x < m * m
  OBVIOUS
<1>2. lo \in 0..m - 1 /\ hi \in Nat /\ x = hi * m + lo
  BY <1>1, Divided
<1>3. hi * m < m * m
  BY <1>1, <1>2
<1>4. hi \in 0..m - 1
  BY <1>2, <1>3, QuotientBound
<1>5. x = m * hi + lo
  BY <1>2
<1> HIDE DEF hi, lo
<1>6. Exchanged(x, m) = m * lo + hi /\ Exchanged(m * lo + hi, m) = m * hi + lo
  BY <1>2, <1>4, <1>5, ExchangedIs
<1> QED
  BY <1>2, <1>4, <1>5, <1>6, ProductBound

Widths == {WORD, XWORD}

LEMMA Limits ==
  /\ BASE \in Nat /\ BASE > 1
  /\ Limit(HALF) = BASE /\ Limit(WORD) = BASE * BASE /\ Limit(XWORD) = Limit(WORD) * Limit(WORD)
  /\ \A n \in {HALF, WORD, XWORD} : Limit(n) \in Nat /\ Limit(n) > 0
  /\ Limit(WORD) > 7 /\ Limit(WORD) <= Limit(XWORD)
  /\ WIDTH \in Widths
<1>1. BASE \in Nat /\ BASE > 1
  BY EntriesAssumption
<1>2. Limit(HALF) = BASE /\ Limit(WORD) = BASE * BASE /\ Limit(XWORD) = Limit(WORD) * Limit(WORD)
  BY DEF Limit, HALF, WORD, XWORD
<1>3. BASE * BASE \in Nat /\ BASE * BASE > 7
  <2>1. BASE \in Nat /\ BASE >= 3
    BY EntriesAssumption
  <2>2. \A a, b \in Nat : a >= b => a * a \in Nat /\ a * a >= b * b
    OBVIOUS
  <2>3. BASE * BASE \in Nat /\ BASE * BASE >= 3 * 3
    BY <2>1, <2>2
  <2> QED
    BY <2>3
<1>4. \A m \in Nat : m > 0 => m * m \in Nat /\ m <= m * m /\ m * m > 0
  OBVIOUS
<1>5. Limit(WORD) \in Nat /\ Limit(WORD) > 7
  BY <1>2, <1>3
<1>6. Limit(XWORD) \in Nat /\ Limit(WORD) <= Limit(XWORD) /\ Limit(XWORD) > 0
  BY <1>2, <1>4, <1>5
<1>7. WIDTH \in Widths
  BY DEF WIDTH, Widths
<1> QED
  BY <1>1, <1>2, <1>5, <1>6, <1>7

\* A number whose digits are reversed twice is what it was.
LEMMA ReversedTwice ==
  ASSUME NEW n \in Widths, NEW x \in 0..Limit(n) - 1
  PROVE  Reversed(x, n) \in 0..Limit(n) - 1 /\ Reversed(Reversed(x, n), n) = x
<1> DEFINE W == Limit(WORD)
<1>1. BASE \in Nat /\ BASE > 0 /\ W = BASE * BASE /\ W \in Nat /\ W > 0 /\ Limit(XWORD) = W * W
  BY Limits
<1>2. CASE n = WORD
  BY <1>1, <1>2, ExchangedTwice DEF Reversed
<1>3. CASE n = XWORD
  <2> DEFINE R(y) == Exchanged(y, BASE)
             hi == x \div W
             lo == x % W
  <2>1. \A y \in 0..W - 1 : R(y) \in 0..W - 1 /\ R(R(y)) = y
    BY <1>1, ExchangedTwice
  <2>2. x \in Nat /\ x < W * W
    BY <1>1, <1>3
  <2>3. lo \in 0..W - 1 /\ hi \in Nat /\ x = hi * W + lo
    BY <1>1, <2>2, Divided
  <2>4. hi \in 0..W - 1 /\ hi % W = hi
    <3>1. hi * W < W * W
      BY <1>1, <2>2, <2>3
    <3>2. hi < W
      BY <1>1, <2>3, <3>1, QuotientBound
    <3> QED
      BY <1>1, <2>3, <3>2
  <2>5. \A y : Reversed(y, n) = R(y % W) * W + R((y \div W) % W)
    BY <1>3 DEF Reversed, WORD, XWORD
  <2> HIDE DEF W, R
  <2> DEFINE a == R(lo)
             b == R(hi)
  <2>6. a \in 0..W - 1 /\ b \in 0..W - 1 /\ R(a) = lo /\ R(b) = hi
    BY <2>1, <2>3, <2>4
  <2>7. Reversed(x, n) = a * W + b
    BY <2>4, <2>5
  <2> HIDE DEF hi, lo, a, b
  <2>8. (a * W + b) % W = b /\ (a * W + b) \div W = a /\ a % W = a
    BY <1>1, <2>6, QuotientUnique
  <2>9. Reversed(a * W + b, n) = hi * W + lo
    BY <2>5, <2>6, <2>8
  <2>10. a * W + b \in 0..W * W - 1
    <3>1. W * a + b \in 0..W * W - 1 /\ W * a = a * W
      BY <1>1, <2>6, ProductBound
    <3> QED
      BY <3>1
  <2> QED
    BY <1>1, <1>3, <2>3, <2>7, <2>9, <2>10
<1> QED
  BY <1>2, <1>3 DEF Widths

\* What is converted and read back is what it was.
LEMMA ConvertedTwice ==
  ASSUME NEW n \in Widths, NEW x \in 0..Limit(n) - 1
  PROVE  convertor(x, n) \in 0..Limit(n) - 1 /\ convertor(convertor(x, n), n) = x
BY ReversedTwice DEF convertor

\* A number in the file reads as a number, whatever it is.
LEMMA ConvertorType ==
  ASSUME NEW n \in Widths, NEW x \in Nat
  PROVE  convertor(x, n) \in Nat
<1>1. \A y \in Nat : \A m \in Nat : m > 0 => Exchanged(y, m) \in Nat
  <2> SUFFICES ASSUME NEW y \in Nat, NEW m \in Nat, m > 0 PROVE Exchanged(y, m) \in Nat
    OBVIOUS
  <2>1. y % m \in Nat /\ (y \div m) % m \in Nat
    OBVIOUS
  <2> QED
    BY <2>1 DEF Exchanged
<1>2. BASE \in Nat /\ BASE > 0 /\ Limit(WORD) \in Nat /\ Limit(WORD) > 0
  BY Limits
<1>3. x % Limit(WORD) \in Nat /\ (x \div Limit(WORD)) % Limit(WORD) \in Nat
  BY <1>2
<1>4. Reversed(x, n) \in Nat
  <2> DEFINE a == Exchanged(x % Limit(WORD), BASE)
             b == Exchanged((x \div Limit(WORD)) % Limit(WORD), BASE)
  <2>1. a \in Nat /\ b \in Nat /\ Exchanged(x, BASE) \in Nat
    BY <1>1, <1>2, <1>3
  <2>2. Reversed(x, n) = IF n = WORD THEN Exchanged(x, BASE) ELSE a * Limit(WORD) + b
    BY DEF Reversed
  <2> HIDE DEF a, b
  <2> QED
    BY <1>2, <2>1, <2>2
<1> QED
  BY <1>4 DEF convertor

\* What is cut to a field fits it, and what fits it is not cut.
LEMMA TruncatedFits ==
  ASSUME NEW n \in {HALF, WORD, XWORD}, NEW x \in Nat
  PROVE  /\ Truncated(x, n) \in 0..Limit(n) - 1
         /\ x < Limit(n) => Truncated(x, n) = x
<1>1. Limit(n) \in Nat /\ Limit(n) > 0
  BY Limits
<1> QED
  BY <1>1 DEF Truncated

(***************************************************************************)
(* Trails: what lies at each place, up to one where the trail stops.       *)
(***************************************************************************)

Nothing == <<>>
Joined(a, b) == a \o b
Listing(V) == Seq(V)

LEMMA JoinedLists ==
  ASSUME NEW V
  PROVE  /\ Nothing \in Listing(V)
         /\ \A b \in Listing(V) : Joined(Nothing, b) = b
         /\ \A a, b \in Listing(V) : Joined(a, b) \in Listing(V)
         /\ \A a, b, c \in Listing(V) : Joined(a, Joined(b, c)) = Joined(Joined(a, b), c)
<1> USE DEF Nothing, Joined, Listing
<1>1. Nothing \in Listing(V)
  OBVIOUS
<1>2. \A b \in Listing(V) : Joined(Nothing, b) = b
  OBVIOUS
<1>3. \A a, b \in Listing(V) : Joined(a, b) \in Listing(V)
  OBVIOUS
<1>4. \A a, b, c \in Listing(V) : Joined(a, Joined(b, c)) = Joined(Joined(a, b), c)
  OBVIOUS
<1> HIDE DEF Nothing, Joined, Listing
<1> QED
  BY <1>1, <1>2, <1>3, <1>4

Trail(f, S, stop, pre, next) == [k \in S |-> IF k \in stop THEN Nothing ELSE Joined(pre[k], f[next[k]])]
HasTrail(S, stop, pre, next) == \E f : f = Trail(f, S, stop, pre, next)

\* A trail on which a rank decreases is defined everywhere.
LEMMA TrailExists ==
  ASSUME NEW S, NEW N, NEW rank, NEW stop, NEW next, NEW pre, Ranked(S, N, rank, stop, next)
  PROVE  HasTrail(S, stop, pre, next)
<1> USE DEF Trail, HasTrail, Ranked
<1> DEFINE Below(m) == {k \in S : rank[k] < m}
           Trails(m) == \E f : f = [k \in Below(m) |-> IF k \in stop THEN Nothing ELSE Joined(pre[k], f[next[k]])]
<1>1. Trails(0)
  <2>1. Below(0) = {}
    OBVIOUS
  <2>2. [k \in Below(0) |-> 0]
          = [k \in Below(0) |-> IF k \in stop THEN Nothing ELSE Joined(pre[k], [l \in Below(0) |-> 0][next[k]])]
    BY <2>1
  <2> QED
    BY <2>2
<1>2. ASSUME NEW m \in Nat, Trails(m) PROVE Trails(m + 1)
  <2>1. PICK f : f = [k \in Below(m) |-> IF k \in stop THEN Nothing ELSE Joined(pre[k], f[next[k]])]
    BY <1>2
  <2> DEFINE g == [k \in Below(m + 1) |-> IF k \in stop THEN Nothing ELSE Joined(pre[k], f[next[k]])]
  <2>2. ASSUME NEW k \in Below(m + 1), k \notin stop PROVE g[next[k]] = f[next[k]]
    <3>1. next[k] \in Below(m) /\ next[k] \in Below(m + 1)
      BY <2>2
    <3> QED
      BY <2>1, <3>1
  <2>3. g = [k \in Below(m + 1) |-> IF k \in stop THEN Nothing ELSE Joined(pre[k], g[next[k]])]
    BY <2>2
  <2> QED
    BY <2>3
<1>3. \A m \in Nat : Trails(m)
  <2> DEFINE T == {m \in Nat : ~Trails(m)}
  <2> SUFFICES ASSUME T # {} PROVE FALSE
    OBVIOUS
  <2> HIDE DEF Trails
  <2>1. PICK m \in T : \A l \in T : m <= l
    BY LeastNat
  <2>2. m \in Nat /\ m # 0 /\ ~Trails(m)
    BY <1>1
  <2>3. m - 1 \in Nat /\ Trails(m - 1) /\ (m - 1) + 1 = m
    BY <2>1, <2>2
  <2> QED
    BY <1>2, <2>2, <2>3
<1>4. Below(N + 1) = S
  OBVIOUS
<1> QED
  BY <1>3, <1>4

\* What lies at each place of a part is in V: so is the whole trail.
Lies(C, stop, pre, V) == \A k \in C : k \notin stop => pre[k] \in Listing(V)

LEMMA TrailType ==
  ASSUME NEW S, NEW N, NEW rank, NEW stop, NEW next, NEW pre, Ranked(S, N, rank, stop, next),
         NEW f, f = Trail(f, S, stop, pre, next),
         NEW C, Closed(C, S, stop, next), NEW V, Lies(C, stop, pre, V)
  PROVE  \A k \in C : f[k] \in Listing(V)
<1> USE DEF Trail, Ranked, Closed, Lies
<1> DEFINE T == {rank[k] : k \in {l \in C : f[l] \notin Listing(V)}}
<1> SUFFICES ASSUME T # {} PROVE FALSE
  OBVIOUS
<1>1. T \subseteq Nat
  OBVIOUS
<1> HIDE DEF T
<1>2. PICK m \in T : \A l \in T : m <= l
  BY <1>1, LeastNat
<1>3. PICK k \in C : f[k] \notin Listing(V) /\ rank[k] = m
  BY <1>2 DEF T
<1>4. k \in S /\ f[k] = IF k \in stop THEN Nothing ELSE Joined(pre[k], f[next[k]])
  OBVIOUS
<1>5. Nothing \in Listing(V)
  BY JoinedLists
<1>6. k \notin stop
  BY <1>3, <1>4, <1>5
<1>7. next[k] \in C /\ rank[next[k]] < rank[k] /\ pre[k] \in Listing(V)
  BY <1>6
<1>8. f[next[k]] \notin Listing(V)
  BY <1>3, <1>4, <1>6, <1>7, JoinedLists
<1>9. rank[next[k]] \in T
  BY <1>7, <1>8 DEF T
<1> QED
  BY <1>1, <1>2, <1>3, <1>7, <1>9

\* The places of C have the same there and the same behind them in two trails,
\* but where the first one stops, the second goes on with tail.
GoesOn(C, stop, pre, next, g, T, stop2, pre2, next2, tail) ==
  /\ C \subseteq T
  /\ \A k \in C : k \in stop => g[k] = tail
  /\ \A k \in C : k \notin stop => k \notin stop2 /\ pre2[k] = pre[k] /\ next2[k] = next[k]

Grows(S, N, rank, stop, next, pre, f, C, V, T, stop2, pre2, next2, g, tail) ==
  /\ Ranked(S, N, rank, stop, next) /\ f = Trail(f, S, stop, pre, next)
  /\ Closed(C, S, stop, next) /\ Lies(C, stop, pre, V)
  /\ g = Trail(g, T, stop2, pre2, next2) /\ tail \in Listing(V)
  /\ GoesOn(C, stop, pre, next, g, T, stop2, pre2, next2, tail)

LEMMA TrailGrows ==
  ASSUME NEW S, NEW N, NEW rank, NEW stop, NEW next, NEW pre, NEW f, NEW C, NEW V,
         NEW T, NEW stop2, NEW pre2, NEW next2, NEW g, NEW tail,
         Grows(S, N, rank, stop, next, pre, f, C, V, T, stop2, pre2, next2, g, tail)
  PROVE  \A k \in C : f[k] \in Listing(V) /\ g[k] = Joined(f[k], tail)
<1>1. \A k \in C : f[k] \in Listing(V)
  <2>1. Ranked(S, N, rank, stop, next) /\ f = Trail(f, S, stop, pre, next) /\ Closed(C, S, stop, next) /\ Lies(C, stop, pre, V)
    BY DEF Grows
  <2> QED
    BY <2>1, TrailType
<1> USE DEF Trail, Ranked, Closed, GoesOn, Grows
<1> DEFINE Bad == {rank[k] : k \in {l \in C : g[l] # Joined(f[l], tail)}}
<1> SUFFICES ASSUME Bad # {} PROVE FALSE
  BY <1>1
<1>2. Bad \subseteq Nat
  OBVIOUS
<1> HIDE DEF Bad
<1>3. PICK m \in Bad : \A l \in Bad : m <= l
  BY <1>2, LeastNat
<1>4. PICK k \in C : g[k] # Joined(f[k], tail) /\ rank[k] = m
  BY <1>3 DEF Bad
<1>5. /\ f[k] = IF k \in stop THEN Nothing ELSE Joined(pre[k], f[next[k]])
      /\ g[k] = IF k \in stop2 THEN Nothing ELSE Joined(pre2[k], g[next2[k]])
  OBVIOUS
<1>6. Joined(Nothing, tail) = tail
  BY JoinedLists
<1>7. k \notin stop
  BY <1>4, <1>5, <1>6
<1>8. next[k] \in C /\ rank[next[k]] < rank[k] /\ pre[k] \in Listing(V) /\ f[next[k]] \in Listing(V)
  BY <1>1, <1>7 DEF Lies
<1>9. g[next[k]] # Joined(f[next[k]], tail)
  <2> SUFFICES ASSUME g[next[k]] = Joined(f[next[k]], tail) PROVE FALSE
    OBVIOUS
  <2>1. g[k] = Joined(pre[k], Joined(f[next[k]], tail))
    BY <1>5, <1>7
  <2>2. f[k] = Joined(pre[k], f[next[k]])
    BY <1>5, <1>7
  <2> QED
    BY <1>4, <1>8, <2>1, <2>2, JoinedLists
<1>10. rank[next[k]] \in Bad
  BY <1>8, <1>9 DEF Bad
<1> QED
  BY <1>2, <1>3, <1>4, <1>8, <1>10

(***************************************************************************)
(* Module attributes.                                                      *)
(***************************************************************************)

AttributesIn(d) ==
  LET from[k \in 1..Len(d) + 1] ==
        IF k > Len(d) THEN <<>>
        ELSE (IF d[k] = <<>> THEN <<>> ELSE <<Attribute(d[k])>>) \o from[k + 1]
  IN  from[1]

\* The trail of the attributes of a section.
Pieces(d) == [k \in 1..Len(d) |-> IF d[k] = <<>> THEN <<>> ELSE <<Attribute(d[k])>>]
Onward(n) == [k \in 1..n + 1 |-> IF k > n THEN k ELSE k + 1]
Left(n) == [k \in 1..n + 1 |-> n + 1 - k]
AttributeTrail(f, d) == Trail(f, 1..Len(d) + 1, {Len(d) + 1}, Pieces(d), Onward(Len(d)))

LEMMA OnwardRanked ==
  ASSUME NEW n \in Nat
  PROVE  /\ Ranked(1..n + 1, n + 1, Left(n), {n + 1}, Onward(n))
         /\ Closed(1..n + 1, 1..n + 1, {n + 1}, Onward(n))
<1>1. Onward(n) \in [1..n + 1 -> 1..n + 1] /\ Left(n) \in [1..n + 1 -> 0..n + 1]
  BY DEF Onward, Left
<1>2. ASSUME NEW k \in 1..n + 1, k \notin {n + 1}
      PROVE  Onward(n)[k] \in 1..n + 1 /\ Left(n)[Onward(n)[k]] < Left(n)[k]
  <2>1. k <= n /\ k + 1 \in 1..n + 1
    BY <1>2
  <2>2. Onward(n)[k] = k + 1
    BY <2>1 DEF Onward
  <2>3. Left(n)[k] = n + 1 - k /\ Left(n)[k + 1] = n - k
    BY <2>1 DEF Left
  <2> QED
    BY <2>1, <2>2, <2>3
<1> QED
  BY <1>1, <1>2 DEF Ranked, Closed

LEMMA AttributesAreTrail ==
  ASSUME NEW d, Len(d) \in Nat
  PROVE  \E f : f = AttributeTrail(f, d) /\ AttributesIn(d) = f[1]
<1> DEFINE n == Len(d)
           f == CHOOSE g : g = AttributeTrail(g, d)
<1>1. \A g : AttributeTrail(g, d) = [k \in 1..n + 1 |-> IF k > n THEN <<>>
                 ELSE (IF d[k] = <<>> THEN <<>> ELSE <<Attribute(d[k])>>) \o g[k + 1]]
  <2> SUFFICES ASSUME NEW g PROVE AttributeTrail(g, d) = [k \in 1..n + 1 |-> IF k > n THEN <<>>
                 ELSE (IF d[k] = <<>> THEN <<>> ELSE <<Attribute(d[k])>>) \o g[k + 1]]
    OBVIOUS
  <2>1. \A k \in 1..n + 1 : k \in {n + 1} <=> k > n
    OBVIOUS
  <2>2. \A k \in 1..n + 1 : ~(k > n) =>
           /\ Pieces(d)[k] = IF d[k] = <<>> THEN <<>> ELSE <<Attribute(d[k])>>
           /\ Onward(n)[k] = k + 1
    BY DEF Pieces, Onward
  <2> QED
    BY <2>1, <2>2, Zenon DEF AttributeTrail, Trail, Nothing, Joined
<1>2. f = AttributeTrail(f, d)
  <2>1. \E g : g = AttributeTrail(g, d)
    <3>1. Ranked(1..Len(d) + 1, Len(d) + 1, Left(Len(d)), {Len(d) + 1}, Onward(Len(d)))
      BY OnwardRanked
    <3>2. HasTrail(1..Len(d) + 1, {Len(d) + 1}, Pieces(d), Onward(Len(d)))
      BY <3>1, TrailExists
    <3> QED
      BY <3>2 DEF HasTrail, AttributeTrail
  <2> QED
    BY <2>1
<1>3. AttributesIn(d) = f[1]
  BY <1>1 DEF AttributesIn
<1> QED
  BY <1>2, <1>3

\* An attribute that is added is the last one.
LEMMA AttributeAdded ==
  ASSUME NEW X, NEW d \in Seq(X), NEW x \in X, x # <<>>
  PROVE  /\ AttributesIn(d) \in Listing({Attribute(y) : y \in X})
         /\ AttributesIn(d \o <<x>>) = Joined(AttributesIn(d), <<Attribute(x)>>)
<1> DEFINE V == {Attribute(y) : y \in X}
           n == Len(d)
           e == d \o <<x>>
           C == 1..n + 1
<1>1. /\ n \in Nat /\ Len(e) = n + 1 /\ Len(e) \in Nat /\ e[n + 1] = x
      /\ \A k \in 1..n : e[k] = d[k] /\ d[k] \in X
  OBVIOUS
<1> HIDE DEF n, e
<1>2. PICK f : f = AttributeTrail(f, d) /\ AttributesIn(d) = f[1]
  BY <1>1, AttributesAreTrail DEF n
<1>3. PICK g : g = AttributeTrail(g, e) /\ AttributesIn(e) = g[1]
  BY <1>1, AttributesAreTrail
<1>4. <<Attribute(x)>> \in Listing(V)
  BY DEF Listing
<1>5. Lies(C, {n + 1}, Pieces(d), V)
  <2> SUFFICES ASSUME NEW k \in C, k \notin {n + 1} PROVE Pieces(d)[k] \in Listing(V)
    BY DEF Lies
  <2>1. k \in 1..n /\ d[k] \in X
    BY <1>1
  <2>2. Attribute(d[k]) \in V
    BY <2>1
  <2>3. <<Attribute(d[k])>> \in Listing(V) /\ <<>> \in Listing(V)
    BY <2>2 DEF Listing
  <2>4. Pieces(d)[k] = IF d[k] = <<>> THEN <<>> ELSE <<Attribute(d[k])>>
    BY <2>1 DEF Pieces, n
  <2> QED
    BY <2>3, <2>4
<1>6. GoesOn(C, {n + 1}, Pieces(d), Onward(n), g, 1..Len(e) + 1, {Len(e) + 1}, Pieces(e), Onward(Len(e)), <<Attribute(x)>>)
  <2>1. C \subseteq 1..Len(e) + 1
    BY <1>1
  <2>2. g[n + 1] = <<Attribute(x)>>
    <3>1. n + 1 \in 1..Len(e) + 1 /\ n + 2 \in 1..Len(e) + 1 /\ n + 1 \notin {Len(e) + 1} /\ n + 2 \in {Len(e) + 1}
      BY <1>1
    <3>2. Onward(Len(e))[n + 1] = n + 2
      BY <1>1 DEF Onward
    <3>3. Pieces(e)[n + 1] = <<Attribute(x)>>
      BY <1>1 DEF Pieces
    <3>4. g[n + 2] = Nothing /\ g[n + 1] = Joined(<<Attribute(x)>>, g[n + 2])
      BY <1>3, <3>1, <3>2, <3>3 DEF AttributeTrail, Trail
    <3>5. <<Attribute(x)>> \o <<>> = <<Attribute(x)>>
      OBVIOUS
    <3> QED
      BY <3>4, <3>5 DEF Joined, Nothing
  <2>3. ASSUME NEW k \in C, k \notin {n + 1}
        PROVE  k \notin {Len(e) + 1} /\ Pieces(e)[k] = Pieces(d)[k] /\ Onward(Len(e))[k] = Onward(n)[k]
    <3>1. k \in 1..n /\ e[k] = d[k]
      BY <1>1, <2>3
    <3>2. Pieces(e)[k] = Pieces(d)[k]
      BY <1>1, <3>1 DEF Pieces, n
    <3> QED
      BY <1>1, <3>1, <3>2 DEF Onward
  <2> QED
    BY <2>1, <2>2, <2>3 DEF GoesOn
<1>7. Ranked(C, n + 1, Left(n), {n + 1}, Onward(n)) /\ Closed(C, C, {n + 1}, Onward(n))
  BY <1>1, OnwardRanked
<1>8. f = Trail(f, C, {n + 1}, Pieces(d), Onward(n)) /\ g = Trail(g, 1..Len(e) + 1, {Len(e) + 1}, Pieces(e), Onward(Len(e)))
  BY <1>2, <1>3 DEF AttributeTrail, n
<1>9. 1 \in C
  BY <1>1
<1> HIDE DEF C, V
<1>10. f[1] \in Listing(V) /\ g[1] = Joined(f[1], <<Attribute(x)>>)
  <2> DEFINE stop == {n + 1}
             pre == Pieces(d)
             next == Onward(n)
             rank == Left(n)
             top == n + 1
             T == 1..Len(e) + 1
             stop2 == {Len(e) + 1}
             pre2 == Pieces(e)
             next2 == Onward(Len(e))
             tail == <<Attribute(x)>>
  <2>1. Grows(C, top, rank, stop, next, pre, f, C, V, T, stop2, pre2, next2, g, tail)
    BY <1>4, <1>5, <1>6, <1>7, <1>8 DEF Grows
  <2> HIDE DEF stop, pre, next, rank, top, T, stop2, pre2, next2, tail
  <2>2. \A k \in C : f[k] \in Listing(V) /\ g[k] = Joined(f[k], tail)
    BY <2>1, TrailGrows
  <2> QED
    BY <1>9, <2>2 DEF tail
<1> QED
  BY <1>2, <1>3, <1>10 DEF V, e

Chars == STRING \union {EQUALS}

CutAt(s, m) == [field |-> SubSeq(s, 1, m - 1), value |-> SubSeq(s, m + 1, Len(s))]

\* An attribute is cut where it was put together.
LEMMA AttributeCut ==
  ASSUME NEW field \in Fields, NEW value \in Values
  PROVE  /\ Attribute(field \o <<EQUALS>> \o value) = [field |-> field, value |-> value]
         /\ field \o <<EQUALS>> \o value \in Seq(Chars) \ {<<>>}
<1> DEFINE s == field \o <<EQUALS>> \o value
           n == Len(field)
           signs == {k \in DOMAIN s : s[k] = EQUALS}
<1>1. field \in Seq(Chars) /\ value \in Seq(Chars) /\ <<EQUALS>> \in Seq(Chars) /\ Len(<<EQUALS>>) = 1 /\ <<EQUALS>>[1] = EQUALS
  <2>1. EQUALS \in Chars /\ STRING \subseteq Chars
    BY DEF Chars
  <2>2. ASSUME NEW q \in Seq(STRING) PROVE q \in Seq(Chars)
    BY <2>1, SeqMonotonic
  <2> QED
    BY <2>1, <2>2, EntriesAssumption
<1>2. \A k \in 1..n : field[k] # EQUALS
  BY <1>1, EntriesAssumption
<1>3. /\ s \in Seq(Chars) /\ n \in Nat /\ Len(value) \in Nat /\ Len(s) = n + 1 + Len(value)
      /\ \A k \in 1..n : s[k] = field[k]
      /\ s[n + 1] = EQUALS
      /\ \A k \in 1..Len(value) : s[(n + 1) + k] = value[k]
  <2> DEFINE t == field \o <<EQUALS>>
  <2>1. /\ t \in Seq(Chars) /\ Len(t) = n + 1 /\ n \in Nat
        /\ \A k \in 1..n : t[k] = field[k]
        /\ t[n + 1] = EQUALS
    BY <1>1, JoinedAt
  <2> HIDE DEF t
  <2>2. /\ t \o value \in Seq(Chars) /\ Len(t \o value) = Len(t) + Len(value) /\ Len(value) \in Nat
        /\ \A k \in 1..Len(t) : (t \o value)[k] = t[k]
        /\ \A k \in 1..Len(value) : (t \o value)[Len(t) + k] = value[k]
    <3>1. t \in Seq(Chars) /\ value \in Seq(Chars)
      BY <1>1, <2>1
    <3> QED
      BY <3>1, JoinedAt
  <2>3. s = t \o value
    BY DEF t
  <2> HIDE DEF s, n
  <2> QED
    BY <2>1, <2>2, <2>3
<1> HIDE DEF s, n
<1>4. DOMAIN s = 1..Len(s) /\ n + 1 \in 1..Len(s)
  BY <1>3
<1>5. n + 1 \in signs /\ signs \subseteq Nat
  BY <1>3, <1>4
<1>6. ASSUME NEW k \in signs PROVE n + 1 <= k
  <2>1. k \in 1..Len(s) /\ s[k] = EQUALS
    BY <1>4, <1>6
  <2>2. k \notin 1..n
    BY <1>2, <1>3, <2>1
  <2> QED
    BY <1>3, <2>1, <2>2
<1> HIDE DEF signs
<1>7. Min(signs) = n + 1
  <2>1. \A m \in signs : (\A k \in signs : m <= k) => m = n + 1
    BY <1>3, <1>5, <1>6
  <2> QED
    BY <1>5, <1>6, <2>1 DEF Min
<1>8. SubSeq(s, 1, n) = field
  <2>1. SubSeq(s, 0 + 1, 0 + n) = field
    BY <1>1, <1>3, PartIs DEF n
  <2> QED
    BY <1>3, <2>1
<1>9. SubSeq(s, n + 2, Len(s)) = value
  <2>1. SubSeq(s, (n + 1) + 1, (n + 1) + Len(value)) = value
    BY <1>1, <1>3, PartIs
  <2>2. (n + 1) + 1 = n + 2 /\ (n + 1) + Len(value) = Len(s)
    BY <1>3
  <2> QED
    BY <2>1, <2>2
<1>10. s # <<>>
  BY <1>3
<1>11. Attribute(s) = CutAt(s, n + 1)
  <2>1. Attribute(s) = IF signs = {} THEN [field |-> s, value |-> s] ELSE CutAt(s, Min(signs))
    BY Zenon DEF Attribute, CutAt, signs
  <2>2. signs # {} /\ Min(signs) = n + 1
    BY <1>7, <1>5
  <2> QED
    BY <2>1, <2>2
<1>12. CutAt(s, n + 1) = [field |-> field, value |-> value]
  <2>1. (n + 1) - 1 = n /\ (n + 1) + 1 = n + 2
    BY <1>3
  <2> QED
    BY <1>8, <1>9, <2>1, Zenon DEF CutAt
<1>13. Attribute(s) = [field |-> field, value |-> value] /\ s \in Seq(Chars) \ {<<>>}
  BY <1>3, <1>10, <1>11, <1>12
<1> QED
  BY <1>13 DEF s

(***************************************************************************)
(* Notes, as operators on the bytes of a section in either byte order.     *)
(***************************************************************************)
ConvIn(conv, x) == IF conv THEN Reversed(x, WORD) ELSE x
WordIn(conv, d, at) == ConvIn(conv, d[at + 1])
WordBytesIn(conv, x) == <<ConvIn(conv, x)>> \o [k \in 1..ALIGN - 1 |-> 0]
NoteBytesIn(conv, type, name, desc) ==
  WordBytesIn(conv, Len(name) + 1) \o WordBytesIn(conv, Len(desc)) \o WordBytesIn(conv, type)
    \o Padded(name \o <<0>>) \o Padded(desc)
EndIn(conv, d, at) == at + 3 * ALIGN + Up(WordIn(conv, d, at)) + Up(WordIn(conv, d, at + ALIGN))

StartsIn(conv, d) ==
  LET from[at \in 0..Len(d)] ==
        IF at + 3 * ALIGN > Len(d) THEN <<>>
        ELSE <<at>> \o IF EndIn(conv, d, at) > Len(d) THEN <<>> ELSE from[EndIn(conv, d, at)]
  IN  from[0]

NoteIn(conv, d, at) ==
  LET namesz == WordIn(conv, d, at)
      descsz == WordIn(conv, d, at + ALIGN)
      room   == Len(d) - at
      names  == at + 3 * ALIGN
  IN  IF namesz < 1 \/ namesz > room \/ namesz + descsz > room THEN [refused |-> at]
      ELSE [type |-> WordIn(conv, d, at + 2 * ALIGN), name |-> SubSeq(d, names + 1, names + namesz - 1),
            desc |-> SubSeq(d, names + Up(namesz) + 1, names + Up(namesz) + descsz)]

BoundsIn(conv, d, bounds) ==
  /\ {0, Len(d)} \subseteq bounds
  /\ \A at \in bounds \ {Len(d)} : at + 3 * ALIGN <= Len(d) /\ EndIn(conv, d, at) \in bounds

LEMMA ModBound ==
  ASSUME NEW x \in Int, NEW m \in Nat, m > 0
  PROVE  x % m \in 0..m - 1
OBVIOUS

LEMMA UpType ==
  ASSUME NEW x \in Nat
  PROVE  Up(x) \in Nat /\ Up(x) >= x
<1>1. ALIGN \in Nat /\ ALIGN > 0
  BY EntriesAssumption
<1>2. -x \in Int
  OBVIOUS
<1>3. (-x) % ALIGN \in 0..ALIGN - 1
  BY <1>1, <1>2, ModBound
<1>4. (-x) % ALIGN \in Nat
  BY <1>1, <1>3
<1> QED
  BY <1>4 DEF Up

LEMMA ConvInIs ==
  ASSUME NEW conv \in BOOLEAN
  PROVE  /\ \A x \in Nat : ConvIn(conv, x) \in Nat
         /\ \A x \in 0..Limit(WORD) - 1 : ConvIn(conv, x) \in Nat /\ ConvIn(conv, ConvIn(conv, x)) = x
<1>1. Limit(WORD) \in Nat /\ BASE \in Nat /\ BASE > 0 /\ WORD \in Widths
  BY Limits DEF Widths
<1>2. \A x \in Nat : Reversed(x, WORD) \in Nat
  <2> SUFFICES ASSUME NEW x \in Nat PROVE Reversed(x, WORD) \in Nat
    OBVIOUS
  <2>1. x % BASE \in Nat /\ (x \div BASE) % BASE \in Nat
    BY <1>1
  <2>2. BASE * (x % BASE) \in Nat
    BY <1>1, <2>1
  <2> QED
    BY <2>1, <2>2 DEF Reversed, Exchanged
<1>3. \A x \in 0..Limit(WORD) - 1 : x \in Nat /\ Reversed(Reversed(x, WORD), WORD) = x
  BY <1>1, ReversedTwice
<1> QED
  BY <1>2, <1>3 DEF ConvIn

\* A note that starts inside a section ends behind its three words.
LEMMA EndType ==
  ASSUME NEW conv \in BOOLEAN, NEW d \in Seq(Nat), NEW at \in Nat, at + 3 * ALIGN <= Len(d)
  PROVE  /\ WordIn(conv, d, at) \in Nat /\ WordIn(conv, d, at + ALIGN) \in Nat
         /\ EndIn(conv, d, at) \in Nat
         /\ EndIn(conv, d, at) >= at + 3 * ALIGN + Up(WordIn(conv, d, at)) + WordIn(conv, d, at + ALIGN)
         /\ EndIn(conv, d, at) >= at + 3 * ALIGN
<1>1. ALIGN \in Nat /\ ALIGN > 0 /\ Len(d) \in Nat
  BY EntriesAssumption
<1>2. at + 1 \in 1..Len(d) /\ at + ALIGN + 1 \in 1..Len(d)
  BY <1>1
<1>3. d[at + 1] \in Nat /\ d[at + ALIGN + 1] \in Nat
  BY <1>2
<1>4. WordIn(conv, d, at) \in Nat /\ WordIn(conv, d, at + ALIGN) \in Nat
  BY <1>3, ConvInIs DEF WordIn
<1> DEFINE u == Up(WordIn(conv, d, at))
           v == Up(WordIn(conv, d, at + ALIGN))
<1>5. u \in Nat /\ v \in Nat /\ v >= WordIn(conv, d, at + ALIGN)
  BY <1>4, UpType
<1>6. EndIn(conv, d, at) = at + 3 * ALIGN + u + v
  BY DEF EndIn
<1> HIDE DEF u, v
<1>7. /\ EndIn(conv, d, at) \in Nat /\ EndIn(conv, d, at) >= at + 3 * ALIGN
      /\ EndIn(conv, d, at) >= at + 3 * ALIGN + u + WordIn(conv, d, at + ALIGN)
  BY <1>1, <1>4, <1>5, <1>6
<1> QED
  BY <1>4, <1>7 DEF u

\* The trail of the notes of a section.
Within(d) == 0..Len(d)
Closing(d) == {at \in Within(d) : at + 3 * ALIGN > Len(d)}
Places(d) == [at \in Within(d) |-> <<at>>]
After(conv, d) == [at \in Within(d) |-> IF at \in Closing(d) \/ EndIn(conv, d, at) > Len(d) THEN Len(d) ELSE EndIn(conv, d, at)]
Ahead(d) == [at \in Within(d) |-> Len(d) - at]
NoteTrail(f, conv, d) == Trail(f, Within(d), Closing(d), Places(d), After(conv, d))

LEMMA NotesRanked ==
  ASSUME NEW conv \in BOOLEAN, NEW d \in Seq(Nat)
  PROVE  Ranked(Within(d), Len(d), Ahead(d), Closing(d), After(conv, d)) /\ Len(d) \in Closing(d)
<1>1. ALIGN \in Nat /\ ALIGN > 0 /\ Len(d) \in Nat
  BY EntriesAssumption
<1>2. Len(d) \in Closing(d)
  BY <1>1 DEF Closing, Within
<1>3. ASSUME NEW at \in Within(d)
      PROVE  /\ After(conv, d)[at] \in Within(d)
             /\ at \notin Closing(d) => After(conv, d)[at] > at
  <2>1. at \in Nat /\ at <= Len(d)
    BY <1>1 DEF Within
  <2>2. CASE at \in Closing(d)
    BY <1>1, <2>1, <2>2 DEF After, Within
  <2>3. CASE at \notin Closing(d)
    <3>1. at + 3 * ALIGN <= Len(d)
      BY <1>1, <2>1, <2>3 DEF Closing
    <3>2. EndIn(conv, d, at) \in Nat /\ EndIn(conv, d, at) >= at + 3 * ALIGN
      BY <2>1, <3>1, EndType
    <3>3. After(conv, d)[at] = IF EndIn(conv, d, at) > Len(d) THEN Len(d) ELSE EndIn(conv, d, at)
      BY <2>3 DEF After
    <3>4. at < Len(d)
      BY <1>1, <2>1, <3>1
    <3> QED
      BY <1>1, <2>1, <3>1, <3>2, <3>3, <3>4 DEF Within
  <2> QED
    BY <2>2, <2>3
<1>4. After(conv, d) \in [Within(d) -> Within(d)]
  <2>1. After(conv, d) = [at \in Within(d) |-> After(conv, d)[at]]
    BY DEF After
  <2> HIDE DEF After
  <2> QED
    BY <1>3, <2>1
<1>5. Ahead(d) \in [Within(d) -> 0..Len(d)]
  BY <1>1 DEF Ahead, Within
<1>6. \A at \in Within(d) : at \notin Closing(d) => Ahead(d)[After(conv, d)[at]] < Ahead(d)[at]
  <2> SUFFICES ASSUME NEW at \in Within(d), at \notin Closing(d) PROVE Ahead(d)[After(conv, d)[at]] < Ahead(d)[at]
    OBVIOUS
  <2> DEFINE n == After(conv, d)[at]
  <2>1. n \in Within(d) /\ n > at
    BY <1>3
  <2> HIDE DEF n
  <2>2. Ahead(d)[n] < Ahead(d)[at]
    BY <1>1, <2>1 DEF Ahead, Within
  <2> QED
    BY <2>2 DEF n
<1> QED
  BY <1>1, <1>2, <1>4, <1>5, <1>6 DEF Ranked

LEMMA StartsAreTrail ==
  ASSUME NEW conv \in BOOLEAN, NEW d \in Seq(Nat)
  PROVE  \E f : f = NoteTrail(f, conv, d) /\ StartsIn(conv, d) = f[0]
<1> DEFINE n == Len(d)
           Found(g) == [at \in 0..Len(d) |->
                          IF at + 3 * ALIGN > Len(d) THEN <<>>
                          ELSE <<at>> \o IF EndIn(conv, d, at) > Len(d) THEN <<>> ELSE g[EndIn(conv, d, at)]]
           f == CHOOSE g : g = Found(g)
<1>1. /\ Len(d) \in Nat /\ Len(d) \in Closing(d) /\ Len(d) \in Within(d)
      /\ Ranked(Within(d), Len(d), Ahead(d), Closing(d), After(conv, d))
  BY NotesRanked DEF Closing
<1>2. ASSUME NEW g, g[Len(d)] = <<>> PROVE NoteTrail(g, conv, d) = Found(g)
  <2>1. \A at \in Within(d) : at \in Closing(d) <=> at + 3 * ALIGN > Len(d)
    BY DEF Closing
  <2>2. \A at \in Within(d) : at \notin Closing(d) =>
          /\ Places(d)[at] = <<at>>
          /\ g[After(conv, d)[at]] = IF EndIn(conv, d, at) > Len(d) THEN <<>> ELSE g[EndIn(conv, d, at)]
    BY <1>2 DEF Places, After
  <2> QED
    BY <2>1, <2>2, Zenon DEF NoteTrail, Trail, Nothing, Joined, Within
<1>3. \A g : g = NoteTrail(g, conv, d) => g[Len(d)] = <<>>
  BY <1>1 DEF NoteTrail, Trail, Nothing
<1>4. \A g : g = Found(g) => g[Len(d)] = <<>>
  BY <1>1 DEF Closing, Within
<1>5. \E g : g = NoteTrail(g, conv, d)
  <2>1. HasTrail(Within(d), Closing(d), Places(d), After(conv, d))
    BY <1>1, TrailExists
  <2> QED
    BY <2>1 DEF HasTrail, NoteTrail
<1>6. StartsIn(conv, d) = f[0]
  BY DEF StartsIn
<1> HIDE DEF Found
<1>7. f = Found(f)
  BY <1>2, <1>3, <1>5
<1> HIDE DEF f
<1>8. f = NoteTrail(f, conv, d)
  BY <1>2, <1>4, <1>7
<1> QED
  BY <1>6, <1>8

\* What lies in a section keeps its place when cells are put behind.
LEMMA PartKept ==
  ASSUME NEW V, NEW d \in Seq(V), NEW b \in Seq(V), NEW i \in Nat, NEW j \in Int, i >= 1, j <= Len(d)
  PROVE  SubSeq(d \o b, i, j) = SubSeq(d, i, j)
<1> DEFINE e == d \o b
<1>1. e \in Seq(V) /\ Len(e) >= Len(d) /\ \A k \in 1..Len(d) : e[k] = d[k]
  OBVIOUS
<1> HIDE DEF e
<1>2. CASE j < i
  <2>1. SubSeq(e, i, j) = <<>> /\ SubSeq(d, i, j) = <<>>
    BY <1>1, <1>2
  <2> QED
    BY <2>1 DEF e
<1>3. CASE j >= i
  <2> DEFINE s == SubSeq(e, i, j)
             t == SubSeq(d, i, j)
  <2>1. s \in Seq(V) /\ t \in Seq(V) /\ Len(s) = j - i + 1 /\ Len(t) = j - i + 1
    BY <1>1, <1>3
  <2>2. ASSUME NEW k \in 1..j - i + 1 PROVE s[k] = t[k]
    <3>1. s[k] = e[i + k - 1] /\ t[k] = d[i + k - 1] /\ i + k - 1 \in 1..Len(d)
      BY <1>1, <1>3, <2>2
    <3> QED
      BY <1>1, <3>1
  <2> HIDE DEF s, t
  <2>3. s = t
    BY <2>1, <2>2
  <2> QED
    BY <2>3 DEF s, t, e
<1> QED
  BY <1>2, <1>3

LEMMA PaddedIs ==
  ASSUME NEW b \in Seq(Nat)
  PROVE  /\ Padded(b) \in Seq(Nat) /\ Len(Padded(b)) = Up(Len(b)) /\ Len(b) \in Nat
         /\ \A k \in 1..Len(b) : Padded(b)[k] = b[k]
<1> DEFINE m == (-Len(b)) % ALIGN
           zeros == [k \in 1..m |-> 0]
<1>1. Len(b) \in Nat /\ m \in Nat
  BY ModBound, EntriesAssumption
<1> HIDE DEF m
<1>2. zeros \in Seq(Nat) /\ Len(zeros) = m
  BY <1>1
<1>3. Padded(b) = b \o zeros /\ Up(Len(b)) = Len(b) + m
  BY DEF Padded, Up, m
<1> HIDE DEF zeros
<1>4. /\ b \o zeros \in Seq(Nat) /\ Len(b \o zeros) = Len(b) + Len(zeros)
      /\ \A k \in 1..Len(b) : (b \o zeros)[k] = b[k]
  BY <1>2, JoinedAt
<1> QED
  BY <1>1, <1>2, <1>3, <1>4

LEMMA WordBytesIs ==
  ASSUME NEW conv \in BOOLEAN, NEW x \in 0..Limit(WORD) - 1
  PROVE  WordBytesIn(conv, x) \in Seq(Nat) /\ Len(WordBytesIn(conv, x)) = ALIGN /\ WordBytesIn(conv, x)[1] = ConvIn(conv, x)
<1> DEFINE zeros == [k \in 1..ALIGN - 1 |-> 0]
           first == <<ConvIn(conv, x)>>
<1>1. ALIGN \in Nat /\ ALIGN > 0 /\ ALIGN - 1 \in Nat
  BY EntriesAssumption
<1>2. zeros \in Seq(Nat) /\ Len(zeros) = ALIGN - 1
  BY <1>1
<1>3. first \in Seq(Nat) /\ Len(first) = 1 /\ first[1] = ConvIn(conv, x)
  BY ConvInIs
<1>4. WordBytesIn(conv, x) = first \o zeros
  BY DEF WordBytesIn
<1> HIDE DEF zeros, first
<1>5. /\ first \o zeros \in Seq(Nat) /\ Len(first \o zeros) = Len(first) + Len(zeros)
      /\ \A k \in 1..Len(first) : (first \o zeros)[k] = first[k]
  BY <1>2, <1>3, JoinedAt
<1>6. (first \o zeros)[1] = first[1]
  BY <1>3, <1>5
<1> QED
  BY <1>1, <1>2, <1>3, <1>4, <1>5, <1>6

LEMMA JoinedBytes ==
  ASSUME NEW a \in Seq(Nat), NEW b \in Seq(Nat)
  PROVE  /\ Joined(a, b) \in Seq(Nat) /\ Len(Joined(a, b)) = Len(a) + Len(b)
         /\ \A k \in 1..Len(a) : Joined(a, b)[k] = a[k]
         /\ \A k \in 1..Len(b) : Joined(a, b)[Len(a) + k] = b[k]
BY JoinedAt DEF Joined

\* What a note that is added looks like.
NoteFields(conv, type, name, desc, at, nb, U, V) ==
  /\ nb \in Seq(Nat) /\ U \in Nat /\ V \in Nat
  /\ U >= Len(name) + 1 /\ V >= Len(desc) /\ Len(name) \in Nat /\ Len(desc) \in Nat
  /\ Len(nb) = at + 3 * ALIGN + U + V
  /\ nb[at + 1] = ConvIn(conv, Len(name) + 1) /\ nb[at + ALIGN + 1] = ConvIn(conv, Len(desc))
  /\ nb[at + 2 * ALIGN + 1] = ConvIn(conv, type)
  /\ \A k \in 1..Len(name) : nb[at + 3 * ALIGN + k] = name[k]
  /\ \A k \in 1..Len(desc) : nb[at + 3 * ALIGN + U + k] = desc[k]

Sizes(name, desc) == Len(name) + 1 < Limit(WORD) /\ Len(desc) < Limit(WORD)

LEMMA NoteLaid ==
  ASSUME NEW conv \in BOOLEAN, NEW d \in Seq(Nat), NEW type \in 0..Limit(WORD) - 1,
         NEW name \in Seq(Nat), NEW desc \in Seq(Nat), Sizes(name, desc)
  PROVE  /\ NoteBytesIn(conv, type, name, desc) \in Seq(Nat)
         /\ NoteFields(conv, type, name, desc, Len(d), d \o NoteBytesIn(conv, type, name, desc), Up(Len(name) + 1), Up(Len(desc)))
<1> DEFINE A == ALIGN
           n == Len(d)
           U == Up(Len(name) + 1)
           V == Up(Len(desc))
           w1 == WordBytesIn(conv, Len(name) + 1)
           w2 == WordBytesIn(conv, Len(desc))
           w3 == WordBytesIn(conv, type)
           p1 == Padded(name \o <<0>>)
           p2 == Padded(desc)
<1>1. A \in Nat /\ A > 0 /\ n \in Nat /\ Len(name) \in Nat /\ Len(desc) \in Nat
  BY EntriesAssumption
<1>2. Len(name) + 1 \in 0..Limit(WORD) - 1 /\ Len(desc) \in 0..Limit(WORD) - 1
  BY <1>1, Limits DEF Sizes
<1>3. U \in Nat /\ V \in Nat /\ U >= Len(name) + 1 /\ V >= Len(desc)
  <2>1. Len(name) + 1 \in Nat /\ Len(desc) \in Nat
    BY <1>1
  <2> QED
    BY <2>1, UpType
<1>4. /\ w1 \in Seq(Nat) /\ Len(w1) = A /\ w1[1] = ConvIn(conv, Len(name) + 1)
      /\ w2 \in Seq(Nat) /\ Len(w2) = A /\ w2[1] = ConvIn(conv, Len(desc))
      /\ w3 \in Seq(Nat) /\ Len(w3) = A /\ w3[1] = ConvIn(conv, type)
  BY <1>2, WordBytesIs
<1>5. /\ name \o <<0>> \in Seq(Nat) /\ Len(name \o <<0>>) = Len(name) + 1
      /\ \A k \in 1..Len(name) : (name \o <<0>>)[k] = name[k]
  OBVIOUS
<1>6. p1 \in Seq(Nat) /\ Len(p1) = U /\ \A k \in 1..Len(name) : p1[k] = name[k]
  <2> DEFINE ended == name \o <<0>>
  <2>1. ended \in Seq(Nat) /\ Len(ended) = Len(name) + 1 /\ \A k \in 1..Len(name) : ended[k] = name[k]
    BY <1>5
  <2> HIDE DEF ended
  <2>2. Padded(ended) \in Seq(Nat) /\ Len(Padded(ended)) = Up(Len(ended)) /\ \A k \in 1..Len(ended) : Padded(ended)[k] = ended[k]
    BY <2>1, PaddedIs
  <2>3. p1 = Padded(ended) /\ U = Up(Len(ended))
    BY <2>1 DEF ended
  <2> HIDE DEF p1, U
  <2>4. \A k \in 1..Len(name) : k \in 1..Len(ended)
    BY <1>1, <2>1
  <2> QED
    BY <2>1, <2>2, <2>3, <2>4
<1>7. p2 \in Seq(Nat) /\ Len(p2) = V /\ \A k \in 1..Len(desc) : p2[k] = desc[k]
  BY PaddedIs
<1>8. NoteBytesIn(conv, type, name, desc) = w1 \o w2 \o w3 \o p1 \o p2
  BY DEF NoteBytesIn
<1> HIDE DEF A, n, U, V, w1, w2, w3, p1, p2
<1> DEFINE s1 == Joined(d, w1)
<1>9. s1 \in Seq(Nat) /\ Len(s1) = n + A /\ s1[n + 1] = ConvIn(conv, Len(name) + 1)
  <2>1. /\ s1 \in Seq(Nat) /\ Len(s1) = Len(d) + Len(w1)
        /\ \A k \in 1..Len(w1) : s1[Len(d) + k] = w1[k]
    BY <1>4, JoinedBytes
  <2> HIDE DEF s1
  <2> QED
    BY <1>1, <1>4, <2>1 DEF n
<1> DEFINE s2 == Joined(s1, w2)
<1> HIDE DEF s1
<1>10. s2 \in Seq(Nat) /\ Len(s2) = n + 2 * A /\ s2[n + 1] = ConvIn(conv, Len(name) + 1) /\ s2[n + A + 1] = ConvIn(conv, Len(desc))
  <2>1. /\ s2 \in Seq(Nat) /\ Len(s2) = Len(s1) + Len(w2)
        /\ \A k \in 1..Len(s1) : s2[k] = s1[k]
        /\ \A k \in 1..Len(w2) : s2[Len(s1) + k] = w2[k]
    BY <1>4, <1>9, JoinedBytes
  <2> HIDE DEF s2
  <2>2. n + 1 \in 1..Len(s1) /\ 1 \in 1..Len(w2)
    BY <1>1, <1>4, <1>9
  <2>3. s2[n + 1] = s1[n + 1] /\ s2[Len(s1) + 1] = w2[1]
    BY <2>1, <2>2
  <2>4. Len(s1) + 1 = n + A + 1 /\ Len(s1) + Len(w2) = n + 2 * A
    BY <1>1, <1>4, <1>9
  <2> QED
    BY <1>4, <1>9, <2>1, <2>3, <2>4
<1> DEFINE s3 == Joined(s2, w3)
<1> HIDE DEF s2
<1>11. /\ s3 \in Seq(Nat) /\ Len(s3) = n + 3 * A
       /\ s3[n + 1] = ConvIn(conv, Len(name) + 1) /\ s3[n + A + 1] = ConvIn(conv, Len(desc)) /\ s3[n + 2 * A + 1] = ConvIn(conv, type)
  <2>1. /\ s3 \in Seq(Nat) /\ Len(s3) = Len(s2) + Len(w3)
        /\ \A k \in 1..Len(s2) : s3[k] = s2[k]
        /\ \A k \in 1..Len(w3) : s3[Len(s2) + k] = w3[k]
    BY <1>4, <1>10, JoinedBytes
  <2> HIDE DEF s3
  <2>2. n + 1 \in 1..Len(s2) /\ n + A + 1 \in 1..Len(s2) /\ 1 \in 1..Len(w3)
    BY <1>1, <1>4, <1>10
  <2> QED
    BY <1>1, <1>4, <1>10, <2>1, <2>2
<1> DEFINE s4 == Joined(s3, p1)
<1> HIDE DEF s3
<1>12. /\ s4 \in Seq(Nat) /\ Len(s4) = n + 3 * A + U
       /\ s4[n + 1] = ConvIn(conv, Len(name) + 1) /\ s4[n + A + 1] = ConvIn(conv, Len(desc)) /\ s4[n + 2 * A + 1] = ConvIn(conv, type)
       /\ \A k \in 1..Len(name) : s4[n + 3 * A + k] = name[k]
  <2>1. /\ s4 \in Seq(Nat) /\ Len(s4) = Len(s3) + Len(p1)
        /\ \A k \in 1..Len(s3) : s4[k] = s3[k]
        /\ \A k \in 1..Len(p1) : s4[Len(s3) + k] = p1[k]
    BY <1>6, <1>11, JoinedBytes
  <2> HIDE DEF s4
  <2>2. n + 1 \in 1..Len(s3) /\ n + A + 1 \in 1..Len(s3) /\ n + 2 * A + 1 \in 1..Len(s3)
    BY <1>1, <1>11
  <2>3. \A k \in 1..Len(name) : k \in 1..Len(p1)
    BY <1>1, <1>3, <1>6
  <2> QED
    BY <1>1, <1>3, <1>6, <1>11, <2>1, <2>2, <2>3
<1> DEFINE s5 == Joined(s4, p2)
<1> HIDE DEF s4
<1>13. /\ s5 \in Seq(Nat) /\ Len(s5) = n + 3 * A + U + V
       /\ s5[n + 1] = ConvIn(conv, Len(name) + 1) /\ s5[n + A + 1] = ConvIn(conv, Len(desc)) /\ s5[n + 2 * A + 1] = ConvIn(conv, type)
       /\ \A k \in 1..Len(name) : s5[n + 3 * A + k] = name[k]
       /\ \A k \in 1..Len(desc) : s5[n + 3 * A + U + k] = desc[k]
  <2>1. /\ s5 \in Seq(Nat) /\ Len(s5) = Len(s4) + Len(p2)
        /\ \A k \in 1..Len(s4) : s5[k] = s4[k]
        /\ \A k \in 1..Len(p2) : s5[Len(s4) + k] = p2[k]
    BY <1>7, <1>12, JoinedBytes
  <2> HIDE DEF s5
  <2>2. n + 1 \in 1..Len(s4) /\ n + A + 1 \in 1..Len(s4) /\ n + 2 * A + 1 \in 1..Len(s4)
    <3>1. Len(s4) = n + 3 * A + U
      BY <1>12
    <3> QED
      BY <1>1, <1>3, <3>1
  <2>3. \A k \in 1..Len(name) : n + 3 * A + k \in 1..Len(s4)
    BY <1>1, <1>3, <1>12
  <2>4. \A k \in 1..Len(desc) : k \in 1..Len(p2)
    BY <1>1, <1>3, <1>7
  <2> QED
    BY <1>1, <1>3, <1>7, <1>12, <2>1, <2>2, <2>3, <2>4
<1>14. d \o NoteBytesIn(conv, type, name, desc) = s5 /\ NoteBytesIn(conv, type, name, desc) \in Seq(Nat)
  <2>1. /\ \A a, b \in Listing(Nat) : Joined(a, b) \in Listing(Nat)
        /\ \A a, b, c \in Listing(Nat) : Joined(a, Joined(b, c)) = Joined(Joined(a, b), c)
    BY JoinedLists
  <2>2. d \in Listing(Nat) /\ w1 \in Listing(Nat) /\ w2 \in Listing(Nat) /\ w3 \in Listing(Nat) /\ p1 \in Listing(Nat) /\ p2 \in Listing(Nat)
    BY <1>4, <1>6, <1>7 DEF Listing
  <2>3. d \o NoteBytesIn(conv, type, name, desc) = Joined(d, Joined(Joined(Joined(Joined(w1, w2), w3), p1), p2))
    BY <1>8 DEF Joined
  <2>4. s5 = Joined(Joined(Joined(Joined(Joined(d, w1), w2), w3), p1), p2)
    BY DEF s1, s2, s3, s4, s5
  <2> DEFINE t2 == Joined(w1, w2)
             t3 == Joined(t2, w3)
             t4 == Joined(t3, p1)
  <2>5. t2 \in Listing(Nat) /\ Joined(d, t2) = Joined(Joined(d, w1), w2)
    BY <2>1, <2>2
  <2> HIDE DEF t2
  <2>6. t3 \in Listing(Nat) /\ Joined(d, t3) = Joined(Joined(d, t2), w3)
    BY <2>1, <2>2, <2>5
  <2> HIDE DEF t3
  <2>7. t4 \in Listing(Nat) /\ Joined(d, t4) = Joined(Joined(d, t3), p1)
    BY <2>1, <2>2, <2>6
  <2> HIDE DEF t4
  <2>8. Joined(d, Joined(t4, p2)) = Joined(Joined(d, t4), p2)
    BY <2>1, <2>2, <2>7
  <2>9. d \o NoteBytesIn(conv, type, name, desc) = Joined(d, Joined(t4, p2))
    BY <2>3 DEF t2, t3, t4
  <2>10. NoteBytesIn(conv, type, name, desc) = Joined(t4, p2)
    BY <1>8 DEF Joined, t2, t3, t4
  <2>11. NoteBytesIn(conv, type, name, desc) \in Seq(Nat)
    BY <2>1, <2>2, <2>7, <2>10 DEF Listing
  <2> QED
    BY <2>4, <2>5, <2>6, <2>7, <2>8, <2>9, <2>11
<1> HIDE DEF s5
<1> QED
  BY <1>1, <1>3, <1>13, <1>14 DEF NoteFields, A, n, U, V

\* A note that is added is read as it was given.
HasNote(conv, d, type, name, desc, e) ==
  /\ conv \in BOOLEAN /\ d \in Seq(Nat) /\ type \in 0..Limit(WORD) - 1
  /\ name \in Seq(Nat) /\ desc \in Seq(Nat) /\ Sizes(name, desc)
  /\ e = d \o NoteBytesIn(conv, type, name, desc)

ReadsNote(conv, d, type, name, desc, e) ==
  /\ e \in Seq(Nat) /\ \E nb \in Seq(Nat) : e = d \o nb
  /\ Len(d) + 3 * ALIGN <= Len(e) /\ EndIn(conv, e, Len(d)) = Len(e)
  /\ NoteIn(conv, e, Len(d)) = [type |-> type, name |-> name, desc |-> desc]

LEMMA NoteOf ==
  ASSUME NEW conv, NEW d, NEW type, NEW name, NEW desc, NEW e, HasNote(conv, d, type, name, desc, e)
  PROVE  ReadsNote(conv, d, type, name, desc, e)
<1> USE DEF HasNote
<1> DEFINE n == Len(d)
           U == Up(Len(name) + 1)
           V == Up(Len(desc))
<1>1. /\ NoteFields(conv, type, name, desc, n, e, U, V) /\ n \in Nat /\ ALIGN \in Nat /\ ALIGN > 0
      /\ \E nb \in Seq(Nat) : e = d \o nb
  <2>1. NoteBytesIn(conv, type, name, desc) \in Seq(Nat) /\ NoteFields(conv, type, name, desc, n, e, U, V)
    BY NoteLaid
  <2>2. \E nb \in Seq(Nat) : e = d \o nb
    BY <2>1
  <2>3. n \in Nat /\ ALIGN \in Nat /\ ALIGN > 0
    BY EntriesAssumption
  <2> HIDE DEF n, U, V
  <2> QED
    BY <2>1, <2>2, <2>3, Zenon
<1>2. U = Up(Len(name) + 1) /\ V = Up(Len(desc))
  OBVIOUS
<1> HIDE DEF n, U, V
<1>3. Len(name) + 1 \in 0..Limit(WORD) - 1 /\ Len(desc) \in 0..Limit(WORD) - 1
  <2>1. Len(name) \in Nat /\ Len(desc) \in Nat /\ Limit(WORD) \in Nat
    BY Limits
  <2> QED
    BY <2>1 DEF Sizes
<1>4. /\ WordIn(conv, e, n) = Len(name) + 1 /\ WordIn(conv, e, n + ALIGN) = Len(desc)
      /\ WordIn(conv, e, n + 2 * ALIGN) = type
  <2>1. \A x \in 0..Limit(WORD) - 1 : ConvIn(conv, ConvIn(conv, x)) = x
    BY ConvInIs
  <2> QED
    BY <1>1, <1>3, <2>1 DEF NoteFields, WordIn
<1>5. EndIn(conv, e, n) = n + 3 * ALIGN + U + V
  BY <1>2, <1>4 DEF EndIn
<1>6. EndIn(conv, e, n) = Len(e) /\ n + 3 * ALIGN <= Len(e)
  BY <1>1, <1>5 DEF NoteFields
<1> DEFINE names == n + 3 * ALIGN
<1>7. names \in Nat /\ names + Len(name) <= Len(e) /\ names + U + Len(desc) <= Len(e) /\ names + U \in Nat
  <2>1. /\ U \in Nat /\ V \in Nat /\ U >= Len(name) + 1 /\ V >= Len(desc) /\ Len(name) \in Nat /\ Len(desc) \in Nat
        /\ Len(e) = names + U + V
    BY <1>1 DEF NoteFields
  <2>2. names \in Nat
    BY <1>1
  <2> HIDE DEF names, HasNote
  <2> QED
    BY <2>1, <2>2
<1>8. SubSeq(e, names + 1, names + Len(name)) = name
  <2>1. e \in Seq(Nat) /\ \A k \in 1..Len(name) : e[names + k] = name[k]
    BY <1>1 DEF NoteFields
  <2>2. name \in Seq(Nat) /\ names \in Nat /\ names + Len(name) <= Len(e)
    BY <1>7
  <2> HIDE DEF names, HasNote
  <2> QED
    BY <2>1, <2>2, PartIs
<1>9. SubSeq(e, names + U + 1, names + U + Len(desc)) = desc
  <2> DEFINE at == names + U
  <2>1. e \in Seq(Nat) /\ \A k \in 1..Len(desc) : e[at + k] = desc[k]
    BY <1>1 DEF NoteFields
  <2>2. at \in Nat /\ at + Len(desc) <= Len(e)
    BY <1>7
  <2> HIDE DEF names, at
  <2>3. SubSeq(e, at + 1, at + Len(desc)) = desc
    BY <2>1, <2>2, PartIs
  <2> QED
    BY <2>3 DEF at
<1>10. NoteIn(conv, e, n) = [type |-> type, name |-> name, desc |-> desc]
  <2> DEFINE namesz == Len(name) + 1
             descsz == Len(desc)
             room == Len(e) - n
  <2>1. ~(namesz < 1 \/ namesz > room \/ namesz + descsz > room)
    <3>1. Len(e) = n + 3 * ALIGN + U + V /\ U \in Nat /\ V \in Nat /\ Len(name) \in Nat /\ Len(desc) \in Nat /\ U >= Len(name) + 1 /\ V >= Len(desc)
      BY <1>1 DEF NoteFields
    <3>2. room = 3 * ALIGN + U + V
      BY <1>1, <3>1
    <3> HIDE DEF room
    <3> QED
      BY <1>1, <3>1, <3>2
  <2>2. NoteIn(conv, e, n) =
          IF namesz < 1 \/ namesz > room \/ namesz + descsz > room THEN [refused |-> n]
          ELSE [type |-> type, name |-> SubSeq(e, names + 1, names + namesz - 1),
                desc |-> SubSeq(e, names + U + 1, names + U + descsz)]
    BY <1>2, <1>4 DEF NoteIn
  <2>3. names + namesz - 1 = names + Len(name)
    BY <1>1, <1>7 DEF NoteFields
  <2> HIDE DEF namesz, room, names
  <2>4. NoteIn(conv, e, n) = [type |-> type, name |-> SubSeq(e, names + 1, names + namesz - 1),
                              desc |-> SubSeq(e, names + U + 1, names + U + descsz)]
    BY <2>1, <2>2, Zenon
  <2> QED
    BY <1>8, <1>9, <2>3, <2>4, Zenon
<1> QED
  BY <1>1, <1>6, <1>10 DEF n, NoteFields, ReadsNote

\* The notes of a section start where its bounds are.
LEMMA StartsLie ==
  ASSUME NEW conv \in BOOLEAN, NEW d \in Seq(Nat), NEW bounds, bounds \subseteq Within(d), BoundsIn(conv, d, bounds)
  PROVE  StartsIn(conv, d) \in Listing(bounds \ {Len(d)})
<1> DEFINE V == bounds \ {Len(d)}
<1>1. PICK f : f = NoteTrail(f, conv, d) /\ StartsIn(conv, d) = f[0]
  BY StartsAreTrail
<1>2. Ranked(Within(d), Len(d), Ahead(d), Closing(d), After(conv, d)) /\ Len(d) \in Closing(d)
  BY NotesRanked
<1>3. ASSUME NEW at \in bounds, at \notin Closing(d)
      PROVE  at \in V /\ After(conv, d)[at] \in bounds /\ Places(d)[at] = <<at>>
  <2>1. at \in V /\ at \in Within(d)
    BY <1>2, <1>3
  <2>2. EndIn(conv, d, at) \in bounds
    BY <2>1 DEF BoundsIn
  <2>3. ~(EndIn(conv, d, at) > Len(d))
    <3>1. EndIn(conv, d, at) \in 0..Len(d)
      BY <2>2 DEF Within
    <3> QED
      BY <3>1
  <2>4. After(conv, d)[at] = EndIn(conv, d, at)
    BY <1>3, <2>1, <2>3 DEF After
  <2> QED
    BY <2>1, <2>2, <2>4 DEF Places
<1> HIDE DEF V
<1>4. Closed(bounds, Within(d), Closing(d), After(conv, d))
  BY <1>3 DEF Closed
<1>5. Lies(bounds, Closing(d), Places(d), V)
  <2>1. \A at \in V : <<at>> \in Listing(V)
    BY DEF Listing
  <2> QED
    BY <1>3, <2>1 DEF Lies
<1>6. \A at \in bounds : f[at] \in Listing(V)
  <2>1. f = Trail(f, Within(d), Closing(d), Places(d), After(conv, d))
    BY <1>1 DEF NoteTrail
  <2> QED
    BY <1>2, <1>4, <1>5, <2>1, TrailType
<1>7. 0 \in bounds
  BY DEF BoundsIn
<1> QED
  BY <1>1, <1>6, <1>7 DEF V

\* The notes of a section that are whole stay what they are when a note is
\* put behind them.
Extends(conv, d, e, bounds) ==
  /\ d \in Seq(Nat) /\ e \in Seq(Nat) /\ bounds \subseteq Within(d) /\ BoundsIn(conv, d, bounds)
  /\ \E nb \in Seq(Nat) : e = d \o nb
  /\ Len(d) + 3 * ALIGN <= Len(e) /\ EndIn(conv, e, Len(d)) = Len(e)

LEMMA NoteKept ==
  ASSUME NEW conv \in BOOLEAN, NEW d, NEW e, NEW bounds, Extends(conv, d, e, bounds), NEW at \in bounds \ {Len(d)}
  PROVE  /\ at \in Nat /\ at + 3 * ALIGN <= Len(d)
         /\ EndIn(conv, d, at) \in Nat /\ EndIn(conv, d, at) <= Len(d) /\ EndIn(conv, e, at) = EndIn(conv, d, at)
         /\ NoteIn(conv, e, at) = NoteIn(conv, d, at)
<1>1. d \in Seq(Nat) /\ Len(d) \in Nat /\ ALIGN \in Nat /\ ALIGN > 0
  BY EntriesAssumption DEF Extends
<1>2. PICK nb \in Seq(Nat) : e = d \o nb
  BY DEF Extends
<1>3. e \in Seq(Nat) /\ Len(e) \in Nat /\ Len(e) >= Len(d) /\ \A k \in 1..Len(d) : e[k] = d[k]
  BY <1>1, <1>2, JoinedAt
<1>4. at \in Nat /\ at + 3 * ALIGN <= Len(d) /\ EndIn(conv, d, at) <= Len(d)
  <2>1. bounds \subseteq 0..Len(d) /\ at + 3 * ALIGN <= Len(d) /\ EndIn(conv, d, at) \in bounds
    BY DEF Extends, BoundsIn, Within
  <2>2. at \in 0..Len(d) /\ EndIn(conv, d, at) \in 0..Len(d)
    BY <2>1
  <2> HIDE DEF EndIn
  <2> QED
    BY <1>1, <2>1, <2>2
<1>5. /\ WordIn(conv, d, at) \in Nat /\ WordIn(conv, d, at + ALIGN) \in Nat /\ EndIn(conv, d, at) \in Nat
      /\ EndIn(conv, d, at) >= at + 3 * ALIGN + Up(WordIn(conv, d, at)) + WordIn(conv, d, at + ALIGN)
  BY <1>1, <1>4, EndType
<1>6. \A w \in {at, at + ALIGN, at + 2 * ALIGN} : WordIn(conv, e, w) = WordIn(conv, d, w)
  <2>1. at + 1 \in 1..Len(d) /\ at + ALIGN + 1 \in 1..Len(d) /\ at + 2 * ALIGN + 1 \in 1..Len(d)
    BY <1>1, <1>4
  <2> QED
    BY <1>3, <2>1 DEF WordIn
<1>7. EndIn(conv, e, at) = EndIn(conv, d, at)
  BY <1>6 DEF EndIn
<1> DEFINE namesz == WordIn(conv, d, at)
           descsz == WordIn(conv, d, at + ALIGN)
           type == WordIn(conv, d, at + 2 * ALIGN)
           names == at + 3 * ALIGN
           U == Up(namesz)
           Refused(room) == namesz < 1 \/ namesz > room \/ namesz + descsz > room
           Read(s) == [type |-> type, name |-> SubSeq(s, names + 1, names + namesz - 1),
                       desc |-> SubSeq(s, names + U + 1, names + U + descsz)]
<1>8. U \in Nat /\ U >= namesz
  BY <1>5, UpType
<1>9. NoteIn(conv, d, at) = IF Refused(Len(d) - at) THEN [refused |-> at] ELSE Read(d)
  BY DEF NoteIn
<1>10. NoteIn(conv, e, at) = IF Refused(Len(e) - at) THEN [refused |-> at] ELSE Read(e)
  BY <1>6 DEF NoteIn
<1>11. names \in Nat /\ names + U + descsz <= Len(d) /\ namesz \in Nat /\ descsz \in Nat
  <2>1. namesz \in Nat /\ descsz \in Nat /\ EndIn(conv, d, at) >= names + U + descsz
    BY <1>5
  <2>2. names \in Nat
    BY <1>1, <1>4
  <2> HIDE DEF namesz, descsz, U, names
  <2> QED
    BY <1>1, <1>4, <1>5, <1>8, <2>1, <2>2
<1> HIDE DEF namesz, descsz, U
<1>12. Refused(Len(e) - at) <=> Refused(Len(d) - at)
  <2>1. namesz + descsz <= Len(d) - at /\ namesz <= Len(d) - at
    BY <1>1, <1>4, <1>8, <1>11
  <2>2. namesz + descsz <= Len(e) - at /\ namesz <= Len(e) - at
    BY <1>1, <1>3, <1>4, <1>11, <2>1
  <2>3. \A room \in Int : namesz + descsz <= room /\ namesz <= room => (Refused(room) <=> namesz < 1)
    BY <1>11
  <2>4. Len(d) - at \in Int /\ Len(e) - at \in Int
    BY <1>1, <1>3, <1>4
  <2> HIDE DEF Refused
  <2> QED
    BY <2>1, <2>2, <2>3, <2>4
<1>13. ~Refused(Len(d) - at) => Read(e) = Read(d)
  <2> SUFFICES ASSUME ~Refused(Len(d) - at) PROVE Read(e) = Read(d)
    OBVIOUS
  <2> HIDE DEF names
  <2>1. names + 1 \in Nat /\ names + 1 >= 1 /\ names + namesz - 1 \in Int /\ names + namesz - 1 <= Len(d)
    BY <1>1, <1>8, <1>11
  <2>2. names + U + 1 \in Nat /\ names + U + 1 >= 1 /\ names + U + descsz \in Int /\ names + U + descsz <= Len(d)
    BY <1>1, <1>8, <1>11
  <2>3. SubSeq(e, names + 1, names + namesz - 1) = SubSeq(d, names + 1, names + namesz - 1)
    BY <1>1, <1>2, <2>1, PartKept
  <2>4. SubSeq(e, names + U + 1, names + U + descsz) = SubSeq(d, names + U + 1, names + U + descsz)
    BY <1>1, <1>2, <2>2, PartKept
  <2> QED
    BY <2>3, <2>4, Zenon
<1> HIDE DEF Refused, Read
<1> QED
  BY <1>4, <1>5, <1>7, <1>9, <1>10, <1>12, <1>13

\* A note that is added is the last one.
LEMMA NoteAdded ==
  ASSUME NEW conv \in BOOLEAN, NEW d, NEW e, NEW bounds, Extends(conv, d, e, bounds)
  PROVE  /\ StartsIn(conv, e) = Joined(StartsIn(conv, d), <<Len(d)>>)
         /\ bounds \union {Len(e)} \subseteq Within(e) /\ BoundsIn(conv, e, bounds \union {Len(e)})
<1> DEFINE n == Len(d)
           C == bounds
           V == bounds \ {n}
           stop == Closing(d)
           next == After(conv, d)
           pre == Places(d)
           S == Within(d)
           T == Within(e)
           stop2 == Closing(e)
           pre2 == Places(e)
           next2 == After(conv, e)
           rank == Ahead(d)
           tail == <<n>>
<1>1. /\ d \in Seq(Nat) /\ e \in Seq(Nat) /\ n \in Nat /\ Len(e) \in Nat /\ ALIGN \in Nat /\ ALIGN > 0
      /\ n + 3 * ALIGN <= Len(e) /\ EndIn(conv, e, n) = Len(e)
      /\ C \subseteq 0..n /\ 0 \in C /\ n \in C
  BY EntriesAssumption DEF Extends, BoundsIn, Within
<1>2. ASSUME NEW at \in V
      PROVE  /\ at \in S /\ at \in T /\ at \notin stop /\ at \notin stop2
             /\ next[at] = EndIn(conv, d, at) /\ next2[at] = next[at] /\ next[at] \in C
             /\ pre[at] = <<at>> /\ pre2[at] = <<at>>
  <2>1. /\ at \in Nat /\ at + 3 * ALIGN <= n
        /\ EndIn(conv, d, at) \in Nat /\ EndIn(conv, d, at) <= n /\ EndIn(conv, e, at) = EndIn(conv, d, at)
    BY NoteKept
  <2>2. EndIn(conv, d, at) \in C
    BY DEF Extends, BoundsIn
  <2>3. at \in 0..n /\ at \in 0..Len(e) /\ ~(at + 3 * ALIGN > n) /\ ~(at + 3 * ALIGN > Len(e))
    BY <1>1, <2>1
  <2>4. at \in S /\ at \in T /\ at \notin stop /\ at \notin stop2
    BY <2>3 DEF Closing, Within
  <2>5. ~(EndIn(conv, d, at) > n) /\ ~(EndIn(conv, e, at) > Len(e))
    BY <1>1, <2>1
  <2>6. next[at] = EndIn(conv, d, at) /\ next2[at] = EndIn(conv, e, at)
    BY <2>4, <2>5 DEF After
  <2> QED
    BY <2>1, <2>2, <2>4, <2>6 DEF Places
<1>3. n \in stop /\ n \in T /\ n \notin stop2 /\ Len(e) \in stop2 /\ pre2[n] = <<n>> /\ next2[n] = Len(e)
  <2>1. n \in T /\ n \notin stop2 /\ n \in stop /\ Len(e) \in stop2
    BY <1>1 DEF Closing, Within
  <2>2. ~(EndIn(conv, e, n) > Len(e))
    BY <1>1
  <2> QED
    BY <1>1, <2>1, <2>2 DEF After, Places
<1>4. PICK f : f = NoteTrail(f, conv, d) /\ StartsIn(conv, d) = f[0]
  BY <1>1, StartsAreTrail
<1>5. PICK g : g = NoteTrail(g, conv, e) /\ StartsIn(conv, e) = g[0]
  BY <1>1, StartsAreTrail
<1>6. f = Trail(f, S, stop, pre, next) /\ g = Trail(g, T, stop2, pre2, next2)
  BY <1>4, <1>5 DEF NoteTrail
<1>7. Ranked(S, n, rank, stop, next)
  BY <1>1, NotesRanked
<1> HIDE DEF n, stop, next, pre, S, T, stop2, pre2, next2, rank
<1>8. Closed(C, S, stop, next)
  <2>1. C \subseteq S
    BY <1>1 DEF S, Within, n
  <2> QED
    BY <1>2, <1>3, <2>1 DEF Closed
<1>9. Lies(C, stop, pre, bounds)
  <2>1. \A at \in bounds : <<at>> \in Listing(bounds)
    BY DEF Listing
  <2>2. ASSUME NEW at \in C, at \notin stop PROVE pre[at] \in Listing(bounds)
    <3>1. at \in V
      BY <1>3, <2>2
    <3>2. pre[at] = <<at>>
      BY <1>2, <3>1
    <3> QED
      BY <2>1, <3>2
  <2> QED
    BY <2>2 DEF Lies
<1>10. tail \in Listing(bounds)
  BY <1>1 DEF Listing
<1>11. g[n] = tail
  <2>1. g[Len(e)] = Nothing /\ g[n] = Joined(<<n>>, g[Len(e)])
    <3>1. Len(e) \in T
      BY <1>1 DEF T, Within
    <3> QED
      BY <1>3, <1>6, <3>1 DEF Trail
  <2>2. <<n>> \o <<>> = <<n>>
    BY <1>1
  <2> QED
    BY <2>1, <2>2 DEF Joined, Nothing
<1>12. GoesOn(C, stop, pre, next, g, T, stop2, pre2, next2, tail)
  <2>1. C \subseteq T
    BY <1>2, <1>3
  <2> HIDE DEF tail
  <2> QED
    BY <1>2, <1>3, <1>11, <2>1 DEF GoesOn
<1> HIDE DEF C, V, tail
<1>13. \A at \in C : g[at] = Joined(f[at], tail)
  <2>1. Grows(S, n, rank, stop, next, pre, f, C, bounds, T, stop2, pre2, next2, g, tail)
    BY <1>6, <1>7, <1>8, <1>9, <1>10, <1>12 DEF Grows
  <2> QED
    BY <2>1, TrailGrows
<1>14. bounds \union {Len(e)} \subseteq Within(e) /\ BoundsIn(conv, e, bounds \union {Len(e)})
  <2> DEFINE more == bounds \union {Len(e)}
  <2>1. more \subseteq 0..Len(e) /\ {0, Len(e)} \subseteq more
    <3>1. bounds \subseteq 0..n /\ 0 \in bounds /\ n <= Len(e)
      BY <1>1 DEF C
    <3>2. \A at \in bounds : at \in 0..Len(e)
      BY <1>1, <3>1
    <3>3. Len(e) \in 0..Len(e)
      BY <1>1
    <3> QED
      BY <3>1, <3>2, <3>3
  <2>2. ASSUME NEW at \in more \ {Len(e)} PROVE at + 3 * ALIGN <= Len(e) /\ EndIn(conv, e, at) \in more
    <3>1. CASE at = n
      BY <1>1, <3>1
    <3>2. CASE at # n
      <4>1. at \in bounds \ {Len(d)}
        BY <2>2, <3>2 DEF n
      <4>2. /\ at \in Nat /\ at + 3 * ALIGN <= n /\ EndIn(conv, e, at) = EndIn(conv, d, at)
        BY <4>1, NoteKept DEF n
      <4>3. EndIn(conv, d, at) \in bounds
        BY <4>1 DEF Extends, BoundsIn
      <4> HIDE DEF EndIn
      <4> QED
        BY <1>1, <4>2, <4>3
    <3> QED
      BY <3>1, <3>2
  <2> QED
    BY <2>1, <2>2 DEF BoundsIn, Within
<1> QED
  BY <1>1, <1>4, <1>5, <1>13, <1>14 DEF C, n, tail

(***************************************************************************)
(* The strings of a dynamic section.                                       *)
(***************************************************************************)
Texts == STRING \union {Unwritten, "", "libc", "libm"}

StringTable(s) == Buffered(Texts, s) /\ s.type = "STRTAB"

LEMMA TableGrows ==
  ASSUME NEW s, StringTable(s), NEW str \in Texts
  PROVE  LET new == add_string(s, str) IN StringTable(new.sec) /\ FoundIn(s, new, str)
<1> DEFINE new == add_string(s, str)
<1>1. Buffered(Texts, s) /\ s.type = "STRTAB" /\ DOMAIN s = DOMAIN NewSection(0)
  BY DEF StringTable, Buffered
<1>2. Unwritten \in Texts /\ Blank \in Texts
  BY DEF Texts, Blank
<1>3. Buffered(Texts, new.sec) /\ FoundIn(s, new, str)
  BY <1>1, <1>2, StringAdded
<1> HIDE DEF new
<1>4. new.sec = [s EXCEPT !.data = new.sec.data, !.size = new.sec.size, !.stream_size = new.sec.stream_size]
  BY <1>3 DEF FoundIn
<1>5. new.sec.type = "STRTAB"
  BY <1>1, <1>4 DEF NewSection
<1> QED
  BY <1>3, <1>5 DEF StringTable, new

(***************************************************************************)
(* What holds of a section of each kind.                                   *)
(***************************************************************************)
Kinds == {"versym", "array", "modinfo", "note", "dynamic"}

EntriesTypeOK == kind \in DOMAIN Existing /\ elf_class \in {32, 64} /\ need_conversion \in BOOLEAN

VersymInv == data \in Seq(Nat) /\ added = data /\ view = Len(data)

ArrayInv == data \in Seq(Nat) /\ added = array_entries

ModinfoInv == data \in Seq(Seq(Chars)) /\ added = AttributesIn(data) /\ view = added

NoteInv ==
  /\ data \in Seq(Nat)
  /\ \E bounds : bounds \subseteq Within(data) /\ BoundsIn(need_conversion, data, bounds)
  /\ view = StartsIn(need_conversion, data)
  /\ added = [k \in DOMAIN view |-> NoteIn(need_conversion, data, view[k])]

\* A dynamic section shows its entries up to the first null.
DynamicInv ==
  /\ data \in Seq(Cell) /\ StringTable(strtab)
  /\ added = dynamic_entries(0)
  /\ \A k \in DOMAIN added : added[k].tag = DT_NEEDED => added[k].value < strtab.size
  /\ view \in 0..dynamic_entries_num
  /\ (elf_class = 32 /\ need_conversion) => FOREIGN_DYNAMIC

EntriesInv ==
  /\ EntriesTypeOK
  /\ kind = "versym" => VersymInv
  /\ kind = "array" => ArrayInv
  /\ kind = "modinfo" => ModinfoInv
  /\ kind = "note" => NoteInv
  /\ kind = "dynamic" => DynamicInv
  /\ kind \notin Kinds => added = <<>>

\* Notes are the same by either name.
LEMMA NotesIn ==
  ASSUME need_conversion \in BOOLEAN
  PROVE  /\ note_start_positions = StartsIn(need_conversion, data)
         /\ \A at : get_note(at) = NoteIn(need_conversion, data, at)
         /\ \A bounds : NoteBounds(bounds) <=> BoundsIn(need_conversion, data, bounds)
         /\ \A type, name, desc : NoteBytes(type, name, desc) = NoteBytesIn(need_conversion, type, name, desc)
<1>1. \A x : convertor(x, WORD) = ConvIn(need_conversion, x)
  BY DEF convertor, ConvIn
<1>2. \A at : WordAt(at) = WordIn(need_conversion, data, at)
  BY <1>1 DEF WordAt, WordIn
<1>3. \A at : NoteEnd(at) = EndIn(need_conversion, data, at)
  BY <1>2 DEF NoteEnd, EndIn
<1>4. note_start_positions = StartsIn(need_conversion, data)
  BY <1>3 DEF note_start_positions, StartsIn
<1>5. \A at : get_note(at) = NoteIn(need_conversion, data, at)
  BY <1>2 DEF get_note, NoteIn
<1>6. \A bounds : NoteBounds(bounds) <=> BoundsIn(need_conversion, data, bounds)
  BY <1>3 DEF NoteBounds, BoundsIn
<1>7. \A x : WordBytes(x) = WordBytesIn(need_conversion, x)
  BY <1>1 DEF WordBytes, WordBytesIn
<1>8. \A type, name, desc : NoteBytes(type, name, desc) = NoteBytesIn(need_conversion, type, name, desc)
  BY <1>7 DEF NoteBytes, NoteBytesIn
<1> QED
  BY <1>4, <1>5, <1>6, <1>8

LEMMA AttributesNamed == Attributes = AttributesIn(data)
BY DEF Attributes, AttributesIn

LEMMA ByKind ==
  /\ kind = "versym"  => Opened = Len(data)            /\ \A v : Entries(v) = versym_entries(v)
  /\ kind = "note"    => Opened = note_start_positions /\ \A v : Entries(v) = notes(v)
  /\ kind = "modinfo" => Opened = Attributes           /\ \A v : Entries(v) = v
  /\ kind = "array"   => Opened = 0                    /\ \A v : Entries(v) = array_entries
  /\ kind = "dynamic" => Opened = 0                    /\ \A v : Entries(v) = dynamic_entries(v)
  /\ kind \notin Kinds => Opened = 0 /\ \A v : Entries(v) = <<>>
BY DEF Opened, Entries, Kinds

LEMMA ExistingType ==
  ASSUME kind \in DOMAIN Existing, data \in Existing[kind]
  PROVE  /\ kind \in {"versym", "note", "array"} => data \in Seq(Nat)
         /\ kind = "modinfo" => data \in Seq(Seq(Chars))
         /\ kind = "dynamic" => data \in Seq(Cell)
<1>1. kind = "modinfo" => data \in Seq(Seq(STRING))
  BY EntriesAssumption
<1>2. Seq(STRING) \subseteq Seq(Chars)
  BY SeqMonotonic DEF Chars
<1>3. data \in Seq(Seq(STRING)) => data \in Seq(Seq(Chars))
  BY <1>2, SeqMonotonic
<1>4. kind = "dynamic" => data \in Seq(Cell)
  BY EntriesAssumption
<1>5. kind \in {"versym", "note", "array"} => data \in Seq(Nat)
  BY EntriesAssumption
<1> QED
  BY <1>1, <1>3, <1>4, <1>5

LEMMA NulsType ==
  ASSUME data \in Seq(Cell)
  PROVE  dynamic_entries_num \in 0..Len(data)
<1> DEFINE nulls == {k \in DOMAIN data : DynamicEntry(data[k]).tag = DT_NULL}
<1>1. Len(data) \in Nat /\ DOMAIN data = 1..Len(data)
  OBVIOUS
<1>2. nulls \union {Len(data)} \subseteq 0..Len(data) /\ nulls \union {Len(data)} # {}
  BY <1>1
<1>3. dynamic_entries_num = Min(nulls \union {Len(data)})
  BY DEF dynamic_entries_num
<1> HIDE DEF nulls
<1>4. Min(nulls \union {Len(data)}) \in nulls \union {Len(data)}
  <2> DEFINE S == nulls \union {Len(data)}
  <2>1. S \subseteq Nat /\ S # {}
    BY <1>1, <1>2
  <2> HIDE DEF S
  <2>2. Min(S) \in S
    BY <2>1, MinIsIn
  <2> QED
    BY <2>2 DEF S
<1> QED
  BY <1>2, <1>3, <1>4

LEMMA EntriesInitInv == EntriesInit => EntriesInv
<1> SUFFICES ASSUME EntriesInit PROVE EntriesInv
  OBVIOUS
<1>1. EntriesTypeOK /\ data \in Existing[kind] /\ view = Opened /\ added = Entries(view)
  BY DEF EntriesInit, EntriesTypeOK
<1>2. kind \in DOMAIN Existing /\ need_conversion \in BOOLEAN
  BY <1>1 DEF EntriesTypeOK
<1>3. ASSUME kind = "versym" PROVE VersymInv
  <2>1. data \in Seq(Nat) /\ view = Len(data) /\ added = versym_entries(Len(data))
    BY <1>1, <1>2, <1>3, ByKind, ExistingType
  <2> QED
    BY <2>1, WholeIs DEF VersymInv, versym_entries
<1>4. ASSUME kind = "array" PROVE ArrayInv
  BY <1>1, <1>2, <1>4, ByKind, ExistingType DEF ArrayInv
<1>5. ASSUME kind = "modinfo" PROVE ModinfoInv
  BY <1>1, <1>2, <1>5, ByKind, ExistingType, AttributesNamed DEF ModinfoInv
<1>6. ASSUME kind = "note" PROVE NoteInv
  <2>1. data \in Seq(Nat) /\ view = note_start_positions /\ added = notes(view)
    BY <1>1, <1>2, <1>6, ByKind, ExistingType
  <2>2. PICK bounds \in SUBSET (0..Len(data)) : BoundsIn(need_conversion, data, bounds)
    BY <1>2, <1>6, NotesIn DEF EntriesInit, WholeNotes
  <2>3. bounds \subseteq Within(data)
    BY DEF Within
  <2>4. view = StartsIn(need_conversion, data) /\ added = [k \in DOMAIN view |-> NoteIn(need_conversion, data, view[k])]
    BY <1>2, <2>1, NotesIn DEF notes
  <2> QED
    BY <2>1, <2>2, <2>3, <2>4 DEF NoteInv
<1>7. ASSUME kind = "dynamic" PROVE DynamicInv
  <2>1. data \in Seq(Cell) /\ view = 0 /\ added = dynamic_entries(0)
    BY <1>1, <1>2, <1>7, ByKind, ExistingType
  <2>2. StringTable(strtab)
    <3>1. strtab \in Strings /\ STRING \union {Unwritten} \subseteq Texts
      BY DEF EntriesInit, Texts
    <3>2. /\ DOMAIN strtab = DOMAIN NewSection(0) /\ strtab.type = "STRTAB" /\ strtab.size \in Nat
          /\ strtab.data \in Seq(STRING \union {Unwritten}) /\ has_data(strtab)
      BY <3>1, EntriesAssumption
    <3>3. strtab.data \in Seq(Texts)
      BY <3>1, <3>2, SeqMonotonic
    <3> QED
      BY <3>2, <3>3 DEF StringTable, Buffered, has_data
  <2>3. view \in 0..dynamic_entries_num
    BY <2>1, NulsType
  <2>4. \A k \in DOMAIN added : added[k].tag = DT_NEEDED => added[k].value < strtab.size
    BY <1>7 DEF EntriesInit
  <2>5. (elf_class = 32 /\ need_conversion) => FOREIGN_DYNAMIC
    BY <1>7 DEF EntriesInit
  <2> QED
    BY <2>1, <2>2, <2>3, <2>4, <2>5 DEF DynamicInv
<1> QED
  <2>1. kind \notin Kinds => added = <<>>
    BY <1>1, ByKind
  <2> QED
    BY <1>1, <1>3, <1>4, <1>5, <1>6, <1>7, <2>1 DEF EntriesInv

(***************************************************************************)
(* The steps, by the kind of the section.                                  *)
(***************************************************************************)
InOrder(conv, x, n) == IF conv THEN Reversed(x, n) ELSE x

LEMMA VersymAdds ==
  ASSUME VersymInv, NEW value \in Numbers, versym_add_entry(value)
  PROVE  VersymInv'
<1> DEFINE x == Truncated(value, HALF)
<1>1. x \in Nat
  <2>1. value \in Nat /\ Limit(HALF) \in Nat /\ Limit(HALF) > 0
    BY EntriesAssumption, Limits
  <2> QED
    BY <2>1, TruncatedFits
<1>2. data' = data \o <<x>> /\ added' = Append(added, x) /\ view' = view + 1
  BY DEF versym_add_entry, Add, versym_view_nxt
<1> HIDE DEF x
<1>3. data \o <<x>> \in Seq(Nat) /\ data \o <<x>> = Append(data, x) /\ Len(data \o <<x>>) = Len(data) + 1
  BY <1>1 DEF VersymInv
<1> QED
  BY <1>2, <1>3 DEF VersymInv

LEMMA VersymModifies ==
  ASSUME VersymInv, NEW no \in Nat, NEW value \in Numbers, modify_entry(no, value)
  PROVE  VersymInv'
<1> DEFINE x == Truncated(value, HALF)
<1>1. x \in Nat
  <2>1. value \in Nat /\ Limit(HALF) \in Nat /\ Limit(HALF) > 0
    BY EntriesAssumption, Limits
  <2> QED
    BY <2>1, TruncatedFits
<1>2. data' = [data EXCEPT ![no + 1] = x] /\ added' = [added EXCEPT ![no + 1] = x] /\ view' = view
  BY DEF modify_entry
<1> HIDE DEF x
<1>3. [data EXCEPT ![no + 1] = x] \in Seq(Nat) /\ Len([data EXCEPT ![no + 1] = x]) = Len(data)
  <2> DEFINE e == [k \in 1..Len(data) |-> IF k = no + 1 THEN x ELSE data[k]]
  <2>1. data \in Seq(Nat) /\ Len(data) \in Nat /\ DOMAIN data = 1..Len(data) /\ \A k \in 1..Len(data) : data[k] \in Nat
    BY DEF VersymInv
  <2>2. [data EXCEPT ![no + 1] = x] = e
    BY <2>1
  <2>3. e \in Seq(Nat) /\ Len(e) = Len(data)
    BY <1>1, <2>1
  <2> QED
    BY <2>2, <2>3
<1> QED
  BY <1>2, <1>3 DEF VersymInv

LEMMA ArrayAdds ==
  ASSUME ArrayInv, need_conversion \in BOOLEAN, NEW address \in Numbers, array_add_entry(address)
  PROVE  ArrayInv'
<1> DEFINE x == Truncated(address, WIDTH)
           cell == convertor(x, WIDTH)
           I(y) == InOrder(need_conversion, y, WIDTH)
<1>1. cell \in Nat /\ I(cell) = x
  <2>1. address \in Nat /\ WIDTH \in Widths /\ Limit(WIDTH) \in Nat
    BY EntriesAssumption, Limits DEF Widths
  <2>2. x \in 0..Limit(WIDTH) - 1
    BY <2>1, TruncatedFits DEF Widths
  <2> HIDE DEF x
  <2>3. cell \in 0..Limit(WIDTH) - 1 /\ convertor(cell, WIDTH) = x
    BY <2>1, <2>2, ConvertedTwice
  <2> QED
    BY <2>1, <2>3 DEF convertor, InOrder
<1>2. /\ data' = data \o <<cell>> /\ added' = Append(added, x)
      /\ elf_class' = elf_class /\ need_conversion' = need_conversion
  BY DEF array_add_entry, Add
<1>3. array_entries = [k \in DOMAIN data |-> I(data[k])] /\ array_entries' = [k \in DOMAIN data' |-> I(data'[k])]
  BY <1>2 DEF array_entries, WIDTH, convertor, InOrder
<1> HIDE DEF x, cell, I
<1>4. data \in Seq(Nat) /\ data \o <<cell>> \in Seq(Nat)
  BY <1>1 DEF ArrayInv
<1>5. [k \in DOMAIN (data \o <<cell>>) |-> I((data \o <<cell>>)[k])] = Append([k \in DOMAIN data |-> I(data[k])], x)
  <2> DEFINE e == data \o <<cell>>
  <2>1. Len(data) \in Nat /\ DOMAIN data = 1..Len(data) /\ DOMAIN e = 1..Len(data) + 1 /\ e[Len(data) + 1] = cell
    BY <1>1, <1>4
  <2>2. \A k \in 1..Len(data) : e[k] = data[k]
    BY <1>1, <1>4
  <2> HIDE DEF e
  <2> DEFINE old == [k \in 1..Len(data) |-> I(data[k])]
             new == [k \in 1..Len(data) + 1 |-> I(e[k])]
  <2>3. new[Len(data) + 1] = x /\ \A k \in 1..Len(data) : new[k] = old[k]
    BY <1>1, <2>1, <2>2
  <2>4. old = [k \in 1..Len(data) |-> old[k]] /\ new = [k \in 1..Len(data) + 1 |-> new[k]]
    OBVIOUS
  <2> HIDE DEF old, new
  <2>5. Longer(Len(data), old, new)
    BY <2>1, <2>3, <2>4 DEF Longer
  <2>6. new = Append(old, x)
    BY <2>3, <2>5, AppendedIs
  <2> QED
    BY <2>1, <2>6 DEF e, old, new
<1> QED
  BY <1>2, <1>3, <1>4, <1>5 DEF ArrayInv

LEMMA AttributeAdds ==
  ASSUME ModinfoInv, NEW field \in Fields, NEW value \in Values, add_attribute(field, value)
  PROVE  ModinfoInv'
<1> DEFINE x == field \o <<EQUALS>> \o value
           r == [field |-> field, value |-> value]
<1>1. Attribute(x) = r /\ x \in Seq(Chars) /\ x # <<>>
  BY AttributeCut
<1>2. data' = data \o <<x>> /\ added' = Append(added, r) /\ view' = Append(view, r)
  BY DEF add_attribute, Add
<1> HIDE DEF x, r
<1> DEFINE X == Seq(Chars)
           L == {Attribute(y) : y \in X}
<1>3. data \in Seq(X) /\ added = AttributesIn(data) /\ view = added
  BY DEF ModinfoInv
<1> HIDE DEF X
<1>4. AttributesIn(data) \in Listing(L) /\ AttributesIn(data \o <<x>>) = Joined(AttributesIn(data), <<Attribute(x)>>)
  BY <1>1, <1>3, AttributeAdded DEF X
<1> HIDE DEF L
<1>5. \A q \in Seq(L) : q \o <<r>> = Append(q, r)
  OBVIOUS
<1>6. AttributesIn(data \o <<x>>) = Append(added, r)
  BY <1>1, <1>3, <1>4, <1>5 DEF Joined, Listing
<1>7. data \o <<x>> \in Seq(X)
  BY <1>1, <1>3 DEF X
<1> QED
  BY <1>2, <1>3, <1>6, <1>7 DEF ModinfoInv, X

LEMMA NoteAdds ==
  ASSUME NoteInv, need_conversion \in BOOLEAN,
         NEW type \in Numbers, NEW name \in NoteNames, NEW desc \in Descs, add_note(type, name, desc)
  PROVE  NoteInv'
<1> DEFINE ty == Truncated(type, WORD)
           r == [type |-> ty, name |-> name, desc |-> desc]
           n == Len(data)
           conv == need_conversion
           e == data \o NoteBytesIn(conv, ty, name, desc)
<1>1. data \in Seq(Nat) /\ n \in Nat /\ need_conversion' = conv
  BY DEF NoteInv, add_note, Add
<1>2. data' = e /\ added' = Append(added, r) /\ view' = Append(view, n)
  BY NotesIn DEF add_note, Add
<1>3. PICK bounds : bounds \subseteq Within(data) /\ BoundsIn(conv, data, bounds)
  BY DEF NoteInv
<1>4. view = StartsIn(conv, data) /\ added = [k \in DOMAIN view |-> NoteIn(conv, data, view[k])]
  BY DEF NoteInv
<1>5. ty \in 0..Limit(WORD) - 1
  <2>1. type \in Nat
    BY EntriesAssumption
  <2> QED
    BY <2>1, TruncatedFits
<1>6. name \in Seq(Nat) /\ desc \in Seq(Nat) /\ Sizes(name, desc)
  BY EntriesAssumption DEF Sizes
<1> HIDE DEF ty
<1>7. /\ e \in Seq(Nat) /\ \E nb \in Seq(Nat) : e = data \o nb
      /\ n + 3 * ALIGN <= Len(e) /\ EndIn(conv, e, n) = Len(e)
      /\ NoteIn(conv, e, n) = r
  <2>1. e = data \o NoteBytesIn(conv, ty, name, desc)
    OBVIOUS
  <2> HIDE DEF e
  <2>2. conv \in BOOLEAN
    OBVIOUS
  <2> HIDE DEF conv
  <2>3. HasNote(conv, data, ty, name, desc, e)
    BY <1>1, <1>5, <1>6, <2>1, <2>2 DEF HasNote
  <2>4. ReadsNote(conv, data, ty, name, desc, e)
    BY <2>3, NoteOf
  <2> QED
    BY <2>4 DEF ReadsNote
<1> HIDE DEF e, r
<1>8. Extends(conv, data, e, bounds)
  BY <1>1, <1>3, <1>7 DEF Extends
<1>9. /\ StartsIn(conv, e) = Joined(view, <<n>>)
      /\ bounds \union {Len(e)} \subseteq Within(e) /\ BoundsIn(conv, e, bounds \union {Len(e)})
  BY <1>4, <1>8, NoteAdded
<1>10. view \in Seq(bounds \ {n})
  BY <1>1, <1>3, <1>4, StartsLie DEF Listing
<1> DEFINE m == Len(view)
           V == bounds \ {n}
           next == Append(view, n)
           t == [k \in 1..m + 1 |-> NoteIn(conv, e, next[k])]
<1>11. StartsIn(conv, e) = next
  BY <1>1, <1>9, <1>10 DEF Joined
<1>12. /\ m \in Nat /\ DOMAIN view = 1..m /\ DOMAIN next = 1..m + 1 /\ next[m + 1] = n
       /\ \A k \in 1..m : next[k] = view[k] /\ view[k] \in V
  BY <1>1, <1>10
<1> HIDE DEF next, m
<1>13. \A k \in 1..m : NoteIn(conv, e, next[k]) = NoteIn(conv, data, view[k])
  <2>1. \A at \in V : NoteIn(conv, e, at) = NoteIn(conv, data, at)
    BY <1>8, NoteKept
  <2> QED
    BY <1>12, <2>1
<1>14. t[m + 1] = r /\ Longer(m, added, t)
  <2>1. t[m + 1] = r
    BY <1>7, <1>12
  <2>2. t = [k \in 1..m + 1 |-> t[k]] /\ added = [k \in 1..m |-> NoteIn(conv, data, view[k])]
    BY <1>4, <1>12
  <2>3. \A k \in 1..m : t[k] = NoteIn(conv, e, next[k]) /\ added[k] = NoteIn(conv, data, view[k])
    BY <1>12, <2>2
  <2> HIDE DEF t
  <2>4. added = [k \in 1..m |-> added[k]]
    BY <2>2
  <2> QED
    BY <1>12, <1>13, <2>1, <2>2, <2>3, <2>4 DEF Longer
<1>15. t = Append(added, r)
  <2> HIDE DEF t
  <2> QED
    BY <1>14, AppendedIs
<1>16. added' = [k \in DOMAIN view' |-> NoteIn(conv, e, view'[k])]
  BY <1>2, <1>12, <1>15 DEF next
<1>17. data' \in Seq(Nat) /\ view' = StartsIn(conv, data')
  BY <1>2, <1>7, <1>11 DEF next
<1>18. \E b : b \subseteq Within(data') /\ BoundsIn(conv, data', b)
  BY <1>2, <1>9
<1> QED
  BY <1>1, <1>2, <1>16, <1>17, <1>18 DEF NoteInv

(***************************************************************************)
(* Dynamic sections, as operators on their cells.                          *)
(***************************************************************************)
TagIn(conv, w, cell) == SignExtended(InOrder(conv, cell.d_tag, w), w)
EntryIn(conv, w, tab, cell) ==
  LET tag   == TagIn(conv, w, cell)
      value == DynamicValue(tag, InOrder(conv, cell.d_val, w))
  IN  [tag |-> tag, value |-> value, str |-> IF tag = DT_NEEDED THEN get_string(tab, value) ELSE ""]
NumIn(conv, w, d) == Min({k \in DOMAIN d : TagIn(conv, w, d[k]) = DT_NULL} \union {Len(d)})
ShownIn(conv, w, tab, d) == [k \in 1..NumIn(conv, w, d) |-> EntryIn(conv, w, tab, d[k])]

LEMMA DynamicIn ==
  /\ \A cell : DynamicEntry(cell) = EntryIn(need_conversion, WIDTH, strtab, cell)
  /\ dynamic_entries_num = NumIn(need_conversion, WIDTH, data)
  /\ dynamic_entries(0) = ShownIn(need_conversion, WIDTH, strtab, data)
<1>1. \A x : convertor(x, WIDTH) = InOrder(need_conversion, x, WIDTH)
  BY DEF convertor, InOrder
<1>2. \A cell : DynamicEntry(cell) = EntryIn(need_conversion, WIDTH, strtab, cell)
  BY <1>1 DEF DynamicEntry, EntryIn, TagIn
<1>3. \A cell : DynamicEntry(cell).tag = TagIn(need_conversion, WIDTH, cell)
  BY <1>2 DEF EntryIn
<1>4. dynamic_entries_num = NumIn(need_conversion, WIDTH, data)
  BY <1>3 DEF dynamic_entries_num, NumIn
<1>5. dynamic_entries(0) = ShownIn(need_conversion, WIDTH, strtab, data)
  BY <1>2, <1>4 DEF dynamic_entries, ShownIn
<1> QED
  BY <1>2, <1>4, <1>5

\* The number of entries: of a section without a null entry, all of them.
LEMMA NumWhole ==
  ASSUME NEW conv, NEW w, NEW d \in Seq(Cell),
         \A k \in 1..NumIn(conv, w, d) : TagIn(conv, w, d[k]) # DT_NULL
  PROVE  NumIn(conv, w, d) = Len(d) /\ \A k \in 1..Len(d) : TagIn(conv, w, d[k]) # DT_NULL
<1> DEFINE nulls == {k \in DOMAIN d : TagIn(conv, w, d[k]) = DT_NULL}
           all == nulls \union {Len(d)}
           n == NumIn(conv, w, d)
<1>1. Len(d) \in Nat /\ DOMAIN d = 1..Len(d)
  OBVIOUS
<1>2. all \subseteq 0..Len(d) /\ all # {} /\ all \subseteq Nat
  BY <1>1
<1>3. n = Min(all)
  BY DEF NumIn
<1> HIDE DEF all, n
<1>4. n \in all /\ \A k \in all : n <= k
  <2>1. PICK m \in all : \A k \in all : m <= k
    BY <1>2, LeastNat
  <2> QED
    BY <1>3, <2>1 DEF Min
<1>5. ASSUME NEW k \in nulls PROVE FALSE
  <2>1. n \in nulls \/ n = Len(d)
    BY <1>4 DEF all
  <2>2. k \in 1..Len(d) /\ n <= k /\ TagIn(conv, w, d[k]) = DT_NULL
    BY <1>1, <1>4, <1>5 DEF all
  <2>3. n \in 0..Len(d)
    BY <1>2, <1>4
  <2>4. CASE n \in nulls
    <3>1. n \in 1..n /\ TagIn(conv, w, d[n]) = DT_NULL
      BY <1>1, <2>3, <2>4
    <3> QED
      BY <3>1 DEF n
  <2>5. CASE n = Len(d)
    <3>1. k \in 1..n
      BY <1>1, <2>2, <2>5
    <3> QED
      BY <2>2, <3>1 DEF n
  <2> QED
    BY <2>1, <2>4, <2>5
<1>6. n = Len(d)
  BY <1>4, <1>5 DEF all
<1>7. \A k \in 1..Len(d) : TagIn(conv, w, d[k]) # DT_NULL
  BY <1>1, <1>5
<1> QED
  BY <1>6, <1>7 DEF n

\* An entry behind them is the last that counts.
LEMMA NumGrows ==
  ASSUME NEW conv, NEW w, NEW d \in Seq(Cell), NEW cell \in Cell,
         \A k \in 1..Len(d) : TagIn(conv, w, d[k]) # DT_NULL
  PROVE  NumIn(conv, w, d \o <<cell>>) = Len(d) + 1
<1> DEFINE e == d \o <<cell>>
           nulls == {k \in DOMAIN e : TagIn(conv, w, e[k]) = DT_NULL}
           all == nulls \union {Len(e)}
<1>1. /\ Len(d) \in Nat /\ DOMAIN e = 1..Len(d) + 1 /\ Len(e) = Len(d) + 1
      /\ \A k \in 1..Len(d) : e[k] = d[k]
  OBVIOUS
<1> HIDE DEF e
<1>2. ASSUME NEW k \in nulls PROVE k = Len(d) + 1
  <2>1. k \in 1..Len(d) + 1 /\ TagIn(conv, w, e[k]) = DT_NULL
    BY <1>1, <1>2
  <2>2. k \notin 1..Len(d)
    BY <1>1, <2>1
  <2> QED
    BY <1>1, <2>1, <2>2
<1>3. all = {Len(d) + 1}
  BY <1>1, <1>2
<1>4. NumIn(conv, w, e) = Min(all)
  BY DEF NumIn
<1> HIDE DEF all
<1>5. Min(all) \in all
  <2>1. all \subseteq Nat /\ all # {}
    BY <1>1, <1>3
  <2> QED
    BY <2>1, MinIsIn
<1> QED
  BY <1>3, <1>4, <1>5 DEF e

\* A cell that is written in the file's order, and fits, is read as it was given.
OrderKept == elf_class \in {32, 64} /\ need_conversion \in BOOLEAN /\ ~(elf_class = 32 /\ need_conversion)

EntryOf(tag, read, tab) == [tag |-> tag, value |-> read, str |-> IF tag = DT_NEEDED THEN get_string(tab, read) ELSE ""]

CellRead(tag, value, tab) ==
  /\ DynamicCell(tag, value) \in Cell
  /\ EntryIn(need_conversion, WIDTH, tab, DynamicCell(tag, value))
       = EntryOf(tag, Truncated(DynamicValue(tag, value), WIDTH), tab)

LEMMA CellReads ==
  ASSUME OrderKept, NEW tag \in Tags, NEW value \in 0..Limit(XWORD) - 1, NEW tab
  PROVE  CellRead(tag, value, tab)
<1>1. elf_class \in {32, 64} /\ need_conversion \in BOOLEAN /\ ~(elf_class = 32 /\ need_conversion)
  BY DEF OrderKept
<1> USE <1>1
<1> DEFINE W(x) == Truncated(convertor(x, XWORD), WIDTH)
           R(y) == InOrder(need_conversion, y, WIDTH)
           x0 == DynamicValue(tag, value)
           cell == DynamicCell(tag, value)
<1>2. /\ WIDTH \in Widths /\ Limit(WIDTH) \in Nat /\ Limit(WIDTH) > 3 /\ Limit(XWORD) \in Nat /\ Limit(XWORD) > 3
      /\ WIDTH \in {HALF, WORD, XWORD} /\ XWORD \in Widths
  BY Limits DEF Widths
<1>3. ASSUME NEW x \in 0..Limit(XWORD) - 1 PROVE W(x) \in Nat /\ R(W(x)) = Truncated(x, WIDTH)
  <2>1. CASE ~need_conversion
    <3>1. W(x) = Truncated(x, WIDTH) /\ \A y : R(y) = y
      BY <2>1 DEF convertor, InOrder
    <3>2. Truncated(x, WIDTH) \in Nat
      BY <1>2, <1>3, TruncatedFits
    <3> QED
      BY <3>1, <3>2
  <2>2. CASE need_conversion
    <3>1. WIDTH = XWORD
      BY <2>2 DEF WIDTH
    <3>2. convertor(x, XWORD) \in 0..Limit(XWORD) - 1 /\ convertor(convertor(x, XWORD), XWORD) = x
      BY <1>2, <1>3, ConvertedTwice
    <3>3. \A y \in 0..Limit(XWORD) - 1 : Truncated(y, XWORD) = y
      <4> SUFFICES ASSUME NEW y \in 0..Limit(XWORD) - 1 PROVE Truncated(y, XWORD) = y
        OBVIOUS
      <4>1. y \in Nat /\ y < Limit(XWORD)
        BY <1>2
      <4> QED
        BY <4>1, TruncatedFits
    <3>4. W(x) = convertor(x, XWORD) /\ Truncated(x, WIDTH) = x
      BY <1>3, <3>1, <3>2, <3>3
    <3>5. \A y : R(y) = convertor(y, XWORD)
      BY <3>1 DEF convertor, InOrder
    <3> HIDE DEF W, R
    <3> QED
      BY <3>2, <3>4, <3>5
  <2> QED
    BY <2>1, <2>2
<1>4. tag \in 0..Limit(XWORD) - 1 /\ x0 \in 0..Limit(XWORD) - 1 /\ 0 \in 0..Limit(XWORD) - 1
  BY <1>2 DEF Tags, DynamicValue, DT_NULL, DT_NEEDED, DT_SYMBOLIC
<1>5. Truncated(tag, WIDTH) = tag /\ Truncated(0, WIDTH) = 0
  <2>1. tag \in Nat /\ tag < Limit(WIDTH) /\ 0 < Limit(WIDTH)
    BY <1>2 DEF Tags, DT_NULL, DT_NEEDED, DT_SYMBOLIC
  <2> QED
    BY <1>2, <2>1, TruncatedFits
<1>6. cell = [d_tag |-> W(tag), d_val |-> W(x0)]
  BY DEF DynamicCell
<1>7. DynamicValue(tag, Truncated(x0, WIDTH)) = Truncated(x0, WIDTH)
  BY <1>5 DEF DynamicValue
<1> HIDE DEF W, R
<1>8. W(tag) \in Nat /\ W(x0) \in Nat /\ R(W(tag)) = tag /\ R(W(x0)) = Truncated(x0, WIDTH)
  BY <1>3, <1>4, <1>5
<1>9. cell \in Cell /\ cell.d_tag = W(tag) /\ cell.d_val = W(x0)
  BY <1>6, <1>8 DEF Cell
<1> HIDE DEF cell, x0
<1> DEFINE read == Truncated(x0, WIDTH)
<1> HIDE DEF read
<1>10. TagIn(need_conversion, WIDTH, cell) = tag /\ DynamicValue(tag, InOrder(need_conversion, cell.d_val, WIDTH)) = read
  <2>1. InOrder(need_conversion, cell.d_tag, WIDTH) = tag
    BY <1>8, <1>9 DEF R
  <2>2. tag < Limit(WORD) \div 2
    BY Limits DEF Tags, DT_NULL, DT_NEEDED, DT_SYMBOLIC
  <2>3. tag \in Nat
    BY DEF Tags, DT_NULL, DT_NEEDED, DT_SYMBOLIC
  <2>4. SignExtended(tag, WIDTH) = tag
    BY <2>2, <2>3, Limits DEF SignExtended
  <2> QED
    BY <1>7, <1>8, <1>9, <2>1, <2>4 DEF TagIn, R, read
<1>11. EntryIn(need_conversion, WIDTH, tab, cell) = EntryOf(tag, read, tab)
  BY <1>10 DEF EntryIn, EntryOf
<1> QED
  BY <1>9, <1>11 DEF cell, x0, read, CellRead

\* The strings of the entries that there are stay what they are.
Keeps(old, new) ==
  /\ StringTable(new) /\ old.size \in Nat /\ new.size \in Nat /\ old.size <= new.size
  /\ \A k \in Nat : k < old.size => get_string(new, k) = get_string(old, k)

LEMMA FieldsOf ==
  ASSUME NEW r, NEW tag, NEW value, NEW str, r = [tag |-> tag, value |-> value, str |-> str]
  PROVE  r.tag = tag /\ r.value = value
OBVIOUS

LEMMA DynamicGrows ==
  ASSUME DynamicInv, need_conversion \in BOOLEAN, dynamic_open_end,
         NEW cell \in Cell, NEW entry,
         data' = data \o <<cell>>, added' = Append(added, entry),
         elf_class' = elf_class, need_conversion' = need_conversion, view' = view,
         Keeps(strtab, strtab'), EntryIn(need_conversion, WIDTH, strtab', cell) = entry,
         entry.tag = DT_NEEDED => entry.value < strtab'.size
  PROVE  DynamicInv'
<1> DEFINE conv == need_conversion
           w == WIDTH
           tab == strtab'
           n == Len(data)
           e == data \o <<cell>>
           Entry(t, c) == EntryIn(conv, w, t, c)
<1>1. /\ data \in Seq(Cell) /\ n \in Nat /\ added = ShownIn(conv, w, strtab, data) /\ w \in Widths
      /\ view \in 0..NumIn(conv, w, data)
  BY DynamicIn, Limits DEF DynamicInv
<1>2. \A c, t : Entry(t, c).tag = TagIn(conv, w, c)
  BY DEF EntryIn
<1>3. NumIn(conv, w, data) = n /\ \A k \in 1..n : TagIn(conv, w, data[k]) # DT_NULL
  <2>1. \A k \in 1..NumIn(conv, w, data) : TagIn(conv, w, data[k]) # DT_NULL
    BY <1>1, <1>2 DEF dynamic_open_end, ShownIn
  <2> QED
    BY <1>1, <2>1, NumWhole
<1>4. NumIn(conv, w, e) = n + 1
  BY <1>1, <1>3, NumGrows
<1>5. e \in Seq(Cell) /\ e[n + 1] = cell /\ \A k \in 1..n : e[k] = data[k] /\ data[k] \in Cell
  BY <1>1
<1>6. added = [k \in 1..n |-> Entry(strtab, data[k])]
  BY <1>1, <1>3 DEF ShownIn
<1> HIDE DEF conv, w, tab, n, e
<1>7. ASSUME NEW k \in 1..n
      PROVE  /\ Entry(tab, e[k]) = added[k]
             /\ added[k].tag = DT_NEEDED => added[k].value < tab.size
  <2>1. added[k] = Entry(strtab, data[k]) /\ e[k] = data[k] /\ data[k] \in Cell
    BY <1>5, <1>6
  <2> DEFINE tag == TagIn(conv, w, data[k])
             value == DynamicValue(tag, InOrder(conv, data[k].d_val, w))
  <2>2. \A t : Entry(t, data[k]) = [tag |-> tag, value |-> value, str |-> IF tag = DT_NEEDED THEN get_string(t, value) ELSE ""]
    BY DEF EntryIn
  <2>3. value \in Nat
    <3>1. data[k].d_val \in Nat
      BY <2>1 DEF Cell
    <3>2. convertor(data[k].d_val, WIDTH) \in Nat
      BY <1>1, <3>1, ConvertorType DEF w
    <3>3. InOrder(conv, data[k].d_val, w) \in Nat
      BY <3>2 DEF convertor, InOrder, conv, w
    <3> QED
      BY <3>3 DEF DynamicValue
  <2> HIDE DEF tag, value, Entry
  <2>4. added[k].tag = tag /\ added[k].value = value
    <3>1. added[k] = [tag |-> tag, value |-> value, str |-> IF tag = DT_NEEDED THEN get_string(strtab, value) ELSE ""]
      BY <2>1, <2>2
    <3> DEFINE str == IF tag = DT_NEEDED THEN get_string(strtab, value) ELSE ""
               r == added[k]
    <3>2. r = [tag |-> tag, value |-> value, str |-> str]
      BY <3>1
    <3> HIDE DEF str, r
    <3>3. r.tag = tag /\ r.value = value
      BY <3>2, FieldsOf
    <3> QED
      BY <3>3 DEF r
  <2>5. k \in DOMAIN added
    BY <1>6
  <2>6. tag = DT_NEEDED => value < strtab.size
    BY <2>4, <2>5 DEF DynamicInv
  <2>7. tag = DT_NEEDED => get_string(tab, value) = get_string(strtab, value) /\ value < tab.size
    BY <2>3, <2>6 DEF Keeps, tab
  <2> QED
    BY <2>1, <2>2, <2>4, <2>7
<1> DEFINE shown == [k \in 1..n + 1 |-> Entry(tab, e[k])]
<1>8. shown = Append(added, entry)
  <2>1. n + 1 \in 1..n + 1
    BY <1>1
  <2>2. shown[n + 1] = entry
    BY <1>5, <2>1 DEF conv, w, tab
  <2>3. \A k \in 1..n : k \in 1..n + 1
    BY <1>1
  <2>4. \A k \in 1..n : shown[k] = added[k]
    BY <1>7, <2>3
  <2>5. shown = [k \in 1..n + 1 |-> shown[k]]
    OBVIOUS
  <2> HIDE DEF shown
  <2>6. added = [k \in 1..n |-> added[k]]
    BY <1>6
  <2>7. Longer(n, added, shown)
    BY <1>1, <2>4, <2>5, <2>6 DEF Longer
  <2> QED
    BY <2>2, <2>7, AppendedIs
<1>9. WIDTH' = w /\ need_conversion' = conv /\ data' = e /\ strtab' = tab /\ added' = shown
  BY <1>8 DEF WIDTH, w, conv, e, tab
<1>10. dynamic_entries(0)' = ShownIn(conv, w, tab, e) /\ dynamic_entries_num' = NumIn(conv, w, e)
  <2>1. /\ (dynamic_entries(0) = ShownIn(need_conversion, WIDTH, strtab, data))'
        /\ (dynamic_entries_num = NumIn(need_conversion, WIDTH, data))'
    BY DynamicIn, PTL
  <2> QED
    BY <1>9, <2>1
<1>11. added' = dynamic_entries(0)'
  BY <1>4, <1>9, <1>10 DEF ShownIn
<1>12. view' \in 0..dynamic_entries_num'
  BY <1>1, <1>3, <1>4, <1>10
<1>13. \A k \in DOMAIN added' : added'[k].tag = DT_NEEDED => added'[k].value < strtab'.size
  <2> SUFFICES ASSUME NEW k \in DOMAIN added', added'[k].tag = DT_NEEDED PROVE added'[k].value < strtab'.size
    OBVIOUS
  <2>1. k \in 1..n + 1 /\ added'[k] = Entry(tab, e[k])
    BY <1>9
  <2>2. CASE k \in 1..n
    BY <1>7, <1>9, <2>1, <2>2
  <2>3. CASE k = n + 1
    <3>1. added'[k] = entry
      BY <1>5, <2>1, <2>3 DEF conv, w, tab
    <3> QED
      BY <3>1
  <2> QED
    BY <1>1, <2>1, <2>2, <2>3
<1>14. data' \in Seq(Cell) /\ StringTable(strtab)'
  BY <1>5, <1>9 DEF Keeps, tab, StringTable, Buffered
<1>15. (elf_class' = 32 /\ need_conversion') => FOREIGN_DYNAMIC
  BY DEF DynamicInv
<1> QED
  BY <1>11, <1>12, <1>13, <1>14, <1>15 DEF DynamicInv

LEMMA DynamicAdds ==
  ASSUME EntriesTypeOK, DynamicInv, ~FOREIGN_DYNAMIC,
         \/ \E tag \in Tags \ {DT_NEEDED}, value \in Numbers : dynamic_add_entry(tag, value)
         \/ \E str \in {"libc", "libm"} : dynamic_add_string(str)
  PROVE  DynamicInv'
<1>1. /\ elf_class \in {32, 64} /\ need_conversion \in BOOLEAN /\ ~(elf_class = 32 /\ need_conversion)
      /\ StringTable(strtab)
  BY DEF EntriesTypeOK, DynamicInv
<1>2. ASSUME NEW tag \in Tags \ {DT_NEEDED}, NEW value \in Numbers, dynamic_add_entry(tag, value) PROVE DynamicInv'
  <2> DEFINE cell == DynamicCell(tag, value)
             entry == [tag |-> tag, value |-> Truncated(DynamicValue(tag, value), WIDTH), str |-> ""]
  <2>1. /\ dynamic_open_end /\ data' = data \o <<cell>> /\ added' = Append(added, entry)
        /\ elf_class' = elf_class /\ need_conversion' = need_conversion /\ view' = view /\ strtab' = strtab
    BY <1>2 DEF dynamic_add_entry, Add
  <2>2. value \in 0..Limit(XWORD) - 1
    BY EntriesAssumption
  <2>3. cell \in Cell /\ EntryIn(need_conversion, WIDTH, strtab, cell) = entry
    <3> DEFINE read == Truncated(DynamicValue(tag, value), WIDTH)
    <3>1. tag \in Tags /\ tag # DT_NEEDED
      OBVIOUS
    <3>2. CellRead(tag, value, strtab)
      BY <1>1, <2>2, <3>1, CellReads DEF OrderKept
    <3>3. EntryOf(tag, read, strtab) = [tag |-> tag, value |-> read, str |-> ""]
      BY <3>1 DEF EntryOf
    <3> QED
      BY <3>2, <3>3 DEF CellRead
  <2>4. Keeps(strtab, strtab')
    <3>1. strtab.size \in Nat
      BY <1>1 DEF StringTable, Buffered
    <3>2. Keeps(strtab, strtab)
      BY <1>1, <3>1 DEF Keeps
    <3> QED
      BY <2>1, <3>2
  <2>5. entry.tag # DT_NEEDED
    OBVIOUS
  <2> HIDE DEF cell, entry
  <2> QED
    BY <1>1, <2>1, <2>3, <2>4, <2>5, DynamicGrows
<1>3. ASSUME NEW str \in {"libc", "libm"}, dynamic_add_string(str) PROVE DynamicInv'
  <2> DEFINE new == add_string(strtab, str)
             cell == DynamicCell(DT_NEEDED, new.at)
             entry == [tag |-> DT_NEEDED, value |-> new.at, str |-> str]
  <2>1. /\ dynamic_open_end /\ data' = data \o <<cell>> /\ added' = Append(added, entry)
        /\ elf_class' = elf_class /\ need_conversion' = need_conversion /\ view' = view
        /\ strtab' = new.sec /\ new.at < Limit(WIDTH)
    BY <1>3 DEF dynamic_add_string, Add
  <2>2. /\ StringTable(new.sec) /\ new.at \in Nat /\ new.at < new.sec.size
        /\ get_string(new.sec, new.at) = str
        /\ strtab.size <= new.sec.size /\ strtab.size \in Nat /\ new.sec.size \in Nat
        /\ \A k \in Nat : k < strtab.size => get_string(new.sec, k) = get_string(strtab, k)
    <3>1. str \in Texts
      BY DEF Texts
    <3> QED
      BY <1>1, <3>1, TableGrows DEF FoundIn
  <2>3. Keeps(strtab, strtab')
    BY <2>1, <2>2 DEF Keeps
  <2> DEFINE at == new.at
  <2>4. at \in 0..Limit(XWORD) - 1 /\ Truncated(at, WIDTH) = at
    <3>1. WIDTH \in {WORD, XWORD} /\ Limit(WIDTH) <= Limit(XWORD) /\ Limit(WIDTH) \in Nat /\ Limit(XWORD) \in Nat
      BY Limits DEF Widths
    <3>2. at \in Nat /\ at < Limit(WIDTH)
      BY <2>1, <2>2
    <3> HIDE DEF at
    <3> QED
      BY <3>1, <3>2, TruncatedFits
  <2>5. DT_NEEDED \in Tags /\ DynamicValue(DT_NEEDED, at) = at
    BY DEF Tags, DynamicValue, DT_NULL, DT_NEEDED, DT_SYMBOLIC
  <2>6. cell \in Cell /\ EntryIn(need_conversion, WIDTH, strtab', cell) = entry
    <3>1. get_string(strtab', at) = str
      BY <2>1, <2>2
    <3>2. entry = [tag |-> DT_NEEDED, value |-> at, str |-> str] /\ cell = DynamicCell(DT_NEEDED, at)
      OBVIOUS
    <3> HIDE DEF at, entry, new
    <3> DEFINE read == Truncated(DynamicValue(DT_NEEDED, at), WIDTH)
    <3>3. CellRead(DT_NEEDED, at, strtab')
      BY <1>1, <2>4, <2>5, CellReads DEF OrderKept
    <3>4. read = at
      BY <2>4, <2>5
    <3>5. EntryOf(DT_NEEDED, at, strtab') = [tag |-> DT_NEEDED, value |-> at, str |-> str]
      BY <3>1 DEF EntryOf
    <3> QED
      BY <3>2, <3>3, <3>4, <3>5 DEF CellRead
  <2>7. entry.value < strtab'.size
    BY <2>1, <2>2
  <2> HIDE DEF cell, entry, new
  <2> QED
    BY <1>1, <2>1, <2>3, <2>6, <2>7, DynamicGrows
<1> QED
  BY <1>2, <1>3

LEMMA EntriesNextInv ==
  ASSUME EntriesInv, ~FOREIGN_DYNAMIC, [EntriesNext]_entryVars
  PROVE  EntriesInv'
<1>1. EntriesTypeOK /\ kind \in DOMAIN Existing /\ need_conversion \in BOOLEAN
  BY DEF EntriesInv, EntriesTypeOK
<1>2. ASSUME kind' = kind, EntriesTypeOK', kind = "versym" => VersymInv', kind = "array" => ArrayInv',
             kind = "modinfo" => ModinfoInv', kind = "note" => NoteInv', kind = "dynamic" => DynamicInv',
             kind \notin Kinds => added' = <<>>
      PROVE  EntriesInv'
  BY <1>2 DEF EntriesInv
<1>3. ASSUME \/ \E tag \in Tags \ {DT_NEEDED}, value \in Numbers : dynamic_add_entry(tag, value)
             \/ \E str \in {"libc", "libm"} : dynamic_add_string(str)
      PROVE  EntriesInv'
  <2>1. kind = "dynamic" /\ kind' = kind /\ EntriesTypeOK'
    BY <1>1, <1>3 DEF dynamic_add_entry, dynamic_add_string, Add, EntriesTypeOK
  <2>2. DynamicInv'
    BY <1>1, <1>3, <2>1, DynamicAdds DEF EntriesInv
  <2> QED
    BY <1>2, <2>1, <2>2 DEF Kinds
<1>4. ASSUME get_entries_num PROVE EntriesInv'
  <2>1. /\ kind = "dynamic" /\ kind' = kind /\ EntriesTypeOK' /\ DynamicInv
        /\ elf_class' = elf_class /\ need_conversion' = need_conversion /\ data' = data /\ strtab' = strtab
        /\ added' = added /\ view' = dynamic_entries_num
    BY <1>1, <1>4 DEF get_entries_num, EntriesTypeOK, EntriesInv
  <2>2. dynamic_entries_num' = dynamic_entries_num /\ dynamic_entries(0)' = dynamic_entries(0)
    BY <2>1 DEF dynamic_entries_num, dynamic_entries, DynamicEntry, convertor, WIDTH
  <2>3. dynamic_entries_num \in 0..dynamic_entries_num
    BY <2>1, NulsType DEF DynamicInv
  <2>4. DynamicInv'
    BY <2>1, <2>2, <2>3 DEF DynamicInv
  <2> QED
    BY <1>2, <2>1, <2>4 DEF Kinds
<1>5. ASSUME NEW value \in Numbers, array_add_entry(value) PROVE EntriesInv'
  <2>1. kind = "array" /\ kind' = kind /\ EntriesTypeOK'
    BY <1>1, <1>5 DEF array_add_entry, Add, EntriesTypeOK
  <2>2. ArrayInv'
    BY <1>1, <1>5, <2>1, ArrayAdds DEF EntriesInv
  <2> QED
    BY <1>2, <2>1, <2>2 DEF Kinds
<1>6. ASSUME NEW value \in Numbers, versym_add_entry(value) PROVE EntriesInv'
  <2>1. kind = "versym" /\ kind' = kind /\ EntriesTypeOK'
    BY <1>1, <1>6 DEF versym_add_entry, Add, EntriesTypeOK
  <2>2. VersymInv'
    BY <1>6, <2>1, VersymAdds DEF EntriesInv
  <2> QED
    BY <1>2, <2>1, <2>2 DEF Kinds
<1>7. ASSUME NEW no \in 0..MAX_ENTRIES - 1, NEW value \in Numbers, modify_entry(no, value) PROVE EntriesInv'
  <2>1. kind = "versym" /\ kind' = kind /\ EntriesTypeOK'
    BY <1>1, <1>7 DEF modify_entry, EntriesTypeOK
  <2>2. no \in Nat
    BY EntriesAssumption
  <2>3. VersymInv'
    BY <1>7, <2>1, <2>2, VersymModifies DEF EntriesInv
  <2> QED
    BY <1>2, <2>1, <2>3 DEF Kinds
<1>8. ASSUME NEW type \in Numbers, NEW name \in NoteNames, NEW desc \in Descs, add_note(type, name, desc) PROVE EntriesInv'
  <2>1. kind = "note" /\ kind' = kind /\ EntriesTypeOK'
    BY <1>1, <1>8 DEF add_note, Add, EntriesTypeOK
  <2>2. NoteInv'
    BY <1>1, <1>8, <2>1, NoteAdds DEF EntriesInv
  <2> QED
    BY <1>2, <2>1, <2>2 DEF Kinds
<1>9. ASSUME NEW field \in Fields, NEW value \in Values, add_attribute(field, value) PROVE EntriesInv'
  <2>1. kind = "modinfo" /\ kind' = kind /\ EntriesTypeOK'
    BY <1>1, <1>9 DEF add_attribute, Add, EntriesTypeOK
  <2>2. ModinfoInv'
    BY <1>9, <2>1, AttributeAdds DEF EntriesInv
  <2> QED
    BY <1>2, <2>1, <2>2 DEF Kinds
<1>10. ASSUME reopen PROVE EntriesInv'
  <2>1. /\ kind' = kind /\ EntriesTypeOK' /\ elf_class' = elf_class /\ need_conversion' = need_conversion
        /\ data' = data /\ strtab' = strtab /\ added' = added /\ view' = Opened
    BY <1>1, <1>10 DEF reopen, EntriesTypeOK
  <2>2. kind = "versym" => VersymInv'
    BY <2>1, ByKind DEF EntriesInv, VersymInv
  <2>3. kind = "array" => ArrayInv'
    BY <2>1 DEF EntriesInv, ArrayInv, array_entries, convertor, WIDTH
  <2>4. kind = "modinfo" => ModinfoInv'
    BY <2>1, ByKind, AttributesNamed DEF EntriesInv, ModinfoInv
  <2>5. kind = "note" => NoteInv'
    <3> SUFFICES ASSUME kind = "note" PROVE NoteInv'
      OBVIOUS
    <3>1. NoteInv /\ view' = StartsIn(need_conversion, data)
      BY <1>1, <2>1, ByKind, NotesIn DEF EntriesInv
    <3>2. view' = view
      BY <3>1 DEF NoteInv
    <3> QED
      BY <2>1, <3>1, <3>2 DEF NoteInv
  <2>6. kind = "dynamic" => DynamicInv'
    <3> SUFFICES ASSUME kind = "dynamic" PROVE DynamicInv'
      OBVIOUS
    <3>1. dynamic_entries_num' = dynamic_entries_num /\ dynamic_entries(0)' = dynamic_entries(0)
      BY <2>1 DEF dynamic_entries_num, dynamic_entries, DynamicEntry, convertor, WIDTH
    <3>2. DynamicInv /\ view' = 0
      BY <2>1, ByKind DEF EntriesInv
    <3>3. 0 \in 0..dynamic_entries_num
      BY <3>2, NulsType DEF DynamicInv
    <3> QED
      BY <2>1, <3>1, <3>2, <3>3 DEF DynamicInv
  <2>7. kind \notin Kinds => added' = <<>>
    BY <2>1 DEF EntriesInv
  <2> QED
    BY <1>2, <2>1, <2>2, <2>3, <2>4, <2>5, <2>6, <2>7
<1>11. ASSUME UNCHANGED entryVars PROVE EntriesInv'
  <2>1. /\ kind' = kind /\ EntriesTypeOK' /\ elf_class' = elf_class /\ need_conversion' = need_conversion
        /\ data' = data /\ strtab' = strtab /\ added' = added /\ view' = view
    BY <1>1, <1>11 DEF entryVars, EntriesTypeOK
  <2>2. kind = "versym" => VersymInv'
    BY <2>1 DEF EntriesInv, VersymInv
  <2>3. kind = "array" => ArrayInv'
    BY <2>1 DEF EntriesInv, ArrayInv, array_entries, convertor, WIDTH
  <2>4. kind = "modinfo" => ModinfoInv'
    BY <2>1 DEF EntriesInv, ModinfoInv
  <2>5. kind = "note" => NoteInv'
    BY <2>1 DEF EntriesInv, NoteInv
  <2>6. kind = "dynamic" => DynamicInv'
    <3>1. dynamic_entries_num' = dynamic_entries_num /\ dynamic_entries(0)' = dynamic_entries(0)
      BY <2>1 DEF dynamic_entries_num, dynamic_entries, DynamicEntry, convertor, WIDTH
    <3> QED
      BY <2>1, <3>1 DEF EntriesInv, DynamicInv
  <2>7. kind \notin Kinds => added' = <<>>
    BY <2>1 DEF EntriesInv
  <2> QED
    BY <1>2, <2>1, <2>2, <2>3, <2>4, <2>5, <2>6, <2>7
<1> QED
  BY <1>3, <1>4, <1>5, <1>6, <1>7, <1>8, <1>9, <1>10, <1>11 DEF EntriesNext

\* A section of which this holds is read back, and the open accessor is current.
LEMMA EntriesRead ==
  ASSUME EntriesInv
  PROVE  ReadsBack /\ ViewIsCurrent
<1>1. need_conversion \in BOOLEAN
  BY DEF EntriesInv, EntriesTypeOK
<1>2. CASE kind = "versym"
  <2>1. VersymInv /\ kind # "dynamic"
    BY <1>2 DEF EntriesInv
  <2>2. versym_entries(Len(data)) = data
    BY <2>1, WholeIs DEF VersymInv, versym_entries
  <2> QED
    BY <1>2, <2>1, <2>2, ByKind DEF ReadsBack, ViewIsCurrent, VersymInv
<1>3. CASE kind = "array"
  BY <1>3, ByKind DEF EntriesInv, ReadsBack, ViewIsCurrent, ArrayInv
<1>4. CASE kind = "modinfo"
  BY <1>4, ByKind, AttributesNamed DEF EntriesInv, ReadsBack, ViewIsCurrent, ModinfoInv
<1>5. CASE kind = "note"
  <2>1. NoteInv /\ kind # "dynamic"
    BY <1>5 DEF EntriesInv
  <2>2. Opened = view /\ notes(view) = added
    BY <1>1, <1>5, <2>1, ByKind, NotesIn DEF NoteInv, notes
  <2> QED
    BY <1>5, <2>1, <2>2, ByKind DEF ReadsBack, ViewIsCurrent
<1>6. CASE kind = "dynamic"
  <2>1. DynamicInv /\ Opened = 0 /\ \A v : Entries(v) = dynamic_entries(v)
    BY <1>6, ByKind DEF EntriesInv
  <2>2. ReadsBack
    BY <2>1 DEF DynamicInv, ReadsBack
  <2> DEFINE n == dynamic_entries_num
             E(k) == DynamicEntry(data[k])
             V == {E(k) : k \in 1..n}
  <2>3. n \in Nat /\ view \in 0..n
    BY <2>1, NulsType DEF DynamicInv
  <2>4. \A v : dynamic_entries(v) = [k \in 1..(IF v = 0 THEN n ELSE v) |-> E(k)]
    BY DEF dynamic_entries
  <2>5. added = dynamic_entries(0)
    BY <2>1 DEF DynamicInv
  <2> HIDE DEF n, E
  <2>6. ASSUME NEW m \in 0..n PROVE IsPrefix([k \in 1..m |-> E(k)], [k \in 1..n |-> E(k)])
    <3> DEFINE s == [k \in 1..m |-> E(k)]
               t == [k \in 1..n |-> E(k)]
    <3>1. m \in Nat /\ m <= n
      BY <2>3
    <3>2. \A k \in 1..n : E(k) \in V
      OBVIOUS
    <3> HIDE DEF V
    <3>3. t \in Seq(V) /\ Len(t) = n
      BY <2>3, <3>2
    <3>4. s \in Seq(V) /\ Len(s) = m
      BY <2>3, <3>1, <3>2
    <3>5. \A k \in 1..m : t[0 + k] = s[k]
      BY <2>3, <3>1
    <3> HIDE DEF s, t
    <3>6. SubSeq(t, 0 + 1, 0 + Len(s)) = s
      BY <2>3, <3>1, <3>3, <3>4, <3>5, PartIs
    <3>7. SubSeq(s, 1, Len(s)) = s
      BY <3>4, WholeIs
    <3> QED
      BY <2>3, <3>1, <3>3, <3>4, <3>6, <3>7 DEF IsPrefix, s, t
  <2>7. Entries(view) = [k \in 1..(IF view = 0 THEN n ELSE view) |-> E(k)] /\ added = [k \in 1..n |-> E(k)]
    BY <2>1, <2>4, <2>5
  <2>8. (IF view = 0 THEN n ELSE view) \in 0..n
    BY <2>3
  <2>9. IsPrefix(Entries(view), added)
    BY <2>6, <2>7, <2>8
  <2> QED
    BY <1>6, <2>2, <2>9 DEF ViewIsCurrent
<1>7. CASE kind \notin Kinds
  BY <1>7, ByKind DEF EntriesInv, ReadsBack, ViewIsCurrent, Kinds
<1> QED
  BY <1>2, <1>3, <1>4, <1>5, <1>6, <1>7 DEF Kinds

LEMMA EntriesHold == EntriesSpec /\ ~FOREIGN_DYNAMIC => []EntriesInv
<1> SUFFICES ASSUME ~FOREIGN_DYNAMIC PROVE EntriesSpec => []EntriesInv
  OBVIOUS
<1>1. EntriesInit => EntriesInv
  BY EntriesInitInv
<1>2. EntriesInv /\ [EntriesNext]_entryVars => EntriesInv'
  BY EntriesNextInv
<1> QED
  BY <1>1, <1>2, PTL DEF EntriesSpec

\* Where no dynamic entry of 32 bits is added in the other byte order, an
\* accessor reads back every entry that was added, of every kind of table,
\* in both classes and byte orders: elfio_dynamic.hpp, elfio_array.hpp,
\* elfio_versym.hpp, elfio_note.hpp, elfio_modinfo.hpp.
THEOREM EntriesReadBack == EntriesSpec /\ ~FOREIGN_DYNAMIC => []ReadsBack
<1>1. EntriesInv => ReadsBack
  BY EntriesRead
<1> QED
  BY <1>1, EntriesHold, PTL

\* The accessor that added them has kept up: what it remembers of the section
\* gives the same entries, or of a dynamic section those it has counted.
THEOREM ViewsAreCurrent == EntriesSpec /\ ~FOREIGN_DYNAMIC => []ViewIsCurrent
<1>1. EntriesInv => ViewIsCurrent
  BY EntriesRead
<1> QED
  BY <1>1, EntriesHold, PTL

=============================================================================
