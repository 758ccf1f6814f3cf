---------------------------- MODULE ElfFileProofs ----------------------------
(***************************************************************************)
(* The files of ELFIO: the writes of a save never overlap, and what is     *)
(* loaded from a file is what was saved, for every object, every number of *)
(* sections and segments and every size of the headers.                    *)
(*                                                                         *)
(* A pass over a list is a recursive function: that it exists, and what    *)
(* holds of it, is shown by induction over the length of the pass.         *)
(***************************************************************************)
EXTENDS ElfFile, ElfSectionProofs

(***************************************************************************)
(* Lists of values of any kind.                                            *)
(***************************************************************************)

LEMMA FunctionList ==
  ASSUME NEW n \in Nat, NEW q, q = [k \in 1..n |-> q[k]]
  PROVE  IsList(q) /\ Len(q) = n /\ q \in Seq({q[k] : k \in 1..n})
<1> DEFINE V == {q[k] : k \in 1..n}
<1>1. \A k \in 1..n : q[k] \in V
  OBVIOUS
<1> HIDE DEF V
<1>2. [k \in 1..n |-> q[k]] \in Seq(V) /\ Len([k \in 1..n |-> q[k]]) = n
  BY <1>1, ListIs
<1> QED
  BY <1>2 DEF IsList, V

LEMMA ListSeq ==
  ASSUME NEW q, IsList(q)
  PROVE  q \in Seq({q[k] : k \in 1..Len(q)}) /\ Len(q) \in Nat /\ DOMAIN q = 1..Len(q)
<1>1. Len(q) \in Nat /\ q = [k \in 1..Len(q) |-> q[k]]
  BY DEF IsList
<1> DEFINE n == Len(q)
<1> HIDE DEF n
<1>2. n \in Nat /\ q = [k \in 1..n |-> q[k]]
  BY <1>1 DEF n
<1>3. q \in Seq({q[k] : k \in 1..n})
  BY <1>2, FunctionList
<1> QED
  BY <1>1, <1>3 DEF n

LEMMA SeqList ==
  ASSUME NEW V, NEW q \in Seq(V)
  PROVE  IsList(q)
BY DEF IsList

LEMMA EmptyList == IsList(<<>>) /\ Len(<<>>) = 0
<1>1. <<>> \in Seq({})
  OBVIOUS
<1> QED
  BY <1>1, SeqList

LEMMA JoinedList ==
  ASSUME NEW a, NEW b, IsList(a), IsList(b)
  PROVE  /\ IsList(a \o b) /\ Len(a \o b) = Len(a) + Len(b) /\ Len(a) \in Nat /\ Len(b) \in Nat
         /\ \A k \in 1..Len(a) : (a \o b)[k] = a[k]
         /\ \A k \in 1..Len(b) : (a \o b)[Len(a) + k] = b[k]
<1> DEFINE A == {a[k] : k \in 1..Len(a)}
           B == {b[k] : k \in 1..Len(b)}
           V == A \union B
<1>1. Len(a) \in Nat /\ Len(b) \in Nat /\ a = [k \in 1..Len(a) |-> a[k]] /\ b = [k \in 1..Len(b) |-> b[k]]
  BY DEF IsList
<1>2. (\A k \in 1..Len(a) : a[k] \in V) /\ \A k \in 1..Len(b) : b[k] \in V
  OBVIOUS
<1> HIDE DEF V
<1>3. a \in Seq(V)
  <2> DEFINE n == Len(a)
  <2>1. n \in Nat /\ \A k \in 1..n : a[k] \in V
    BY <1>1, <1>2
  <2> HIDE DEF n
  <2>2. [k \in 1..n |-> a[k]] \in Seq(V)
    BY <2>1, ListIs
  <2> QED
    BY <1>1, <2>2 DEF n
<1>4. b \in Seq(V)
  <2> DEFINE n == Len(b)
  <2>1. n \in Nat /\ \A k \in 1..n : b[k] \in V
    BY <1>1, <1>2
  <2> HIDE DEF n
  <2>2. [k \in 1..n |-> b[k]] \in Seq(V)
    BY <2>1, ListIs
  <2> QED
    BY <1>1, <2>2 DEF n
<1> HIDE DEF A, B
<1>5. /\ a \o b \in Seq(V) /\ Len(a \o b) = Len(a) + Len(b)
      /\ \A k \in 1..Len(a) : (a \o b)[k] = a[k]
      /\ \A k \in 1..Len(b) : (a \o b)[Len(a) + k] = b[k]
  BY <1>3, <1>4, JoinedAt
<1>6. IsList(a \o b)
  BY <1>5, SeqList
<1> QED
  BY <1>1, <1>5, <1>6

LEMMA SingleList ==
  ASSUME NEW x
  PROVE  IsList(<<x>>) /\ Len(<<x>>) = 1 /\ <<x>>[1] = x
<1>1. <<x>> \in Seq({x}) /\ Len(<<x>>) = 1 /\ <<x>>[1] = x
  OBVIOUS
<1> QED
  BY <1>1, SeqList

LEMMA AppendedList ==
  ASSUME NEW q, NEW x, IsList(q)
  PROVE  /\ IsList(Append(q, x)) /\ Len(Append(q, x)) = Len(q) + 1 /\ Append(q, x)[Len(q) + 1] = x
         /\ \A k \in 1..Len(q) : Append(q, x)[k] = q[k]
<1> DEFINE V == {q[k] : k \in 1..Len(q)} \union {x}
           n == Len(q)
<1>1. n \in Nat /\ q = [k \in 1..n |-> q[k]] /\ (\A k \in 1..n : q[k] \in V) /\ x \in V
  BY DEF IsList
<1> HIDE DEF V
<1>2. q \in Seq(V)
  <2> HIDE DEF n
  <2>1. [k \in 1..n |-> q[k]] \in Seq(V)
    BY <1>1, ListIs
  <2> QED
    BY <1>1, <2>1
<1>3. /\ Append(q, x) \in Seq(V) /\ Len(Append(q, x)) = n + 1 /\ Append(q, x)[n + 1] = x
      /\ \A k \in 1..n : Append(q, x)[k] = q[k]
  BY <1>1, <1>2
<1> QED
  BY <1>3, SeqList

LEMMA PartList ==
  ASSUME NEW q, IsList(q), NEW a \in 1..Len(q) + 1, NEW b \in 0..Len(q), a <= b + 1
  PROVE  /\ IsList(SubSeq(q, a, b)) /\ Len(SubSeq(q, a, b)) = b - a + 1
         /\ \A k \in 1..b - a + 1 : SubSeq(q, a, b)[k] = q[a + k - 1]
<1>1. q \in Seq({q[k] : k \in 1..Len(q)}) /\ Len(q) \in Nat
  BY ListSeq
<1> DEFINE V == {q[k] : k \in 1..Len(q)}
<1> HIDE DEF V
<1>2. q \in Seq(V)
  BY <1>1 DEF V
<1>3. /\ SubSeq(q, a, b) \in Seq(V) /\ Len(SubSeq(q, a, b)) = b - a + 1
      /\ \A k \in 1..b - a + 1 : SubSeq(q, a, b)[k] = q[a + k - 1]
  BY <1>1, <1>2
<1> QED
  BY <1>3, SeqList

\* A list with another value in one place.
Changed(q, i, x, t) == t = [q EXCEPT ![i] = x]

LEMMA ChangedList ==
  ASSUME NEW q, NEW i, NEW x, NEW t, IsList(q), i \in 1..Len(q), Changed(q, i, x, t)
  PROVE  IsList(t) /\ Len(t) = Len(q) /\ t[i] = x /\ \A k \in 1..Len(q) : k # i => t[k] = q[k]
<1> DEFINE n == Len(q)
<1>1. n \in Nat /\ DOMAIN q = 1..n
  BY ListSeq
<1>2. t = [k \in 1..n |-> t[k]] /\ t[i] = x /\ \A k \in 1..n : k # i => t[k] = q[k]
  BY <1>1 DEF Changed
<1> HIDE DEF n
<1>3. IsList(t) /\ Len(t) = n
  BY <1>1, <1>2, FunctionList
<1> QED
  BY <1>2, <1>3 DEF n

\* Of finitely many numbers there is a greatest.
LEMMA Bounded ==
  ASSUME NEW q, IsList(q), \A k \in 1..Len(q) : q[k] \in Nat
  PROVE  \E n \in Nat : \A k \in 1..Len(q) : q[k] <= n
<1> DEFINE n == Len(q)
           Below(m) == \E x \in Nat : \A k \in 1..m : q[k] <= x
           P == {m \in 0..n : Below(m)}
<1>1. n \in Nat
  BY DEF IsList
<1> HIDE DEF n
<1>2. 0 \in P
  BY <1>1
<1>3. ASSUME NEW m \in 0..n - 1, m \in P PROVE m + 1 \in P
  <2>1. PICK x \in Nat : \A k \in 1..m : q[k] <= x
    BY <1>3
  <2>2. m + 1 \in 0..n /\ m + 1 \in 1..n /\ q[m + 1] \in Nat
    BY <1>1 DEF n
  <2> DEFINE y == x + q[m + 1]
  <2>3. y \in Nat /\ x <= y /\ q[m + 1] <= y
    BY <2>2
  <2> HIDE DEF y
  <2>4. ASSUME NEW k \in 1..m + 1 PROVE q[k] <= y
    <3>1. k \in 1..m \/ k = m + 1
      BY <1>1
    <3>2. k \in 1..n /\ q[k] \in Nat
      BY <1>1 DEF n
    <3> QED
      BY <2>1, <2>3, <3>1, <3>2
  <2>5. Below(m + 1)
    BY <2>3, <2>4
  <2> HIDE DEF Below
  <2> QED
    BY <2>2, <2>5
<1> HIDE DEF P
<1>4. \A k \in 0..n : k \in P
  BY <1>1, <1>2, <1>3, Induction
<1>5. n \in P
  BY <1>1, <1>4
<1> QED
  BY <1>5 DEF P, n

LEMMA GreatestOf ==
  ASSUME NEW S, S # {}, NEW q, IsList(q), S \subseteq {q[k] : k \in 1..Len(q)}, S \subseteq Nat,
         \A k \in 1..Len(q) : q[k] \in Nat
  PROVE  Max(S) \in S /\ \A x \in S : x <= Max(S)
<1>1. PICK n \in Nat : \A k \in 1..Len(q) : q[k] <= n
  BY Bounded
<1>2. S \subseteq 0..n
  BY <1>1
<1>3. PICK m \in S : \A x \in S : m >= x
  <2> DEFINE rest == {n - k : k \in S}
  <2>1. rest \subseteq Nat /\ rest # {}
    <3>1. \A k \in S : n - k \in Nat
      BY <1>2
    <3> QED
      BY <3>1
  <2> HIDE DEF rest
  <2>2. PICK l \in rest : \A k \in rest : l <= k
    BY <2>1, LeastNat
  <2>3. PICK k \in S : l = n - k
    BY DEF rest
  <2>4. \A x \in S : n - k <= n - x
    BY <2>2, <2>3 DEF rest
  <2> QED
    BY <2>4
<1>4. Max(S) \in S /\ \A x \in S : Max(S) >= x
  BY <1>3 DEF Max
<1> QED
  BY <1>4

(***************************************************************************)
(* The writes of a file.                                                   *)
(***************************************************************************)

IsFile(file) == IsList(file) /\ \A k \in 1..Len(file) : file[k].at \in Nat /\ file[k].len \in Nat

\* Files that do not overlap each other.
Apart(file, other) == \A j \in DOMAIN file, k \in DOMAIN other : ~Overlap(file[j], other[k])

LEMMA JoinedFile ==
  ASSUME NEW a, NEW b, IsFile(a), IsFile(b)
  PROVE  /\ IsFile(a \o b) /\ ToSet(a \o b) = ToSet(a) \union ToSet(b)
         /\ Disjoint(a) /\ Disjoint(b) /\ Apart(a, b) => Disjoint(a \o b)
<1> DEFINE c == a \o b
           n == Len(a)
           m == Len(b)
<1>1. /\ IsList(c) /\ Len(c) = n + m /\ n \in Nat /\ m \in Nat
      /\ \A k \in 1..n : c[k] = a[k]
      /\ \A k \in 1..m : c[n + k] = b[k]
  BY JoinedList DEF IsFile
<1>2. DOMAIN a = 1..n /\ DOMAIN b = 1..m /\ DOMAIN c = 1..n + m
  BY <1>1, ListSeq DEF IsFile
<1> HIDE DEF c
<1>3. \A k \in 1..n + m : (k \in 1..n /\ c[k] = a[k]) \/ (k - n \in 1..m /\ c[k] = b[k - n])
  <2> HIDE DEF n, m
  <2> TAKE k \in 1..n + m
  <2>1. CASE k \in 1..n
    BY <1>1, <2>1
  <2>2. CASE k \notin 1..n
    <3>1. k - n \in 1..m /\ n + (k - n) = k
      BY <1>1, <2>2
    <3>2. c[n + (k - n)] = b[k - n]
      BY <1>1, <3>1
    <3> QED
      BY <3>1, <3>2
  <2> QED
    BY <2>1, <2>2
<1> HIDE DEF n, m
<1>4. IsFile(c)
  <2>1. \A k \in 1..n + m : c[k].at \in Nat /\ c[k].len \in Nat
    BY <1>3 DEF IsFile, n, m
  <2> QED
    BY <1>1, <2>1 DEF IsFile
<1>5. ToSet(c) = ToSet(a) \union ToSet(b)
  <2>1. ToSet(c) \subseteq ToSet(a) \union ToSet(b)
    BY <1>2, <1>3 DEF ToSet
  <2>2. \A k \in 1..n : k \in 1..n + m /\ c[k] = a[k]
    BY <1>1
  <2>3. \A k \in 1..m : n + k \in 1..n + m /\ c[n + k] = b[k]
    BY <1>1
  <2>4. ToSet(a) \subseteq ToSet(c) /\ ToSet(b) \subseteq ToSet(c)
    BY <1>2, <2>2, <2>3 DEF ToSet
  <2> QED
    BY <2>1, <2>4
<1>6. ASSUME Disjoint(a), Disjoint(b), Apart(a, b), NEW j \in 1..n + m, NEW k \in 1..n + m, j < k
      PROVE  ~Overlap(c[j], c[k])
  <2>1. CASE j \in 1..n /\ c[j] = a[j] /\ k \in 1..n /\ c[k] = a[k]
    BY <1>2, <1>6, <2>1 DEF Disjoint
  <2>2. CASE j \in 1..n /\ c[j] = a[j] /\ k - n \in 1..m /\ c[k] = b[k - n]
    BY <1>2, <1>6, <2>2 DEF Apart
  <2>3. CASE j - n \in 1..m /\ c[j] = b[j - n] /\ k - n \in 1..m /\ c[k] = b[k - n]
    <3>1. j - n < k - n
      BY <1>1, <1>6
    <3> QED
      BY <1>2, <1>6, <2>3, <3>1 DEF Disjoint
  <2>4. CASE j - n \in 1..m /\ k \in 1..n
    BY <1>1, <1>6, <2>4
  <2> QED
    BY <1>3, <2>1, <2>2, <2>3, <2>4
<1>7. Disjoint(a) /\ Disjoint(b) /\ Apart(a, b) => Disjoint(c)
  BY <1>2, <1>6 DEF Disjoint
<1> QED
  BY <1>4, <1>5, <1>7 DEF c

\* What was written is what is read.
LEMMA ReadBack ==
  ASSUME NEW file, IsFile(file), Disjoint(file), NEW w, w \in ToSet(file), w.len # 0
  PROVE  Read(file, w.at, w.len) = w.what
<1> DEFINE Whole(k) == /\ file[k].at = w.at /\ file[k].len = w.len
                       /\ \A j \in k + 1..Len(file) : ~Overlap(file[j], file[k])
<1>1. DOMAIN file = 1..Len(file) /\ Len(file) \in Nat
  BY ListSeq DEF IsFile
<1>2. PICK k \in 1..Len(file) : file[k] = w
  BY <1>1 DEF ToSet
<1>3. w.at \in Nat /\ w.len \in Nat
  BY <1>2 DEF IsFile
<1>4. Whole(k)
  <2>1. \A j \in k + 1..Len(file) : j \in 1..Len(file) /\ k < j
    BY <1>1
  <2>2. \A j \in k + 1..Len(file) : ~Overlap(file[k], file[j])
    BY <1>1, <2>1 DEF Disjoint
  <2> QED
    BY <1>2, <2>2 DEF Overlap
<1> DEFINE c == CHOOSE j \in DOMAIN file : Whole(j)
<1>5. c \in 1..Len(file) /\ Whole(c)
  BY <1>1, <1>4
<1>6. c = k
  <2> SUFFICES ASSUME c # k PROVE FALSE
    OBVIOUS
  <2>1. Overlap(file[c], file[k]) /\ Overlap(file[k], file[c])
    <3>1. file[c].at = w.at /\ file[c].len = w.len
      BY <1>5
    <3> HIDE DEF c
    <3> QED
      BY <1>2, <1>3, <3>1 DEF Overlap
  <2>2. c < k \/ k < c
    BY <1>5
  <2> HIDE DEF c
  <2> QED
    BY <1>1, <1>5, <2>1, <2>2 DEF Disjoint
<1>7. Read(file, w.at, w.len) = file[c].what
  <2>1. \E j \in DOMAIN file : Whole(j)
    BY <1>1, <1>4
  <2> QED
    BY <2>1, Zenon DEF Read
<1> QED
  BY <1>2, <1>6, <1>7

LEMMA LengthOf ==
  ASSUME NEW file, IsFile(file)
  PROVE  FileLength(file) \in Nat /\ \A w \in ToSet(file) : w.at + w.len <= FileLength(file)
<1> DEFINE n == Len(file)
           q == [k \in 1..n + 1 |-> IF k = n + 1 THEN 0 ELSE file[k].at + file[k].len]
           S == {0} \union {file[k].at + file[k].len : k \in DOMAIN file}
<1>1. n \in Nat /\ DOMAIN file = 1..n /\ n + 1 \in Nat
  BY ListSeq DEF IsFile
<1>2. IsList(q) /\ Len(q) = n + 1
  <2> DEFINE m == n + 1
  <2>1. m \in Nat /\ q = [k \in 1..m |-> q[k]]
    BY <1>1
  <2> HIDE DEF q, m
  <2> QED
    BY <2>1, FunctionList DEF m
<1>3. \A k \in 1..n + 1 : q[k] \in Nat
  BY <1>1 DEF IsFile
<1>4. S \subseteq {q[k] : k \in 1..n + 1}
  <2>1. q[n + 1] = 0 /\ n + 1 \in 1..n + 1
    BY <1>1
  <2>2. \A k \in 1..n : k \in 1..n + 1 /\ q[k] = file[k].at + file[k].len
    BY <1>1
  <2> HIDE DEF q
  <2> QED
    BY <1>1, <2>1, <2>2
<1>5. S \subseteq Nat
  BY <1>3, <1>4
<1> HIDE DEF q
<1>6. Max(S) \in S /\ \A x \in S : x <= Max(S)
  <2> HIDE DEF S, n
  <2>1. S # {}
    BY DEF S
  <2> QED
    BY <1>2, <1>3, <1>4, <1>5, <2>1, GreatestOf
<1>7. FileLength(file) = Max(S)
  BY DEF FileLength
<1> QED
  BY <1>1, <1>5, <1>6, <1>7 DEF ToSet

\* The files of a list, one behind the other.
Flattened(f, q) == f = [i \in 1..Len(q) |-> IF i = 1 THEN q[i] ELSE f[i - 1] \o q[i]]

LEMMA FlattenedExists ==
  ASSUME NEW q, Len(q) \in Nat
  PROVE  \E f : Flattened(f, q)
<1> DEFINE n == Len(q)
           Upto(m) == \E f : f = [i \in 1..m |-> IF i = 1 THEN q[i] ELSE f[i - 1] \o q[i]]
           P == {m \in 0..n : Upto(m)}
<1>1. n \in Nat
  OBVIOUS
<1> HIDE DEF n
<1>2. 0 \in P
  <2>1. <<>> = [i \in 1..0 |-> IF i = 1 THEN q[i] ELSE <<>>[i - 1] \o q[i]]
    OBVIOUS
  <2>2. Upto(0)
    BY <2>1
  <2> HIDE DEF Upto
  <2> QED
    BY <1>1, <2>2
<1>3. ASSUME NEW m \in 0..n - 1, m \in P PROVE m + 1 \in P
  <2>1. PICK f : f = [i \in 1..m |-> IF i = 1 THEN q[i] ELSE f[i - 1] \o q[i]]
    BY <1>3
  <2>2. m \in Nat /\ m + 1 \in 0..n
    BY <1>1
  <2> DEFINE x == IF m = 0 THEN q[1] ELSE f[m] \o q[m + 1]
             g == [i \in 1..m + 1 |-> IF i = m + 1 THEN x ELSE f[i]]
  <2> HIDE DEF x
  <2>3. ASSUME NEW i \in 1..m + 1 PROVE g[i] = IF i = 1 THEN q[i] ELSE g[i - 1] \o q[i]
    <3>1. CASE i = m + 1
      <4>1. g[i] = x /\ i - 1 = m /\ (i = 1 <=> m = 0) /\ (m # 0 => m \in 1..m + 1 /\ m # m + 1)
        BY <2>2, <3>1
      <4>2. m # 0 => g[m] = f[m]
        BY <4>1
      <4> HIDE DEF g
      <4> QED
        BY <3>1, <4>1, <4>2 DEF x
    <3>2. CASE i # m + 1
      <4>1. i \in 1..m /\ g[i] = f[i] /\ (i # 1 => i - 1 \in 1..m /\ g[i - 1] = f[i - 1])
        BY <2>2, <3>2
      <4>2. f[i] = IF i = 1 THEN q[i] ELSE f[i - 1] \o q[i]
        BY <2>1, <4>1
      <4> HIDE DEF g
      <4> QED
        BY <4>1, <4>2
    <3> QED
      BY <3>1, <3>2
  <2>4. g = [i \in 1..m + 1 |-> g[i]]
    OBVIOUS
  <2> HIDE DEF g
  <2>5. g = [i \in 1..m + 1 |-> IF i = 1 THEN q[i] ELSE g[i - 1] \o q[i]]
    BY <2>3, <2>4
  <2>6. m + 1 \in 0..n /\ Upto(m + 1)
    BY <2>2, <2>5
  <2> HIDE DEF Upto
  <2> QED
    BY <2>6
<1> HIDE DEF P
<1>4. n \in P
  <2>1. \A k \in 0..n : k \in P
    BY <1>1, <1>2, <1>3, Induction
  <2> QED
    BY <1>1, <2>1
<1> QED
  BY <1>4 DEF P, n, Flattened

LEMMA FlattenIs ==
  ASSUME NEW q, IsList(q), \A i \in 1..Len(q) : IsFile(q[i])
  PROVE  /\ IsFile(FlattenSeq(q)) /\ ToSet(FlattenSeq(q)) = UNION {ToSet(q[i]) : i \in 1..Len(q)}
         /\ (\A i \in 1..Len(q) : Disjoint(q[i])) /\ (\A i, j \in 1..Len(q) : i < j => Apart(q[i], q[j]))
              => Disjoint(FlattenSeq(q))
<1> DEFINE n == Len(q)
<1>1. n \in Nat /\ q = [k \in 1..n |-> q[k]]
  BY DEF IsList
<1>2. CASE n = 0
  <2>1. FlattenSeq(q) = q
    BY <1>2 DEF FlattenSeq
  <2>2. IsFile(q) /\ Disjoint(q) /\ ToSet(q) = {}
    BY <1>1, <1>2 DEF IsFile, Disjoint, ToSet
  <2> QED
    BY <1>2, <2>1, <2>2
<1>3. CASE n # 0
  <2> DEFINE f == CHOOSE g : Flattened(g, q)
             Writes(m) == UNION {ToSet(q[i]) : i \in 1..m}
             apart == (\A i \in 1..n : Disjoint(q[i])) /\ (\A i, j \in 1..n : i < j => Apart(q[i], q[j]))
             Good(m) == m # 0 => IsFile(f[m]) /\ ToSet(f[m]) = Writes(m) /\ (apart => Disjoint(f[m]))
             P == {m \in 0..n : Good(m)}
  <2>1. Flattened(f, q)
    BY <1>1, FlattenedExists
  <2>2. FlattenSeq(q) = f[n]
    BY <1>3 DEF FlattenSeq, Flattened
  <2> HIDE DEF f
  <2> HIDE DEF n
  <2>3. 0 \in P
    BY <1>1
  <2>4. ASSUME NEW m \in 0..n - 1, m \in P PROVE m + 1 \in P
    <3>1. m \in Nat /\ m + 1 \in 1..n /\ m + 1 \in 0..n /\ (m + 1) - 1 = m
      BY <1>1
    <3>2. m + 1 \in 1..n /\ m + 1 \in 0..n /\ f[m + 1] = IF m + 1 = 1 THEN q[m + 1] ELSE f[m] \o q[m + 1]
      <4>1. f = [i \in 1..n |-> IF i = 1 THEN q[i] ELSE f[i - 1] \o q[i]]
        BY <2>1 DEF Flattened, n
      <4>2. f[m + 1] = IF m + 1 = 1 THEN q[m + 1] ELSE f[(m + 1) - 1] \o q[m + 1]
        BY <3>1, <4>1
      <4> QED
        BY <3>1, <4>2
    <3>3. IsFile(q[m + 1]) /\ (apart => Disjoint(q[m + 1]))
      BY <3>1 DEF n
    <3>4. CASE m = 0
      <4>1. f[1] = q[1] /\ Writes(1) = ToSet(q[1])
        BY <3>2, <3>4
      <4> HIDE DEF Writes, apart
      <4> QED
        BY <3>2, <3>3, <3>4, <4>1
    <3>5. CASE m # 0
      <4>1. f[m + 1] = f[m] \o q[m + 1]
        <5>1. m + 1 # 1
          BY <3>1, <3>5
        <5> QED
          BY <3>2, <5>1
      <4>2. IsFile(f[m]) /\ ToSet(f[m]) = Writes(m) /\ (apart => Disjoint(f[m]))
        BY <2>4, <3>5
      <4>3. Writes(m + 1) = Writes(m) \union ToSet(q[m + 1])
        <5>1. 1..m + 1 = (1..m) \union {m + 1}
          BY <1>1
        <5> QED
          BY <5>1
      <4>4. apart => Apart(f[m], q[m + 1])
        <5> SUFFICES ASSUME apart, NEW j \in DOMAIN f[m], NEW k \in DOMAIN q[m + 1] PROVE ~Overlap(f[m][j], q[m + 1][k])
          BY DEF Apart
        <5>1. f[m][j] \in Writes(m)
          BY <4>2 DEF ToSet
        <5>2. PICK i \in 1..m : f[m][j] \in ToSet(q[i])
          BY <5>1
        <5>3. i \in 1..n /\ i < m + 1 /\ \E l \in DOMAIN q[i] : f[m][j] = q[i][l]
          BY <1>1, <5>2 DEF ToSet
        <5>4. Apart(q[i], q[m + 1])
          BY <3>2, <5>3
        <5> QED
          BY <5>3, <5>4 DEF Apart
      <4> HIDE DEF Writes, apart
      <4>5. /\ IsFile(f[m + 1]) /\ ToSet(f[m + 1]) = ToSet(f[m]) \union ToSet(q[m + 1])
            /\ apart => Disjoint(f[m + 1])
        BY <3>3, <4>1, <4>2, <4>4, JoinedFile
      <4> QED
        BY <3>2, <4>2, <4>3, <4>5
    <3> QED
      BY <3>4, <3>5
  <2> HIDE DEF P
  <2>5. \A k \in 0..n : k \in P
    BY <1>1, <2>3, <2>4, Induction
  <2>6. n \in P
    BY <1>1, <2>5
  <2>7. IsFile(f[n]) /\ ToSet(f[n]) = Writes(n) /\ (apart => Disjoint(f[n]))
    BY <1>3, <2>6 DEF P
  <2> QED
    BY <2>2, <2>7 DEF n
<1> QED
  BY <1>2, <1>3

(***************************************************************************)
(* What a user does to an object leaves it an object.                      *)
(***************************************************************************)
SectionFields == {"index", "name", "address_set", "data", "stream_size", "name_offset", "type", "alloc", "tls",
                  "address", "offset", "size", "link", "info", "addr_align", "entry_size"}

LEMMA FieldsAre ==
  /\ DOMAIN NullSection = SectionFields /\ \A i : DOMAIN NewSection(i) = SectionFields
  /\ DOMAIN NoObject = {"sec", "seg", "phoff", "shoff", "shstrndx"}
BY DEF NullSection, NewSection, NoObject, SectionFields

LEMMA AlignedToNat ==
  ASSUME NEW o, NEW align \in Nat, NEW secs, IsList(secs), \A j \in DOMAIN secs : Section(o, secs[j]).addr_align \in Nat
  PROVE  AlignedTo(o, align, secs) \in Nat
<1> DEFINE n == Len(secs)
           A(k) == Section(o, secs[k]).addr_align
           q == [k \in 1..n + 1 |-> IF k = n + 1 THEN align ELSE A(k)]
           S == {align} \union {A(j) : j \in DOMAIN secs}
<1>1. n \in Nat /\ DOMAIN secs = 1..n
  BY ListSeq
<1>2. \A k \in 1..n : A(k) \in Nat
  BY <1>1
<1>3. AlignedTo(o, align, secs) = Max(S)
  BY DEF AlignedTo
<1> HIDE DEF A, n
<1>4. IsList(q) /\ Len(q) = n + 1
  <2> DEFINE m == n + 1
  <2>1. m \in Nat /\ q = [k \in 1..m |-> q[k]]
    BY <1>1
  <2> HIDE DEF q, m
  <2> QED
    BY <2>1, FunctionList DEF m
<1>5. \A k \in 1..n + 1 : q[k] \in Nat
  BY <1>1, <1>2
<1>6. S \subseteq {q[k] : k \in 1..n + 1}
  <2>1. q[n + 1] = align /\ n + 1 \in 1..n + 1
    BY <1>1
  <2>2. \A k \in 1..n : k \in 1..n + 1 /\ q[k] = A(k)
    BY <1>1
  <2> HIDE DEF q
  <2> QED
    BY <1>1, <2>1, <2>2
<1>7. S \subseteq Nat /\ S # {}
  BY <1>1, <1>2
<1> HIDE DEF q, S
<1>8. Max(S) \in S
  BY <1>4, <1>5, <1>6, <1>7, GreatestOf
<1> QED
  BY <1>3, <1>7, <1>8

\* The cells a section may hold when some are added to it.
Cells(s, more) == {s.data[k] : k \in 1..Len(s.data)} \union more \union {Unwritten, Blank}

LEMMA SectionBuffered ==
  ASSUME NEW s, NEW i, NEW more, IsSection(s, i), s.type # "NOBITS", has_data(s)
  PROVE  Buffered(Cells(s, more), s)
<1> DEFINE V == {s.data[k] : k \in 1..Len(s.data)}
<1>1. s.data \in Seq(V)
  BY ListSeq DEF IsSection
<1>2. V \subseteq Cells(s, more)
  BY DEF Cells
<1> HIDE DEF V
<1> DEFINE W == Cells(s, more)
<1> HIDE DEF W
<1>3. s.data \in Seq(W)
  BY <1>1, <1>2 DEF W
<1>4. DOMAIN s = DOMAIN NewSection(0) /\ s.size \in Nat /\ Len(s.data) >= s.size
  BY FieldsAre DEF IsSection, has_data
<1> QED
  BY <1>3, <1>4 DEF Buffered, W

\* A section with another buffer of its contents.
Rebuffered(s, t) == t = [s EXCEPT !.data = t.data, !.size = t.size, !.stream_size = t.stream_size]

LEMMA SectionExtended ==
  ASSUME NEW s, NEW i, IsSection(s, i), NEW V, NEW t, Buffered(V, t), Rebuffered(s, t)
  PROVE  /\ IsSection(t, i) /\ t.name = s.name /\ t.name_offset = s.name_offset /\ t.type = s.type
<1>1. IsList(t.data) /\ has_data(t) /\ t.size \in Nat
  BY SeqList DEF Buffered, has_data
<1>2. DOMAIN s = SectionFields
  BY FieldsAre DEF IsSection
<1>3. /\ DOMAIN t = SectionFields /\ t.index = s.index /\ t.name = s.name /\ t.name_offset = s.name_offset /\ t.type = s.type
      /\ t.offset = s.offset /\ t.addr_align = s.addr_align /\ t.address = s.address /\ t.address_set = s.address_set
  BY <1>2 DEF SectionFields, Rebuffered
<1> QED
  BY <1>1, <1>3, FieldsAre DEF IsSection

\* The rest of two objects is the same.
SameRest(o, p) ==
  /\ DOMAIN p = DOMAIN o /\ p.seg = o.seg /\ p.phoff = o.phoff /\ p.shoff = o.shoff /\ p.shstrndx = o.shstrndx

\* A section that is added and named: in the table, which may be the section.
Added(o, name, a) ==
  /\ SameRest(o, a)
  /\ IsList(a.sec) /\ Len(a.sec) = Len(o.sec) + 1 /\ \A k \in 1..Len(a.sec) : IsSection(a.sec[k], k - 1)
  /\ \A k \in 1..Len(o.sec) : /\ a.sec[k].name = o.sec[k].name /\ a.sec[k].name_offset = o.sec[k].name_offset
                              /\ a.sec[k].type = o.sec[k].type
  /\ LET new == a.sec[Len(o.sec) + 1]  table == a.sec[o.shstrndx + 1] IN
       /\ new.name = name /\ new.type = "NULL" /\ get_string(table, new.name_offset) = name
       /\ o.shstrndx < Len(o.sec) =>
            \A k \in Nat : get_string(o.sec[o.shstrndx + 1], k) # NoString
                             => get_string(table, k) = get_string(o.sec[o.shstrndx + 1], k)
       /\ o.shstrndx = Len(o.sec) => get_string(table, 0) = Blank

LEMMA SectionAdded ==
  ASSUME NEW o, NEW name, DOMAIN o = DOMAIN NoObject, IsList(o.sec), \A k \in 1..Len(o.sec) : IsSection(o.sec[k], k - 1),
         o.shstrndx \in 1..Len(o.sec), o.shstrndx < Len(o.sec) => Occupies(o.sec[o.shstrndx + 1])
  PROVE  Added(o, name, AddSection(o, name))
<1> DEFINE i == Len(o.sec)
           x == o.shstrndx + 1
           fresh == [NewSection(i) EXCEPT !.name = name]
           grown == Append(o.sec, fresh)
           added == add_string(grown[x], name)
           named == [grown EXCEPT ![x] = added.sec]
           a == AddSection(o, name)
<1>1. i \in Nat /\ x \in 1..i + 1
  BY DEF IsList
<1>2. a = [o EXCEPT !.sec = [named EXCEPT ![i + 1].name_offset = added.at]]
  BY Zenon DEF AddSection
<1>3. IsSection(fresh, i) /\ fresh.name = name /\ fresh.type = "NULL" /\ fresh.size = 0
  <2>1. /\ DOMAIN fresh = SectionFields /\ fresh.index = i /\ fresh.name = name /\ fresh.type = "NULL" /\ fresh.size = 0
        /\ fresh.offset = 0 /\ fresh.addr_align = 0 /\ fresh.name_offset = 0 /\ fresh.address = 0
        /\ fresh.address_set = FALSE /\ fresh.data = <<>>
    BY DEF NewSection, SectionFields
  <2> HIDE DEF fresh, i
  <2>2. Occupies(fresh) => has_data(fresh)
    BY <2>1, EmptyList DEF Occupies
  <2>3. DOMAIN fresh = DOMAIN NullSection
    BY <2>1, FieldsAre
  <2>4. fresh.size \in Nat /\ fresh.offset \in Nat /\ fresh.addr_align \in Nat /\ fresh.name_offset \in Nat /\ fresh.address \in Int
    BY <2>1
  <2>5. fresh.address_set \in BOOLEAN /\ IsList(fresh.data)
    BY <2>1, EmptyList
  <2> QED
    BY <2>1, <2>2, <2>3, <2>4, <2>5 DEF IsSection
<1> HIDE DEF fresh
<1>4. IsList(grown) /\ Len(grown) = i + 1 /\ grown[i + 1] = fresh /\ \A k \in 1..i : grown[k] = o.sec[k]
  BY AppendedList
<1> HIDE DEF grown, a
<1>5. \A k \in 1..i + 1 : IsSection(grown[k], k - 1)
  <2> SUFFICES ASSUME NEW k \in 1..i + 1 PROVE IsSection(grown[k], k - 1)
    OBVIOUS
  <2> HIDE DEF i
  <2>1. CASE k = i + 1
    <3>1. k - 1 = i
      BY <1>1, <2>1
    <3> QED
      BY <1>3, <1>4, <2>1, <3>1
  <2>2. CASE k # i + 1
    <3>1. k \in 1..i
      BY <1>1, <2>2
    <3> QED
      BY <1>4, <3>1 DEF i
  <2> QED
    BY <2>1, <2>2
<1> HIDE DEF i
<1> DEFINE V == Cells(grown[x], {name})
<1>6. Buffered(V, grown[x]) /\ Unwritten \in V /\ Blank \in V /\ name \in V
  <2>1. grown[x].type # "NOBITS" /\ has_data(grown[x])
    <3>1. CASE x = i + 1
      <4>1. Len(fresh.data) >= fresh.size
        BY <1>3 DEF IsSection, IsList
      <4> QED
        BY <1>3, <1>4, <3>1, <4>1 DEF has_data
    <3>2. CASE x # i + 1
      <4>1. x \in 1..i /\ o.shstrndx < Len(o.sec)
        BY <1>1, <3>2 DEF i
      <4>2. grown[x] = o.sec[x] /\ Occupies(o.sec[x])
        BY <1>4, <4>1
      <4> QED
        BY <1>1, <1>5, <4>2 DEF IsSection, Occupies
    <3> QED
      BY <3>1, <3>2
  <2> HIDE DEF x
  <2>2. Buffered(V, grown[x])
    BY <1>1, <1>5, <2>1, SectionBuffered
  <2>3. Unwritten \in V /\ Blank \in V /\ name \in V
    BY DEF Cells
  <2> QED
    BY <2>2, <2>3
<1> HIDE DEF V
<1>7. Buffered(V, added.sec) /\ FoundIn(grown[x], added, name)
  BY <1>6, StringAdded
<1> HIDE DEF added
<1>8. /\ IsSection(added.sec, x - 1) /\ added.sec.name = grown[x].name /\ added.sec.name_offset = grown[x].name_offset
      /\ added.sec.type = grown[x].type /\ added.at \in Nat
  <2>1. Rebuffered(grown[x], added.sec)
    BY <1>7 DEF FoundIn, Rebuffered
  <2>2. added.at \in Nat
    BY <1>7 DEF FoundIn
  <2> HIDE DEF x
  <2> DEFINE t == added.sec
             s == grown[x]
             j == x - 1
  <2>3. /\ IsSection(s, j) /\ Buffered(V, t)
        /\ Rebuffered(s, t)
    BY <1>1, <1>5, <1>7, <2>1
  <2> HIDE DEF t, s, j
  <2>4. IsSection(t, j) /\ t.name = s.name /\ t.name_offset = s.name_offset /\ t.type = s.type
    BY <2>3, SectionExtended
  <2> QED
    BY <2>2, <2>4 DEF s, t, j
<1>9. IsList(named) /\ Len(named) = i + 1 /\ named[x] = added.sec /\ \A k \in 1..i + 1 : k # x => named[k] = grown[k]
  <2> HIDE DEF x
  <2> DEFINE y == added.sec
  <2>1. IsList(grown) /\ x \in 1..Len(grown)
    BY <1>1, <1>4
  <2>2. Changed(grown, x, y, named)
    BY DEF Changed
  <2> HIDE DEF y, named
  <2>3. IsList(named) /\ Len(named) = Len(grown) /\ named[x] = y /\ \A k \in 1..Len(grown) : k # x => named[k] = grown[k]
    BY <2>1, <2>2, ChangedList
  <2> QED
    BY <1>4, <2>3 DEF y
<1> HIDE DEF named
<1>10. \A k \in 1..i + 1 : /\ IsSection(named[k], k - 1) /\ named[k].name = grown[k].name /\ named[k].type = grown[k].type
                           /\ named[k].name_offset = grown[k].name_offset
  <2> HIDE DEF x
  <2> QED
    BY <1>5, <1>8, <1>9
<1> DEFINE last == [named[i + 1] EXCEPT !.name_offset = added.at]
<1>11. /\ IsSection(last, i) /\ last.name = named[i + 1].name /\ last.type = named[i + 1].type /\ last.name_offset = added.at
       /\ last.data = named[i + 1].data /\ last.size = named[i + 1].size
  <2> DEFINE s == named[i + 1]
  <2>1. IsSection(s, i)
    <3>1. i + 1 \in 1..i + 1 /\ (i + 1) - 1 = i
      BY <1>1
    <3> QED
      BY <1>10, <3>1
  <2>2. DOMAIN s = SectionFields
    BY <2>1, FieldsAre DEF IsSection
  <2> HIDE DEF s
  <2> DEFINE t == [s EXCEPT !.name_offset = added.at]
  <2>3. /\ DOMAIN t = SectionFields /\ t.index = s.index /\ t.name = s.name /\ t.name_offset = added.at /\ t.type = s.type
        /\ t.offset = s.offset /\ t.addr_align = s.addr_align /\ t.address = s.address /\ t.address_set = s.address_set
        /\ t.data = s.data /\ t.size = s.size
    BY <2>2 DEF SectionFields
  <2> HIDE DEF t
  <2>4. IsSection(t, i)
    BY <1>8, <2>1, <2>3, FieldsAre DEF IsSection, Occupies, has_data
  <2> QED
    BY <2>3, <2>4 DEF s, t
<1> HIDE DEF last
<1> DEFINE secs == [named EXCEPT ![i + 1] = last]
<1>12. IsList(secs) /\ Len(secs) = i + 1 /\ secs[i + 1] = last /\ \A k \in 1..i + 1 : k # i + 1 => secs[k] = named[k]
  <2> DEFINE m == i + 1
  <2>1. m \in 1..Len(named) /\ Len(named) = m
    BY <1>1, <1>9
  <2> HIDE DEF m
  <2> DEFINE t == [named EXCEPT ![m] = last]
  <2> HIDE DEF t
  <2>2. Changed(named, m, last, t)
    BY DEF Changed, t
  <2>3. IsList(t) /\ Len(t) = Len(named) /\ t[m] = last /\ \A k \in 1..Len(named) : k # m => t[k] = named[k]
    BY <1>9, <2>1, <2>2, ChangedList
  <2>4. IsList(t) /\ Len(t) = m /\ t[m] = last /\ \A k \in 1..m : k # m => t[k] = named[k]
    BY <2>1, <2>3
  <2> QED
    BY <2>4 DEF t, m
<1>13. a.sec = secs /\ SameRest(o, a)
  <2>1. DOMAIN o = {"sec", "seg", "phoff", "shoff", "shstrndx"}
    BY FieldsAre
  <2>2. [named EXCEPT ![i + 1].name_offset = added.at] = secs
    BY DEF last
  <2>3. a = [o EXCEPT !.sec = secs]
    BY <1>2, <2>2
  <2> HIDE DEF secs
  <2> QED
    BY <2>1, <2>3 DEF SameRest
<1> HIDE DEF secs
<1>14. \A k \in 1..i + 1 : IsSection(a.sec[k], k - 1) /\ a.sec[k].name = grown[k].name /\ a.sec[k].type = grown[k].type
  <2> SUFFICES ASSUME NEW k \in 1..i + 1
               PROVE  IsSection(a.sec[k], k - 1) /\ a.sec[k].name = grown[k].name /\ a.sec[k].type = grown[k].type
    OBVIOUS
  <2>1. CASE k = i + 1
    <3>1. k - 1 = i
      BY <1>1, <2>1
    <3> QED
      BY <1>10, <1>11, <1>12, <1>13, <2>1, <3>1
  <2>2. CASE k # i + 1
    BY <1>10, <1>12, <1>13, <2>2
  <2> QED
    BY <2>1, <2>2
<1>15. \A k \in 1..i : /\ a.sec[k].name = o.sec[k].name /\ a.sec[k].name_offset = o.sec[k].name_offset
                       /\ a.sec[k].type = o.sec[k].type
  <2> SUFFICES ASSUME NEW k \in 1..i
               PROVE  /\ a.sec[k].name = o.sec[k].name /\ a.sec[k].name_offset = o.sec[k].name_offset
                      /\ a.sec[k].type = o.sec[k].type
    OBVIOUS
  <2>1. k \in 1..i + 1 /\ k # i + 1
    BY <1>1
  <2> QED
    BY <1>4, <1>10, <1>12, <1>13, <2>1
<1>16. a.sec[x].data = added.sec.data /\ a.sec[x].size = added.sec.size
  <2>1. CASE x = i + 1
    BY <1>9, <1>11, <1>12, <1>13, <2>1
  <2>2. CASE x # i + 1
    BY <1>1, <1>9, <1>12, <1>13, <2>2
  <2> QED
    BY <2>1, <2>2
<1>17. \A k : get_string(a.sec[x], k) = get_string(added.sec, k)
  BY <1>16 DEF get_string, has_data
<1>18. a.sec[i + 1].name = name /\ a.sec[i + 1].type = "NULL" /\ get_string(a.sec[x], a.sec[i + 1].name_offset) = name
  <2>1. a.sec[i + 1] = last /\ get_string(added.sec, added.at) = name
    BY <1>7, <1>12, <1>13 DEF FoundIn
  <2>2. last.name = fresh.name /\ last.type = fresh.type
    BY <1>1, <1>4, <1>10, <1>11
  <2> QED
    BY <1>3, <1>11, <1>17, <2>1, <2>2
<1>19. ASSUME o.shstrndx < i, NEW k \in Nat, get_string(o.sec[x], k) # NoString
       PROVE  get_string(a.sec[x], k) = get_string(o.sec[x], k)
  <2>1. grown[x] = o.sec[x]
    BY <1>1, <1>4, <1>19
  <2>2. k < grown[x].size
    BY <1>19, <2>1 DEF get_string
  <2> QED
    BY <1>7, <1>17, <2>1, <2>2 DEF FoundIn
<1>20. o.shstrndx = i => get_string(a.sec[x], 0) = Blank
  BY <1>3, <1>4, <1>7, <1>17 DEF FoundIn
<1>21. IsList(a.sec) /\ Len(a.sec) = i + 1
  BY <1>12, <1>13
<1> HIDE DEF x
<1>22. Added(o, name, a)
  <2>1. x = o.shstrndx + 1 /\ i = Len(o.sec)
    BY DEF x, i
  <2> QED
    BY <1>13, <1>14, <1>15, <1>18, <1>19, <1>20, <1>21, <2>1 DEF Added
<1> QED
  BY <1>22 DEF a

LEMMA ObjectAdded ==
  ASSUME NEW o, IsObject(o), NEW name, name # NoString, NEW a, Added(o, name, a)
  PROVE  /\ IsObject(a) /\ SameRest(o, a) /\ Len(a.sec) = Len(o.sec) + 1 /\ Len(o.sec) \in Nat /\ Len(o.sec) > 0
         /\ a.sec[Len(o.sec) + 1].type = "NULL"
<1> DEFINE n == Len(o.sec)
           old == o.sec[o.shstrndx + 1]
           table == a.sec[o.shstrndx + 1]
<1>1. /\ n \in Nat /\ o.shstrndx \in 1..n - 1 /\ old.type = "STRTAB" /\ o.sec[1].type = "NULL"
      /\ \A k \in 1..n : IsNamed(o.sec[k], old) /\ IsSection(o.sec[k], k - 1)
      /\ DOMAIN o = DOMAIN NoObject /\ o.phoff \in Nat /\ o.shoff \in Nat
      /\ IsList(o.seg) /\ \A k \in Segments(o) : IsSegment(o.seg[k], n)
  BY ListSeq DEF IsObject, Indices, Section, IsList
<1>2. /\ SameRest(o, a) /\ IsList(a.sec) /\ Len(a.sec) = n + 1 /\ \A k \in 1..n + 1 : IsSection(a.sec[k], k - 1)
      /\ \A k \in 1..n : /\ a.sec[k].name = o.sec[k].name /\ a.sec[k].name_offset = o.sec[k].name_offset
                         /\ a.sec[k].type = o.sec[k].type
      /\ a.sec[n + 1].name = name /\ a.sec[n + 1].type = "NULL" /\ get_string(table, a.sec[n + 1].name_offset) = name
      /\ o.shstrndx < n => \A k \in Nat : get_string(old, k) # NoString => get_string(table, k) = get_string(old, k)
  BY DEF Added
<1> HIDE DEF n
<1>3. \A k \in 1..n + 1 : IsNamed(a.sec[k], table)
  <2> SUFFICES ASSUME NEW k \in 1..n + 1 PROVE IsNamed(a.sec[k], table)
    OBVIOUS
  <2>1. CASE k \in 1..n
    <3>1. o.sec[k].name_offset \in Nat /\ o.sec[k].name # NoString /\ get_string(old, o.sec[k].name_offset) = o.sec[k].name
      BY <1>1, <2>1 DEF IsNamed, IsSection
    <3>2. o.shstrndx < n
      BY <1>1
    <3> HIDE DEF old, table
    <3>3. get_string(table, o.sec[k].name_offset) = o.sec[k].name
      BY <1>2, <3>1, <3>2
    <3> QED
      BY <1>2, <2>1, <3>1, <3>3 DEF IsNamed
  <2>2. CASE k = n + 1
    BY <1>2, <2>2 DEF IsNamed
  <2> QED
    BY <1>1, <2>1, <2>2
<1>4. /\ DOMAIN a = DOMAIN NoObject /\ a.phoff \in Nat /\ a.shoff \in Nat /\ a.shstrndx = o.shstrndx /\ a.seg = o.seg
  BY <1>1, <1>2 DEF SameRest
<1>5. IsList(a.seg) /\ \A k \in Segments(a) : IsSegment(a.seg[k], n + 1)
  <2>1. \A k \in Segments(o) : IsSegment(o.seg[k], n + 1)
    <3> SUFFICES ASSUME NEW k \in Segments(o) PROVE IsSegment(o.seg[k], n + 1)
      OBVIOUS
    <3>1. IsSegment(o.seg[k], n)
      BY <1>1
    <3>2. 0..n - 1 \subseteq 0..(n + 1) - 1
      BY <1>1
    <3> QED
      BY <3>1, <3>2 DEF IsSegment
  <2> QED
    BY <1>1, <1>4, <2>1 DEF Segments
<1>6. DOMAIN a.sec = 1..n + 1 /\ a.shstrndx \in 1..Len(a.sec) - 1 /\ a.sec[1].type = "NULL" /\ table.type = "STRTAB"
  <2>1. DOMAIN a.sec = 1..n + 1
    BY <1>2, ListSeq
  <2>2. 1 \in 1..n /\ o.shstrndx + 1 \in 1..n
    BY <1>1
  <2>3. a.sec[1].type = "NULL" /\ table.type = "STRTAB"
    BY <1>1, <1>2, <2>2
  <2>4. a.shstrndx \in 1..Len(a.sec) - 1
    BY <1>1, <1>2, <1>4
  <2> QED
    BY <2>1, <2>3, <2>4
<1>7. IsObject(a)
  BY <1>2, <1>3, <1>4, <1>5, <1>6 DEF IsObject, Indices, Section
<1>8. n > 0
  BY <1>1
<1> QED
  BY <1>1, <1>2, <1>7, <1>8 DEF n

LEMMA CreatedIs == IsObject(Created)
<1> DEFINE o == [NoObject EXCEPT !.sec = <<NullSection>>, !.shstrndx = 1]
           name == ".shstrtab"
           a == AddSection(o, name)
           table == a.sec[2]
<1>1. /\ IsSection(NullSection, 0) /\ NullSection.name = Blank /\ NullSection.type = "NULL" /\ NullSection.name_offset = 0
  <2>1. DOMAIN NullSection = SectionFields
    BY FieldsAre
  <2>2. /\ NullSection.size = 0 /\ NullSection.offset = 0 /\ NullSection.addr_align = 0 /\ NullSection.name_offset = 0
        /\ NullSection.address = 0 /\ NullSection.index = 0
    BY DEF NullSection, NewSection
  <2>3. NullSection.type = "NULL" /\ NullSection.name = Blank /\ NullSection.data = <<>> /\ NullSection.address_set = FALSE
    BY DEF NullSection, NewSection, Blank
  <2>4. ~Occupies(NullSection)
    BY <2>3 DEF Occupies
  <2>5. NullSection.address_set \in BOOLEAN /\ IsList(NullSection.data)
    BY <2>3, EmptyList
  <2> QED
    BY <2>2, <2>3, <2>4, <2>5 DEF IsSection
<1>2. /\ DOMAIN o = DOMAIN NoObject /\ o.sec = <<NullSection>> /\ o.shstrndx = 1 /\ o.seg = <<>> /\ o.phoff = 0 /\ o.shoff = 0
  BY DEF NoObject
<1> HIDE DEF o
<1>3. IsList(o.sec) /\ Len(o.sec) = 1 /\ o.sec[1] = NullSection
  BY <1>2, SingleList
<1> HIDE DEF name
<1>4. Added(o, name, a)
  <2>1. \A k \in 1..Len(o.sec) : IsSection(o.sec[k], k - 1)
    BY <1>1, <1>3
  <2>2. o.shstrndx \in 1..Len(o.sec) /\ ~(o.shstrndx < Len(o.sec))
    BY <1>2, <1>3
  <2> QED
    BY <1>2, <1>3, <2>1, <2>2, SectionAdded
<1> HIDE DEF a
<1>5. /\ SameRest(o, a) /\ IsList(a.sec) /\ Len(a.sec) = 2 /\ IsSection(a.sec[1], 0) /\ IsSection(a.sec[2], 1)
      /\ a.sec[1].name = Blank /\ a.sec[1].name_offset = 0 /\ a.sec[1].type = "NULL"
      /\ table.name = name /\ get_string(table, table.name_offset) = name /\ get_string(table, 0) = Blank
  <2>1. \A k \in 1..2 : IsSection(a.sec[k], k - 1)
    BY <1>3, <1>4 DEF Added
  <2>2. 1 \in 1..2 /\ 2 \in 1..2 /\ 1 - 1 = 0 /\ 2 - 1 = 1 /\ 1 \in 1..1
    OBVIOUS
  <2>3. IsSection(a.sec[1], 0) /\ IsSection(a.sec[2], 1)
    BY <2>1, <2>2
  <2>4. 1 + 1 = 2
    OBVIOUS
  <2>5. /\ SameRest(o, a) /\ IsList(a.sec) /\ Len(a.sec) = 2
        /\ a.sec[1].name = NullSection.name /\ a.sec[1].name_offset = NullSection.name_offset
        /\ a.sec[1].type = NullSection.type
        /\ table.name = name /\ get_string(table, table.name_offset) = name /\ get_string(table, 0) = Blank
    BY <1>2, <1>3, <1>4, <2>2, <2>4 DEF Added
  <2> QED
    BY <1>1, <2>3, <2>5
<1> DEFINE t == [table EXCEPT !.type = "STRTAB", !.addr_align = 1]
           secs == [a.sec EXCEPT ![2] = t]
<1>6. /\ IsSection(t, 1) /\ t.name = table.name /\ t.name_offset = table.name_offset /\ t.type = "STRTAB"
      /\ t.data = table.data /\ t.size = table.size
  <2> DEFINE s == table
             u == [s EXCEPT !.type = "STRTAB", !.addr_align = 1]
  <2>1. IsSection(s, 1)
    BY <1>5
  <2>2. DOMAIN s = SectionFields
    BY <2>1, FieldsAre DEF IsSection
  <2>3. has_data(s)
    <3>1. get_string(s, 0) = Blank /\ Blank # NoString
      BY <1>5 DEF Blank, NoString
    <3> QED
      BY <3>1 DEF get_string
  <2> HIDE DEF s
  <2>4. /\ DOMAIN u = SectionFields /\ u.index = s.index /\ u.name = s.name /\ u.name_offset = s.name_offset /\ u.type = "STRTAB"
        /\ u.offset = s.offset /\ u.addr_align = 1 /\ u.address = s.address /\ u.address_set = s.address_set
        /\ u.data = s.data /\ u.size = s.size
    BY <2>2 DEF SectionFields
  <2> HIDE DEF u
  <2>5. IsSection(u, 1)
    BY <2>3, <2>1, <2>4, FieldsAre DEF IsSection, has_data
  <2> QED
    BY <2>4, <2>5 DEF s, u
<1>7. Created = [a EXCEPT !.sec = secs]
  <2>1. Created = [a EXCEPT !.sec[2].type = "STRTAB", !.sec[2].addr_align = 1]
    BY Zenon DEF Created, a, o, name
  <2>2. "sec" \in DOMAIN a
    BY <1>2, <1>5, FieldsAre DEF SameRest
  <2> QED
    BY <2>1, <2>2
<1> HIDE DEF t
<1>8. IsList(secs) /\ Len(secs) = 2 /\ secs[2] = t /\ secs[1] = a.sec[1]
  <2>1. 2 \in 1..Len(a.sec) /\ 1 \in 1..2 /\ 1 # 2
    BY <1>5
  <2> HIDE DEF secs
  <2>2. Changed(a.sec, 2, t, secs)
    BY DEF Changed, secs
  <2>3. IsList(secs) /\ Len(secs) = Len(a.sec) /\ secs[2] = t /\ \A k \in 1..Len(a.sec) : k # 2 => secs[k] = a.sec[k]
    BY <1>5, <2>1, <2>2, ChangedList
  <2> QED
    BY <1>5, <2>1, <2>3
<1> HIDE DEF secs
<1>9. /\ DOMAIN Created = DOMAIN NoObject /\ Created.sec = secs /\ Created.seg = <<>> /\ Created.phoff = 0 /\ Created.shoff = 0
      /\ Created.shstrndx = 1
  BY <1>2, <1>5, <1>7, FieldsAre DEF SameRest
<1>10. IsNamed(secs[1], t) /\ IsNamed(secs[2], t)
  <2>1. Blank # NoString /\ name # NoString
    BY DEF Blank, NoString, name
  <2>2. \A k : get_string(t, k) = get_string(table, k)
    BY <1>6 DEF get_string, has_data
  <2> QED
    BY <1>5, <1>6, <1>8, <2>1, <2>2 DEF IsNamed
<1>11. DOMAIN secs = 1..2 /\ \A k \in 1..2 : IsSection(secs[k], k - 1) /\ IsNamed(secs[k], t)
  <2>1. DOMAIN secs = 1..2
    BY <1>8, ListSeq
  <2>2. \A k \in 1..2 : (k = 1 /\ k - 1 = 0) \/ (k = 2 /\ k - 1 = 1)
    OBVIOUS
  <2> QED
    BY <1>5, <1>6, <1>8, <1>10, <2>1, <2>2
<1>12. IsList(Created.seg) /\ Segments(Created) = {}
  BY <1>9, EmptyList DEF Segments
<1>13. Created.shstrndx \in 1..Len(Created.sec) - 1 /\ Created.sec[1].type = "NULL" /\ Section(Created, Created.shstrndx) = t
  BY <1>5, <1>8, <1>9 DEF Section
<1> HIDE DEF table, t
<1>14. t.type = "STRTAB"
  BY <1>6
<1> QED
  BY <1>8, <1>9, <1>11, <1>12, <1>13, <1>14 DEF IsObject, Indices

\* An object with the sections of another, and its names where they were.
LikeObject(o, p) ==
  /\ DOMAIN p = DOMAIN NoObject /\ p.phoff \in Nat /\ p.shoff \in Nat /\ p.shstrndx = o.shstrndx
  /\ IsList(p.sec) /\ Len(p.sec) = Len(o.sec)
  /\ \A k \in 1..Len(o.sec) : /\ IsSection(p.sec[k], k - 1)
                              /\ p.sec[k].name = o.sec[k].name /\ p.sec[k].name_offset = o.sec[k].name_offset
  /\ p.sec[1].type = "NULL"
  /\ LET s == o.sec[o.shstrndx + 1]  t == p.sec[o.shstrndx + 1]
     IN  t.type = s.type /\ t.data = s.data /\ t.size = s.size
  /\ IsList(p.seg) /\ \A k \in DOMAIN p.seg : IsSegment(p.seg[k], Len(o.sec))

LEMMA ObjectLike ==
  ASSUME NEW o, IsObject(o), NEW p, LikeObject(o, p)
  PROVE  IsObject(p)
<1> DEFINE n == Len(o.sec)
           s == o.sec[o.shstrndx + 1]
           t == p.sec[o.shstrndx + 1]
<1>1. n \in Nat /\ o.shstrndx \in 1..n - 1 /\ s.type = "STRTAB" /\ \A k \in 1..n : IsNamed(o.sec[k], s)
  BY ListSeq DEF IsObject, Indices, Section
<1>2. /\ DOMAIN p = DOMAIN NoObject /\ p.phoff \in Nat /\ p.shoff \in Nat /\ p.shstrndx = o.shstrndx
      /\ IsList(p.sec) /\ Len(p.sec) = n /\ p.sec[1].type = "NULL"
      /\ \A k \in 1..n : /\ IsSection(p.sec[k], k - 1)
                         /\ p.sec[k].name = o.sec[k].name /\ p.sec[k].name_offset = o.sec[k].name_offset
      /\ t.type = s.type /\ t.data = s.data /\ t.size = s.size
      /\ IsList(p.seg) /\ \A k \in DOMAIN p.seg : IsSegment(p.seg[k], n)
  BY DEF LikeObject
<1>3. DOMAIN p.sec = 1..n
  BY <1>2, ListSeq
<1> HIDE DEF n
<1>4. Section(p, p.shstrndx) = t
  BY <1>2 DEF Section
<1> HIDE DEF s, t
<1>5. \A k : get_string(t, k) = get_string(s, k)
  BY <1>2 DEF get_string, has_data
<1>6. \A k \in 1..n : IsNamed(p.sec[k], t)
  BY <1>1, <1>2, <1>5 DEF IsNamed
<1> QED
  BY <1>1, <1>2, <1>3, <1>4, <1>6 DEF IsObject, Indices, Segments

\* One section may change that is neither the first nor the table of names.
LEMMA ObjectChanged ==
  ASSUME NEW o, IsObject(o), NEW p, SameRest(o, p), NEW j \in 1..Len(o.sec), NEW t, Changed(o.sec, j, t, p.sec),
         IsSection(t, j - 1), t.name = o.sec[j].name, t.name_offset = o.sec[j].name_offset,
         j # 1, j # o.shstrndx + 1
  PROVE  IsObject(p)
<1> DEFINE n == Len(o.sec)
<1>1. n \in Nat /\ o.shstrndx \in 1..n - 1 /\ o.sec[1].type = "NULL" /\ \A k \in 1..n : IsSection(o.sec[k], k - 1)
  BY ListSeq DEF IsObject, Indices, Section
<1>2. IsList(p.sec) /\ Len(p.sec) = n /\ p.sec[j] = t /\ \A k \in 1..n : k # j => p.sec[k] = o.sec[k]
  <2>1. IsList(o.sec)
    BY DEF IsObject
  <2> QED
    BY <2>1, ChangedList
<1> HIDE DEF n
<1>3. \A k \in 1..n : /\ IsSection(p.sec[k], k - 1)
                      /\ p.sec[k].name = o.sec[k].name /\ p.sec[k].name_offset = o.sec[k].name_offset
  BY <1>1, <1>2
<1>4. 1 \in 1..n /\ o.shstrndx + 1 \in 1..n
  BY <1>1
<1>5. p.sec[1] = o.sec[1] /\ p.sec[o.shstrndx + 1] = o.sec[o.shstrndx + 1]
  BY <1>2, <1>4
<1>6. /\ DOMAIN p = DOMAIN NoObject /\ p.phoff \in Nat /\ p.shoff \in Nat /\ p.shstrndx = o.shstrndx
      /\ IsList(p.seg) /\ \A k \in DOMAIN p.seg : IsSegment(p.seg[k], n)
  BY DEF SameRest, IsObject, Segments, n
<1>7. LikeObject(o, p)
  BY <1>1, <1>2, <1>3, <1>5, <1>6 DEF LikeObject, n
<1> QED
  BY <1>7, ObjectLike

LEMMA FilledIs ==
  ASSUME NEW o, IsObject(o), NEW i \in 1..Len(o.sec) - 1, i # o.shstrndx, NEW d \in SectionKinds
  PROVE  IsObject(Filled(o, i, d))
<1> DEFINE b == Section(o, i)
           s == [b EXCEPT !.type = d.type, !.alloc = d.alloc, !.tls = d.tls, !.addr_align = d.align]
           c == IF d.type = "NOBITS" THEN [s EXCEPT !.size = Len(d.data)] ELSE set_data(s, d.data)
           t == IF d.address = NoAddress THEN c ELSE set_address(c, d.address)
           p == Filled(o, i, d)
<1>1. Len(o.sec) \in Nat /\ i + 1 \in 1..Len(o.sec) /\ DOMAIN o.sec = 1..Len(o.sec)
  BY ListSeq DEF IsObject
<1>2. IsSection(b, i)
  <2>1. (i + 1) - 1 = i
    OBVIOUS
  <2> QED
    BY <1>1, <2>1 DEF Section, IsObject, Indices
<1>3. d.align \in Nat /\ d.address \in Int /\ IsList(d.data) /\ Len(d.data) \in Nat
  BY KindsAssumption DEF NoAddress, IsList
<1>4. DOMAIN b = SectionFields
  BY <1>2, FieldsAre DEF IsSection
<1>5. p = [o EXCEPT !.sec[i + 1] = t]
  BY Zenon DEF Filled
<1> HIDE DEF b, p
<1>6. /\ DOMAIN s = SectionFields /\ s.index = b.index /\ s.name = b.name /\ s.name_offset = b.name_offset /\ s.type = d.type
      /\ s.offset = b.offset /\ s.addr_align = d.align /\ s.address = b.address /\ s.address_set = b.address_set
      /\ s.data = b.data /\ s.size = b.size
  BY <1>4 DEF SectionFields
<1> HIDE DEF s
<1>7. /\ DOMAIN c = SectionFields /\ c.index = b.index /\ c.name = b.name /\ c.name_offset = b.name_offset /\ c.type = d.type
      /\ c.offset = b.offset /\ c.addr_align = d.align /\ c.address = b.address /\ c.address_set = b.address_set
      /\ c.data = (IF d.type = "NOBITS" THEN b.data ELSE d.data) /\ c.size = Len(d.data)
  <2>1. CASE d.type = "NOBITS"
    <3>1. c = [s EXCEPT !.size = Len(d.data)]
      BY <2>1
    <3> HIDE DEF c
    <3> QED
      BY <1>6, <2>1, <3>1 DEF SectionFields
  <2>2. CASE d.type # "NOBITS"
    <3>1. c = [s EXCEPT !.data = d.data, !.size = Len(d.data), !.stream_size = Len(d.data)]
      BY <1>6, <2>2 DEF set_data
    <3> HIDE DEF c
    <3> QED
      BY <1>6, <2>2, <3>1 DEF SectionFields
  <2> QED
    BY <2>1, <2>2
<1> HIDE DEF c
<1>8. /\ DOMAIN t = SectionFields /\ t.index = b.index /\ t.name = b.name /\ t.name_offset = b.name_offset /\ t.type = d.type
      /\ t.offset = b.offset /\ t.addr_align = d.align /\ t.address \in Int /\ t.address_set \in BOOLEAN
      /\ t.data = c.data /\ t.size = c.size
  <2>1. b.address \in Int /\ b.address_set \in BOOLEAN
    BY <1>2 DEF IsSection
  <2>2. CASE d.address = NoAddress
    <3>1. t = c
      BY <2>2
    <3> HIDE DEF t
    <3> QED
      BY <1>7, <2>1, <3>1
  <2>3. CASE d.address # NoAddress
    <3>1. t = [c EXCEPT !.address = d.address, !.address_set = TRUE]
      BY <2>3 DEF set_address
    <3> HIDE DEF t
    <3>2. /\ DOMAIN t = SectionFields /\ t.index = c.index /\ t.name = c.name /\ t.name_offset = c.name_offset /\ t.type = c.type
          /\ t.offset = c.offset /\ t.addr_align = c.addr_align /\ t.address = d.address /\ t.address_set = TRUE
          /\ t.data = c.data /\ t.size = c.size
      BY <1>7, <3>1 DEF SectionFields
    <3> QED
      BY <1>3, <1>7, <3>2
  <2> QED
    BY <2>2, <2>3
<1> HIDE DEF t
<1>9. IsSection(t, i)
  <2>1. Occupies(t) => has_data(t)
    BY <1>3, <1>7, <1>8 DEF Occupies, has_data
  <2>2. b.index = i /\ b.offset \in Nat /\ b.name_offset \in Nat /\ IsList(b.data)
    BY <1>2 DEF IsSection
  <2>3. IsList(t.data)
    BY <1>3, <1>7, <1>8, <2>2
  <2> QED
    BY <1>3, <1>7, <1>8, <2>1, <2>2, <2>3, FieldsAre DEF IsSection
<1> DEFINE j == i + 1
<1>10. DOMAIN o = {"sec", "seg", "phoff", "shoff", "shstrndx"}
  BY FieldsAre DEF IsObject
<1>11. SameRest(o, p) /\ Changed(o.sec, j, t, p.sec)
  BY <1>5, <1>10 DEF SameRest, Changed
<1>12. j \in 1..Len(o.sec) /\ j - 1 = i /\ j # 1 /\ j # o.shstrndx + 1 /\ b = o.sec[j]
  <2>1. o.shstrndx \in Int
    BY DEF IsObject
  <2> QED
    BY <1>1, <2>1 DEF b, Section
<1> HIDE DEF j
<1>13. IsObject(p)
  BY <1>8, <1>9, <1>11, <1>12, ObjectChanged
<1> QED
  BY <1>13 DEF p

LEMMA SegmentAdded ==
  ASSUME NEW o, IsObject(o), NEW d \in SegmentKinds, \A k \in DOMAIN d.secs : d.secs[k] < Len(o.sec),
         NEW p, p = [o EXCEPT !.seg = Append(@, add_section_index(o, NewSegment(d.type, d.vaddr, d.align), d.secs))]
  PROVE  IsObject(p)
<1> DEFINE new == NewSegment(d.type, d.vaddr, d.align)
           align == AlignedTo(o, d.align, d.secs)
           seg == [new EXCEPT !.secs = <<>> \o d.secs, !.align = align]
           n == Len(o.sec)
<1>1. /\ d.vaddr \in Nat /\ d.align \in Nat /\ IsList(d.secs) /\ \A k \in DOMAIN d.secs : d.secs[k] \in Nat
  BY KindsAssumption DEF ToSet
<1>2. n \in Nat /\ DOMAIN o.sec = 1..n /\ IsList(o.seg) /\ DOMAIN o.seg = 1..Len(o.seg) /\ Len(o.seg) \in Nat
  BY ListSeq DEF IsObject
<1>3. \A k \in DOMAIN d.secs : d.secs[k] \in 0..n - 1
  BY <1>1, <1>2
<1>4. align \in Nat
  <2>1. \A k \in DOMAIN d.secs : d.secs[k] + 1 \in 1..n
    BY <1>2, <1>3
  <2>2. \A k \in DOMAIN d.secs : Section(o, d.secs[k]).addr_align \in Nat
    BY <1>2, <2>1 DEF IsObject, Indices, IsSection, Section
  <2> QED
    BY <1>1, <2>2, AlignedToNat
<1>5. add_section_index(o, new, d.secs) = seg
  BY DEF add_section_index, NewSegment
<1> HIDE DEF align, n
<1>6. IsList(<<>> \o d.secs) /\ Len(<<>> \o d.secs) = Len(d.secs) /\ \A k \in 1..Len(d.secs) : (<<>> \o d.secs)[k] = d.secs[k]
  <2> DEFINE e == <<>>
  <2>1. IsList(e) /\ Len(e) = 0
    BY EmptyList
  <2> HIDE DEF e
  <2>2. /\ IsList(e \o d.secs) /\ Len(e \o d.secs) = Len(e) + Len(d.secs) /\ Len(d.secs) \in Nat
        /\ \A k \in 1..Len(d.secs) : (e \o d.secs)[Len(e) + k] = d.secs[k]
    BY <1>1, <2>1, JoinedList
  <2>3. Len(e \o d.secs) = Len(d.secs) /\ \A k \in 1..Len(d.secs) : Len(e) + k = k
    BY <2>1, <2>2
  <2>4. \A k \in 1..Len(d.secs) : (e \o d.secs)[k] = d.secs[k]
    BY <2>2, <2>3
  <2> QED
    BY <2>2, <2>3, <2>4 DEF e
<1> DEFINE secs == <<>> \o d.secs
<1>7. \A j \in DOMAIN secs : secs[j] \in 0..n - 1
  <2>1. DOMAIN secs = 1..Len(d.secs) /\ DOMAIN d.secs = 1..Len(d.secs)
    BY <1>1, <1>6, ListSeq
  <2> QED
    BY <1>3, <1>6, <2>1
<1>8. IsSegment(seg, n)
  <2>1. IsList(secs)
    BY <1>6
  <2> HIDE DEF secs
  <2>2. seg = [new EXCEPT !.secs = secs, !.align = align]
    BY DEF secs
  <2> HIDE DEF seg
  <2>3. /\ DOMAIN seg = DOMAIN NewSegment("NULL", 0, 0) /\ seg.vaddr = d.vaddr /\ seg.align = align /\ seg.secs = secs
        /\ seg.filesz = 0 /\ seg.memsz = 0 /\ seg.offset = 0
    BY <2>2 DEF NewSegment
  <2> QED
    BY <1>1, <1>4, <1>7, <2>1, <2>3 DEF IsSegment
<1> HIDE DEF seg, new
<1>9. /\ DOMAIN p = DOMAIN o /\ p.sec = o.sec /\ p.phoff = o.phoff /\ p.shoff = o.shoff /\ p.shstrndx = o.shstrndx
      /\ p.seg = Append(o.seg, seg)
  <2>1. DOMAIN o = {"sec", "seg", "phoff", "shoff", "shstrndx"}
    BY FieldsAre DEF IsObject
  <2>2. p = [o EXCEPT !.seg = Append(o.seg, seg)]
    BY <1>5 DEF new
  <2> QED
    BY <2>1, <2>2
<1>10. /\ IsList(p.seg) /\ Len(p.seg) = Len(o.seg) + 1 /\ p.seg[Len(o.seg) + 1] = seg
       /\ \A k \in 1..Len(o.seg) : p.seg[k] = o.seg[k]
  BY <1>2, <1>9, AppendedList
<1>11. \A k \in DOMAIN p.seg : IsSegment(p.seg[k], n)
  <2>1. DOMAIN p.seg = 1..Len(o.seg) + 1
    BY <1>10, ListSeq
  <2>2. \A k \in 1..Len(o.seg) + 1 : k \in 1..Len(o.seg) \/ k = Len(o.seg) + 1
    BY <1>2
  <2>3. \A k \in 1..Len(o.seg) : IsSegment(o.seg[k], n)
    BY <1>2 DEF IsObject, Segments, n
  <2> QED
    BY <1>8, <1>10, <2>1, <2>2, <2>3
<1> QED
  BY <1>9, <1>10, <1>11 DEF IsObject, Indices, Section, Segments, n

LEMMA DataAdded ==
  ASSUME NEW o, IsObject(o), NEW i \in Indices(o), NEW cells \in Additions, o.sec[i].type = "PROGBITS",
         NEW p, p = [o EXCEPT !.sec[i] = append_data(@, cells)]
  PROVE  IsObject(p)
<1> DEFINE s == o.sec[i]
           t == append_data(s, cells)
           V == Cells(s, {cells[k] : k \in 1..Len(cells)})
<1>1. i \in 1..Len(o.sec) /\ IsSection(s, i - 1) /\ s.type = "PROGBITS"
  BY ListSeq DEF IsObject, Indices
<1>2. Buffered(V, s)
  <2>1. has_data(s)
    BY <1>1 DEF IsSection, Occupies
  <2> DEFINE j == i - 1
  <2> HIDE DEF s, j
  <2> QED
    BY <1>1, <2>1, SectionBuffered DEF j
<1>3. cells \in Seq(V) /\ Unwritten \in V
  <2>1. cells \in Seq({cells[k] : k \in 1..Len(cells)})
    BY KindsAssumption, ListSeq
  <2> DEFINE C == {cells[k] : k \in 1..Len(cells)}
  <2>2. C \subseteq V /\ Unwritten \in V
    BY DEF Cells
  <2> HIDE DEF C, V
  <2>3. cells \in Seq(C)
    BY <2>1 DEF C
  <2> QED
    BY <2>2, <2>3
<1> HIDE DEF V
<1>4. Buffered(V, t) /\ Extended(s, t, Len(cells))
  <2> HIDE DEF s
  <2> QED
    BY <1>2, <1>3, DataAppended
<1> HIDE DEF t
<1>5. /\ IsSection(t, i - 1) /\ t.name = s.name /\ t.name_offset = s.name_offset
  <2>1. Rebuffered(s, t)
    <3>1. t = [s EXCEPT !.data = t.data, !.size = s.size + Len(cells), !.stream_size = t.stream_size]
      BY <1>4 DEF Extended
    <3>2. DOMAIN s = SectionFields
      BY <1>1, FieldsAre DEF IsSection
    <3> HIDE DEF s
    <3>3. t.size = s.size + Len(cells)
      BY <3>1, <3>2 DEF SectionFields
    <3> QED
      BY <3>1, <3>3 DEF Rebuffered
  <2> DEFINE j == i - 1
  <2>2. IsSection(s, j)
    BY <1>1
  <2> HIDE DEF s, j
  <2>3. IsSection(t, j) /\ t.name = s.name /\ t.name_offset = s.name_offset
    BY <1>4, <2>1, <2>2, SectionExtended
  <2> QED
    BY <2>3 DEF j
<1>6. SameRest(o, p) /\ Changed(o.sec, i, t, p.sec)
  <2>1. DOMAIN o = {"sec", "seg", "phoff", "shoff", "shstrndx"}
    BY FieldsAre DEF IsObject
  <2>2. p = [o EXCEPT !.sec[i] = t]
    BY DEF t
  <2> QED
    BY <2>1, <2>2 DEF SameRest, Changed
<1>7. i # 1 /\ i # o.shstrndx + 1
  BY <1>1 DEF IsObject, Section
<1> HIDE DEF s
<1>8. t.name = o.sec[i].name /\ t.name_offset = o.sec[i].name_offset
  BY <1>5 DEF s
<1> QED
  BY <1>1, <1>5, <1>6, <1>7, <1>8, ObjectChanged

(***************************************************************************)
(* Passes over a list: a function that is longer by one.                   *)
(***************************************************************************)
OneMore(m, f, y, g) == g = [j \in 0..m + 1 |-> g[j]] /\ g[m + 1] = y /\ \A j \in 0..m : g[j] = f[j]

LEMMA OneMoreExists ==
  ASSUME NEW m \in Nat, NEW f, NEW y
  PROVE  \E g : OneMore(m, f, y, g)
<1> DEFINE g == [j \in 0..m + 1 |-> IF j = m + 1 THEN y ELSE f[j]]
<1>1. g = [j \in 0..m + 1 |-> g[j]] /\ g[m + 1] = y /\ \A j \in 0..m : g[j] = f[j]
  OBVIOUS
<1> HIDE DEF g
<1> QED
  BY <1>1 DEF OneMore

\* Loaded segments that start at offset zero move to the front.
FrontPass(f, segs) ==
  f = [j \in 0..Len(segs) |-> IF j = 0 THEN [q |-> [k \in DOMAIN segs |-> k], next |-> 1] ELSE FrontStep(segs, f[j - 1], j)]

LEMMA FrontPassExists ==
  ASSUME NEW segs, Len(segs) \in Nat
  PROVE  /\ \E f : FrontPass(f, segs)
         /\ \A f : FrontPass(f, segs) => /\ f[0] = [q |-> [k \in DOMAIN segs |-> k], next |-> 1]
                           /\ \A m \in 0..Len(segs) - 1 : f[m + 1] = FrontStep(segs, f[m], m + 1)
<1> USE DEF FrontPass
<1> DEFINE n == Len(segs)
           first == [q |-> [k \in DOMAIN segs |-> k], next |-> 1]
           Step(w, j) == FrontStep(segs, w, j)
           Upto(m) == \E f : f = [j \in 0..m |-> IF j = 0 THEN first ELSE Step(f[j - 1], j)]
           P == {m \in 0..n : Upto(m)}
<1>1. n \in Nat
  OBVIOUS
<1>2. \A f : FrontPass(f, segs) <=> f = [j \in 0..n |-> IF j = 0 THEN first ELSE Step(f[j - 1], j)]
  BY Zenon
<1> HIDE DEF FrontPass, n, first, Step
<1>3. 0 \in P
  <2>1. [j \in 0..0 |-> first] = [j \in 0..0 |-> IF j = 0 THEN first ELSE Step([z \in 0..0 |-> first][j - 1], j)]
    OBVIOUS
  <2>2. Upto(0)
    BY <2>1
  <2> HIDE DEF Upto
  <2> QED
    BY <1>1, <2>2
<1>4. ASSUME NEW m \in 0..n - 1, m \in P PROVE m + 1 \in P
  <2>1. PICK f : f = [j \in 0..m |-> IF j = 0 THEN first ELSE Step(f[j - 1], j)]
    BY <1>4
  <2>2. m \in Nat /\ m + 1 \in 0..n
    BY <1>1
  <2>3. PICK g : OneMore(m, f, Step(f[m], m + 1), g)
    BY <2>2, OneMoreExists
  <2>4. ASSUME NEW j \in 0..m + 1 PROVE g[j] = IF j = 0 THEN first ELSE Step(g[j - 1], j)
    <3>1. CASE j = m + 1
      <4>1. j - 1 = m /\ m \in 0..m /\ j # 0
        BY <2>2, <3>1
      <4> QED
        BY <2>3, <3>1, <4>1 DEF OneMore
    <3>2. CASE j # m + 1
      <4>1. j \in 0..m /\ (j # 0 => j - 1 \in 0..m)
        BY <2>2, <3>2
      <4>2. f[j] = IF j = 0 THEN first ELSE Step(f[j - 1], j)
        BY <2>1, <4>1
      <4> QED
        BY <2>3, <4>1, <4>2 DEF OneMore
    <3> QED
      BY <3>1, <3>2
  <2>5. g = [j \in 0..m + 1 |-> IF j = 0 THEN first ELSE Step(g[j - 1], j)]
    BY <2>3, <2>4 DEF OneMore
  <2>6. Upto(m + 1)
    BY <2>5
  <2> HIDE DEF Upto
  <2> QED
    BY <2>2, <2>6
<1> HIDE DEF P
<1>5. n \in P
  <2>1. \A k \in 0..n : k \in P
    BY <1>1, <1>3, <1>4, Induction
  <2> QED
    BY <1>1, <2>1
<1>6. \E f : FrontPass(f, segs)
  BY <1>2, <1>5 DEF P
<1>7. ASSUME NEW f, FrontPass(f, segs) PROVE f[0] = first /\ \A m \in 0..n - 1 : f[m + 1] = Step(f[m], m + 1)
  <2>1. f = [j \in 0..n |-> IF j = 0 THEN first ELSE Step(f[j - 1], j)]
    BY <1>2, <1>7
  <2>2. 0 \in 0..n /\ \A m \in 0..n - 1 : m + 1 \in 0..n /\ m + 1 # 0 /\ (m + 1) - 1 = m
    BY <1>1
  <2> QED
    BY <2>1, <2>2
<1> QED
  BY <1>6, <1>7 DEF n, first, Step

(***************************************************************************)
(* The order of the segments has each of them.                             *)
(***************************************************************************)
AllOf(n, q) == q \in [1..n -> 1..n] /\ \A k \in 1..n : \E j \in 1..n : q[j] = k

LEMMA FrontStepKeeps ==
  ASSUME NEW segs, NEW n \in Nat, NEW w, AllOf(n, w.q), NEW i \in 1..n, w.next \in 1..i
  PROVE  AllOf(n, FrontStep(segs, w, i).q) /\ FrontStep(segs, w, i).next \in 1..i + 1
<1> DEFINE slot == w.next + IF segs[w.q[w.next]].offset = 0 THEN 1 ELSE 0
           u == [w.q EXCEPT ![i] = w.q[slot], ![slot] = w.q[i]]
           v == FrontStep(segs, w, i)
<1>1. CASE i = w.next \/ ~AtZero(segs[w.q[i]])
  <2>1. v = w
    BY <1>1 DEF FrontStep
  <2> QED
    BY <2>1
<1>2. CASE ~(i = w.next \/ ~AtZero(segs[w.q[i]]))
  <2>1. v = [q |-> u, next |-> slot + 1]
    BY <1>2 DEF FrontStep
  <2>2. slot \in 1..i /\ w.next < i
    BY <1>2
  <2> HIDE DEF slot, v
  <2>3. AllOf(n, u)
    <3> DEFINE q == w.q
    <3>1. q \in [1..n -> 1..n] /\ \A k \in 1..n : \E j \in 1..n : q[j] = k
      BY DEF AllOf
    <3>2. slot \in 1..n /\ i \in 1..n
      BY <2>2
    <3> HIDE DEF q
    <3> DEFINE r == [q EXCEPT ![i] = q[slot], ![slot] = q[i]]
    <3>3. r \in [1..n -> 1..n] /\ r[slot] = q[i] /\ (i # slot => r[i] = q[slot]) /\ \A j \in 1..n : j \notin {i, slot} => r[j] = q[j]
      BY <3>1, <3>2
    <3> HIDE DEF r
    <3>4. ASSUME NEW k \in 1..n PROVE \E j \in 1..n : r[j] = k
      <4>1. PICK j \in 1..n : q[j] = k
        BY <3>1
      <4>2. CASE j = i
        BY <3>2, <3>3, <4>1, <4>2
      <4>3. CASE j = slot /\ j # i
        BY <3>2, <3>3, <4>1, <4>3
      <4>4. CASE j \notin {i, slot}
        BY <3>3, <4>1, <4>4
      <4> QED
        BY <4>2, <4>3, <4>4
    <3>5. AllOf(n, r)
      BY <3>3, <3>4 DEF AllOf
    <3> QED
      BY <3>5 DEF r, q
  <2> HIDE DEF u
  <2>4. v.q = u /\ v.next = slot + 1
    BY <2>1
  <2>5. slot + 1 \in 1..i + 1
    BY <2>2
  <2> QED
    BY <2>3, <2>4, <2>5 DEF v
<1> QED
  BY <1>1, <1>2

LEMMA FrontedIs ==
  ASSUME NEW segs, IsList(segs)
  PROVE  AllOf(Len(segs), Fronted(segs))
<1> DEFINE n == Len(segs)
           first == [q |-> [k \in DOMAIN segs |-> k], next |-> 1]
           f == CHOOSE h : FrontPass(h, segs)
           Good(m) == AllOf(n, f[m].q) /\ f[m].next \in 1..m + 1
           P == {m \in 0..n : Good(m)}
<1>1. n \in Nat /\ DOMAIN segs = 1..n
  BY ListSeq
<1>2. FrontPass(f, segs)
  BY <1>1, FrontPassExists
<1>3. Fronted(segs) = f[n].q
  BY DEF Fronted, FrontPass
<1> HIDE DEF f
<1>4. f[0] = first /\ \A m \in 0..n - 1 : f[m + 1] = FrontStep(segs, f[m], m + 1)
  BY <1>1, <1>2, FrontPassExists
<1> HIDE DEF n
<1>5. 0 \in P
  <2>1. f[0].q = [k \in 1..n |-> k] /\ f[0].next = 1
    BY <1>1, <1>4
  <2>2. AllOf(n, f[0].q)
    BY <2>1 DEF AllOf
  <2> QED
    BY <1>1, <2>1, <2>2
<1>6. ASSUME NEW m \in 0..n - 1, m \in P PROVE m + 1 \in P
  <2> DEFINE w == f[m]
             i == m + 1
  <2>1. AllOf(n, w.q) /\ i \in 1..n /\ w.next \in 1..i
    BY <1>1, <1>6
  <2>2. f[i] = FrontStep(segs, w, i)
    BY <1>4
  <2> HIDE DEF w, i
  <2>3. AllOf(n, f[i].q) /\ f[i].next \in 1..i + 1
    BY <1>1, <2>1, <2>2, FrontStepKeeps
  <2>4. i \in 0..n
    BY <2>1
  <2>5. i \in P
    BY <2>3, <2>4
  <2> QED
    BY <2>5 DEF i
<1> HIDE DEF P
<1>7. \A m \in 0..n : m \in P
  BY <1>1, <1>5, <1>6, Induction
<1>8. n \in P
  BY <1>1, <1>7
<1> QED
  BY <1>3, <1>8 DEF P, n

\* A worklist of segments.
Worklist(segs, q) == IsList(q) /\ \A j \in 1..Len(q) : q[j] \in 1..Len(segs)
Segmented(segs) == IsList(segs) /\ \A k \in 1..Len(segs) : IsList(segs[k].secs)

\* One with the most sections is inside none.
LEMMA OutermostIs ==
  ASSUME NEW segs, Segmented(segs), NEW q, Worklist(segs, q), Len(q) > 0
  PROVE  Outermost(segs, q) \in 1..Len(q)
<1> DEFINE n == Len(q)
           Size(j) == Len(segs[q[j]].secs)
           sizes == [j \in 1..n |-> Size(j)]
           S == {sizes[j] : j \in 1..n}
           T == {d \in 1..n : ~IsInside(segs, q, d)}
<1>1. n \in Nat /\ n > 0 /\ DOMAIN q = 1..n /\ \A j \in 1..n : Size(j) \in Nat
  BY ListSeq DEF Worklist, Segmented, IsList
<1> HIDE DEF n, Size
<1>2. IsList(sizes) /\ Len(sizes) = n
  <2>1. sizes = [j \in 1..n |-> sizes[j]]
    OBVIOUS
  <2> HIDE DEF sizes
  <2> QED
    BY <1>1, <2>1, FunctionList
<1>3. \A j \in 1..n : sizes[j] = Size(j)
  OBVIOUS
<1> HIDE DEF sizes
<1>4. Max(S) \in S /\ \A x \in S : x <= Max(S)
  <2>1. S # {} /\ S \subseteq Nat
    <3>1. 1 \in 1..n
      BY <1>1
    <3> QED
      BY <1>1, <1>3, <3>1
  <2>2. \A j \in 1..n : sizes[j] \in Nat
    BY <1>1, <1>3
  <2>3. S \subseteq {sizes[j] : j \in 1..Len(sizes)}
    BY <1>2
  <2> HIDE DEF S
  <2> QED
    BY <1>2, <2>1, <2>2, <2>3, GreatestOf
<1>5. PICK d \in 1..n : sizes[d] = Max(S)
  BY <1>4
<1>6. ~IsInside(segs, q, d)
  <2> SUFFICES ASSUME NEW k \in DOMAIN q, is_subsequence_of(segs[q[d]], segs[q[k]]) PROVE FALSE
    BY DEF IsInside
  <2>1. Size(d) < Size(k)
    BY DEF is_subsequence_of, Size
  <2>2. Size(k) <= Size(d)
    BY <1>1, <1>3, <1>4, <1>5
  <2> QED
    BY <1>1, <2>1, <2>2
<1>7. T # {} /\ T \subseteq Nat
  BY <1>1, <1>6
<1>8. PICK m \in T : \A l \in T : m <= l
  BY <1>7, LeastNat
<1>9. m \in DOMAIN q /\ ~IsInside(segs, q, m) /\ \A e \in 1..m - 1 : IsInside(segs, q, e)
  BY <1>1, <1>8
<1>10. Outermost(segs, q) \in DOMAIN q
  BY <1>9, Zenon DEF Outermost
<1> QED
  BY <1>1, <1>10 DEF n

OneLess(segs, q, r) ==
  /\ Worklist(segs, r) /\ Len(r) = Len(q) - 1
  /\ \A j \in 1..Len(q) : j = Outermost(segs, q) \/ \E l \in 1..Len(q) - 1 : r[l] = q[j]

LEMMA RestIs ==
  ASSUME NEW segs, Segmented(segs), NEW q, Worklist(segs, q), Len(q) > 0
  PROVE  OneLess(segs, q, Rest(segs, q))
<1> DEFINE n == Len(q)
           d == Outermost(segs, q)
           a == SubSeq(q, d + 1, n)
           b == SubSeq(q, 1, d - 1)
           r == a \o b
<1>1. n \in Nat /\ IsList(q) /\ \A j \in 1..n : q[j] \in 1..Len(segs)
  BY DEF Worklist, IsList
<1>2. d \in 1..n
  BY OutermostIs
<1>3. Rest(segs, q) = r
  BY DEF Rest
<1> HIDE DEF n, d
<1>4. IsList(a) /\ Len(a) = n - d /\ \A k \in 1..n - d : a[k] = q[d + k]
  <2> DEFINE x == d + 1
  <2>1. x \in 1..Len(q) + 1 /\ n \in 0..Len(q) /\ x <= n + 1
    BY <1>1, <1>2 DEF n
  <2> HIDE DEF x
  <2>2. /\ IsList(SubSeq(q, x, n)) /\ Len(SubSeq(q, x, n)) = n - x + 1
        /\ \A k \in 1..n - x + 1 : SubSeq(q, x, n)[k] = q[x + k - 1]
    BY <1>1, <2>1, PartList
  <2>3. n - x + 1 = n - d /\ \A k \in 1..n - d : x + k - 1 = d + k
    BY <1>1, <1>2 DEF x
  <2>4. /\ IsList(SubSeq(q, x, n)) /\ Len(SubSeq(q, x, n)) = n - d
        /\ \A k \in 1..n - d : SubSeq(q, x, n)[k] = q[d + k]
    BY <2>2, <2>3
  <2> QED
    BY <2>4 DEF x
<1>5. IsList(b) /\ Len(b) = d - 1 /\ \A k \in 1..d - 1 : b[k] = q[k]
  <2> DEFINE y == d - 1
  <2>1. 1 \in 1..Len(q) + 1 /\ y \in 0..Len(q) /\ 1 <= y + 1
    BY <1>1, <1>2 DEF n
  <2> HIDE DEF y
  <2>2. /\ IsList(SubSeq(q, 1, y)) /\ Len(SubSeq(q, 1, y)) = y - 1 + 1
        /\ \A k \in 1..y - 1 + 1 : SubSeq(q, 1, y)[k] = q[1 + k - 1]
    BY <1>1, <2>1, PartList
  <2>3. y - 1 + 1 = y /\ \A k \in 1..y : 1 + k - 1 = k
    BY <1>1, <1>2 DEF y
  <2>4. IsList(SubSeq(q, 1, y)) /\ Len(SubSeq(q, 1, y)) = y /\ \A k \in 1..y : SubSeq(q, 1, y)[k] = q[k]
    BY <2>2, <2>3
  <2> QED
    BY <2>4 DEF y
<1> HIDE DEF a, b
<1>6. /\ IsList(r) /\ Len(r) = n - 1
      /\ \A k \in 1..n - d : r[k] = q[d + k]
      /\ \A k \in 1..d - 1 : r[(n - d) + k] = q[k]
  <2>1. /\ IsList(a \o b) /\ Len(a \o b) = Len(a) + Len(b)
        /\ \A k \in 1..Len(a) : (a \o b)[k] = a[k]
        /\ \A k \in 1..Len(b) : (a \o b)[Len(a) + k] = b[k]
    <3>1. IsList(a) /\ IsList(b)
      BY <1>4, <1>5
    <3> QED
      BY <3>1, JoinedList
  <2> HIDE DEF r
  <2>2. r = a \o b
    BY DEF r
  <2>3. Len(a) + Len(b) = n - 1
    BY <1>1, <1>2, <1>4, <1>5
  <2> QED
    BY <1>4, <1>5, <2>1, <2>2, <2>3
<1> HIDE DEF r
<1>7. \A l \in 1..n - 1 : r[l] \in 1..Len(segs)
  <2> SUFFICES ASSUME NEW l \in 1..n - 1 PROVE r[l] \in 1..Len(segs)
    OBVIOUS
  <2>1. CASE l \in 1..n - d
    <3>1. d + l \in 1..n
      BY <1>1, <1>2, <2>1
    <3> QED
      BY <1>1, <1>6, <2>1, <3>1
  <2>2. CASE l \notin 1..n - d
    <3> DEFINE k == l - (n - d)
    <3>1. k \in 1..d - 1 /\ k \in 1..n /\ (n - d) + k = l
      BY <1>1, <1>2, <2>2
    <3> HIDE DEF k
    <3> QED
      BY <1>1, <1>6, <3>1
  <2> QED
    BY <2>1, <2>2
<1>8. ASSUME NEW j \in 1..n, j # d PROVE \E l \in 1..n - 1 : r[l] = q[j]
  <2>1. CASE j > d
    <3>1. j - d \in 1..n - d /\ d + (j - d) = j /\ j - d \in 1..n - 1
      BY <1>1, <1>2, <2>1
    <3> QED
      BY <1>6, <3>1
  <2>2. CASE j < d
    <3>1. j \in 1..d - 1 /\ (n - d) + j \in 1..n - 1
      BY <1>1, <1>2, <2>2
    <3> QED
      BY <1>6, <3>1
  <2> QED
    BY <1>1, <1>2, <1>8, <2>1, <2>2
<1>9. Worklist(segs, r)
  BY <1>6, <1>7 DEF Worklist
<1>10. OneLess(segs, q, r)
  BY <1>6, <1>8, <1>9 DEF OneLess, n, d
<1> QED
  BY <1>3, <1>10

\* The worklist loses its outermost segment at every step.
WorkPass(f, segs) ==
  f = [j \in 0..Len(segs) |-> IF j = 0 THEN Fronted(segs) ELSE Rest(segs, f[j - 1])]

LEMMA WorkPassExists ==
  ASSUME NEW segs, Len(segs) \in Nat
  PROVE  /\ \E f : WorkPass(f, segs)
         /\ \A f : WorkPass(f, segs) => /\ f[0] = Fronted(segs)
                           /\ \A m \in 0..Len(segs) - 1 : f[m + 1] = Rest(segs, f[m])
<1> USE DEF WorkPass
<1> DEFINE n == Len(segs)
           first == Fronted(segs)
           Step(w, j) == Rest(segs, w)
           Upto(m) == \E f : f = [j \in 0..m |-> IF j = 0 THEN first ELSE Step(f[j - 1], j)]
           P == {m \in 0..n : Upto(m)}
<1>1. n \in Nat
  OBVIOUS
<1>2. \A f : WorkPass(f, segs) <=> f = [j \in 0..n |-> IF j = 0 THEN first ELSE Step(f[j - 1], j)]
  BY Zenon
<1> HIDE DEF WorkPass, n, first, Step
<1>3. 0 \in P
  <2>1. [j \in 0..0 |-> first] = [j \in 0..0 |-> IF j = 0 THEN first ELSE Step([z \in 0..0 |-> first][j - 1], j)]
    OBVIOUS
  <2>2. Upto(0)
    BY <2>1
  <2> HIDE DEF Upto
  <2> QED
    BY <1>1, <2>2
<1>4. ASSUME NEW m \in 0..n - 1, m \in P PROVE m + 1 \in P
  <2>1. PICK f : f = [j \in 0..m |-> IF j = 0 THEN first ELSE Step(f[j - 1], j)]
    BY <1>4
  <2>2. m \in Nat /\ m + 1 \in 0..n
    BY <1>1
  <2>3. PICK g : OneMore(m, f, Step(f[m], m + 1), g)
    BY <2>2, OneMoreExists
  <2>4. ASSUME NEW j \in 0..m + 1 PROVE g[j] = IF j = 0 THEN first ELSE Step(g[j - 1], j)
    <3>1. CASE j = m + 1
      <4>1. j - 1 = m /\ m \in 0..m /\ j # 0
        BY <2>2, <3>1
      <4> QED
        BY <2>3, <3>1, <4>1 DEF OneMore
    <3>2. CASE j # m + 1
      <4>1. j \in 0..m /\ (j # 0 => j - 1 \in 0..m)
        BY <2>2, <3>2
      <4>2. f[j] = IF j = 0 THEN first ELSE Step(f[j - 1], j)
        BY <2>1, <4>1
      <4> QED
        BY <2>3, <4>1, <4>2 DEF OneMore
    <3> QED
      BY <3>1, <3>2
  <2>5. g = [j \in 0..m + 1 |-> IF j = 0 THEN first ELSE Step(g[j - 1], j)]
    BY <2>3, <2>4 DEF OneMore
  <2>6. Upto(m + 1)
    BY <2>5
  <2> HIDE DEF Upto
  <2> QED
    BY <2>2, <2>6
<1> HIDE DEF P
<1>5. n \in P
  <2>1. \A k \in 0..n : k \in P
    BY <1>1, <1>3, <1>4, Induction
  <2> QED
    BY <1>1, <2>1
<1>6. \E f : WorkPass(f, segs)
  BY <1>2, <1>5 DEF P
<1>7. ASSUME NEW f, WorkPass(f, segs) PROVE f[0] = first /\ \A m \in 0..n - 1 : f[m + 1] = Step(f[m], m + 1)
  <2>1. f = [j \in 0..n |-> IF j = 0 THEN first ELSE Step(f[j - 1], j)]
    BY <1>2, <1>7
  <2>2. 0 \in 0..n /\ \A m \in 0..n - 1 : m + 1 \in 0..n /\ m + 1 # 0 /\ (m + 1) - 1 = m
    BY <1>1
  <2> QED
    BY <2>1, <2>2
<1> QED
  BY <1>6, <1>7 DEF n, first, Step

LEMMA OrderIs ==
  ASSUME NEW segs, Segmented(segs)
  PROVE  LET order == get_ordered_segments(segs) IN
           /\ IsList(order) /\ Len(order) = Len(segs) /\ \A m \in 1..Len(segs) : order[m] \in 1..Len(segs)
           /\ \A k \in 1..Len(segs) : \E m \in 1..Len(segs) : order[m] = k
<1> DEFINE n == Len(segs)
           f == CHOOSE h : WorkPass(h, segs)
           order == get_ordered_segments(segs)
           Taken(m) == {f[l - 1][Outermost(segs, f[l - 1])] : l \in 1..m}
           Good(m) == /\ Worklist(segs, f[m]) /\ Len(f[m]) = n - m
                      /\ \A k \in 1..n : k \in Taken(m) \/ \E j \in 1..Len(f[m]) : f[m][j] = k
           P == {m \in 0..n : Good(m)}
<1>1. n \in Nat /\ DOMAIN segs = 1..n
  BY ListSeq DEF Segmented
<1>2. WorkPass(f, segs)
  BY <1>1, WorkPassExists
<1>3. order = [m \in 1..n |-> f[m - 1][Outermost(segs, f[m - 1])]]
  BY DEF get_ordered_segments, WorkPass
<1> HIDE DEF f, order
<1>4. f[0] = Fronted(segs) /\ \A m \in 0..n - 1 : f[m + 1] = Rest(segs, f[m])
  BY <1>1, <1>2, WorkPassExists
<1>5. 0 \in P
  <2>1. AllOf(n, f[0])
    BY <1>4, FrontedIs DEF Segmented
  <2> HIDE DEF n
  <2>2. IsList(f[0]) /\ Len(f[0]) = n
    <3> DEFINE q == f[0]
    <3>1. q = [k \in 1..n |-> q[k]]
      BY <2>1 DEF AllOf
    <3> HIDE DEF q
    <3>2. IsList(q) /\ Len(q) = n
      BY <1>1, <3>1, FunctionList
    <3> QED
      BY <3>2 DEF q
  <2>3. Worklist(segs, f[0])
    BY <2>1, <2>2 DEF Worklist, AllOf, n
  <2>4. \A k \in 1..n : \E j \in 1..Len(f[0]) : f[0][j] = k
    BY <2>1, <2>2 DEF AllOf
  <2>5. Good(0)
    <3>1. n - 0 = n
      BY <1>1
    <3> QED
      BY <2>2, <2>3, <2>4, <3>1
  <2> HIDE DEF Good
  <2> QED
    BY <1>1, <2>5
<1> HIDE DEF n
<1>6. ASSUME NEW m \in 0..n - 1, m \in P PROVE m + 1 \in P
  <2> DEFINE q == f[m]
             r == Rest(segs, q)
             d == Outermost(segs, q)
             i == m + 1
  <2>1. Worklist(segs, q) /\ Len(q) = n - m /\ Len(q) > 0 /\ m \in Nat
    BY <1>1, <1>6
  <2>2. f[i] = r /\ i \in 0..n /\ i \in 1..i /\ i - 1 = m
    BY <1>1, <1>4
  <2> HIDE DEF q, d
  <2>3. OneLess(segs, q, Rest(segs, q))
    <3>1. Worklist(segs, q) /\ Len(q) > 0
      BY <2>1
    <3> QED
      BY <3>1, RestIs
  <2>4. Worklist(segs, r) /\ Len(r) = Len(q) - 1 /\ \A j \in 1..Len(q) : j = d \/ \E l \in 1..Len(q) - 1 : r[l] = q[j]
    BY <2>3 DEF OneLess, d
  <2> HIDE DEF r
  <2>5. q[d] \in Taken(i)
    <3>1. q[d] = f[i - 1][Outermost(segs, f[i - 1])]
      BY <2>2 DEF q, d
    <3> QED
      BY <2>2, <3>1
  <2>6. Taken(m) \subseteq Taken(i)
    <3>1. 1..m \subseteq 1..i
      BY <2>1
    <3> QED
      BY <3>1
  <2>7. \A k \in 1..n : k \in Taken(m) \/ \E j \in 1..Len(q) : q[j] = k
    BY <1>6 DEF q
  <2> HIDE DEF Taken, i
  <2>8. ASSUME NEW k \in 1..n PROVE k \in Taken(i) \/ \E j \in 1..Len(r) : r[j] = k
    <3>1. CASE k \in Taken(m)
      BY <2>6, <3>1
    <3>2. CASE \E j \in 1..Len(q) : q[j] = k
      <4>1. PICK j \in 1..Len(q) : q[j] = k
        BY <3>2
      <4>2. CASE j = d
        BY <2>5, <4>1, <4>2
      <4>3. CASE j # d
        BY <2>4, <4>1, <4>3
      <4> QED
        BY <4>2, <4>3
    <3> QED
      BY <2>7, <3>1, <3>2
  <2>9. Len(r) = n - i
    BY <1>1, <2>1, <2>4 DEF i
  <2>10. i \in P
    BY <2>2, <2>4, <2>8, <2>9
  <2> QED
    BY <2>10 DEF i
<1>7. \A m \in 0..n : m \in P
  <2> HIDE DEF P
  <2> QED
    BY <1>1, <1>5, <1>6, Induction
<1>8. IsList(order) /\ Len(order) = n
  <2>1. order = [m \in 1..n |-> order[m]]
    BY <1>3
  <2> QED
    BY <1>1, <2>1, FunctionList
<1>9. ASSUME NEW m \in 1..n PROVE order[m] \in 1..n
  <2> DEFINE q == f[m - 1]
  <2>1. Worklist(segs, q) /\ Len(q) > 0
    <3>1. m - 1 \in 0..n /\ n - (m - 1) > 0
      BY <1>1
    <3>2. m - 1 \in P
      BY <1>7, <3>1
    <3>3. Good(m - 1)
      <4> HIDE DEF Good
      <4> QED
        BY <3>2
    <3> DEFINE l == m - 1
    <3> HIDE DEF l
    <3>4. Worklist(segs, f[l]) /\ Len(f[l]) = n - l
      BY <3>3 DEF l
    <3>5. n - l > 0
      BY <3>1 DEF l
    <3>6. Worklist(segs, f[l]) /\ Len(f[l]) > 0
      BY <3>4, <3>5
    <3> QED
      BY <3>6 DEF l
  <2>2. order[m] = q[Outermost(segs, q)]
    BY <1>3
  <2> HIDE DEF q
  <2> QED
    BY <2>1, <2>2, OutermostIs DEF Worklist, n
<1>10. ASSUME NEW k \in 1..n PROVE \E m \in 1..n : order[m] = k
  <2>1. Len(f[n]) = 0 /\ (k \in Taken(n) \/ \E j \in 1..Len(f[n]) : f[n][j] = k)
    <3>1. n \in 0..n
      BY <1>1
    <3>2. n \in P
      <4> HIDE DEF P
      <4> QED
        BY <1>7, <3>1
    <3>3. Good(n)
      <4> HIDE DEF Good
      <4> QED
        BY <3>2
    <3> DEFINE l == n - n
    <3> HIDE DEF Taken
    <3>4. Len(f[n]) = l /\ (k \in Taken(n) \/ \E j \in 1..Len(f[n]) : f[n][j] = k)
      <4> HIDE DEF l
      <4>1. Len(f[n]) = n - n
        BY <3>3
      <4>2. k \in Taken(n) \/ \E j \in 1..Len(f[n]) : f[n][j] = k
        BY <3>3
      <4> QED
        BY <4>1, <4>2 DEF l
    <3>5. l = 0
      BY <1>1
    <3> QED
      BY <3>4, <3>5
  <2>2. k \in Taken(n)
    BY <2>1
  <2> QED
    BY <1>3, <2>2
<1> QED
  BY <1>8, <1>9, <1>10 DEF n, order

(***************************************************************************)
(* The layout of an object b.  Its sections get a place and, if they have  *)
(* none, an address; the rest of them, and what a segment is made of, stay.*)
(***************************************************************************)
LayoutFields == {"o", "good", "pos", "placed", "filesz", "memsz"}

Stored(s) == Occupies(s) /\ s.size # 0

Relaid(s, t) ==
  /\ t.name = s.name /\ t.name_offset = s.name_offset /\ t.type = s.type
  /\ t.data = s.data /\ t.size = s.size /\ t.addr_align = s.addr_align
  /\ s.address_set = TRUE => t.address_set = TRUE /\ t.address = s.address

\* The object of the layout is still b, with places; an address that b does not have is
\* that of a section already placed.
LaidOut(b, l) ==
  /\ DOMAIN l = LayoutFields /\ SameRest([b EXCEPT !.seg = l.o.seg], l.o) /\ DOMAIN b = DOMAIN NoObject
  /\ IsList(l.o.sec) /\ Len(l.o.sec) = Len(b.sec)
  /\ \A k \in 1..Len(b.sec) :
       /\ IsSection(l.o.sec[k], k - 1) /\ Relaid(b.sec[k], l.o.sec[k])
       /\ l.o.sec[k].address_set = TRUE /\ k - 1 \notin l.placed => b.sec[k].address_set = TRUE
  /\ IsList(l.o.seg) /\ Len(l.o.seg) = Len(b.seg)
  /\ \A k \in 1..Len(b.seg) : /\ IsSegment(l.o.seg[k], Len(b.sec))
                              /\ l.o.seg[k].secs = b.seg[k].secs /\ l.o.seg[k].vaddr = b.seg[k].vaddr
  /\ l.good \in BOOLEAN /\ l.pos \in Nat /\ l.filesz \in Int /\ l.memsz \in Int

End(s) == s.offset + s.size

\* The contents of two sections are apart.
SetApart(s, t) == End(s) <= t.offset \/ End(t) <= s.offset

\* The contents of the sections D are between the tables at the head of the
\* file and the position, each apart from the others.
Placed(l, D, head) ==
  /\ head <= l.pos
  /\ \A k \in 1..Len(l.o.sec) : k - 1 \in D /\ Stored(l.o.sec[k]) =>
       head <= l.o.sec[k].offset /\ End(l.o.sec[k]) <= l.pos
  /\ \A k, j \in 1..Len(l.o.sec) :
       k # j /\ k - 1 \in D /\ j - 1 \in D /\ Stored(l.o.sec[k]) /\ Stored(l.o.sec[j]) =>
         SetApart(l.o.sec[k], l.o.sec[j])

\* The next state m of the layout has section x of l, now t, behind the position.
Placing(l, m, x, t) ==
  /\ DOMAIN m = LayoutFields /\ SameRest(l.o, m.o) /\ Changed(l.o.sec, x, t, m.o.sec)
  /\ IsSection(t, x - 1) /\ Relaid(l.o.sec[x], t)
  /\ l.placed \subseteq m.placed
  /\ x - 1 \in m.placed \/ (t.address_set = TRUE => l.o.sec[x].address_set = TRUE)
  /\ Stored(t) => l.pos <= t.offset /\ End(t) <= m.pos
  /\ m.good \in BOOLEAN /\ m.pos \in Nat /\ l.pos <= m.pos /\ m.filesz \in Int /\ m.memsz \in Int

LEMMA PlaceOne ==
  ASSUME NEW b, NEW l, LaidOut(b, l), NEW D, NEW head \in Nat, Placed(l, D, head),
         NEW x \in 1..Len(b.sec), NEW t, NEW m, Placing(l, m, x, t)
  PROVE  LaidOut(b, m) /\ Placed(m, D \union {x - 1}, head)
<1> DEFINE n == Len(b.sec)
<1>1. n \in Nat /\ IsList(l.o.sec) /\ Len(l.o.sec) = n /\ l.pos \in Nat
  BY DEF LaidOut, IsList
<1>2. IsList(m.o.sec) /\ Len(m.o.sec) = n /\ m.o.sec[x] = t /\ \A k \in 1..n : k # x => m.o.sec[k] = l.o.sec[k]
  <2>1. Changed(l.o.sec, x, t, m.o.sec) /\ x \in 1..Len(l.o.sec)
    BY <1>1 DEF Placing
  <2> QED
    BY <1>1, <2>1, ChangedList
<1> HIDE DEF n
<1>3. ASSUME NEW k \in 1..n
      PROVE  /\ IsSection(m.o.sec[k], k - 1) /\ Relaid(b.sec[k], m.o.sec[k])
             /\ m.o.sec[k].address_set = TRUE /\ k - 1 \notin m.placed => b.sec[k].address_set = TRUE
  <2>1. /\ IsSection(l.o.sec[k], k - 1) /\ Relaid(b.sec[k], l.o.sec[k])
        /\ l.o.sec[k].address_set = TRUE /\ k - 1 \notin l.placed => b.sec[k].address_set = TRUE
    BY DEF LaidOut, n
  <2>2. l.placed \subseteq m.placed
    BY DEF Placing
  <2>3. CASE k = x
    <3>1. /\ IsSection(t, k - 1) /\ Relaid(l.o.sec[k], t)
          /\ k - 1 \in m.placed \/ (t.address_set = TRUE => l.o.sec[k].address_set = TRUE)
      BY <2>3 DEF Placing
    <3>2. Relaid(b.sec[k], t)
      BY <2>1, <3>1 DEF Relaid
    <3>3. m.o.sec[k] = t
      BY <1>2, <2>3
    <3> QED
      BY <2>1, <2>2, <3>1, <3>2, <3>3
  <2>4. CASE k # x
    <3>1. m.o.sec[k] = l.o.sec[k]
      BY <1>2, <2>4
    <3> QED
      BY <2>1, <2>2, <3>1
  <2> QED
    BY <2>3, <2>4
<1>4. LaidOut(b, m)
  <2>1. DOMAIN b = {"sec", "seg", "phoff", "shoff", "shstrndx"}
    BY FieldsAre DEF LaidOut
  <2>2. /\ DOMAIN m = LayoutFields /\ m.o.seg = l.o.seg
        /\ m.good \in BOOLEAN /\ m.pos \in Nat /\ m.filesz \in Int /\ m.memsz \in Int
    BY DEF Placing, SameRest
  <2>3. SameRest([b EXCEPT !.seg = m.o.seg], m.o)
    BY <2>1 DEF LaidOut, Placing, SameRest
  <2>4. /\ DOMAIN b = DOMAIN NoObject /\ IsList(m.o.seg) /\ Len(m.o.seg) = Len(b.seg)
        /\ \A k \in 1..Len(b.seg) : /\ IsSegment(m.o.seg[k], n)
                                    /\ m.o.seg[k].secs = b.seg[k].secs /\ m.o.seg[k].vaddr = b.seg[k].vaddr
    BY <2>2 DEF LaidOut, n
  <2> QED
    BY <1>2, <1>3, <2>2, <2>3, <2>4 DEF LaidOut, n
<1>5. /\ head <= l.pos /\ l.pos <= m.pos /\ m.pos \in Nat
      /\ Stored(t) => l.pos <= t.offset /\ End(t) <= m.pos
  BY DEF Placed, Placing
<1>6. ASSUME NEW k \in 1..n PROVE m.o.sec[k].offset \in Nat /\ End(m.o.sec[k]) \in Nat
  <2> DEFINE s == m.o.sec[k]
  <2>1. s.offset \in Nat /\ s.size \in Nat
    BY <1>3 DEF IsSection
  <2> HIDE DEF s
  <2>2. End(s) \in Nat
    BY <2>1 DEF End
  <2> QED
    BY <2>1, <2>2 DEF s
<1>7. ASSUME NEW k \in 1..n, k - 1 \in D \union {x - 1}, Stored(m.o.sec[k])
      PROVE  /\ head <= m.o.sec[k].offset /\ End(m.o.sec[k]) <= m.pos
             /\ k # x => k - 1 \in D /\ m.o.sec[k] = l.o.sec[k] /\ End(m.o.sec[k]) <= l.pos
  <2>1. CASE k = x
    BY <1>1, <1>2, <1>5, <1>6, <1>7, <2>1
  <2>2. CASE k # x
    <3>1. k - 1 \in D /\ m.o.sec[k] = l.o.sec[k]
      BY <1>1, <1>2, <1>7, <2>2
    <3>2. head <= l.o.sec[k].offset /\ End(l.o.sec[k]) <= l.pos
      BY <1>1, <1>7, <3>1 DEF Placed
    <3> QED
      BY <1>1, <1>5, <1>6, <3>1, <3>2
  <2> QED
    BY <2>1, <2>2
<1>8. ASSUME NEW k \in 1..n, NEW j \in 1..n, k # j, k - 1 \in D \union {x - 1}, j - 1 \in D \union {x - 1},
             Stored(m.o.sec[k]), Stored(m.o.sec[j])
      PROVE  SetApart(m.o.sec[k], m.o.sec[j])
  <2>1. CASE k = x
    <3>1. j # x
      BY <1>8, <2>1
    <3>2. End(m.o.sec[j]) <= l.pos
      BY <1>7, <1>8, <3>1
    <3>3. l.pos <= m.o.sec[k].offset
      BY <1>2, <1>5, <1>8, <2>1
    <3>4. m.o.sec[k].offset \in Nat /\ End(m.o.sec[k]) \in Nat /\ m.o.sec[j].offset \in Nat /\ End(m.o.sec[j]) \in Nat
      BY <1>6
    <3>5. End(m.o.sec[j]) <= m.o.sec[k].offset
      BY <1>1, <3>2, <3>3, <3>4
    <3> QED
      BY <3>5 DEF SetApart
  <2>2. CASE j = x
    <3>1. k # x
      BY <1>8, <2>2
    <3>2. End(m.o.sec[k]) <= l.pos
      BY <1>7, <1>8, <3>1
    <3>3. l.pos <= m.o.sec[j].offset
      BY <1>2, <1>5, <1>8, <2>2
    <3>4. m.o.sec[k].offset \in Nat /\ End(m.o.sec[k]) \in Nat /\ m.o.sec[j].offset \in Nat /\ End(m.o.sec[j]) \in Nat
      BY <1>6
    <3>5. End(m.o.sec[k]) <= m.o.sec[j].offset
      BY <1>1, <3>2, <3>3, <3>4
    <3> QED
      BY <3>5 DEF SetApart
  <2>3. CASE k # x /\ j # x
    <3>1. k - 1 \in D /\ m.o.sec[k] = l.o.sec[k] /\ j - 1 \in D /\ m.o.sec[j] = l.o.sec[j]
      BY <1>7, <1>8, <2>3
    <3> QED
      BY <1>1, <1>8, <3>1 DEF Placed
  <2> QED
    BY <2>1, <2>2, <2>3
<1>9. Placed(m, D \union {x - 1}, head)
  BY <1>1, <1>2, <1>5, <1>7, <1>8 DEF Placed
<1> QED
  BY <1>4, <1>9

\* Where only the sizes, the goodness or the set of the placed sections change.
Marked(l, m) ==
  /\ DOMAIN m = LayoutFields /\ m.o = l.o /\ m.pos \in Nat /\ l.pos <= m.pos /\ l.placed \subseteq m.placed
  /\ m.good \in BOOLEAN /\ m.filesz \in Int /\ m.memsz \in Int

LEMMA MarkOnly ==
  ASSUME NEW b, NEW l, LaidOut(b, l), NEW D, NEW head \in Nat, Placed(l, D, head), NEW m, Marked(l, m), NEW E,
         \A k \in 1..Len(b.sec) : k - 1 \in E \ D => ~Stored(l.o.sec[k])
  PROVE  LaidOut(b, m) /\ Placed(m, E, head)
<1>1. m.o = l.o /\ l.pos \in Nat /\ m.pos \in Nat /\ l.pos <= m.pos /\ Len(l.o.sec) = Len(b.sec)
  BY DEF Marked, LaidOut
<1>2. LaidOut(b, m)
  BY DEF LaidOut, Marked
<1>3. \A k \in 1..Len(b.sec) : k - 1 \in E /\ Stored(l.o.sec[k]) => k - 1 \in D
  OBVIOUS
<1>4. ASSUME NEW k \in 1..Len(b.sec) PROVE End(l.o.sec[k]) \in Nat
  <2> DEFINE s == l.o.sec[k]
  <2>1. s.offset \in Nat /\ s.size \in Nat
    BY DEF LaidOut, IsSection
  <2> HIDE DEF s
  <2>2. End(s) \in Nat
    BY <2>1 DEF End
  <2> QED
    BY <2>2 DEF s
<1>5. ASSUME NEW k \in 1..Len(b.sec), k - 1 \in E, Stored(l.o.sec[k])
      PROVE  head <= l.o.sec[k].offset /\ End(l.o.sec[k]) <= m.pos
  <2>1. head <= l.o.sec[k].offset /\ End(l.o.sec[k]) <= l.pos
    BY <1>1, <1>3, <1>5 DEF Placed
  <2> QED
    BY <1>1, <1>4, <2>1
<1>6. \A k, j \in 1..Len(b.sec) :
        k # j /\ k - 1 \in E /\ j - 1 \in E /\ Stored(l.o.sec[k]) /\ Stored(l.o.sec[j]) =>
          SetApart(l.o.sec[k], l.o.sec[j])
  BY <1>1, <1>3 DEF Placed
<1>7. head <= m.pos
  BY <1>1 DEF Placed
<1>8. Placed(m, E, head)
  BY <1>1, <1>5, <1>6, <1>7 DEF Placed
<1> QED
  BY <1>2, <1>8

LEMMA PaddingNat ==
  ASSUME NEW pos \in Int, NEW align \in Nat
  PROVE  Padding(pos, align) \in Nat
<1>1. align # 0 => (-pos) % align \in Nat
  OBVIOUS
<1> QED
  BY <1>1 DEF Padding

\* A section that is still to be placed has no address below the segment.
Upward(b, l, seg, x) ==
  b.sec[x].address_set = TRUE /\ Stored(b.sec[x]) /\ x - 1 \notin l.placed => b.sec[x].address >= seg.vaddr

\* What part of the layout does: m comes after l.
Onward(b, l, m, head) ==
  /\ LaidOut(b, m) /\ Placed(m, m.placed, head)
  /\ l.placed \subseteq m.placed /\ (m.good = TRUE => l.good = TRUE)

LEMMA PlaceSectionIs ==
  ASSUME NEW b, NEW l, LaidOut(b, l), NEW head \in Nat, Placed(l, l.placed, head),
         NEW seg, seg.vaddr \in Nat, NEW start \in Nat, NEW x \in 1..Len(b.sec), Upward(b, l, seg, x)
  PROVE  LET m == PlaceSection(seg, start, l, x - 1)
         IN  Onward(b, l, m, head) /\ (m.good = TRUE => x - 1 \in m.placed)
<1> DEFINE i == x - 1
           m == PlaceSection(seg, start, l, i)
           s == Section(l.o, i)
           align == SectionAlign(l, seg, start, s)
           at == l.pos + align
           bits == IF s.type = "NOBITS" THEN 0 ELSE s.size
           inMemory == IF InMemory(seg, s) THEN s.size + align ELSE 0
           inFile == IF s.type = "NOBITS" THEN 0 ELSE s.size + align
           memsz == l.memsz + inMemory
           filesz == l.filesz + inFile
           moved == IF s.address_set THEN s ELSE set_address(s, seg.vaddr + at - start)
           t == [moved EXCEPT !.offset = at]
<1>1. i + 1 = x /\ i \in Int
  BY DEF LaidOut, IsList
<1>2. m = IF ~l.good THEN l
          ELSE IF s.type = "NULL" THEN [l EXCEPT !.placed = @ \union {i}]
          ELSE IF Passed(l, seg, start, s) THEN [l EXCEPT !.good = FALSE]
          ELSE IF i \in l.placed THEN [l EXCEPT !.memsz = memsz, !.filesz = filesz]
          ELSE [l EXCEPT !.memsz = memsz, !.filesz = filesz, !.pos = at + bits,
                         !.placed = @ \union {i}, !.o.sec[i + 1] = t]
  BY DEF PlaceSection
<1>3. s = l.o.sec[x]
  BY <1>1 DEF Section
<1> HIDE DEF m, s
<1>4. IsSection(s, i) /\ Relaid(b.sec[x], s) /\ (s.address_set = TRUE /\ i \notin l.placed => b.sec[x].address_set = TRUE)
  BY <1>3 DEF LaidOut
<1>5. /\ DOMAIN l = LayoutFields /\ l.good \in BOOLEAN /\ l.pos \in Nat /\ l.filesz \in Int /\ l.memsz \in Int
      /\ Len(l.o.sec) = Len(b.sec) /\ IsList(l.o.sec)
  BY DEF LaidOut
<1>6. /\ DOMAIN s = SectionFields /\ s.index = i /\ s.size \in Nat /\ s.offset \in Nat /\ s.addr_align \in Nat
      /\ s.address \in Int /\ s.address_set \in BOOLEAN
  BY <1>4, FieldsAre DEF IsSection
<1> SUFFICES Onward(b, l, m, head) /\ (m.good = TRUE => i \in m.placed)
  BY DEF m, i
<1> HIDE DEF i
<1>7. ASSUME align \in Int PROVE memsz \in Int /\ filesz \in Int
  <2> DEFINE more == s.size + align
  <2>1. more \in Int
    <3> DEFINE size == s.size
    <3>1. size \in Int /\ more = size + align
      BY <1>6
    <3> HIDE DEF size, align, more
    <3> QED
      BY <1>7, <3>1
  <2>2. inMemory \in Int /\ inFile \in Int
    <3>1. inMemory = (IF InMemory(seg, s) THEN more ELSE 0) /\ inFile = (IF s.type = "NOBITS" THEN 0 ELSE more)
      OBVIOUS
    <3> HIDE DEF inMemory, inFile, more
    <3>2. InMemory(seg, s) \/ ~InMemory(seg, s)
      OBVIOUS
    <3> QED
      BY <2>1, <3>1, <3>2
  <2> HIDE DEF inMemory, inFile
  <2> QED
    BY <1>5, <2>2
<1>8. CASE l.good = FALSE
  <2>1. m = l
    BY <1>2, <1>8
  <2> QED
    BY <1>8, <2>1 DEF Onward
<1>9. CASE l.good = TRUE /\ s.type = "NULL"
  <2>1. m = [l EXCEPT !.placed = @ \union {i}]
    BY <1>2, <1>9
  <2>2. Marked(l, m) /\ m.placed = l.placed \union {i}
    BY <1>5, <2>1 DEF Marked, LayoutFields
  <2>3. \A k \in 1..Len(b.sec) : k - 1 \in m.placed \ l.placed => ~Stored(l.o.sec[k])
    <3> SUFFICES ASSUME NEW k \in 1..Len(b.sec), k - 1 \in m.placed \ l.placed PROVE ~Stored(l.o.sec[k])
      OBVIOUS
    <3>1. k - 1 = i
      BY <2>2
    <3>2. k = x
      BY <1>1, <3>1
    <3> QED
      BY <1>3, <1>9, <3>2 DEF Stored, Occupies
  <2>4. LaidOut(b, m) /\ Placed(m, m.placed, head)
    BY <2>2, <2>3, MarkOnly
  <2> QED
    BY <1>9, <2>2, <2>4 DEF Onward
<1>10. CASE l.good = TRUE /\ s.type # "NULL" /\ Passed(l, seg, start, s)
  <2>1. m = [l EXCEPT !.good = FALSE]
    BY <1>2, <1>10
  <2>2. Marked(l, m) /\ m.placed = l.placed /\ m.good = FALSE
    BY <1>5, <2>1 DEF Marked, LayoutFields
  <2>3. LaidOut(b, m) /\ Placed(m, m.placed, head)
    BY <2>2, MarkOnly
  <2> QED
    BY <2>2, <2>3 DEF Onward
<1>11. CASE l.good = TRUE /\ s.type # "NULL" /\ ~Passed(l, seg, start, s) /\ i \in l.placed
  <2>1. m = [l EXCEPT !.memsz = memsz, !.filesz = filesz]
    BY <1>2, <1>11
  <2>2. memsz \in Int /\ filesz \in Int
    <3>1. align \in Int
      BY <1>5, <1>6, <1>11 DEF SectionAlign
    <3> QED
      BY <1>7, <3>1
  <2> HIDE DEF memsz, filesz
  <2>3. Marked(l, m) /\ m.placed = l.placed /\ m.good = TRUE
    BY <1>5, <1>11, <2>1, <2>2 DEF Marked, LayoutFields
  <2>4. LaidOut(b, m) /\ Placed(m, m.placed, head)
    BY <2>3, MarkOnly
  <2> QED
    BY <1>11, <2>3, <2>4 DEF Onward
<1>12. CASE l.good = TRUE /\ s.type # "NULL" /\ ~Passed(l, seg, start, s) /\ i \notin l.placed
  <2>1. m = [l EXCEPT !.memsz = memsz, !.filesz = filesz, !.pos = at + bits,
                      !.placed = @ \union {i}, !.o.sec[i + 1] = t]
    BY <1>2, <1>12
  <2>2. align \in Nat
    <3>1. CASE s.address_set = FALSE
      <4>1. align = Padding(l.pos, s.addr_align)
        BY <1>6, <1>12, <3>1 DEF SectionAlign
      <4>2. l.pos \in Int /\ s.addr_align \in Nat
        BY <1>5, <1>6
      <4> HIDE DEF align
      <4> QED
        BY <4>1, <4>2, PaddingNat
    <3>2. CASE s.address_set = TRUE /\ Stored(s)
      <4>1. align = (s.address - seg.vaddr) - (l.pos - start)
        BY <1>6, <1>12, <3>2 DEF SectionAlign, Stored
      <4>2. align \in Int
        BY <1>5, <1>6, <4>1
      <4>3. s.address >= seg.vaddr
        BY <1>4, <1>12, <3>2 DEF Upward, Relaid, Stored, Occupies, i
      <4>4. ~(align < 0)
        BY <1>6, <1>12, <3>2, <4>3 DEF Passed, Stored
      <4> HIDE DEF align
      <4> QED
        BY <4>2, <4>4
    <3>3. CASE s.address_set = TRUE /\ ~Stored(s)
      <4>1. align = 0
        BY <1>6, <1>12, <3>3 DEF SectionAlign, Stored
      <4> QED
        BY <4>1
    <3> QED
      BY <1>6, <3>1, <3>2, <3>3
  <2>3. align \in Int
    <3> HIDE DEF align
    <3> QED
      BY <2>2
  <2>4. memsz \in Int /\ filesz \in Int
    BY <1>7, <2>3
  <2> HIDE DEF align
  <2>5. at \in Nat /\ l.pos <= at
    BY <1>5, <2>2
  <2>6. bits \in Nat /\ (Stored(s) => bits = s.size)
    BY <1>6 DEF Stored, Occupies
  <2>7. at + bits \in Nat /\ l.pos <= at + bits
    <3> HIDE DEF at, bits
    <3> QED
      BY <1>5, <2>5, <2>6
  <2> HIDE DEF memsz, filesz, at, bits
  <2>8. seg.vaddr + at - start \in Int
    <3> DEFINE vaddr == seg.vaddr
    <3>1. vaddr \in Nat
      OBVIOUS
    <3> HIDE DEF vaddr
    <3>2. vaddr + at - start \in Int
      BY <2>5, <3>1
    <3> QED
      BY <3>2 DEF vaddr
  <2>9. /\ DOMAIN moved = SectionFields /\ moved.index = s.index /\ moved.name = s.name
        /\ moved.name_offset = s.name_offset /\ moved.type = s.type /\ moved.data = s.data /\ moved.size = s.size
        /\ moved.addr_align = s.addr_align /\ moved.address \in Int /\ moved.address_set = TRUE
        /\ s.address_set = TRUE => moved.address = s.address
    <3>1. CASE s.address_set = TRUE
      <4>1. moved = s
        BY <3>1
      <4> QED
        BY <1>6, <3>1, <4>1
    <3>2. CASE s.address_set = FALSE
      <4>1. moved = [s EXCEPT !.address = seg.vaddr + at - start, !.address_set = TRUE]
        BY <3>2 DEF set_address
      <4> HIDE DEF moved
      <4> QED
        BY <1>6, <2>8, <3>2, <4>1 DEF SectionFields
    <3> QED
      BY <1>6, <3>1, <3>2
  <2> HIDE DEF moved
  <2>10. /\ DOMAIN t = SectionFields /\ t.index = s.index /\ t.name = s.name
         /\ t.name_offset = s.name_offset /\ t.type = s.type /\ t.data = s.data /\ t.size = s.size
         /\ t.addr_align = s.addr_align /\ t.address \in Int /\ t.address_set = TRUE /\ t.offset = at
         /\ s.address_set = TRUE => t.address = s.address
    BY <2>9 DEF SectionFields
  <2> HIDE DEF t
  <2>11. IsSection(t, i)
    BY <1>4, <1>6, <2>5, <2>10, FieldsAre DEF IsSection, Occupies, has_data
  <2>12. Relaid(s, t)
    BY <1>6, <2>10 DEF Relaid
  <2>13. DOMAIN l.o = {"sec", "seg", "phoff", "shoff", "shstrndx"}
    <3>1. DOMAIN b = {"sec", "seg", "phoff", "shoff", "shstrndx"}
      BY FieldsAre DEF LaidOut
    <3> QED
      BY <3>1 DEF LaidOut, SameRest
  <2>14. m.o = [l.o EXCEPT !.sec = [l.o.sec EXCEPT ![x] = t]]
    BY <1>1, <1>5, <2>1 DEF LayoutFields
  <2>15. SameRest(l.o, m.o) /\ Changed(l.o.sec, x, t, m.o.sec)
    BY <2>13, <2>14 DEF SameRest, Changed
  <2>16. /\ DOMAIN m = LayoutFields /\ m.good = TRUE /\ m.pos = at + bits /\ m.placed = l.placed \union {i}
         /\ m.memsz = memsz /\ m.filesz = filesz
    BY <1>5, <1>12, <2>1 DEF LayoutFields
  <2>17. Stored(t) => l.pos <= t.offset /\ End(t) <= m.pos
    <3>1. Stored(t) => Stored(s)
      BY <2>10 DEF Stored, Occupies
    <3>2. End(t) = at + s.size
      BY <2>10 DEF End
    <3>3. at + bits <= at + bits
      BY <2>7
    <3> QED
      BY <2>10, <2>16, <2>5, <2>6, <3>1, <3>2, <3>3
  <2>18. Placing(l, m, x, t)
    BY <1>3, <2>4, <2>7, <2>11, <2>12, <2>15, <2>16, <2>17 DEF Placing, i
  <2>19. LaidOut(b, m) /\ Placed(m, l.placed \union {i}, head)
    BY <2>18, PlaceOne DEF i
  <2> QED
    BY <1>12, <2>16, <2>19 DEF Onward
<1> QED
  BY <1>5, <1>8, <1>9, <1>10, <1>11, <1>12

\* The sections of a segment are placed one after the other.
PlacingPass(f, seg, start, l) ==
  f = [j \in 0..Len(seg.secs) |-> IF j = 0 THEN l ELSE PlaceSection(seg, start, f[j - 1], seg.secs[j])]

LEMMA PlacingPassExists ==
  ASSUME NEW seg, NEW start, NEW l, Len(seg.secs) \in Nat
  PROVE  /\ \E f : PlacingPass(f, seg, start, l)
         /\ \A f : PlacingPass(f, seg, start, l) => /\ f[0] = l
                           /\ \A m \in 0..Len(seg.secs) - 1 : f[m + 1] = PlaceSection(seg, start, f[m], seg.secs[m + 1])
<1> USE DEF PlacingPass
<1> DEFINE n == Len(seg.secs)
           first == l
           Step(w, j) == PlaceSection(seg, start, w, seg.secs[j])
           Upto(m) == \E f : f = [j \in 0..m |-> IF j = 0 THEN first ELSE Step(f[j - 1], j)]
           P == {m \in 0..n : Upto(m)}
<1>1. n \in Nat
  OBVIOUS
<1>2. \A f : PlacingPass(f, seg, start, l) <=> f = [j \in 0..n |-> IF j = 0 THEN first ELSE Step(f[j - 1], j)]
  BY Zenon
<1> HIDE DEF PlacingPass, n, first, Step
<1>3. 0 \in P
  <2>1. [j \in 0..0 |-> first] = [j \in 0..0 |-> IF j = 0 THEN first ELSE Step([z \in 0..0 |-> first][j - 1], j)]
    OBVIOUS
  <2>2. Upto(0)
    BY <2>1
  <2> HIDE DEF Upto
  <2> QED
    BY <1>1, <2>2
<1>4. ASSUME NEW m \in 0..n - 1, m \in P PROVE m + 1 \in P
  <2>1. PICK f : f = [j \in 0..m |-> IF j = 0 THEN first ELSE Step(f[j - 1], j)]
    BY <1>4
  <2>2. m \in Nat /\ m + 1 \in 0..n
    BY <1>1
  <2>3. PICK g : OneMore(m, f, Step(f[m], m + 1), g)
    BY <2>2, OneMoreExists
  <2>4. ASSUME NEW j \in 0..m + 1 PROVE g[j] = IF j = 0 THEN first ELSE Step(g[j - 1], j)
    <3>1. CASE j = m + 1
      <4>1. j - 1 = m /\ m \in 0..m /\ j # 0
        BY <2>2, <3>1
      <4> QED
        BY <2>3, <3>1, <4>1 DEF OneMore
    <3>2. CASE j # m + 1
      <4>1. j \in 0..m /\ (j # 0 => j - 1 \in 0..m)
        BY <2>2, <3>2
      <4>2. f[j] = IF j = 0 THEN first ELSE Step(f[j - 1], j)
        BY <2>1, <4>1
      <4> QED
        BY <2>3, <4>1, <4>2 DEF OneMore
    <3> QED
      BY <3>1, <3>2
  <2>5. g = [j \in 0..m + 1 |-> IF j = 0 THEN first ELSE Step(g[j - 1], j)]
    BY <2>3, <2>4 DEF OneMore
  <2>6. Upto(m + 1)
    BY <2>5
  <2> HIDE DEF Upto
  <2> QED
    BY <2>2, <2>6
<1> HIDE DEF P
<1>5. n \in P
  <2>1. \A k \in 0..n : k \in P
    BY <1>1, <1>3, <1>4, Induction
  <2> QED
    BY <1>1, <2>1
<1>6. \E f : PlacingPass(f, seg, start, l)
  BY <1>2, <1>5 DEF P
<1>7. ASSUME NEW f, PlacingPass(f, seg, start, l) PROVE f[0] = first /\ \A m \in 0..n - 1 : f[m + 1] = Step(f[m], m + 1)
  <2>1. f = [j \in 0..n |-> IF j = 0 THEN first ELSE Step(f[j - 1], j)]
    BY <1>2, <1>7
  <2>2. 0 \in 0..n /\ \A m \in 0..n - 1 : m + 1 \in 0..n /\ m + 1 # 0 /\ (m + 1) - 1 = m
    BY <1>1
  <2> QED
    BY <2>1, <2>2
<1> QED
  BY <1>6, <1>7 DEF n, first, Step

LEMMA PlaceSectionsIs ==
  ASSUME NEW b, NEW l, LaidOut(b, l), NEW head \in Nat, Placed(l, l.placed, head),
         NEW seg, seg.vaddr \in Nat, NEW start \in Nat, IsList(seg.secs),
         \A j \in 1..Len(seg.secs) : seg.secs[j] \in 0..Len(b.sec) - 1 /\ Upward(b, l, seg, seg.secs[j] + 1)
  PROVE  LET e == PlaceSections(seg, start, l)
         IN  Onward(b, l, e, head) /\ (e.good = TRUE => \A j \in 1..Len(seg.secs) : seg.secs[j] \in e.placed)
<1> DEFINE n == Len(seg.secs)
           f == CHOOSE h : PlacingPass(h, seg, start, l)
           Good(m) == Onward(b, l, f[m], head) /\ (f[m].good = TRUE => \A j \in 1..m : seg.secs[j] \in f[m].placed)
           P == {m \in 0..n : Good(m)}
<1>1. n \in Nat
  BY ListSeq
<1>2. PlacingPass(f, seg, start, l)
  BY <1>1, PlacingPassExists
<1>3. PlaceSections(seg, start, l) = f[n]
  BY DEF PlaceSections, PlacingPass
<1> HIDE DEF f
<1>4. f[0] = l /\ \A m \in 0..n - 1 : f[m + 1] = PlaceSection(seg, start, f[m], seg.secs[m + 1])
  BY <1>1, <1>2, PlacingPassExists
<1>5. \A j \in 1..n : seg.secs[j] \in 0..Len(b.sec) - 1 /\ Upward(b, l, seg, seg.secs[j] + 1)
  OBVIOUS
<1> HIDE DEF n
<1>6. 0 \in P
  <2>1. Onward(b, l, l, head)
    BY DEF Onward
  <2>2. Good(0)
    BY <1>4, <2>1
  <2> HIDE DEF Good
  <2> QED
    BY <1>1, <2>2
<1>7. ASSUME NEW m \in 0..n - 1, m \in P PROVE m + 1 \in P
  <2> DEFINE i == seg.secs[m + 1]
             x == i + 1
             g == f[m]
             u == PlaceSection(seg, start, g, x - 1)
             k == m + 1
  <2>1. k \in 1..n /\ k \in 0..n /\ \A j \in 1..k : j = k \/ j \in 1..m
    BY <1>1
  <2>2. i \in 0..Len(b.sec) - 1 /\ Upward(b, l, seg, x)
    BY <1>5, <2>1
  <2>3. Onward(b, l, g, head) /\ (g.good = TRUE => \A j \in 1..m : seg.secs[j] \in g.placed)
    BY <1>7
  <2>4. f[k] = PlaceSection(seg, start, g, i)
    BY <1>4
  <2>5. i = seg.secs[k]
    OBVIOUS
  <2> HIDE DEF i, g, k
  <2>6. x - 1 = i /\ x \in 1..Len(b.sec)
    BY <2>2 DEF LaidOut, IsList
  <2> HIDE DEF x
  <2>7. Upward(b, g, seg, x)
    BY <2>2, <2>3 DEF Upward, Onward
  <2>8. LaidOut(b, g) /\ Placed(g, g.placed, head)
    BY <2>3 DEF Onward
  <2>9. Onward(b, g, u, head) /\ (u.good = TRUE => x - 1 \in u.placed)
    BY <2>6, <2>7, <2>8, PlaceSectionIs
  <2>10. f[k] = u
    BY <2>4, <2>6
  <2> HIDE DEF u
  <2>11. Onward(b, l, u, head) /\ g.placed \subseteq u.placed /\ (u.good = TRUE => g.good = TRUE)
    BY <2>3, <2>9 DEF Onward
  <2>12. u.good = TRUE => \A j \in 1..k : seg.secs[j] \in u.placed
    BY <2>1, <2>3, <2>5, <2>6, <2>9, <2>11
  <2>13. Good(k)
    BY <2>10, <2>11, <2>12
  <2> HIDE DEF Good
  <2>14. k \in P
    BY <2>1, <2>13
  <2> QED
    BY <2>14 DEF k
<1>8. n \in P
  <2>1. n \in 0..n
    BY <1>1
  <2> HIDE DEF P
  <2> QED
    BY <1>1, <1>6, <1>7, <2>1, Induction
<1>9. Good(n)
  <2> HIDE DEF Good
  <2> QED
    BY <1>8
<1> HIDE DEF P
<1> QED
  BY <1>3, <1>9 DEF n

LEMMA StartIs ==
  ASSUME NEW b, NEW l, LaidOut(b, l), b.phoff \in Nat, NEW k \in 1..Len(b.seg)
  PROVE  LET s == SegmentStart(l, l.o.seg[k]) IN s.start \in Nat /\ s.pos \in Nat /\ l.pos <= s.pos /\ s.size \in Int
<1> DEFINE seg == l.o.seg[k]
           s == SegmentStart(l, seg)
           here == [start |-> l.pos, pos |-> l.pos, size |-> 0]
           fresh == l.pos + Padding(l.pos - seg.vaddr, seg.align)
           table == PHENTSIZE * Len(l.o.seg)
<1>1. IsSegment(seg, Len(b.sec)) /\ l.pos \in Nat /\ l.o.phoff \in Nat /\ Len(l.o.seg) \in Nat /\ Len(l.o.sec) = Len(b.sec)
      /\ Len(b.sec) \in Nat /\ IsList(l.o.sec)
  <2>1. l.o.phoff = b.phoff
    <3>1. DOMAIN b = {"sec", "seg", "phoff", "shoff", "shstrndx"}
      BY FieldsAre DEF LaidOut
    <3> QED
      BY <3>1 DEF LaidOut, SameRest
  <2> QED
    BY <2>1 DEF LaidOut, IsList
<1> HIDE DEF seg
<1>2. table \in Int
  <2>1. PHENTSIZE \in Nat
    BY SizesAssumption
  <2> QED
    BY <1>1, <2>1
<1>3. fresh \in Nat /\ l.pos <= fresh
  <2> DEFINE vaddr == seg.vaddr
             gap == l.pos - vaddr
             pad == Padding(gap, seg.align)
  <2>1. vaddr \in Nat /\ seg.align \in Nat
    BY <1>1 DEF IsSegment
  <2> HIDE DEF vaddr
  <2>2. gap \in Int
    BY <1>1, <2>1
  <2> HIDE DEF gap
  <2>3. pad \in Nat
    BY <2>1, <2>2, PaddingNat
  <2>4. fresh = l.pos + pad
    BY DEF gap, vaddr
  <2> HIDE DEF pad, fresh
  <2> QED
    BY <1>1, <2>3, <2>4
<1> HIDE DEF table, fresh
<1>4. here.start \in Nat /\ here.pos = l.pos /\ l.pos <= l.pos /\ here.size = 0
  BY <1>1
<1>5. CASE seg.type = "PHDR" /\ seg.secs = <<>>
  <2>1. s = [here EXCEPT !.start = l.o.phoff, !.size = table]
    BY <1>5 DEF SegmentStart, table
  <2> HIDE DEF s
  <2> QED
    BY <1>1, <1>2, <2>1 DEF seg, s
<1>6. CASE ~(seg.type = "PHDR" /\ seg.secs = <<>>) /\ AtZero(seg)
  <2>1. s = [here EXCEPT !.start = 0, !.size = IF seg.secs = <<>> THEN 0 ELSE l.pos]
    BY <1>6 DEF SegmentStart
  <2> HIDE DEF s
  <2> QED
    BY <1>1, <2>1 DEF seg, s
<1>7. CASE ~(seg.type = "PHDR" /\ seg.secs = <<>>) /\ ~AtZero(seg) /\ seg.secs = <<>>
  <2>1. s = here
    BY <1>7 DEF SegmentStart
  <2> QED
    BY <1>1, <2>1 DEF seg
<1>8. CASE ~(seg.type = "PHDR" /\ seg.secs = <<>>) /\ ~AtZero(seg) /\ seg.secs # <<>> /\ seg.secs[1] \notin l.placed
  <2>1. s = [start |-> fresh, pos |-> fresh, size |-> 0]
    BY <1>8 DEF SegmentStart, fresh
  <2> QED
    BY <1>1, <1>3, <2>1 DEF seg
<1>9. CASE ~(seg.type = "PHDR" /\ seg.secs = <<>>) /\ ~AtZero(seg) /\ seg.secs # <<>> /\ seg.secs[1] \in l.placed
  <2>1. s = [here EXCEPT !.start = Section(l.o, seg.secs[1]).offset]
    BY <1>9 DEF SegmentStart
  <2>2. Section(l.o, seg.secs[1]).offset \in Nat
    <3> DEFINE q == seg.secs
    <3>1. IsList(q) /\ \A j \in DOMAIN q : q[j] \in 0..Len(b.sec) - 1
      BY <1>1 DEF IsSegment
    <3>2. q # <<>>
      BY <1>9
    <3> HIDE DEF q
    <3>3. 1 \in DOMAIN q
      <4>1. Len(q) # 0
        BY <3>1, <3>2, ListSeq, EmptyList
      <4>2. Len(q) \in Nat /\ DOMAIN q = 1..Len(q)
        BY <3>1, ListSeq
      <4> QED
        BY <4>1, <4>2
    <3>4. q[1] + 1 \in 1..Len(b.sec)
      BY <1>1, <3>1, <3>3
    <3>5. Section(l.o, q[1]).offset \in Nat
      BY <3>4 DEF Section, LaidOut, IsSection
    <3> QED
      BY <3>5 DEF q
  <2> HIDE DEF s
  <2>3. s.start = Section(l.o, seg.secs[1]).offset /\ s.pos = l.pos /\ s.size = 0
    BY <2>1
  <2> QED
    BY <1>1, <2>2, <2>3 DEF seg, s
<1> QED
  BY <1>5, <1>6, <1>7, <1>8, <1>9

\* A segment gets its place and its sizes.
SegmentFields == {"type", "vaddr", "align", "filesz", "memsz", "offset", "offset_set", "secs"}

SegmentSet(e, m, k, g) ==
  /\ DOMAIN m = LayoutFields /\ DOMAIN m.o = DOMAIN e.o
  /\ m.o.sec = e.o.sec /\ m.o.phoff = e.o.phoff /\ m.o.shoff = e.o.shoff /\ m.o.shstrndx = e.o.shstrndx
  /\ Changed(e.o.seg, k, g, m.o.seg)
  /\ m.good = e.good /\ m.pos = e.pos /\ m.placed = e.placed /\ m.filesz = e.filesz /\ m.memsz = e.memsz

LEMMA SegmentSetIs ==
  ASSUME NEW b, NEW e, LaidOut(b, e), NEW D, NEW head \in Nat, Placed(e, D, head), NEW k \in 1..Len(b.seg), NEW g,
         NEW m, SegmentSet(e, m, k, g), IsSegment(g, Len(b.sec)), g.secs = e.o.seg[k].secs, g.vaddr = e.o.seg[k].vaddr
  PROVE  LaidOut(b, m) /\ Placed(m, D, head)
<1>1. IsList(e.o.seg) /\ Len(e.o.seg) = Len(b.seg)
  BY DEF LaidOut
<1>2. IsList(m.o.seg) /\ Len(m.o.seg) = Len(b.seg) /\ m.o.seg[k] = g /\ \A j \in 1..Len(b.seg) : j # k => m.o.seg[j] = e.o.seg[j]
  <2>1. Changed(e.o.seg, k, g, m.o.seg) /\ k \in 1..Len(e.o.seg)
    BY <1>1 DEF SegmentSet
  <2> QED
    BY <1>1, <2>1, ChangedList
<1>3. ASSUME NEW j \in 1..Len(b.seg)
      PROVE  /\ IsSegment(m.o.seg[j], Len(b.sec))
             /\ m.o.seg[j].secs = b.seg[j].secs /\ m.o.seg[j].vaddr = b.seg[j].vaddr
  <2>1. /\ IsSegment(e.o.seg[j], Len(b.sec))
        /\ e.o.seg[j].secs = b.seg[j].secs /\ e.o.seg[j].vaddr = b.seg[j].vaddr
    BY DEF LaidOut
  <2>2. CASE j = k
    <3>1. m.o.seg[j] = g
      BY <1>2, <2>2
    <3> QED
      BY <2>1, <2>2, <3>1
  <2>3. CASE j # k
    <3>1. m.o.seg[j] = e.o.seg[j]
      BY <1>2, <2>3
    <3> QED
      BY <2>1, <3>1
  <2> QED
    BY <2>2, <2>3
<1>4. SameRest([b EXCEPT !.seg = m.o.seg], m.o)
  <2>1. DOMAIN b = {"sec", "seg", "phoff", "shoff", "shstrndx"}
    BY FieldsAre DEF LaidOut
  <2> QED
    BY <2>1 DEF LaidOut, SegmentSet, SameRest
<1>5. LaidOut(b, m)
  BY <1>2, <1>3, <1>4 DEF LaidOut, SegmentSet
<1>6. Placed(m, D, head)
  BY DEF Placed, SegmentSet
<1> QED
  BY <1>5, <1>6

LEMMA LayoutSegmentIs ==
  ASSUME NEW b, NEW l, LaidOut(b, l), b.phoff \in Nat, NEW head \in Nat, Placed(l, l.placed, head), NEW k \in 1..Len(b.seg),
         l.good = TRUE => \A j \in 1..Len(b.seg[k].secs) : Upward(b, l, b.seg[k], b.seg[k].secs[j] + 1)
  PROVE  LET m == LayoutSegment(l, k)
         IN  Onward(b, l, m, head) /\ (m.good = TRUE => \A j \in 1..Len(b.seg[k].secs) : b.seg[k].secs[j] \in m.placed)
<1> DEFINE seg == l.o.seg[k]
           s == SegmentStart(l, seg)
           c == [l EXCEPT !.pos = s.pos, !.filesz = s.size, !.memsz = s.size]
           e == PlaceSections(seg, s.start, c)
           g == [seg EXCEPT !.filesz = e.filesz, !.memsz = Larger(seg.memsz, e.memsz),
                            !.offset = s.start, !.offset_set = TRUE]
           m == LayoutSegment(l, k)
           secs == b.seg[k].secs
<1>1. m = IF ~l.good THEN l ELSE IF ~e.good THEN e ELSE [e EXCEPT !.o.seg[k] = g]
  BY DEF LayoutSegment
<1> SUFFICES Onward(b, l, m, head) /\ (m.good = TRUE => \A j \in 1..Len(secs) : secs[j] \in m.placed)
  OBVIOUS
<1>2. IsSegment(seg, Len(b.sec)) /\ seg.secs = secs /\ seg.vaddr = b.seg[k].vaddr /\ l.good \in BOOLEAN /\ DOMAIN l = LayoutFields
  BY DEF LaidOut
<1>3. s.start \in Nat /\ s.pos \in Nat /\ l.pos <= s.pos /\ s.size \in Int
  BY StartIs
<1> HIDE DEF m, s
<1>4. CASE l.good = FALSE
  <2>1. m = l
    BY <1>1, <1>4
  <2> QED
    BY <1>4, <2>1 DEF Onward
<1>5. CASE l.good = TRUE
  <2>1. m = IF ~e.good THEN e ELSE [e EXCEPT !.o.seg[k] = g]
    BY <1>1, <1>5
  <2>2. Marked(l, c) /\ c.placed = l.placed /\ c.good = TRUE
    BY <1>2, <1>3, <1>5 DEF Marked, LayoutFields
  <2> HIDE DEF c, seg
  <2>3. LaidOut(b, c) /\ Placed(c, c.placed, head)
    BY <2>2, MarkOnly
  <2>4. seg.vaddr \in Nat /\ IsList(seg.secs) /\ \A j \in 1..Len(seg.secs) : seg.secs[j] \in 0..Len(b.sec) - 1
    <3>1. IsList(seg.secs)
      BY <1>2 DEF IsSegment
    <3>2. DOMAIN seg.secs = 1..Len(seg.secs)
      BY <3>1, ListSeq
    <3> QED
      BY <1>2, <3>1, <3>2 DEF IsSegment
  <2>5. \A j \in 1..Len(seg.secs) : Upward(b, c, seg, seg.secs[j] + 1)
    BY <1>2, <1>5, <2>2 DEF Upward
  <2>6. Onward(b, c, e, head) /\ (e.good = TRUE => \A j \in 1..Len(seg.secs) : seg.secs[j] \in e.placed)
    BY <1>3, <2>3, <2>4, <2>5, PlaceSectionsIs
  <2> HIDE DEF e, secs
  <2>7. /\ Onward(b, l, e, head) /\ (e.good = TRUE => \A j \in 1..Len(secs) : secs[j] \in e.placed)
        /\ e.good \in BOOLEAN /\ LaidOut(b, e) /\ Placed(e, e.placed, head)
    BY <1>2, <1>5, <2>2, <2>6 DEF Onward, LaidOut
  <2>8. CASE e.good = FALSE
    <3>1. m = e
      BY <2>1, <2>8
    <3> QED
      BY <2>7, <3>1
  <2>9. CASE e.good = TRUE
    <3>1. m = [e EXCEPT !.o.seg[k] = g]
      BY <2>1, <2>9
    <3>2. IsSegment(g, Len(b.sec)) /\ g.secs = secs /\ g.vaddr = seg.vaddr
      <4>1. DOMAIN seg = SegmentFields /\ seg.memsz \in Int /\ e.memsz \in Int /\ e.filesz \in Int
        BY <1>2, <2>7 DEF IsSegment, LaidOut, NewSegment, SegmentFields
      <4>2. Larger(seg.memsz, e.memsz) \in Int
        BY <4>1 DEF Larger
      <4>3. /\ DOMAIN g = SegmentFields /\ g.vaddr = seg.vaddr /\ g.align = seg.align /\ g.secs = seg.secs
            /\ g.offset = s.start /\ g.filesz = e.filesz /\ g.memsz = Larger(seg.memsz, e.memsz)
        BY <4>1 DEF SegmentFields
      <4> HIDE DEF g
      <4>4. DOMAIN g = DOMAIN NewSegment("NULL", 0, 0)
        BY <4>3 DEF NewSegment, SegmentFields
      <4> QED
        BY <1>2, <1>3, <4>1, <4>2, <4>3, <4>4 DEF IsSegment
    <3> HIDE DEF g
    <3>3. DOMAIN e = LayoutFields /\ DOMAIN e.o = {"sec", "seg", "phoff", "shoff", "shstrndx"}
      <4>1. DOMAIN b = {"sec", "seg", "phoff", "shoff", "shstrndx"}
        BY FieldsAre DEF LaidOut
      <4> QED
        BY <2>7, <4>1 DEF LaidOut, SameRest
    <3>4. SegmentSet(e, m, k, g)
      BY <3>1, <3>3 DEF SegmentSet, Changed, LayoutFields
    <3>5. g.secs = e.o.seg[k].secs /\ g.vaddr = e.o.seg[k].vaddr
      BY <1>2, <2>7, <3>2 DEF LaidOut, secs
    <3>6. LaidOut(b, m) /\ Placed(m, e.placed, head)
      BY <2>7, <3>2, <3>4, <3>5, SegmentSetIs
    <3>7. m.placed = e.placed /\ m.good = TRUE
      BY <2>9, <3>4 DEF SegmentSet
    <3> QED
      BY <2>7, <2>9, <3>6, <3>7 DEF Onward
  <2> QED
    BY <2>7, <2>8, <2>9
<1> QED
  BY <1>2, <1>4, <1>5

\* The segments are laid out one after the other.
SegmentsPass(f, l, order) ==
  f = [j \in 0..Len(order) |-> IF j = 0 THEN l ELSE LayoutSegment(f[j - 1], order[j])]

LEMMA SegmentsPassExists ==
  ASSUME NEW l, NEW order, Len(order) \in Nat
  PROVE  /\ \E f : SegmentsPass(f, l, order)
         /\ \A f : SegmentsPass(f, l, order) => /\ f[0] = l
                           /\ \A m \in 0..Len(order) - 1 : f[m + 1] = LayoutSegment(f[m], order[m + 1])
<1> USE DEF SegmentsPass
<1> DEFINE n == Len(order)
           first == l
           Step(w, j) == LayoutSegment(w, order[j])
           Upto(m) == \E f : f = [j \in 0..m |-> IF j = 0 THEN first ELSE Step(f[j - 1], j)]
           P == {m \in 0..n : Upto(m)}
<1>1. n \in Nat
  OBVIOUS
<1>2. \A f : SegmentsPass(f, l, order) <=> f = [j \in 0..n |-> IF j = 0 THEN first ELSE Step(f[j - 1], j)]
  BY Zenon
<1> HIDE DEF SegmentsPass, n, first, Step
<1>3. 0 \in P
  <2>1. [j \in 0..0 |-> first] = [j \in 0..0 |-> IF j = 0 THEN first ELSE Step([z \in 0..0 |-> first][j - 1], j)]
    OBVIOUS
  <2>2. Upto(0)
    BY <2>1
  <2> HIDE DEF Upto
  <2> QED
    BY <1>1, <2>2
<1>4. ASSUME NEW m \in 0..n - 1, m \in P PROVE m + 1 \in P
  <2>1. PICK f : f = [j \in 0..m |-> IF j = 0 THEN first ELSE Step(f[j - 1], j)]
    BY <1>4
  <2>2. m \in Nat /\ m + 1 \in 0..n
    BY <1>1
  <2>3. PICK g : OneMore(m, f, Step(f[m], m + 1), g)
    BY <2>2, OneMoreExists
  <2>4. ASSUME NEW j \in 0..m + 1 PROVE g[j] = IF j = 0 THEN first ELSE Step(g[j - 1], j)
    <3>1. CASE j = m + 1
      <4>1. j - 1 = m /\ m \in 0..m /\ j # 0
        BY <2>2, <3>1
      <4> QED
        BY <2>3, <3>1, <4>1 DEF OneMore
    <3>2. CASE j # m + 1
      <4>1. j \in 0..m /\ (j # 0 => j - 1 \in 0..m)
        BY <2>2, <3>2
      <4>2. f[j] = IF j = 0 THEN first ELSE Step(f[j - 1], j)
        BY <2>1, <4>1
      <4> QED
        BY <2>3, <4>1, <4>2 DEF OneMore
    <3> QED
      BY <3>1, <3>2
  <2>5. g = [j \in 0..m + 1 |-> IF j = 0 THEN first ELSE Step(g[j - 1], j)]
    BY <2>3, <2>4 DEF OneMore
  <2>6. Upto(m + 1)
    BY <2>5
  <2> HIDE DEF Upto
  <2> QED
    BY <2>2, <2>6
<1> HIDE DEF P
<1>5. n \in P
  <2>1. \A k \in 0..n : k \in P
    BY <1>1, <1>3, <1>4, Induction
  <2> QED
    BY <1>1, <2>1
<1>6. \E f : SegmentsPass(f, l, order)
  BY <1>2, <1>5 DEF P
<1>7. ASSUME NEW f, SegmentsPass(f, l, order) PROVE f[0] = first /\ \A m \in 0..n - 1 : f[m + 1] = Step(f[m], m + 1)
  <2>1. f = [j \in 0..n |-> IF j = 0 THEN first ELSE Step(f[j - 1], j)]
    BY <1>2, <1>7
  <2>2. 0 \in 0..n /\ \A m \in 0..n - 1 : m + 1 \in 0..n /\ m + 1 # 0 /\ (m + 1) - 1 = m
    BY <1>1
  <2> QED
    BY <2>1, <2>2
<1> QED
  BY <1>6, <1>7 DEF n, first, Step

\* In the order given, no segment asks for a section at a place below its own.
UpwardIn(b, order) ==
  \A n \in 1..Len(order) : LET seg == b.seg[order[n]] IN
    \A j \in 1..Len(seg.secs) : LET s == b.sec[seg.secs[j] + 1] IN
      /\ s.address_set = TRUE /\ Stored(s)
      /\ \A m \in 1..n - 1 : \A i \in 1..Len(b.seg[order[m]].secs) : b.seg[order[m]].secs[i] # seg.secs[j]
      => s.address >= seg.vaddr

LEMMA LayoutSegmentsIs ==
  ASSUME NEW b, NEW l, LaidOut(b, l), b.phoff \in Nat, NEW head \in Nat, Placed(l, l.placed, head),
         NEW order, IsList(order), \A n \in 1..Len(order) : order[n] \in 1..Len(b.seg), UpwardIn(b, order)
  PROVE  LET e == LayoutSegments(l, order)
         IN  /\ Onward(b, l, e, head)
             /\ e.good = TRUE => \A n \in 1..Len(order) : \A j \in 1..Len(b.seg[order[n]].secs) :
                                   b.seg[order[n]].secs[j] \in e.placed
<1> DEFINE n == Len(order)
           Secs(p) == b.seg[order[p]].secs
           f == CHOOSE h : SegmentsPass(h, l, order)
           Good(m) == /\ Onward(b, l, f[m], head)
                      /\ f[m].good = TRUE => \A p \in 1..m : \A j \in 1..Len(Secs(p)) : Secs(p)[j] \in f[m].placed
           P == {m \in 0..n : Good(m)}
<1>1. n \in Nat
  BY ListSeq
<1>2. SegmentsPass(f, l, order)
  BY <1>1, SegmentsPassExists
<1>3. LayoutSegments(l, order) = f[n]
  BY DEF LayoutSegments, SegmentsPass
<1> HIDE DEF f
<1>4. f[0] = l /\ \A m \in 0..n - 1 : f[m + 1] = LayoutSegment(f[m], order[m + 1])
  BY <1>1, <1>2, SegmentsPassExists
<1>5. \A p \in 1..n : order[p] \in 1..Len(b.seg)
  OBVIOUS
<1>6. ASSUME NEW p \in 1..n, NEW j \in 1..Len(Secs(p)), NEW s, s = b.sec[Secs(p)[j] + 1], s.address_set = TRUE, Stored(s),
             \A m \in 1..p - 1 : \A i \in 1..Len(Secs(m)) : Secs(m)[i] # Secs(p)[j]
      PROVE  s.address >= b.seg[order[p]].vaddr
  BY <1>6 DEF UpwardIn
<1> HIDE DEF n
<1>7. 0 \in P
  <2>1. Onward(b, l, l, head)
    BY DEF Onward
  <2>2. Good(0)
    BY <1>4, <2>1
  <2> HIDE DEF Good
  <2> QED
    BY <1>1, <2>2
<1>8. ASSUME NEW m \in 0..n - 1, m \in P PROVE m + 1 \in P
  <2> DEFINE k == m + 1
             x == order[k]
             g == f[m]
             u == LayoutSegment(g, x)
             secs == Secs(k)
  <2>1. k \in 1..n /\ k \in 0..n /\ (\A j \in 1..k : j = k \/ j \in 1..m) /\ k - 1 = m
    BY <1>1
  <2>2. x \in 1..Len(b.seg)
    BY <1>5, <2>1
  <2>3. Onward(b, l, g, head) /\ (g.good = TRUE => \A p \in 1..m : \A j \in 1..Len(Secs(p)) : Secs(p)[j] \in g.placed)
    BY <1>8
  <2>4. f[k] = u
    BY <1>4
  <2>5. secs = b.seg[x].secs
    OBVIOUS
  <2> HIDE DEF g, k
  <2>6. g.good = TRUE => \A j \in 1..Len(secs) : Upward(b, g, b.seg[x], secs[j] + 1)
    <3> SUFFICES ASSUME g.good = TRUE, NEW j \in 1..Len(secs), NEW i, i = secs[j], b.sec[i + 1].address_set = TRUE,
                        Stored(b.sec[i + 1]), i \notin g.placed
                 PROVE  b.sec[i + 1].address >= b.seg[x].vaddr
      <4>1. ASSUME g.good = TRUE, NEW j \in 1..Len(secs) PROVE (secs[j] + 1) - 1 = secs[j]
        <5> DEFINE i == secs[j]
        <5>1. i \in 0..Len(b.sec) - 1
          <6>1. IsSegment(g.o.seg[x], Len(b.sec)) /\ g.o.seg[x].secs = secs /\ Len(b.sec) \in Nat
            BY <2>2, <2>3, <2>5 DEF Onward, LaidOut, IsList
          <6> HIDE DEF secs
          <6>2. IsList(secs) /\ \A q \in DOMAIN secs : secs[q] \in 0..Len(b.sec) - 1
            BY <6>1 DEF IsSegment
          <6>3. DOMAIN secs = 1..Len(secs)
            BY <6>2, ListSeq
          <6> QED
            BY <4>1, <6>2, <6>3
        <5> HIDE DEF i
        <5>2. (i + 1) - 1 = i
          BY <5>1
        <5> QED
          BY <5>2 DEF i
      <4> HIDE DEF secs
      <4> QED
        BY <4>1 DEF Upward
    <3>1. \A p \in 1..k - 1 : \A q \in 1..Len(Secs(p)) : Secs(p)[q] # secs[j]
      BY <2>1, <2>3
    <3> QED
      BY <1>6, <2>1, <3>1
  <2>7. LaidOut(b, g) /\ Placed(g, g.placed, head)
    BY <2>3 DEF Onward
  <2> HIDE DEF x
  <2>8. Onward(b, g, u, head) /\ (u.good = TRUE => \A j \in 1..Len(secs) : secs[j] \in u.placed)
    <3>1. g.good = TRUE => \A j \in 1..Len(b.seg[x].secs) : Upward(b, g, b.seg[x], b.seg[x].secs[j] + 1)
      BY <2>5, <2>6
    <3>2. Onward(b, g, u, head) /\ (u.good = TRUE => \A j \in 1..Len(b.seg[x].secs) : b.seg[x].secs[j] \in u.placed)
      BY <2>2, <2>7, <3>1, LayoutSegmentIs
    <3> QED
      BY <2>5, <3>2
  <2> HIDE DEF u
  <2>9. Onward(b, l, u, head) /\ g.placed \subseteq u.placed /\ (u.good = TRUE => g.good = TRUE)
    BY <2>3, <2>8 DEF Onward
  <2>10. u.good = TRUE => \A p \in 1..k : \A j \in 1..Len(Secs(p)) : Secs(p)[j] \in u.placed
    <3> SUFFICES ASSUME u.good = TRUE, NEW p \in 1..k, NEW j \in 1..Len(Secs(p)) PROVE Secs(p)[j] \in u.placed
      OBVIOUS
    <3>1. CASE p = k
      BY <2>8, <3>1
    <3>2. CASE p \in 1..m
      BY <2>3, <2>9, <3>2
    <3> QED
      BY <2>1, <3>1, <3>2
  <2>11. Good(k)
    BY <2>4, <2>9, <2>10
  <2> HIDE DEF Good
  <2>12. k \in P
    BY <2>1, <2>11
  <2> QED
    BY <2>12 DEF k
<1>9. n \in P
  <2>1. n \in 0..n
    BY <1>1
  <2> HIDE DEF P
  <2> QED
    BY <1>1, <1>7, <1>8, <2>1, Induction
<1>10. Good(n)
  <2> HIDE DEF Good
  <2> QED
    BY <1>9
<1> HIDE DEF P
<1> QED
  BY <1>3, <1>10 DEF n

\* A section of no segment is put behind the others.
LEMMA LayoutLooseIs ==
  ASSUME NEW b, NEW l, LaidOut(b, l), NEW D, NEW head \in Nat, Placed(l, D, head), NEW x \in 1..Len(b.sec),
         b.sec[1].type = "NULL", \A k \in 1..Len(b.seg) : \A j \in 1..Len(b.seg[k].secs) : b.seg[k].secs[j] \in D
  PROVE  LET m == LayoutLoose(l, x - 1)
         IN  LaidOut(b, m) /\ Placed(m, D \union {x - 1}, head) /\ m.good = l.good /\ m.placed = l.placed
<1> DEFINE i == x - 1
           m == LayoutLoose(l, i)
           s == Section(l.o, i)
           pad == Padding(l.pos, s.addr_align)
           at == l.pos + pad
           bits == IF Occupies(s) THEN s.size ELSE 0
           t == [s EXCEPT !.offset = IF i = 0 THEN s.offset ELSE at]
<1> SUFFICES LaidOut(b, m) /\ Placed(m, D \union {i}, head) /\ m.good = l.good /\ m.placed = l.placed
  OBVIOUS
<1>1. i + 1 = x /\ i \in Int
  BY DEF LaidOut, IsList
<1>2. m = IF ~is_section_without_segment(l.o, i) THEN l
          ELSE [l EXCEPT !.pos = at + bits, !.o.sec[i + 1].offset = IF i = 0 THEN @ ELSE at]
  BY DEF LayoutLoose
<1>3. s = l.o.sec[x]
  BY <1>1 DEF Section
<1> HIDE DEF m, s
<1>4. IsSection(s, i) /\ Relaid(b.sec[x], s)
  BY <1>3 DEF LaidOut
<1>5. /\ DOMAIN l = LayoutFields /\ l.good \in BOOLEAN /\ l.pos \in Nat /\ l.filesz \in Int /\ l.memsz \in Int
      /\ Len(l.o.sec) = Len(b.sec) /\ IsList(l.o.sec)
  BY DEF LaidOut
<1>6. /\ DOMAIN s = SectionFields /\ s.index = i /\ s.size \in Nat /\ s.offset \in Nat /\ s.addr_align \in Nat
      /\ s.address \in Int /\ s.address_set \in BOOLEAN
  BY <1>4, FieldsAre DEF IsSection
<1>7. i = 0 => ~Stored(s)
  BY <1>1, <1>4 DEF Relaid, Stored, Occupies
<1> HIDE DEF i
<1>8. CASE ~is_section_without_segment(l.o, i)
  <2>1. m = l
    BY <1>2, <1>8
  <2>2. i \in D
    <3>1. PICK k \in DOMAIN l.o.seg : i \in ToSet(l.o.seg[k].secs)
      BY <1>8 DEF is_section_without_segment, Segments
    <3>2. k \in 1..Len(b.seg)
      <4>1. IsList(l.o.seg) /\ Len(l.o.seg) = Len(b.seg)
        BY DEF LaidOut
      <4>2. DOMAIN l.o.seg = 1..Len(b.seg)
        BY <4>1, ListSeq
      <4> QED
        BY <4>2
    <3>3. IsList(b.seg[k].secs) /\ l.o.seg[k].secs = b.seg[k].secs
      BY <3>2 DEF LaidOut, IsSegment
    <3>4. PICK j \in DOMAIN b.seg[k].secs : b.seg[k].secs[j] = i
      BY <3>1, <3>3 DEF ToSet
    <3>5. j \in 1..Len(b.seg[k].secs)
      BY <3>3, ListSeq
    <3> QED
      BY <3>2, <3>4, <3>5
  <2>3. D \union {i} = D
    BY <2>2
  <2> QED
    BY <2>1, <2>3
<1>9. CASE is_section_without_segment(l.o, i)
  <2>1. pad \in Nat
    <3>1. l.pos \in Int /\ s.addr_align \in Nat
      BY <1>5, <1>6
    <3> QED
      BY <3>1, PaddingNat
  <2> HIDE DEF pad
  <2>2. at \in Nat /\ l.pos <= at /\ bits \in Nat /\ (Stored(s) => bits = s.size)
    BY <1>5, <1>6, <2>1 DEF Stored
  <2>3. /\ DOMAIN t = SectionFields /\ t.index = s.index /\ t.name = s.name
        /\ t.name_offset = s.name_offset /\ t.type = s.type /\ t.data = s.data /\ t.size = s.size
        /\ t.addr_align = s.addr_align /\ t.address = s.address /\ t.address_set = s.address_set
        /\ t.offset = IF i = 0 THEN s.offset ELSE at
    BY <1>6 DEF SectionFields
  <2>4. m = [l EXCEPT !.pos = at + bits, !.o.sec[i + 1].offset = IF i = 0 THEN @ ELSE at]
    BY <1>2, <1>9
  <2> HIDE DEF at, bits
  <2>5. at + bits \in Nat /\ l.pos <= at + bits
    BY <1>5, <2>2
  <2>6. DOMAIN l.o = {"sec", "seg", "phoff", "shoff", "shstrndx"}
    <3>1. DOMAIN b = {"sec", "seg", "phoff", "shoff", "shstrndx"}
      BY FieldsAre DEF LaidOut
    <3> QED
      BY <3>1 DEF LaidOut, SameRest
  <2>7. DOMAIN l.o.sec = 1..Len(b.sec)
    BY <1>5, ListSeq
  <2>8. m.o = [l.o EXCEPT !.sec = [l.o.sec EXCEPT ![x] = t]]
    BY <1>1, <1>3, <1>5, <2>4, <2>6, <2>7 DEF LayoutFields
  <2> HIDE DEF t
  <2>9. SameRest(l.o, m.o) /\ Changed(l.o.sec, x, t, m.o.sec)
    BY <2>6, <2>8 DEF SameRest, Changed
  <2>10. /\ DOMAIN m = LayoutFields /\ m.good = l.good /\ m.pos = at + bits /\ m.placed = l.placed
         /\ m.memsz = l.memsz /\ m.filesz = l.filesz
    BY <1>5, <2>4 DEF LayoutFields
  <2>11. t.offset \in Nat
    BY <1>6, <2>2, <2>3
  <2>12. IsSection(t, i)
    BY <1>4, <1>6, <2>3, <2>11, FieldsAre DEF IsSection, Occupies, has_data
  <2>13. Relaid(s, t)
    BY <2>3 DEF Relaid
  <2>14. Stored(t) => l.pos <= t.offset /\ End(t) <= m.pos
    <3>1. Stored(t) => Stored(s) /\ t.offset = at
      BY <1>7, <2>3 DEF Stored, Occupies
    <3>2. t.offset = at => End(t) = at + s.size
      BY <2>3 DEF End
    <3>3. at + bits <= at + bits
      BY <2>5
    <3> QED
      BY <2>2, <2>10, <3>1, <3>2, <3>3
  <2>15. Placing(l, m, x, t)
    BY <1>3, <1>5, <2>3, <2>5, <2>9, <2>10, <2>12, <2>13, <2>14 DEF Placing, i
  <2>16. LaidOut(b, m) /\ Placed(m, D \union {i}, head)
    BY <2>15, PlaceOne DEF i
  <2> QED
    BY <2>10, <2>16
<1> QED
  BY <1>8, <1>9

\* The sections of no segment are laid out in the order of their numbers.
LoosePass(f, l) ==
  f = [j \in 0..Len(l.o.sec) |-> IF j = 0 THEN l ELSE LayoutLoose(f[j - 1], j - 1)]

LEMMA LoosePassExists ==
  ASSUME NEW l, Len(l.o.sec) \in Nat
  PROVE  /\ \E f : LoosePass(f, l)
         /\ \A f : LoosePass(f, l) => /\ f[0] = l
                           /\ \A m \in 0..Len(l.o.sec) - 1 : f[m + 1] = LayoutLoose(f[m], (m + 1) - 1)
<1> USE DEF LoosePass
<1> DEFINE n == Len(l.o.sec)
           first == l
           Step(w, j) == LayoutLoose(w, j - 1)
           Upto(m) == \E f : f = [j \in 0..m |-> IF j = 0 THEN first ELSE Step(f[j - 1], j)]
           P == {m \in 0..n : Upto(m)}
<1>1. n \in Nat
  OBVIOUS
<1>2. \A f : LoosePass(f, l) <=> f = [j \in 0..n |-> IF j = 0 THEN first ELSE Step(f[j - 1], j)]
  BY Zenon
<1> HIDE DEF LoosePass, n, first, Step
<1>3. 0 \in P
  <2>1. [j \in 0..0 |-> first] = [j \in 0..0 |-> IF j = 0 THEN first ELSE Step([z \in 0..0 |-> first][j - 1], j)]
    OBVIOUS
  <2>2. Upto(0)
    BY <2>1
  <2> HIDE DEF Upto
  <2> QED
    BY <1>1, <2>2
<1>4. ASSUME NEW m \in 0..n - 1, m \in P PROVE m + 1 \in P
  <2>1. PICK f : f = [j \in 0..m |-> IF j = 0 THEN first ELSE Step(f[j - 1], j)]
    BY <1>4
  <2>2. m \in Nat /\ m + 1 \in 0..n
    BY <1>1
  <2>3. PICK g : OneMore(m, f, Step(f[m], m + 1), g)
    BY <2>2, OneMoreExists
  <2>4. ASSUME NEW j \in 0..m + 1 PROVE g[j] = IF j = 0 THEN first ELSE Step(g[j - 1], j)
    <3>1. CASE j = m + 1
      <4>1. j - 1 = m /\ m \in 0..m /\ j # 0
        BY <2>2, <3>1
      <4> QED
        BY <2>3, <3>1, <4>1 DEF OneMore
    <3>2. CASE j # m + 1
      <4>1. j \in 0..m /\ (j # 0 => j - 1 \in 0..m)
        BY <2>2, <3>2
      <4>2. f[j] = IF j = 0 THEN first ELSE Step(f[j - 1], j)
        BY <2>1, <4>1
      <4> QED
        BY <2>3, <4>1, <4>2 DEF OneMore
    <3> QED
      BY <3>1, <3>2
  <2>5. g = [j \in 0..m + 1 |-> IF j = 0 THEN first ELSE Step(g[j - 1], j)]
    BY <2>3, <2>4 DEF OneMore
  <2>6. Upto(m + 1)
    BY <2>5
  <2> HIDE DEF Upto
  <2> QED
    BY <2>2, <2>6
<1> HIDE DEF P
<1>5. n \in P
  <2>1. \A k \in 0..n : k \in P
    BY <1>1, <1>3, <1>4, Induction
  <2> QED
    BY <1>1, <2>1
<1>6. \E f : LoosePass(f, l)
  BY <1>2, <1>5 DEF P
<1>7. ASSUME NEW f, LoosePass(f, l) PROVE f[0] = first /\ \A m \in 0..n - 1 : f[m + 1] = Step(f[m], m + 1)
  <2>1. f = [j \in 0..n |-> IF j = 0 THEN first ELSE Step(f[j - 1], j)]
    BY <1>2, <1>7
  <2>2. 0 \in 0..n /\ \A m \in 0..n - 1 : m + 1 \in 0..n /\ m + 1 # 0 /\ (m + 1) - 1 = m
    BY <1>1
  <2> QED
    BY <2>1, <2>2
<1> QED
  BY <1>6, <1>7 DEF n, first, Step

LEMMA LayoutAllLooseIs ==
  ASSUME NEW b, NEW l, LaidOut(b, l), NEW head \in Nat, Placed(l, l.placed, head),
         b.sec[1].type = "NULL", \A k \in 1..Len(b.seg) : \A j \in 1..Len(b.seg[k].secs) : b.seg[k].secs[j] \in l.placed
  PROVE  LET e == LayoutAllLoose(l)
         IN  LaidOut(b, e) /\ Placed(e, 0..Len(b.sec) - 1, head) /\ e.good = l.good
<1> DEFINE n == Len(b.sec)
           f == CHOOSE h : LoosePass(h, l)
           D(m) == l.placed \union 0..m - 1
           Good(m) == LaidOut(b, f[m]) /\ Placed(f[m], D(m), head) /\ f[m].good = l.good
           P == {m \in 0..n : Good(m)}
<1>1. n \in Nat /\ Len(l.o.sec) = n
  BY DEF LaidOut, IsList
<1>2. LoosePass(f, l)
  BY <1>1, LoosePassExists
<1>3. LayoutAllLoose(l) = f[n]
  BY <1>1 DEF LayoutAllLoose, LoosePass
<1> HIDE DEF f
<1>4. f[0] = l /\ \A m \in 0..n - 1 : f[m + 1] = LayoutLoose(f[m], (m + 1) - 1)
  BY <1>1, <1>2, LoosePassExists
<1> HIDE DEF n
<1>5. 0 \in P
  <2>1. D(0) = l.placed
    OBVIOUS
  <2> HIDE DEF D
  <2>2. Good(0)
    BY <1>4, <2>1
  <2> HIDE DEF Good
  <2> QED
    BY <1>1, <2>2
<1>6. ASSUME NEW m \in 0..n - 1, m \in P PROVE m + 1 \in P
  <2> DEFINE x == m + 1
             g == f[m]
             u == LayoutLoose(g, x - 1)
  <2>1. x \in 1..n /\ x \in 0..n
    BY <1>1
  <2>2. LaidOut(b, g) /\ Placed(g, D(m), head) /\ g.good = l.good
    BY <1>6
  <2>3. f[x] = u
    BY <1>4
  <2>4. D(x) = D(m) \union {x - 1}
    BY <1>1
  <2>5. \A k \in 1..Len(b.seg) : \A j \in 1..Len(b.seg[k].secs) : b.seg[k].secs[j] \in D(m)
    OBVIOUS
  <2> HIDE DEF x, g, D
  <2>6. LaidOut(b, u) /\ Placed(u, D(m) \union {x - 1}, head) /\ u.good = g.good
    <3>1. x \in 1..Len(b.sec)
      BY <2>1 DEF n
    <3> QED
      BY <2>2, <2>5, <3>1, LayoutLooseIs
  <2> HIDE DEF u
  <2>7. Good(x)
    BY <2>2, <2>3, <2>4, <2>6
  <2> HIDE DEF Good
  <2>8. x \in P
    BY <2>1, <2>7
  <2> QED
    BY <2>8 DEF x
<1>7. n \in P
  <2>1. n \in 0..n
    BY <1>1
  <2> HIDE DEF P
  <2> QED
    BY <1>1, <1>5, <1>6, <2>1, Induction
<1>8. Good(n)
  <2> HIDE DEF Good
  <2> QED
    BY <1>7
<1> HIDE DEF P
<1>9. LaidOut(b, f[n]) /\ Placed(f[n], 0..n - 1, head)
  <2>1. \A k \in 1..Len(f[n].o.sec) : k - 1 \in 0..n - 1 => k - 1 \in D(n)
    OBVIOUS
  <2>2. LaidOut(b, f[n]) /\ Placed(f[n], D(n), head)
    BY <1>8
  <2> HIDE DEF D
  <2> QED
    BY <2>1, <2>2 DEF Placed
<1> QED
  BY <1>3, <1>8, <1>9 DEF n

(***************************************************************************)
(* The layout of an object is one whose parts have places of their own.    *)
(***************************************************************************)
TableEnd(o) == EHSIZE + PHENTSIZE * Len(o.seg)

Arranged(p) ==
  /\ Len(p.seg) # 0 => p.phoff = EHSIZE
  /\ \E pos \in Nat :
       /\ TableEnd(p) <= pos /\ pos <= p.shoff
       /\ \A k \in 1..Len(p.sec) : Stored(p.sec[k]) => TableEnd(p) <= p.sec[k].offset /\ End(p.sec[k]) <= pos
       /\ \A k, j \in 1..Len(p.sec) : k # j /\ Stored(p.sec[k]) /\ Stored(p.sec[j]) => SetApart(p.sec[k], p.sec[j])

\* The object the layout starts from, and its first state.
Aligned(o) == calc_segment_alignment([o EXCEPT !.shoff = 0, !.phoff = IF Len(o.seg) > 0 THEN EHSIZE ELSE 0])

FirstState(o) == [o |-> Aligned(o), good |-> TRUE, pos |-> TableEnd(o), placed |-> {}, filesz |-> 0, memsz |-> 0]

AlignedAs(o, b) ==
  /\ DOMAIN b = DOMAIN NoObject /\ b.sec = o.sec /\ b.shstrndx = o.shstrndx /\ b.shoff = 0
  /\ b.phoff \in Nat /\ (Len(o.seg) # 0 => b.phoff = EHSIZE)
  /\ IsList(b.seg) /\ Len(b.seg) = Len(o.seg)
  /\ \A k \in 1..Len(o.seg) : /\ IsSegment(b.seg[k], Len(o.sec))
                              /\ b.seg[k].secs = o.seg[k].secs /\ b.seg[k].vaddr = o.seg[k].vaddr

LEMMA AlignedIs ==
  ASSUME NEW o, IsObject(o)
  PROVE  AlignedAs(o, Aligned(o))
<1> DEFINE n == Len(o.seg)
           a == [o EXCEPT !.shoff = 0, !.phoff = IF n > 0 THEN EHSIZE ELSE 0]
           g(k) == [o.seg[k] EXCEPT !.align = AlignedTo(a, o.seg[k].align, o.seg[k].secs)]
           segs == [k \in 1..n |-> g(k)]
           b == Aligned(o)
<1>1. /\ DOMAIN o = {"sec", "seg", "phoff", "shoff", "shstrndx"} /\ n \in Nat /\ DOMAIN o.seg = 1..n
      /\ Len(o.sec) \in Nat /\ DOMAIN o.sec = 1..Len(o.sec)
  BY FieldsAre, ListSeq DEF IsObject
<1>2. /\ DOMAIN a = {"sec", "seg", "phoff", "shoff", "shstrndx"} /\ a.sec = o.sec /\ a.seg = o.seg
      /\ a.shstrndx = o.shstrndx /\ a.shoff = 0 /\ a.phoff = IF n > 0 THEN EHSIZE ELSE 0
  BY <1>1
<1>3. b = [a EXCEPT !.seg = [k \in DOMAIN a.seg |-> [a.seg[k] EXCEPT !.align = AlignedTo(a, a.seg[k].align, a.seg[k].secs)]]]
  <2>1. b = calc_segment_alignment(a)
    BY DEF Aligned
  <2> HIDE DEF a, b
  <2> QED
    BY <2>1 DEF calc_segment_alignment, Segments
<1> HIDE DEF a, b
<1>4. b = [a EXCEPT !.seg = segs]
  BY <1>1, <1>2, <1>3
<1>5. ASSUME NEW k \in 1..n
      PROVE  IsSegment(g(k), Len(o.sec)) /\ g(k).secs = o.seg[k].secs /\ g(k).vaddr = o.seg[k].vaddr
  <2> DEFINE seg == o.seg[k]
             align == AlignedTo(a, seg.align, seg.secs)
             new == [seg EXCEPT !.align = align]
  <2>1. IsSegment(seg, Len(o.sec))
    BY <1>1 DEF IsObject, Segments
  <2> HIDE DEF seg
  <2>2. align \in Nat
    <3> DEFINE secs == seg.secs
    <3>1. IsList(secs) /\ \A j \in DOMAIN secs : secs[j] \in 0..Len(o.sec) - 1
      BY <2>1 DEF IsSegment
    <3> HIDE DEF secs
    <3>2. \A j \in DOMAIN secs : secs[j] + 1 \in 1..Len(o.sec)
      BY <1>1, <3>1
    <3>3. \A j \in DOMAIN secs : Section(a, secs[j]).addr_align \in Nat
      BY <1>1, <1>2, <3>2 DEF IsObject, Indices, IsSection, Section
    <3>4. seg.align \in Nat
      BY <2>1 DEF IsSegment
    <3>5. AlignedTo(a, seg.align, secs) \in Nat
      BY <3>1, <3>3, <3>4, AlignedToNat
    <3> QED
      BY <3>5 DEF secs
  <2> HIDE DEF align
  <2>3. DOMAIN seg = SegmentFields
    BY <2>1 DEF IsSegment, NewSegment, SegmentFields
  <2>4. /\ DOMAIN new = DOMAIN seg /\ new.vaddr = seg.vaddr /\ new.align = align /\ new.offset = seg.offset
        /\ new.filesz = seg.filesz /\ new.memsz = seg.memsz /\ new.secs = seg.secs
    BY <2>3 DEF SegmentFields
  <2>5. g(k) = new
    BY DEF align, seg
  <2> HIDE DEF new, g
  <2>6. IsSegment(new, Len(o.sec))
    BY <2>1, <2>2, <2>4 DEF IsSegment
  <2> QED
    BY <2>4, <2>5, <2>6 DEF seg
<1>6. IsList(segs) /\ Len(segs) = n /\ \A k \in 1..n : segs[k] = g(k)
  <2> HIDE DEF g
  <2>1. segs = [k \in 1..n |-> segs[k]] /\ \A k \in 1..n : segs[k] = g(k)
    OBVIOUS
  <2> HIDE DEF segs
  <2> QED
    BY <1>1, <2>1, FunctionList
<1> HIDE DEF segs, g
<1>7. /\ DOMAIN b = {"sec", "seg", "phoff", "shoff", "shstrndx"} /\ b.sec = o.sec /\ b.seg = segs
      /\ b.shstrndx = o.shstrndx /\ b.shoff = 0 /\ b.phoff = IF n > 0 THEN EHSIZE ELSE 0
  BY <1>2, <1>4
<1>8. EHSIZE \in Nat
  BY SizesAssumption
<1>9. b.phoff \in Nat /\ (n # 0 => b.phoff = EHSIZE)
  BY <1>1, <1>7, <1>8
<1>10. AlignedAs(o, b)
  BY <1>5, <1>6, <1>7, <1>9, FieldsAre DEF AlignedAs, n
<1> QED
  BY <1>10 DEF b

LEMMA FirstStateIs ==
  ASSUME NEW o, IsObject(o)
  PROVE  LET b == Aligned(o)  l == FirstState(o)
         IN  LaidOut(b, l) /\ TableEnd(o) \in Nat /\ Placed(l, l.placed, TableEnd(o)) /\ l.good = TRUE /\ l.placed = {}
<1> DEFINE b == Aligned(o)
           l == FirstState(o)
<1>1. AlignedAs(o, b)
  BY AlignedIs
<1>2. TableEnd(o) \in Nat
  <2>1. EHSIZE \in Nat /\ PHENTSIZE \in Nat /\ Len(o.seg) \in Nat
    BY SizesAssumption DEF IsObject, IsList
  <2>2. PHENTSIZE * Len(o.seg) \in Nat
    BY <2>1
  <2> QED
    BY <2>1, <2>2 DEF TableEnd
<1>3. /\ DOMAIN l = LayoutFields /\ l.o = b /\ l.good = TRUE /\ l.pos = TableEnd(o) /\ l.placed = {}
      /\ l.filesz = 0 /\ l.memsz = 0
  BY DEF FirstState, LayoutFields
<1> HIDE DEF l, b
<1>4. /\ IsList(b.sec) /\ \A k \in 1..Len(b.sec) : IsSection(b.sec[k], k - 1) /\ Relaid(b.sec[k], b.sec[k])
  <2>1. IsList(o.sec) /\ DOMAIN o.sec = 1..Len(o.sec)
    BY ListSeq DEF IsObject
  <2> QED
    BY <1>1, <2>1 DEF AlignedAs, IsObject, Indices, Relaid
<1>5. LaidOut(b, l)
  <2>1. DOMAIN b = {"sec", "seg", "phoff", "shoff", "shstrndx"}
    BY <1>1, FieldsAre DEF AlignedAs
  <2>2. SameRest([b EXCEPT !.seg = l.o.seg], l.o)
    BY <1>3, <2>1 DEF SameRest
  <2>3. IsList(b.seg) /\ DOMAIN b = DOMAIN NoObject /\ \A k \in 1..Len(b.seg) : IsSegment(b.seg[k], Len(b.sec))
    BY <1>1 DEF AlignedAs
  <2>4. l.pos \in Nat /\ l.filesz \in Int /\ l.memsz \in Int
    BY <1>2, <1>3
  <2>5. l.good \in BOOLEAN
    BY <1>3
  <2>6. \A k \in 1..Len(b.sec) : l.o.sec[k].address_set = TRUE /\ k - 1 \notin l.placed => b.sec[k].address_set = TRUE
    BY <1>3
  <2>7. l.o.sec = b.sec /\ l.o.seg = b.seg
    BY <1>3
  <2>8. \A k \in 1..Len(b.seg) : l.o.seg[k].secs = b.seg[k].secs /\ l.o.seg[k].vaddr = b.seg[k].vaddr
    BY <2>7
  <2> QED
    BY <1>3, <1>4, <2>2, <2>3, <2>8, <2>4, <2>6, <2>7, <2>5 DEF LaidOut
<1>6. Placed(l, l.placed, TableEnd(o))
  <2>1. TableEnd(o) <= l.pos
    BY <1>2, <1>3
  <2> QED
    BY <1>3, <2>1 DEF Placed
<1> QED
  BY <1>2, <1>3, <1>5, <1>6 DEF l, b

\* The object a layout ends with, whatever place the table of sections gets.
SameParts(o, q, p) ==
  /\ DOMAIN p = DOMAIN NoObject /\ p.sec = q.sec /\ p.seg = q.seg /\ p.phoff = q.phoff
  /\ p.shoff \in Nat /\ p.shstrndx = o.shstrndx

LEMMA LaidOutObject ==
  ASSUME NEW o, IsObject(o), NEW b, AlignedAs(o, b), NEW l, LaidOut(b, l), NEW p, SameParts(o, l.o, p)
  PROVE  IsObject(p) /\ Len(p.sec) = Len(o.sec) /\ Len(p.seg) = Len(o.seg) /\ p.phoff = b.phoff
<1> DEFINE n == Len(o.sec)
<1>1. n \in Nat /\ o.shstrndx + 1 \in 1..n /\ 1 \in 1..n /\ o.sec[1].type = "NULL"
  BY ListSeq DEF IsObject
<1>2. b.sec = o.sec /\ b.phoff \in Nat
  BY DEF AlignedAs
<1> HIDE DEF n
<1>3. /\ IsList(p.sec) /\ Len(p.sec) = n
      /\ \A k \in 1..n : IsSection(p.sec[k], k - 1) /\ Relaid(o.sec[k], p.sec[k])
  BY <1>2 DEF LaidOut, SameParts, n
<1>4. p.sec[1].type = "NULL"
  BY <1>1, <1>3 DEF Relaid
<1>5. p.phoff = b.phoff
  <2>1. DOMAIN b = {"sec", "seg", "phoff", "shoff", "shstrndx"}
    BY FieldsAre DEF LaidOut
  <2> QED
    BY <2>1 DEF LaidOut, SameRest, SameParts
<1>6. IsList(p.seg) /\ Len(p.seg) = Len(o.seg) /\ \A k \in DOMAIN p.seg : IsSegment(p.seg[k], n)
  <2>1. IsList(p.seg) /\ Len(p.seg) = Len(o.seg) /\ \A k \in 1..Len(p.seg) : IsSegment(p.seg[k], n)
    BY <1>2 DEF LaidOut, SameParts, AlignedAs, n
  <2>2. DOMAIN p.seg = 1..Len(p.seg)
    BY <2>1, ListSeq
  <2> QED
    BY <2>1, <2>2
<1>7. LET s == o.sec[o.shstrndx + 1]  t == p.sec[o.shstrndx + 1]
      IN  t.type = s.type /\ t.data = s.data /\ t.size = s.size
  BY <1>1, <1>3 DEF Relaid
<1>8. \A k \in 1..n : p.sec[k].name = o.sec[k].name /\ p.sec[k].name_offset = o.sec[k].name_offset
  BY <1>3 DEF Relaid
<1>9. LikeObject(o, p)
  BY <1>2, <1>3, <1>4, <1>5, <1>6, <1>7, <1>8 DEF LikeObject, SameParts, n
<1>10. IsObject(p)
  BY <1>9, ObjectLike
<1> QED
  BY <1>3, <1>5, <1>6, <1>10 DEF n

LEMMA UpwardsIs ==
  ASSUME NEW o, IsObject(o), LaysUpwards(o), NEW b, AlignedAs(o, b)
  PROVE  UpwardIn(b, get_ordered_segments(o.seg))
<1> DEFINE order == get_ordered_segments(o.seg)
<1>1. IsList(o.seg) /\ DOMAIN o.seg = 1..Len(o.seg) /\ \A k \in 1..Len(o.seg) : IsList(o.seg[k].secs)
  BY ListSeq DEF IsObject, IsSegment, Segments
<1>2. IsList(order) /\ Len(order) = Len(o.seg) /\ \A m \in 1..Len(o.seg) : order[m] \in 1..Len(o.seg)
  <2>1. Segmented(o.seg)
    BY <1>1 DEF Segmented
  <2> QED
    BY <2>1, OrderIs
<1>3. DOMAIN order = 1..Len(order)
  BY <1>2, ListSeq
<1> DEFINE Secs(n) == o.seg[order[n]].secs
<1>4. \A n \in 1..Len(order) : order[n] \in 1..Len(o.seg) /\ IsList(Secs(n)) /\ DOMAIN Secs(n) = 1..Len(Secs(n))
  BY <1>1, <1>2, ListSeq
<1>5. ASSUME NEW n \in DOMAIN order, NEW i \in ToSet(Secs(n)), Section(o, i).address_set, Stored(Section(o, i)),
             \A m \in 1..n - 1 : i \notin ToSet(Secs(m))
      PROVE  Section(o, i).address >= o.seg[order[n]].vaddr
  BY <1>5, Zenon DEF LaysUpwards, Stored
<1> HIDE DEF order
<1>6. \A n \in 1..Len(order) : \A m \in 1..n - 1 : m \in 1..Len(order)
  <2> DEFINE z == Len(order)
  <2>1. z \in Nat
    BY <1>2, ListSeq
  <2> HIDE DEF z
  <2>2. \A n \in 1..z : \A m \in 1..n - 1 : m \in 1..z
    BY <2>1
  <2> QED
    BY <2>2 DEF z
<1> SUFFICES ASSUME NEW n \in 1..Len(order), NEW j \in 1..Len(b.seg[order[n]].secs),
                    b.sec[b.seg[order[n]].secs[j] + 1].address_set = TRUE, Stored(b.sec[b.seg[order[n]].secs[j] + 1]),
                    \A m \in 1..n - 1 : \A i \in 1..Len(b.seg[order[m]].secs) : b.seg[order[m]].secs[i] # b.seg[order[n]].secs[j]
             PROVE  b.sec[b.seg[order[n]].secs[j] + 1].address >= b.seg[order[n]].vaddr
  BY DEF UpwardIn, order
<1>7. \A m \in 1..Len(order) : b.seg[order[m]].secs = Secs(m) /\ b.seg[order[m]].vaddr = o.seg[order[m]].vaddr
  BY <1>4 DEF AlignedAs
<1> DEFINE i == Secs(n)[j]
<1>8. i \in ToSet(Secs(n)) /\ n \in DOMAIN order
  <2>1. j \in DOMAIN Secs(n)
    BY <1>4, <1>7
  <2> QED
    BY <1>3, <2>1 DEF ToSet
<1>9. i = b.seg[order[n]].secs[j] /\ b.sec = o.sec
  BY <1>7 DEF AlignedAs
<1> HIDE DEF i
<1>10. Section(o, i).address_set /\ Stored(Section(o, i))
  BY <1>9 DEF Section
<1>11. \A m \in 1..n - 1 : i \notin ToSet(Secs(m))
  <2> SUFFICES ASSUME NEW m \in 1..n - 1, i \in ToSet(Secs(m)) PROVE FALSE
    OBVIOUS
  <2>1. m \in 1..Len(order)
    BY <1>6
  <2>2. PICK k \in DOMAIN Secs(m) : Secs(m)[k] = i
    BY DEF ToSet
  <2> QED
    BY <1>4, <1>7, <1>9, <2>1, <2>2
<1>12. Section(o, i).address >= o.seg[order[n]].vaddr
  BY <1>5, <1>8, <1>10, <1>11
<1> QED
  BY <1>7, <1>9, <1>12 DEF Section

LEMMA ArrangedIs ==
  ASSUME NEW o, IsObject(o), LaysUpwards(o)
  PROVE  LET l == Layout(o) IN l.good \in BOOLEAN /\ IsObject(l.o) /\ (l.good = TRUE => Arranged(l.o))
<1> DEFINE n == Len(o.seg)
           b == Aligned(o)
           first == FirstState(o)
           order == get_ordered_segments(o.seg)
           segs == LayoutSegments(first, order)
           loose == LayoutAllLoose(segs)
           table == loose.pos + Padding(loose.pos, 4)
           last == [loose EXCEPT !.o.shoff = table]
           l == Layout(o)
           head == TableEnd(o)
<1>1. l = IF segs.good THEN last ELSE segs
  BY DEF Layout, FirstState, Aligned, TableEnd
<1>2. AlignedAs(o, b)
  BY AlignedIs
<1>3. /\ IsList(order) /\ Len(order) = n /\ (\A m \in 1..n : order[m] \in 1..n) /\ n \in Nat
      /\ \A k \in 1..n : \E m \in 1..n : order[m] = k
  <2>1. IsList(o.seg) /\ DOMAIN o.seg = 1..n /\ n \in Nat
    BY ListSeq DEF IsObject
  <2>2. Segmented(o.seg)
    BY <2>1 DEF Segmented, IsObject, Segments, IsSegment
  <2> QED
    BY <2>1, <2>2, OrderIs
<1>4. UpwardIn(b, order)
  BY <1>2, UpwardsIs
<1>5. LaidOut(b, first) /\ head \in Nat /\ Placed(first, first.placed, head)
  BY FirstStateIs
<1> HIDE DEF l, b, order, head, first
<1>6. Len(b.seg) = n /\ b.sec = o.sec /\ b.phoff \in Nat /\ (n # 0 => b.phoff = EHSIZE)
  BY <1>2 DEF AlignedAs
<1>7. /\ Onward(b, first, segs, head)
      /\ segs.good = TRUE => \A p \in 1..Len(order) : \A j \in 1..Len(b.seg[order[p]].secs) :
                               b.seg[order[p]].secs[j] \in segs.placed
  <2>1. \A p \in 1..Len(order) : order[p] \in 1..Len(b.seg)
    BY <1>3, <1>6
  <2> QED
    BY <1>3, <1>4, <1>5, <1>6, <2>1, LayoutSegmentsIs
<1> HIDE DEF segs, n
<1>8. LaidOut(b, segs) /\ Placed(segs, segs.placed, head) /\ segs.good \in BOOLEAN
  BY <1>7 DEF Onward, LaidOut
<1>9. CASE segs.good = FALSE
  <2>1. l = segs
    BY <1>1, <1>9
  <2>2. SameParts(o, segs.o, segs.o)
    <3>1. DOMAIN b = {"sec", "seg", "phoff", "shoff", "shstrndx"}
      BY <1>8, FieldsAre DEF LaidOut
    <3>2. /\ DOMAIN segs.o = DOMAIN b /\ segs.o.phoff = b.phoff /\ segs.o.shoff = b.shoff
          /\ segs.o.shstrndx = b.shstrndx
      BY <1>8, <3>1 DEF LaidOut, SameRest
    <3> QED
      BY <1>2, <1>6, <3>2 DEF SameParts, AlignedAs
  <2>3. IsObject(segs.o)
    BY <1>2, <1>8, <2>2, LaidOutObject
  <2> QED
    BY <1>9, <2>1, <2>3 DEF l
<1>10. CASE segs.good = TRUE
  <2>1. l = last
    BY <1>1, <1>10
  <2>2. \A k \in 1..Len(b.seg) : \A j \in 1..Len(b.seg[k].secs) : b.seg[k].secs[j] \in segs.placed
    <3> SUFFICES ASSUME NEW k \in 1..Len(b.seg) PROVE \A j \in 1..Len(b.seg[k].secs) : b.seg[k].secs[j] \in segs.placed
      OBVIOUS
    <3>1. PICK m \in 1..n : order[m] = k
      BY <1>3, <1>6
    <3> QED
      BY <1>3, <1>7, <1>10, <3>1
  <2>3. o.sec[1].type = "NULL"
    BY DEF IsObject
  <2>4. LaidOut(b, loose) /\ Placed(loose, 0..Len(b.sec) - 1, head) /\ loose.good = segs.good
    BY <1>5, <1>6, <1>8, <2>2, <2>3, LayoutAllLooseIs
  <2> HIDE DEF loose
  <2>5. loose.pos \in Nat /\ table \in Nat /\ loose.pos <= table
    <3>1. loose.pos \in Nat
      BY <2>4 DEF LaidOut
    <3>2. Padding(loose.pos, 4) \in Nat
      <4>1. loose.pos \in Int /\ 4 \in Nat
        BY <3>1
      <4> QED
        BY <4>1, PaddingNat
    <3> QED
      BY <3>1, <3>2
  <2> HIDE DEF table
  <2>6. /\ DOMAIN b = {"sec", "seg", "phoff", "shoff", "shstrndx"} /\ DOMAIN loose.o = DOMAIN b
        /\ loose.o.phoff = b.phoff /\ loose.o.shstrndx = b.shstrndx /\ DOMAIN loose = LayoutFields
    <3>1. DOMAIN b = {"sec", "seg", "phoff", "shoff", "shstrndx"}
      BY <1>8, FieldsAre DEF LaidOut
    <3> QED
      BY <2>4, <3>1 DEF LaidOut, SameRest
  <2>7. /\ DOMAIN l.o = DOMAIN b /\ l.o.sec = loose.o.sec /\ l.o.seg = loose.o.seg /\ l.o.phoff = b.phoff
        /\ l.o.shoff = table /\ l.o.shstrndx = b.shstrndx /\ l.good = loose.good
    BY <2>1, <2>6 DEF LayoutFields
  <2>8. SameParts(o, loose.o, l.o)
    BY <1>2, <1>6, <2>5, <2>6, <2>7 DEF SameParts, AlignedAs
  <2>9. IsObject(l.o) /\ Len(l.o.sec) = Len(o.sec) /\ Len(l.o.seg) = Len(o.seg)
    BY <1>2, <2>4, <2>8, LaidOutObject
  <2>10. Arranged(l.o)
    <3>1. TableEnd(l.o) = head
      BY <2>9 DEF TableEnd, head
    <3>2. \A k \in 1..Len(l.o.sec) : Stored(l.o.sec[k]) => head <= l.o.sec[k].offset /\ End(l.o.sec[k]) <= loose.pos
      <4>1. Len(loose.o.sec) = Len(b.sec) /\ Len(b.sec) \in Nat
        BY <2>4 DEF LaidOut, IsList
      <4>2. \A k \in 1..Len(b.sec) : k - 1 \in 0..Len(b.sec) - 1
        BY <4>1
      <4> QED
        BY <2>4, <2>7, <4>1, <4>2 DEF Placed
    <3>3. \A k, j \in 1..Len(l.o.sec) : k # j /\ Stored(l.o.sec[k]) /\ Stored(l.o.sec[j]) => SetApart(l.o.sec[k], l.o.sec[j])
      <4>1. Len(loose.o.sec) = Len(b.sec) /\ Len(b.sec) \in Nat
        BY <2>4 DEF LaidOut, IsList
      <4>2. \A k \in 1..Len(b.sec) : k - 1 \in 0..Len(b.sec) - 1
        BY <4>1
      <4> QED
        BY <2>4, <2>7, <4>1, <4>2 DEF Placed
    <3>4. Len(l.o.seg) # 0 => l.o.phoff = EHSIZE
      BY <1>6, <2>7, <2>9 DEF n
    <3>5. head <= loose.pos
      BY <2>4 DEF Placed
    <3> QED
      BY <2>5, <2>7, <3>1, <3>2, <3>3, <3>4, <3>5 DEF Arranged
  <2> QED
    BY <1>10, <2>4, <2>7, <2>9, <2>10 DEF l
<1> QED
  BY <1>8, <1>9, <1>10

(***************************************************************************)
(* The writes of a file: the header, for each section its entry in the     *)
(* table and its contents if it has some, for each segment its entry.      *)
(***************************************************************************)
HeadWrite(o) == [at |-> 0, len |-> EHSIZE, what |-> elf_header(o)]
EntryWrite(o, i) == [at |-> o.shoff + SHENTSIZE * (i - 1), len |-> SHENTSIZE, what |-> Header(o.sec[i])]
DataWrite(o, i) == [at |-> o.sec[i].offset, len |-> o.sec[i].size, what |-> Contents(o.sec[i])]
SegmentWrite(o, k) == [at |-> o.phoff + PHENTSIZE * (k - 1), len |-> PHENTSIZE,
                       what |-> [o.seg[k] EXCEPT !.secs = <<>>, !.offset_set = FALSE]]

SectionWrites(o, i) == {EntryWrite(o, i)} \union IF Stored(o.sec[i]) THEN {DataWrite(o, i)} ELSE {}

\* A file of one write.
LEMMA OneWrite ==
  ASSUME NEW at \in Nat, NEW len \in Nat, NEW what
  PROVE  LET file == Write(at, len, what) IN
           IsFile(file) /\ ToSet(file) = {[at |-> at, len |-> len, what |-> what]} /\ Disjoint(file)
<1> DEFINE w == [at |-> at, len |-> len, what |-> what]
           file == Write(at, len, what)
<1>1. IsList(<<w>>) /\ Len(<<w>>) = 1 /\ <<w>>[1] = w
  BY SingleList
<1>2. w.at \in Nat /\ w.len \in Nat
  OBVIOUS
<1>3. file = <<w>>
  BY DEF Write
<1> HIDE DEF w, file
<1>4. IsList(file) /\ Len(file) = 1 /\ file[1] = w
  BY <1>1, <1>3
<1>5. DOMAIN file = 1..1
  BY <1>4, ListSeq
<1>6. IsFile(file)
  BY <1>2, <1>4 DEF IsFile
<1>7. ToSet(file) = {w}
  BY <1>4, <1>5 DEF ToSet
<1>8. Disjoint(file)
  BY <1>5 DEF Disjoint
<1> QED
  BY <1>6, <1>7, <1>8 DEF w, file

\* Two files are apart when no write of one overlaps one of the other.
LEMMA ApartFiles ==
  ASSUME NEW a, NEW b, \A w \in ToSet(a), v \in ToSet(b) : ~Overlap(w, v)
  PROVE  Apart(a, b)
BY DEF Apart, ToSet

\* A write that ends where another begins is apart from it.
Before(w, v) == w.at + w.len <= v.at

LEMMA BeforeIsApart ==
  ASSUME NEW w, NEW v, w.at \in Nat, w.len \in Nat, v.at \in Nat, v.len \in Nat, Before(w, v)
  PROVE  ~Overlap(w, v) /\ ~Overlap(v, w)
<1> DEFINE a == w.at  m == w.len  b == v.at  n == v.len
<1>1. a \in Nat /\ m \in Nat /\ b \in Nat /\ n \in Nat /\ a + m <= b
  BY DEF Before
<1> HIDE DEF a, m, b, n
<1>2. ~(a < b + n /\ b < a + m)
  BY <1>1
<1> QED
  BY <1>2 DEF Overlap, a, b, m, n

\* The entries of a table come one after the other.
LEMMA EntryAfter ==
  ASSUME NEW size \in Nat, NEW i \in Nat, NEW j \in Nat, i < j
  PROVE  size * i \in Nat /\ size * j \in Nat /\ size * i + size <= size * j
<1> DEFINE d == j - i - 1
<1>1. d \in Nat /\ j = i + 1 + d
  OBVIOUS
<1> HIDE DEF d
<1>2. size * i \in Nat /\ size * j \in Nat /\ size * d \in Nat
  BY <1>1
<1>3. size * j = size * i + size + size * d
  BY <1>1
<1> QED
  BY <1>2, <1>3

LEMMA Sizes == EHSIZE \in Nat /\ PHENTSIZE \in Nat /\ SHENTSIZE \in Nat /\ EHSIZE # 0 /\ PHENTSIZE # 0 /\ SHENTSIZE # 0
BY SizesAssumption

LEMMA SectionFile ==
  ASSUME NEW o, IsObject(o), NEW i \in 1..Len(o.sec)
  PROVE  LET file == section_save(o, o.sec[i]) IN
           /\ IsFile(file) /\ ToSet(file) = SectionWrites(o, i)
           /\ \A w \in SectionWrites(o, i) : w.at \in Nat /\ w.len \in Nat
           /\ (Stored(o.sec[i]) => ~Overlap(EntryWrite(o, i), DataWrite(o, i))) => Disjoint(file)
<1> DEFINE s == o.sec[i]
           at == o.shoff + SHENTSIZE * (i - 1)
           e == EntryWrite(o, i)
           d == DataWrite(o, i)
           a == Write(at, SHENTSIZE, Header(s))
           c == Write(s.offset, s.size, Contents(s))
           file == section_save(o, s)
<1>1. IsSection(s, i - 1) /\ o.shoff \in Nat /\ i - 1 \in Nat
  <2>1. DOMAIN o.sec = 1..Len(o.sec)
    BY ListSeq DEF IsObject
  <2> QED
    BY <2>1 DEF IsObject, Indices
<1>2. s.offset \in Nat /\ s.size \in Nat /\ s.index = i - 1
  BY <1>1 DEF IsSection
<1>3. at \in Nat
  <2>1. SHENTSIZE * (i - 1) \in Nat
    BY <1>1, Sizes
  <2> QED
    BY <1>1, <2>1
<1>4. e.at = at /\ e.len = SHENTSIZE /\ d.at = s.offset /\ d.len = s.size
  BY DEF EntryWrite, DataWrite
<1>5. e = [at |-> at, len |-> SHENTSIZE, what |-> Header(s)] /\ d = [at |-> s.offset, len |-> s.size, what |-> Contents(s)]
  BY DEF EntryWrite, DataWrite
<1>6. file = a \o IF Occupies(s) /\ s.size # 0 THEN c ELSE <<>>
  BY <1>2 DEF section_save
<1> HIDE DEF s, at, e, d
<1>7. IsFile(a) /\ ToSet(a) = {e} /\ Disjoint(a)
  BY <1>3, <1>5, Sizes, OneWrite
<1>8. IsFile(c) /\ ToSet(c) = {d} /\ Disjoint(c)
  BY <1>2, <1>5, OneWrite
<1>9. e.at \in Nat /\ e.len \in Nat /\ d.at \in Nat /\ d.len \in Nat
  BY <1>2, <1>3, <1>4, Sizes
<1> HIDE DEF a, c
<1>10. SectionWrites(o, i) = {e} \union IF Stored(s) THEN {d} ELSE {}
  BY DEF SectionWrites, s, e, d
<1> SUFFICES /\ IsFile(file) /\ ToSet(file) = SectionWrites(o, i)
             /\ \A w \in SectionWrites(o, i) : w.at \in Nat /\ w.len \in Nat
             /\ (Stored(s) => ~Overlap(e, d)) => Disjoint(file)
  BY DEF s, e, d
<1> HIDE DEF file
<1>11. CASE Stored(s)
  <2>1. file = a \o c
    BY <1>6, <1>11 DEF Stored
  <2>2. /\ IsFile(a \o c) /\ ToSet(a \o c) = ToSet(a) \union ToSet(c)
        /\ Disjoint(a) /\ Disjoint(c) /\ Apart(a, c) => Disjoint(a \o c)
    BY <1>7, <1>8, JoinedFile
  <2>3. ~Overlap(e, d) => Apart(a, c)
    BY <1>7, <1>8, ApartFiles
  <2> QED
    BY <1>7, <1>8, <1>9, <1>10, <1>11, <2>1, <2>2, <2>3
<1>12. CASE ~Stored(s)
  <2> DEFINE z == <<>>
  <2>1. file = a \o z
    BY <1>6, <1>12 DEF Stored
  <2>2. IsFile(z) /\ ToSet(z) = {} /\ Disjoint(z) /\ Apart(a, z)
    <3>1. IsList(z) /\ Len(z) = 0 /\ DOMAIN z = {}
      BY EmptyList
    <3> HIDE DEF z
    <3> QED
      BY <3>1 DEF IsFile, ToSet, Disjoint, Apart
  <2> HIDE DEF z
  <2>3. /\ IsFile(a \o z) /\ ToSet(a \o z) = ToSet(a) \union ToSet(z)
        /\ Disjoint(a) /\ Disjoint(z) /\ Apart(a, z) => Disjoint(a \o z)
    BY <1>7, <2>2, JoinedFile
  <2> QED
    BY <1>7, <1>9, <1>10, <1>12, <2>1, <2>2, <2>3
<1> QED
  BY <1>11, <1>12

LEMMA SegmentFile ==
  ASSUME NEW o, IsObject(o), NEW k \in 1..Len(o.seg)
  PROVE  LET file == segment_save(o, k) IN
           /\ IsFile(file) /\ ToSet(file) = {SegmentWrite(o, k)} /\ Disjoint(file)
           /\ SegmentWrite(o, k).at \in Nat /\ SegmentWrite(o, k).len \in Nat
<1> DEFINE at == o.phoff + PHENTSIZE * (k - 1)
           what == [o.seg[k] EXCEPT !.secs = <<>>, !.offset_set = FALSE]
<1>1. at \in Nat
  <2>1. o.phoff \in Nat /\ k - 1 \in Nat
    BY DEF IsObject
  <2>2. PHENTSIZE * (k - 1) \in Nat
    BY <2>1, Sizes
  <2> QED
    BY <2>1, <2>2
<1>2. segment_save(o, k) = Write(at, PHENTSIZE, what) /\ SegmentWrite(o, k) = [at |-> at, len |-> PHENTSIZE, what |-> what]
  BY DEF segment_save, SegmentWrite
<1> HIDE DEF at, what
<1> QED
  BY <1>1, <1>2, Sizes, OneWrite

FileWrites(o) ==
  {HeadWrite(o)} \union (UNION {SectionWrites(o, i) : i \in 1..Len(o.sec)})
    \union {SegmentWrite(o, k) : k \in 1..Len(o.seg)}

\* No write of a section, of a segment or of the header overlaps another.
WritesApart(o) ==
  /\ \A i \in 1..Len(o.sec) : Stored(o.sec[i]) => ~Overlap(EntryWrite(o, i), DataWrite(o, i))
  /\ \A i, j \in 1..Len(o.sec) : i < j => \A w \in SectionWrites(o, i), v \in SectionWrites(o, j) : ~Overlap(w, v)
  /\ \A k, l \in 1..Len(o.seg) : k < l => ~Overlap(SegmentWrite(o, k), SegmentWrite(o, l))
  /\ \A i \in 1..Len(o.sec) : \A w \in SectionWrites(o, i) :
       ~Overlap(HeadWrite(o), w) /\ \A k \in 1..Len(o.seg) : ~Overlap(w, SegmentWrite(o, k))
  /\ \A k \in 1..Len(o.seg) : ~Overlap(HeadWrite(o), SegmentWrite(o, k))

LEMMA FileIs ==
  ASSUME NEW o, IsObject(o)
  PROVE  /\ IsFile(FileOf(o)) /\ ToSet(FileOf(o)) = FileWrites(o)
         /\ WritesApart(o) => Disjoint(FileOf(o))
<1> DEFINE n == Len(o.sec)
           m == Len(o.seg)
           p == [i \in Indices(o) |-> section_save(o, o.sec[i])]
           q == [k \in Segments(o) |-> segment_save(o, k)]
           h == Write(0, EHSIZE, elf_header(o))
           a == FlattenSeq(p)
           c == FlattenSeq(q)
           head == HeadWrite(o)
           S == UNION {SectionWrites(o, i) : i \in 1..n}
           G == {SegmentWrite(o, k) : k \in 1..m}
<1>1. n \in Nat /\ m \in Nat /\ Indices(o) = 1..n /\ Segments(o) = 1..m
  BY ListSeq DEF IsObject, Indices, Segments
<1>2. FileOf(o) = (h \o a) \o c
  BY DEF FileOf
<1>3. IsFile(h) /\ ToSet(h) = {head} /\ Disjoint(h)
  <2>1. head = [at |-> 0, len |-> EHSIZE, what |-> elf_header(o)] /\ 0 \in Nat
    BY DEF HeadWrite
  <2> HIDE DEF head
  <2> QED
    BY <2>1, Sizes, OneWrite
<1> HIDE DEF h, head
<1>4. ASSUME NEW i \in 1..n
      PROVE  /\ IsFile(p[i]) /\ ToSet(p[i]) = SectionWrites(o, i)
             /\ (Stored(o.sec[i]) => ~Overlap(EntryWrite(o, i), DataWrite(o, i))) => Disjoint(p[i])
  <2>1. p[i] = section_save(o, o.sec[i])
    BY <1>1
  <2> HIDE DEF p
  <2> QED
    BY <2>1, SectionFile
<1>5. ASSUME NEW k \in 1..m PROVE IsFile(q[k]) /\ ToSet(q[k]) = {SegmentWrite(o, k)} /\ Disjoint(q[k])
  <2>1. q[k] = segment_save(o, k)
    BY <1>1
  <2> HIDE DEF q
  <2> QED
    BY <2>1, SegmentFile
<1>6. IsList(p) /\ Len(p) = n
  <2>1. p = [i \in 1..n |-> p[i]]
    BY <1>1
  <2> HIDE DEF p, n
  <2> QED
    BY <1>1, <2>1, FunctionList
<1>7. IsList(q) /\ Len(q) = m
  <2>1. q = [i \in 1..m |-> q[i]]
    BY <1>1
  <2> HIDE DEF q, m
  <2> QED
    BY <1>1, <2>1, FunctionList
<1> HIDE DEF n, m, p, q
<1>8. /\ IsFile(a) /\ ToSet(a) = UNION {ToSet(p[i]) : i \in 1..n}
      /\ (\A i \in 1..n : Disjoint(p[i])) /\ (\A i, j \in 1..n : i < j => Apart(p[i], p[j])) => Disjoint(a)
  BY <1>4, <1>6, FlattenIs
<1>9. /\ IsFile(c) /\ ToSet(c) = UNION {ToSet(q[i]) : i \in 1..m}
      /\ (\A i \in 1..m : Disjoint(q[i])) /\ (\A i, j \in 1..m : i < j => Apart(q[i], q[j])) => Disjoint(c)
  BY <1>5, <1>7, FlattenIs
<1>10. ToSet(a) = S
  BY <1>4, <1>8
<1>11. ToSet(c) = G
  BY <1>5, <1>9
<1> HIDE DEF a, c
<1> DEFINE ha == h \o a
<1>12. /\ IsFile(ha) /\ ToSet(ha) = ToSet(h) \union ToSet(a)
       /\ Disjoint(h) /\ Disjoint(a) /\ Apart(h, a) => Disjoint(ha)
  BY <1>3, <1>8, JoinedFile
<1> HIDE DEF ha
<1>13. /\ IsFile(ha \o c) /\ ToSet(ha \o c) = ToSet(ha) \union ToSet(c)
       /\ Disjoint(ha) /\ Disjoint(c) /\ Apart(ha, c) => Disjoint(ha \o c)
  BY <1>9, <1>12, JoinedFile
<1>14. FileOf(o) = ha \o c
  BY <1>2 DEF ha
<1>15. ToSet(ha) = {head} \union S
  BY <1>3, <1>10, <1>12
<1>16. FileWrites(o) = {head} \union S \union G
  BY DEF FileWrites, head, n, m
<1>17. ASSUME WritesApart(o) PROVE Disjoint(FileOf(o))
  <2>1. /\ \A i \in 1..n : Stored(o.sec[i]) => ~Overlap(EntryWrite(o, i), DataWrite(o, i))
        /\ \A i, j \in 1..n : i < j => \A w \in SectionWrites(o, i), v \in SectionWrites(o, j) : ~Overlap(w, v)
        /\ \A k, l \in 1..m : k < l => ~Overlap(SegmentWrite(o, k), SegmentWrite(o, l))
        /\ \A i \in 1..n : \A w \in SectionWrites(o, i) :
             ~Overlap(head, w) /\ \A k \in 1..m : ~Overlap(w, SegmentWrite(o, k))
        /\ \A k \in 1..m : ~Overlap(head, SegmentWrite(o, k))
    BY <1>17 DEF WritesApart, n, m, head
  <2>2. Disjoint(a)
    <3>1. \A i \in 1..n : Disjoint(p[i])
      BY <1>4, <2>1
    <3>2. \A i, j \in 1..n : i < j => Apart(p[i], p[j])
      <4> SUFFICES ASSUME NEW i \in 1..n, NEW j \in 1..n, i < j PROVE Apart(p[i], p[j])
        OBVIOUS
      <4>1. ToSet(p[i]) = SectionWrites(o, i) /\ ToSet(p[j]) = SectionWrites(o, j)
        BY <1>4
      <4>2. \A w \in ToSet(p[i]), v \in ToSet(p[j]) : ~Overlap(w, v)
        BY <2>1, <4>1
      <4> QED
        BY <4>2, ApartFiles
    <3> QED
      BY <1>8, <3>1, <3>2
  <2>3. Disjoint(c)
    <3>1. \A k \in 1..m : Disjoint(q[k])
      BY <1>5
    <3>2. \A i, j \in 1..m : i < j => Apart(q[i], q[j])
      <4> SUFFICES ASSUME NEW i \in 1..m, NEW j \in 1..m, i < j PROVE Apart(q[i], q[j])
        OBVIOUS
      <4>1. ToSet(q[i]) = {SegmentWrite(o, i)} /\ ToSet(q[j]) = {SegmentWrite(o, j)}
        BY <1>5
      <4>2. \A w \in ToSet(q[i]), v \in ToSet(q[j]) : ~Overlap(w, v)
        BY <2>1, <4>1
      <4> QED
        BY <4>2, ApartFiles
    <3> QED
      BY <1>9, <3>1, <3>2
  <2>4. Apart(h, a)
    <3>1. \A w \in ToSet(h), v \in ToSet(a) : ~Overlap(w, v)
      BY <1>3, <1>10, <2>1
    <3> QED
      BY <3>1, ApartFiles
  <2>5. Apart(ha, c)
    <3>1. \A w \in ToSet(ha), v \in ToSet(c) : ~Overlap(w, v)
      BY <1>11, <1>15, <2>1
    <3> QED
      BY <3>1, ApartFiles
  <2> QED
    BY <1>3, <1>12, <1>13, <1>14, <2>2, <2>3, <2>4, <2>5
<1> QED
  BY <1>11, <1>13, <1>14, <1>15, <1>16, <1>17

LEMMA WritesAre ==
  ASSUME NEW o, IsObject(o), Arranged(o)
  PROVE  WritesApart(o)
<1> DEFINE n == Len(o.sec)
           m == Len(o.seg)
           E(i) == EntryWrite(o, i)
           D(i) == DataWrite(o, i)
           G(k) == SegmentWrite(o, k)
           head == HeadWrite(o)
           end == TableEnd(o)
<1>1. PICK pos \in Nat :
        /\ end <= pos /\ pos <= o.shoff
        /\ \A k \in 1..n : Stored(o.sec[k]) => end <= o.sec[k].offset /\ End(o.sec[k]) <= pos
        /\ \A k, j \in 1..n : k # j /\ Stored(o.sec[k]) /\ Stored(o.sec[j]) => SetApart(o.sec[k], o.sec[j])
  BY DEF Arranged
<1>2. o.shoff \in Nat /\ n \in Nat /\ m \in Nat /\ (m # 0 => o.phoff = EHSIZE)
  BY ListSeq DEF IsObject, Arranged
<1>3. end \in Nat /\ EHSIZE <= end /\ end = EHSIZE + PHENTSIZE * m
  <2>1. PHENTSIZE * m \in Nat
    BY <1>2, Sizes
  <2> QED
    BY <2>1, Sizes DEF TableEnd
<1> HIDE DEF end
<1>4. head.at = 0 /\ head.len = EHSIZE
  BY DEF HeadWrite
<1>5. ASSUME NEW i \in 1..n
      PROVE  /\ E(i).at \in Nat /\ E(i).len = SHENTSIZE /\ o.shoff <= E(i).at
             /\ \A j \in 1..n : i < j => Before(E(i), E(j))
  <2> DEFINE x == i - 1
  <2>1. E(i).at = o.shoff + SHENTSIZE * x /\ E(i).len = SHENTSIZE
    BY DEF EntryWrite
  <2>2. x \in Nat
    BY <1>2
  <2>3. SHENTSIZE * x \in Nat
    BY <2>2, Sizes
  <2>4. ASSUME NEW j \in 1..n, i < j PROVE Before(E(i), E(j))
    <3> DEFINE y == j - 1
    <3>1. E(j).at = o.shoff + SHENTSIZE * y
      BY DEF EntryWrite
    <3>2. y \in Nat /\ x < y
      BY <1>2, <2>4
    <3> HIDE DEF x, y, E
    <3>3. SHENTSIZE * y \in Nat /\ SHENTSIZE * x + SHENTSIZE <= SHENTSIZE * y
      BY <2>2, <3>2, Sizes, EntryAfter
    <3>4. (o.shoff + SHENTSIZE * x) + SHENTSIZE <= o.shoff + SHENTSIZE * y
      BY <1>2, <2>3, <3>3, Sizes
    <3> QED
      BY <2>1, <3>1, <3>4 DEF Before
  <2> HIDE DEF x, E
  <2>5. o.shoff + SHENTSIZE * x \in Nat /\ o.shoff <= o.shoff + SHENTSIZE * x
    BY <1>2, <2>3
  <2> QED
    BY <2>1, <2>4, <2>5
<1>6. ASSUME NEW i \in 1..n
      PROVE  D(i).at \in Nat /\ D(i).len \in Nat /\ D(i).at = o.sec[i].offset /\ D(i).at + D(i).len = End(o.sec[i])
  <2>1. IsSection(o.sec[i], i - 1)
    <3>1. DOMAIN o.sec = 1..n
      BY ListSeq DEF IsObject
    <3> QED
      BY <3>1 DEF IsObject, Indices
  <2>2. o.sec[i].offset \in Nat /\ o.sec[i].size \in Nat
    BY <2>1 DEF IsSection
  <2>3. D(i).at = o.sec[i].offset /\ D(i).len = o.sec[i].size
    BY DEF DataWrite
  <2> HIDE DEF D
  <2> QED
    BY <2>2, <2>3 DEF End
<1>7. ASSUME NEW k \in 1..m
      PROVE  /\ G(k).at \in Nat /\ G(k).len = PHENTSIZE /\ EHSIZE <= G(k).at /\ G(k).at + G(k).len <= end
             /\ \A l \in 1..m : k < l => Before(G(k), G(l))
  <2> DEFINE x == k - 1
  <2>1. G(k).at = EHSIZE + PHENTSIZE * x /\ G(k).len = PHENTSIZE
    <3>1. o.phoff = EHSIZE
      BY <1>2
    <3> QED
      BY <3>1 DEF SegmentWrite
  <2>2. x \in Nat /\ x < m
    BY <1>2
  <2>3. PHENTSIZE * x \in Nat
    BY <2>2, Sizes
  <2>4. ASSUME NEW l \in 1..m, k < l PROVE Before(G(k), G(l))
    <3> DEFINE y == l - 1
    <3>1. G(l).at = EHSIZE + PHENTSIZE * y
      <4>1. o.phoff = EHSIZE
        BY <1>2
      <4> QED
        BY <4>1 DEF SegmentWrite
    <3>2. y \in Nat /\ x < y
      BY <1>2, <2>4
    <3> HIDE DEF x, y, G
    <3>3. PHENTSIZE * y \in Nat /\ PHENTSIZE * x + PHENTSIZE <= PHENTSIZE * y
      BY <2>2, <3>2, Sizes, EntryAfter
    <3>4. (EHSIZE + PHENTSIZE * x) + PHENTSIZE <= EHSIZE + PHENTSIZE * y
      BY <2>3, <3>3, Sizes
    <3> QED
      BY <2>1, <3>1, <3>4 DEF Before
  <2> HIDE DEF x, G
  <2>5. EHSIZE + PHENTSIZE * x \in Nat /\ EHSIZE <= EHSIZE + PHENTSIZE * x
    BY <2>3, Sizes
  <2>6. PHENTSIZE * m \in Nat /\ PHENTSIZE * x + PHENTSIZE <= PHENTSIZE * m
    BY <1>2, <2>2, Sizes, EntryAfter
  <2>7. (EHSIZE + PHENTSIZE * x) + PHENTSIZE <= end
    BY <1>3, <2>3, <2>6, Sizes
  <2> QED
    BY <2>1, <2>4, <2>5, <2>7
<1> HIDE DEF E, D, G, head, n, m
<1>8. ASSUME NEW i \in 1..n, Stored(o.sec[i]) PROVE end <= D(i).at /\ D(i).at + D(i).len <= pos
  BY <1>1, <1>6, <1>8
<1>9. ASSUME NEW i \in 1..n, NEW w \in SectionWrites(o, i) PROVE w = E(i) \/ (w = D(i) /\ Stored(o.sec[i]))
  BY <1>9 DEF SectionWrites, E, D
<1>10. ASSUME NEW i \in 1..n, NEW w \in SectionWrites(o, i)
       PROVE  w.at \in Nat /\ w.len \in Nat /\ end <= w.at
  <2>1. CASE w = E(i)
    BY <1>1, <1>2, <1>3, <1>5, <2>1, Sizes
  <2>2. CASE w = D(i) /\ Stored(o.sec[i])
    BY <1>6, <1>8, <2>2
  <2> QED
    BY <1>9, <2>1, <2>2
<1>11. ASSUME NEW i \in 1..n, NEW j \in 1..n, Stored(o.sec[i]) PROVE Before(D(i), E(j))
  <2>1. D(i).at + D(i).len <= pos /\ pos <= o.shoff /\ o.shoff <= E(j).at
    BY <1>1, <1>5, <1>8, <1>11
  <2> DEFINE z == D(i).at + D(i).len
  <2>2. z \in Nat /\ E(j).at \in Nat
    BY <1>5, <1>6
  <2> HIDE DEF z
  <2>3. z <= E(j).at
    BY <1>2, <2>1, <2>2 DEF z
  <2> QED
    BY <2>3 DEF Before, z
<1>12. ASSUME NEW i \in 1..n, Stored(o.sec[i]) PROVE ~Overlap(E(i), D(i))
  BY <1>5, <1>6, <1>11, <1>12, Sizes, BeforeIsApart
<1>13. ASSUME NEW i \in 1..n, NEW j \in 1..n, i < j, NEW w \in SectionWrites(o, i), NEW v \in SectionWrites(o, j)
       PROVE  ~Overlap(w, v)
  <2>1. w.at \in Nat /\ w.len \in Nat /\ v.at \in Nat /\ v.len \in Nat
    BY <1>10
  <2>2. Before(w, v) \/ Before(v, w)
    <3>1. CASE w = E(i) /\ v = E(j)
      BY <1>5, <1>13, <3>1
    <3>2. CASE w = D(i) /\ Stored(o.sec[i]) /\ v = E(j)
      BY <1>11, <3>2
    <3>3. CASE w = E(i) /\ v = D(j) /\ Stored(o.sec[j])
      BY <1>11, <3>3
    <3>4. CASE w = D(i) /\ Stored(o.sec[i]) /\ v = D(j) /\ Stored(o.sec[j])
      <4>1. SetApart(o.sec[i], o.sec[j])
        BY <1>1, <1>2, <1>13, <3>4
      <4> QED
        BY <1>6, <3>4, <4>1 DEF SetApart, Before
    <3> QED
      BY <1>9, <3>1, <3>2, <3>3, <3>4
  <2> QED
    BY <2>1, <2>2, BeforeIsApart
<1>14. ASSUME NEW k \in 1..m, NEW l \in 1..m, k < l PROVE ~Overlap(G(k), G(l))
  <2>1. Before(G(k), G(l)) /\ G(k).at \in Nat /\ G(k).len \in Nat /\ G(l).at \in Nat /\ G(l).len \in Nat
    BY <1>7, <1>14, Sizes
  <2> QED
    BY <2>1, BeforeIsApart
<1>15. ASSUME NEW v, v.at \in Nat, v.len \in Nat, EHSIZE <= v.at PROVE ~Overlap(head, v)
  <2>1. head.at \in Nat /\ head.len \in Nat /\ Before(head, v)
    BY <1>4, <1>15, Sizes DEF Before
  <2> QED
    BY <1>15, <2>1, BeforeIsApart
<1>16. ASSUME NEW i \in 1..n, NEW w \in SectionWrites(o, i) PROVE ~Overlap(head, w)
  <2>1. w.at \in Nat /\ w.len \in Nat /\ EHSIZE <= w.at
    BY <1>3, <1>10, Sizes
  <2> QED
    BY <1>15, <2>1
<1>17. ASSUME NEW k \in 1..m PROVE ~Overlap(head, G(k))
  <2>1. G(k).at \in Nat /\ G(k).len \in Nat /\ EHSIZE <= G(k).at
    BY <1>7, Sizes
  <2> QED
    BY <1>15, <2>1
<1>18. ASSUME NEW i \in 1..n, NEW w \in SectionWrites(o, i), NEW k \in 1..m PROVE ~Overlap(w, G(k))
  <2>1. w.at \in Nat /\ w.len \in Nat /\ end <= w.at
    BY <1>10
  <2>2. G(k).at \in Nat /\ G(k).len \in Nat /\ G(k).at + G(k).len <= end
    BY <1>7, Sizes
  <2> DEFINE z == G(k).at + G(k).len
  <2>3. z \in Nat /\ z <= end
    BY <2>2
  <2> HIDE DEF z
  <2>4. z <= w.at
    BY <1>3, <2>1, <2>3
  <2>5. Before(G(k), w)
    BY <2>4 DEF Before, z
  <2> QED
    BY <2>1, <2>2, <2>5, BeforeIsApart
<1> QED
  BY <1>12, <1>13, <1>14, <1>16, <1>17, <1>18 DEF WritesApart, n, m, E, D, G, head

(***************************************************************************)
(* What is loaded from the file of an object.                              *)
(***************************************************************************)
LEMMA ListsEqual ==
  ASSUME NEW a, NEW c, IsList(a), IsList(c), Len(a) = Len(c), \A k \in 1..Len(a) : a[k] = c[k]
  PROVE  a = c
<1>1. a = [k \in 1..Len(a) |-> a[k]] /\ c = [k \in 1..Len(c) |-> c[k]]
  BY DEF IsList
<1> QED
  BY <1>1

\* The header is the first write: no contents are in its place.
LEMMA FirstApart ==
  ASSUME NEW h, NEW a, NEW c, IsFile(h), IsFile(a), IsFile(c)
  PROVE  Len(h) = 1 /\ Disjoint((h \o a) \o c) => \A v \in ToSet(a) : ~Overlap(h[1], v)
<1> DEFINE ha == h \o a
           file == ha \o c
<1>1. IsList(h) /\ IsList(a) /\ IsList(c)
  BY DEF IsFile
<1>2. /\ IsList(ha) /\ Len(ha) = Len(h) + Len(a) /\ Len(a) \in Nat
      /\ \A k \in 1..Len(h) : ha[k] = h[k]
      /\ \A k \in 1..Len(a) : ha[Len(h) + k] = a[k]
  <2>1. IsList(h) /\ IsList(a)
    BY <1>1
  <2> QED
    BY <2>1, JoinedList
<1> HIDE DEF ha
<1>3. /\ IsList(file) /\ Len(file) = Len(ha) + Len(c) /\ Len(c) \in Nat
      /\ \A k \in 1..Len(ha) : file[k] = ha[k]
  BY <1>1, <1>2, JoinedList
<1> SUFFICES ASSUME Len(h) = 1, Disjoint(file), NEW v \in ToSet(a) PROVE ~Overlap(h[1], v)
  BY DEF ha
<1>4. Disjoint(file)
  OBVIOUS
<1> HIDE DEF file
<1>5. PICK k \in 1..Len(a) : a[k] = v
  BY <1>1, ListSeq DEF ToSet
<1> DEFINE j == 1 + k
<1>6. j \in 1..Len(ha) /\ 1 \in 1..Len(ha) /\ 1 < j /\ ha[j] = v /\ ha[1] = h[1]
  BY <1>2, <1>5
<1> HIDE DEF j
<1>7. file[1] = h[1] /\ file[j] = v
  BY <1>3, <1>6
<1>8. 1 \in DOMAIN file /\ j \in DOMAIN file
  <2>1. DOMAIN file = 1..Len(file)
    BY <1>3, ListSeq
  <2> DEFINE x == Len(ha)  y == Len(c)
  <2>2. x \in Nat /\ y \in Nat /\ Len(file) = x + y
    BY <1>2, <1>3, ListSeq
  <2>3. j \in 1..x /\ 1 \in 1..x
    BY <1>6
  <2> HIDE DEF x, y
  <2>4. j \in 1..x + y /\ 1 \in 1..x + y
    BY <2>2, <2>3
  <2> QED
    BY <2>1, <2>2, <2>4
<1> QED
  BY <1>4, <1>6, <1>7, <1>8 DEF Disjoint

LEMMA HeadApart ==
  ASSUME NEW o, IsObject(o), Disjoint(FileOf(o)), NEW i \in 1..Len(o.sec), Stored(o.sec[i])
  PROVE  ~Overlap(HeadWrite(o), DataWrite(o, i))
<1> DEFINE n == Len(o.sec)
           p == [j \in Indices(o) |-> section_save(o, o.sec[j])]
           q == [k \in Segments(o) |-> segment_save(o, k)]
           h == Write(0, EHSIZE, elf_header(o))
           a == FlattenSeq(p)
           c == FlattenSeq(q)
           d == DataWrite(o, i)
<1>1. n \in Nat /\ Indices(o) = 1..n /\ Segments(o) = 1..Len(o.seg) /\ Len(o.seg) \in Nat
  BY ListSeq DEF IsObject, Indices, Segments
<1>2. FileOf(o) = (h \o a) \o c
  BY DEF FileOf
<1>3. IsFile(h) /\ Len(h) = 1 /\ h[1] = HeadWrite(o)
  <2>1. IsFile(h)
    BY Sizes, OneWrite
  <2>2. h = <<HeadWrite(o)>>
    BY DEF Write, HeadWrite
  <2> HIDE DEF h
  <2> QED
    BY <2>1, <2>2, SingleList
<1> HIDE DEF h
<1>4. \A j \in 1..n : IsFile(p[j]) /\ ToSet(p[j]) = SectionWrites(o, j)
  <2> SUFFICES ASSUME NEW j \in 1..n PROVE IsFile(p[j]) /\ ToSet(p[j]) = SectionWrites(o, j)
    OBVIOUS
  <2>1. p[j] = section_save(o, o.sec[j])
    BY <1>1
  <2> HIDE DEF p
  <2> QED
    BY <2>1, SectionFile
<1>5. \A k \in 1..Len(o.seg) : IsFile(q[k])
  <2> SUFFICES ASSUME NEW k \in 1..Len(o.seg) PROVE IsFile(q[k])
    OBVIOUS
  <2>1. q[k] = segment_save(o, k)
    BY <1>1
  <2> HIDE DEF q
  <2> QED
    BY <2>1, SegmentFile
<1>6. IsList(p) /\ Len(p) = n
  <2>1. p = [j \in 1..n |-> p[j]]
    BY <1>1
  <2> HIDE DEF p, n
  <2> QED
    BY <1>1, <2>1, FunctionList
<1>7. IsList(q) /\ Len(q) = Len(o.seg)
  <2> DEFINE m == Len(o.seg)
  <2>1. q = [k \in 1..m |-> q[k]] /\ m \in Nat
    BY <1>1
  <2> HIDE DEF q, m
  <2>2. IsList(q) /\ Len(q) = m
    BY <2>1, FunctionList
  <2> QED
    BY <2>2 DEF m
<1> HIDE DEF p, q, n, d
<1>8. IsFile(a) /\ ToSet(a) = UNION {ToSet(p[j]) : j \in 1..n}
  BY <1>4, <1>6, FlattenIs
<1>9. IsFile(c)
  BY <1>5, <1>7, FlattenIs
<1>10. d \in ToSet(a)
  <2>1. d \in SectionWrites(o, i) /\ i \in 1..n
    BY DEF SectionWrites, d, n
  <2> HIDE DEF a
  <2> QED
    BY <1>4, <1>8, <2>1
<1> HIDE DEF a, c
<1>11. ~Overlap(h[1], d)
  BY <1>2, <1>3, <1>8, <1>9, <1>10, FirstApart
<1> QED
  BY <1>3, <1>11 DEF d

\* The sections of a segment are looked for in the order of their numbers.
SectionsPass(f, secs, h) ==
  f = [j \in 0..Len(secs) |-> IF j = 0 THEN <<>> ELSE IF InSegment(secs[j], h) THEN Append(f[j - 1], j - 1) ELSE f[j - 1]]

LEMMA SectionsPassExists ==
  ASSUME NEW secs, NEW h, Len(secs) \in Nat
  PROVE  /\ \E f : SectionsPass(f, secs, h)
         /\ \A f : SectionsPass(f, secs, h) => /\ f[0] = <<>>
                           /\ \A m \in 0..Len(secs) - 1 : f[m + 1] = IF InSegment(secs[m + 1], h) THEN Append(f[m], (m + 1) - 1) ELSE f[m]
<1> USE DEF SectionsPass
<1> DEFINE n == Len(secs)
           first == <<>>
           Step(w, j) == IF InSegment(secs[j], h) THEN Append(w, j - 1) ELSE w
           Upto(m) == \E f : f = [j \in 0..m |-> IF j = 0 THEN first ELSE Step(f[j - 1], j)]
           P == {m \in 0..n : Upto(m)}
<1>1. n \in Nat
  OBVIOUS
<1>2. \A f : SectionsPass(f, secs, h) <=> f = [j \in 0..n |-> IF j = 0 THEN first ELSE Step(f[j - 1], j)]
  BY Zenon
<1> HIDE DEF SectionsPass, n, first, Step
<1>3. 0 \in P
  <2>1. [j \in 0..0 |-> first] = [j \in 0..0 |-> IF j = 0 THEN first ELSE Step([z \in 0..0 |-> first][j - 1], j)]
    OBVIOUS
  <2>2. Upto(0)
    BY <2>1
  <2> HIDE DEF Upto
  <2> QED
    BY <1>1, <2>2
<1>4. ASSUME NEW m \in 0..n - 1, m \in P PROVE m + 1 \in P
  <2>1. PICK f : f = [j \in 0..m |-> IF j = 0 THEN first ELSE Step(f[j - 1], j)]
    BY <1>4
  <2>2. m \in Nat /\ m + 1 \in 0..n
    BY <1>1
  <2>3. PICK g : OneMore(m, f, Step(f[m], m + 1), g)
    BY <2>2, OneMoreExists
  <2>4. ASSUME NEW j \in 0..m + 1 PROVE g[j] = IF j = 0 THEN first ELSE Step(g[j - 1], j)
    <3>1. CASE j = m + 1
      <4>1. j - 1 = m /\ m \in 0..m /\ j # 0
        BY <2>2, <3>1
      <4> QED
        BY <2>3, <3>1, <4>1 DEF OneMore
    <3>2. CASE j # m + 1
      <4>1. j \in 0..m /\ (j # 0 => j - 1 \in 0..m)
        BY <2>2, <3>2
      <4>2. f[j] = IF j = 0 THEN first ELSE Step(f[j - 1], j)
        BY <2>1, <4>1
      <4> QED
        BY <2>3, <4>1, <4>2 DEF OneMore
    <3> QED
      BY <3>1, <3>2
  <2>5. g = [j \in 0..m + 1 |-> IF j = 0 THEN first ELSE Step(g[j - 1], j)]
    BY <2>3, <2>4 DEF OneMore
  <2>6. Upto(m + 1)
    BY <2>5
  <2> HIDE DEF Upto
  <2> QED
    BY <2>2, <2>6
<1> HIDE DEF P
<1>5. n \in P
  <2>1. \A k \in 0..n : k \in P
    BY <1>1, <1>3, <1>4, Induction
  <2> QED
    BY <1>1, <2>1
<1>6. \E f : SectionsPass(f, secs, h)
  BY <1>2, <1>5 DEF P
<1>7. ASSUME NEW f, SectionsPass(f, secs, h) PROVE f[0] = first /\ \A m \in 0..n - 1 : f[m + 1] = Step(f[m], m + 1)
  <2>1. f = [j \in 0..n |-> IF j = 0 THEN first ELSE Step(f[j - 1], j)]
    BY <1>2, <1>7
  <2>2. 0 \in 0..n /\ \A m \in 0..n - 1 : m + 1 \in 0..n /\ m + 1 # 0 /\ (m + 1) - 1 = m
    BY <1>1
  <2> QED
    BY <2>1, <2>2
<1> QED
  BY <1>6, <1>7 DEF n, first, Step

LEMMA SectionsOfIs ==
  ASSUME NEW secs, NEW h, Len(secs) \in Nat
  PROVE  IsList(SectionsOf(secs, h)) /\ \A j \in DOMAIN SectionsOf(secs, h) : SectionsOf(secs, h)[j] \in 0..Len(secs) - 1
<1> DEFINE n == Len(secs)
           f == CHOOSE g : SectionsPass(g, secs, h)
           Good(m) == IsList(f[m]) /\ \A j \in 1..Len(f[m]) : f[m][j] \in 0..n - 1
           P == {m \in 0..n : Good(m)}
<1>1. n \in Nat
  OBVIOUS
<1>2. SectionsPass(f, secs, h)
  BY <1>1, SectionsPassExists
<1>3. SectionsOf(secs, h) = f[n]
  BY DEF SectionsOf, SectionsPass
<1> HIDE DEF f
<1>4. f[0] = <<>> /\ \A m \in 0..n - 1 : f[m + 1] = IF InSegment(secs[m + 1], h) THEN Append(f[m], (m + 1) - 1) ELSE f[m]
  BY <1>1, <1>2, SectionsPassExists
<1> HIDE DEF n
<1>5. 0 \in P
  <2>1. IsList(f[0]) /\ Len(f[0]) = 0
    BY <1>4, EmptyList
  <2>2. Good(0)
    BY <2>1
  <2> HIDE DEF Good
  <2> QED
    BY <1>1, <2>2
<1>6. ASSUME NEW m \in 0..n - 1, m \in P PROVE m + 1 \in P
  <2> DEFINE x == m + 1
             q == f[m]
             r == Append(q, m)
  <2>1. x \in 0..n /\ (m + 1) - 1 = m
    BY <1>1
  <2>2. IsList(q) /\ \A j \in 1..Len(q) : q[j] \in 0..n - 1
    BY <1>6
  <2>3. f[x] = q \/ f[x] = r
    BY <1>4, <2>1
  <2> HIDE DEF x, q
  <2>4. /\ IsList(r) /\ Len(r) = Len(q) + 1 /\ r[Len(q) + 1] = m
        /\ \A k \in 1..Len(q) : r[k] = q[k]
    BY <2>2, AppendedList
  <2> HIDE DEF r
  <2>5. \A j \in 1..Len(r) : r[j] \in 0..n - 1
    <3> SUFFICES ASSUME NEW j \in 1..Len(r) PROVE r[j] \in 0..n - 1
      OBVIOUS
    <3>1. Len(q) \in Nat
      BY <2>2, ListSeq
    <3>2. j \in 1..Len(q) \/ j = Len(q) + 1
      <4> DEFINE z == Len(q)
      <4>1. j \in 1..z + 1 /\ z \in Nat
        BY <2>4, <3>1
      <4> HIDE DEF z
      <4>2. j \in 1..z \/ j = z + 1
        BY <4>1
      <4> QED
        BY <4>2 DEF z
    <3> QED
      BY <2>2, <2>4, <3>2
  <2>6. Good(x)
    BY <2>2, <2>3, <2>4, <2>5
  <2> HIDE DEF Good
  <2>7. x \in P
    BY <2>1, <2>6
  <2> QED
    BY <2>7 DEF x
<1>7. n \in P
  <2>1. n \in 0..n
    BY <1>1
  <2> HIDE DEF P
  <2> QED
    BY <1>1, <1>5, <1>6, <2>1, Induction
<1>8. Good(n)
  <2> HIDE DEF Good
  <2> QED
    BY <1>7
<1> HIDE DEF P
<1> DEFINE q == f[n]
<1>9. IsList(q) /\ \A j \in 1..Len(q) : q[j] \in 0..n - 1
  BY <1>8
<1> HIDE DEF q
<1>10. DOMAIN q = 1..Len(q)
  BY <1>9, ListSeq
<1>11. IsList(q) /\ \A j \in DOMAIN q : q[j] \in 0..n - 1
  BY <1>9, <1>10
<1> QED
  BY <1>3, <1>11 DEF n, q

\* The header of the file and its tables are read back.
LEMMA TablesRead ==
  ASSUME NEW o, IsObject(o), Disjoint(FileOf(o))
  PROVE  LET file == FileOf(o)  elf == header_load(file) IN
           /\ elf = elf_header(o)
           /\ \A i \in 1..Len(o.sec) : section_header(file, elf, i - 1) = Header(o.sec[i])
           /\ \A k \in 1..Len(o.seg) : Read(file, elf.phoff + PHENTSIZE * (k - 1), PHENTSIZE) = SegmentWrite(o, k).what
<1> DEFINE file == FileOf(o)
           elf == header_load(file)
<1>1. IsFile(file) /\ ToSet(file) = FileWrites(o) /\ Disjoint(file)
  BY FileIs
<1> HIDE DEF file
<1>2. elf = elf_header(o)
  <2> DEFINE w == HeadWrite(o)
  <2>1. w.at = 0 /\ w.len = EHSIZE /\ w.what = elf_header(o)
    BY DEF HeadWrite
  <2>2. w \in FileWrites(o)
    BY DEF FileWrites
  <2> HIDE DEF w
  <2>3. Read(file, w.at, w.len) = w.what
    BY <1>1, <2>1, <2>2, Sizes, ReadBack
  <2> QED
    BY <2>1, <2>3 DEF header_load
<1> HIDE DEF elf
<1>3. elf.phoff = o.phoff /\ elf.shoff = o.shoff
  BY <1>2 DEF elf_header
<1>4. ASSUME NEW i \in 1..Len(o.sec) PROVE section_header(file, elf, i - 1) = Header(o.sec[i])
  <2> DEFINE w == EntryWrite(o, i)
  <2>1. w.at = o.shoff + SHENTSIZE * (i - 1) /\ w.len = SHENTSIZE /\ w.what = Header(o.sec[i])
    BY DEF EntryWrite
  <2>2. w \in FileWrites(o)
    <3>1. w \in SectionWrites(o, i)
      BY DEF SectionWrites
    <3> HIDE DEF w
    <3> QED
      BY <3>1 DEF FileWrites
  <2> HIDE DEF w
  <2>3. Read(file, w.at, w.len) = w.what
    BY <1>1, <2>1, <2>2, Sizes, ReadBack
  <2> QED
    BY <1>3, <2>1, <2>3 DEF section_header
<1>5. ASSUME NEW k \in 1..Len(o.seg) PROVE Read(file, elf.phoff + PHENTSIZE * (k - 1), PHENTSIZE) = SegmentWrite(o, k).what
  <2> DEFINE w == SegmentWrite(o, k)
  <2>1. w.at = o.phoff + PHENTSIZE * (k - 1) /\ w.len = PHENTSIZE
    BY DEF SegmentWrite
  <2>2. w \in FileWrites(o)
    BY DEF FileWrites
  <2> HIDE DEF w
  <2>3. Read(file, w.at, w.len) = w.what
    BY <1>1, <2>1, <2>2, Sizes, ReadBack
  <2> QED
    BY <1>3, <2>1, <2>3 DEF w
<1> QED
  BY <1>2, <1>4, <1>5 DEF elf, file

\* A section read is the one written, without its name, and with its address kept.
ReadAs(s, t) ==
  /\ DOMAIN t = SectionFields /\ t.index = s.index /\ t.address_set = TRUE /\ t.name_offset = s.name_offset
  /\ t.type = s.type /\ t.address = s.address /\ t.offset = s.offset /\ t.size = s.size /\ t.addr_align = s.addr_align
  /\ IsList(t.data) /\ (Occupies(s) => t.data = Contents(s))

LEMMA ContentsOf ==
  ASSUME NEW s, NEW i, IsSection(s, i), Occupies(s)
  PROVE  /\ IsList(Contents(s)) /\ Len(Contents(s)) = s.size /\ s.size \in Nat
         /\ \A k \in 1..s.size : Contents(s)[k] = s.data[k]
<1> DEFINE n == s.size
           q == s.data
<1>1. n \in Nat /\ IsList(q) /\ Len(q) >= n /\ Len(q) \in Nat
  BY ListSeq DEF IsSection, has_data
<1>2. Contents(s) = SubSeq(q, 1, n)
  BY DEF Contents
<1> HIDE DEF n, q
<1>3. 1 \in 1..Len(q) + 1 /\ n \in 0..Len(q) /\ 1 <= n + 1
  BY <1>1
<1>4. /\ IsList(SubSeq(q, 1, n)) /\ Len(SubSeq(q, 1, n)) = n - 1 + 1
      /\ \A k \in 1..n - 1 + 1 : SubSeq(q, 1, n)[k] = q[1 + k - 1]
  BY <1>1, <1>3, PartList
<1>5. n - 1 + 1 = n /\ \A k \in 1..n : 1 + k - 1 = k
  BY <1>1
<1>6. IsList(SubSeq(q, 1, n)) /\ Len(SubSeq(q, 1, n)) = n /\ \A k \in 1..n : SubSeq(q, 1, n)[k] = q[k]
  BY <1>4, <1>5
<1> QED
  BY <1>1, <1>2, <1>6 DEF n, q

LEMMA SectionRead ==
  ASSUME NEW o, IsObject(o), Disjoint(FileOf(o)), NEW i \in 1..Len(o.sec)
  PROVE  ReadAs(o.sec[i], LoadSection(FileOf(o), elf_header(o), i - 1))
<1> DEFINE s == o.sec[i]
           file == FileOf(o)
           h == Header(s)
           t == LoadSection(file, elf_header(o), i - 1)
           readable == Occupies(h) /\ h.size < FileLength(file)
<1>1. IsFile(file) /\ ToSet(file) = FileWrites(o) /\ Disjoint(file)
  BY FileIs
<1>2. IsSection(s, i - 1)
  <2>1. DOMAIN o.sec = 1..Len(o.sec)
    BY ListSeq DEF IsObject
  <2> QED
    BY <2>1 DEF IsObject, Indices
<1>3. s.size \in Nat /\ s.offset \in Nat /\ s.index = i - 1
  BY <1>2 DEF IsSection
<1>4. section_header(file, elf_header(o), i - 1) = h
  BY TablesRead
<1>5. t = section_load(file, h, i - 1)
  BY <1>4 DEF LoadSection
<1>6. /\ h.name_offset = s.name_offset /\ h.type = s.type /\ h.address = s.address /\ h.offset = s.offset
      /\ h.size = s.size /\ h.addr_align = s.addr_align
  BY DEF Header, HeaderFields
<1>7. Stored(s) => s.size < FileLength(file) /\ Read(file, s.offset, s.size) = Contents(s)
  <2> SUFFICES ASSUME Stored(s) PROVE s.size < FileLength(file) /\ Read(file, s.offset, s.size) = Contents(s)
    OBVIOUS
  <2> DEFINE w == DataWrite(o, i)
             head == HeadWrite(o)
             total == FileLength(file)
  <2>1. w.at = s.offset /\ w.len = s.size /\ w.what = Contents(s)
    BY DEF DataWrite
  <2>2. w \in FileWrites(o)
    <3>1. w \in SectionWrites(o, i)
      BY DEF SectionWrites
    <3> HIDE DEF w
    <3> QED
      BY <3>1 DEF FileWrites
  <2>3. ~Overlap(head, w)
    BY HeadApart
  <2>4. head.at = 0 /\ head.len = EHSIZE
    BY DEF HeadWrite
  <2>5. s.size # 0
    BY DEF Stored
  <2> HIDE DEF w, head, total, file, s
  <2>6. Read(file, w.at, w.len) = w.what
    BY <1>1, <2>1, <2>2, <2>5, ReadBack
  <2>7. w.at + w.len <= total
    BY <1>1, <2>2, LengthOf DEF total
  <2> DEFINE at == w.at  len == w.len
  <2>8. at \in Nat /\ len \in Nat /\ len # 0
    BY <1>3, <2>1, <2>5
  <2>9. ~(0 < at + len /\ at < 0 + EHSIZE)
    BY <2>3, <2>4 DEF Overlap
  <2>10. at + len <= total
    BY <2>7
  <2>11. total \in Nat
    BY <1>1, LengthOf DEF total
  <2> HIDE DEF at, len
  <2>12. at > 0
    BY <2>8, <2>9, Sizes
  <2>13. len < total
    BY <2>8, <2>10, <2>11, <2>12
  <2> QED
    BY <2>1, <2>6, <2>13 DEF len, total
<1> HIDE DEF s, h, t, file
<1>8. /\ DOMAIN t = SectionFields /\ t.index = i - 1 /\ t.address_set = TRUE /\ t.name_offset = h.name_offset
      /\ t.type = h.type /\ t.address = h.address /\ t.offset = h.offset /\ t.size = h.size /\ t.addr_align = h.addr_align
      /\ t.data = IF readable /\ h.size # 0 THEN Read(file, h.offset, h.size) ELSE <<>>
  BY <1>5 DEF section_load, SectionFields
<1>9. Occupies(h) <=> Occupies(s)
  BY <1>6 DEF Occupies
<1>10. CASE Stored(s)
  <2>1. t.data = Contents(s)
    BY <1>6, <1>7, <1>8, <1>9, <1>10 DEF Stored
  <2>2. IsList(Contents(s))
    BY <1>2, <1>10, ContentsOf DEF Stored
  <2> QED
    BY <1>3, <1>6, <1>8, <2>1, <2>2 DEF ReadAs, s, t, file
<1>11. CASE ~Stored(s)
  <2> DEFINE e == <<>>
  <2>1. t.data = e
    BY <1>6, <1>8, <1>9, <1>11 DEF Stored
  <2>2. IsList(e) /\ Len(e) = 0
    BY EmptyList
  <2> HIDE DEF e
  <2>3. ASSUME Occupies(s) PROVE e = Contents(s)
    <3>1. s.size = 0
      BY <1>11, <2>3 DEF Stored
    <3>2. IsList(Contents(s)) /\ Len(Contents(s)) = 0
      BY <1>2, <2>3, <3>1, ContentsOf
    <3> DEFINE c == Contents(s)
    <3> HIDE DEF c
    <3>3. IsList(c) /\ Len(c) = 0
      BY <3>2 DEF c
    <3>4. \A k \in 1..Len(e) : e[k] = c[k]
      BY <2>2
    <3>5. e = c
      BY <2>2, <3>3, <3>4, ListsEqual
    <3> QED
      BY <3>5 DEF c
  <2> QED
    BY <1>3, <1>6, <1>8, <2>1, <2>2, <2>3 DEF ReadAs, s, t, file
<1> QED
  BY <1>10, <1>11

LEMMA SegmentRead ==
  ASSUME NEW o, IsObject(o), Disjoint(FileOf(o)), NEW k \in 1..Len(o.seg), NEW secs, Len(secs) = Len(o.sec)
  PROVE  IsSegment(LoadSegment(FileOf(o), elf_header(o), secs, k), Len(o.sec))
<1> DEFINE file == FileOf(o)
           elf == elf_header(o)
           g == o.seg[k]
           raw == [g EXCEPT !.secs = <<>>, !.offset_set = FALSE]
           h == segment_load(file, elf, k)
           q == SectionsOf(secs, h)
           new == LoadSegment(file, elf, secs, k)
<1>1. IsSegment(g, Len(o.sec)) /\ Len(o.sec) \in Nat
  <2>1. DOMAIN o.seg = 1..Len(o.seg)
    BY ListSeq DEF IsObject
  <2> QED
    BY <2>1 DEF IsObject, Segments, IsList
<1>2. Read(file, elf.phoff + PHENTSIZE * (k - 1), PHENTSIZE) = raw
  <2>1. header_load(file) = elf
    BY TablesRead
  <2>2. Read(file, elf.phoff + PHENTSIZE * (k - 1), PHENTSIZE) = SegmentWrite(o, k).what
    BY <2>1, TablesRead
  <2> QED
    BY <2>2 DEF SegmentWrite
<1>3. h = [raw EXCEPT !.offset_set = TRUE]
  BY <1>2 DEF segment_load
<1>4. new = [h EXCEPT !.secs = q]
  BY DEF LoadSegment
<1> HIDE DEF g, file, elf
<1>5. DOMAIN g = SegmentFields
  BY <1>1 DEF IsSegment, NewSegment, SegmentFields
<1>6. /\ DOMAIN raw = SegmentFields /\ raw.vaddr = g.vaddr /\ raw.align = g.align /\ raw.offset = g.offset
      /\ raw.filesz = g.filesz /\ raw.memsz = g.memsz
  BY <1>5 DEF SegmentFields
<1> HIDE DEF raw, h
<1>7. /\ DOMAIN h = SegmentFields /\ h.vaddr = g.vaddr /\ h.align = g.align /\ h.offset = g.offset
      /\ h.filesz = g.filesz /\ h.memsz = g.memsz
  BY <1>3, <1>6 DEF SegmentFields
<1>8. IsList(q) /\ \A j \in DOMAIN q : q[j] \in 0..Len(o.sec) - 1
  BY <1>1, SectionsOfIs
<1> HIDE DEF q, new
<1>9. /\ DOMAIN new = SegmentFields /\ new.vaddr = g.vaddr /\ new.align = g.align /\ new.offset = g.offset
      /\ new.filesz = g.filesz /\ new.memsz = g.memsz /\ new.secs = q
  BY <1>4, <1>7 DEF SegmentFields
<1>10. DOMAIN new = DOMAIN NewSegment("NULL", 0, 0)
  BY <1>9 DEF NewSegment, SegmentFields
<1>11. IsSegment(new, Len(o.sec))
  BY <1>1, <1>8, <1>9, <1>10 DEF IsSegment
<1> QED
  BY <1>11 DEF new, file, elf

\* The object loaded has the sections, with their names and contents.
LEMMA LoadedIs ==
  ASSUME NEW o, IsObject(o), Disjoint(FileOf(o))
  PROVE  IsObject(LoadedFrom(FileOf(o))) /\ Keeps(o, LoadedFrom(FileOf(o)))
<1> DEFINE n == Len(o.sec)
           m == Len(o.seg)
           x == o.shstrndx
           file == FileOf(o)
           elf == elf_header(o)
           read == [i \in 1..n |-> LoadSection(file, elf, i - 1)]
           secs == Named(read, x)
           segs == [k \in 1..m |-> LoadSegment(file, elf, secs, k)]
           p == LoadedFrom(file)
<1>1. /\ n \in Nat /\ m \in Nat /\ x \in 1..n - 1 /\ IsList(o.sec) /\ DOMAIN o.sec = 1..n
      /\ o.phoff \in Nat /\ o.shoff \in Nat
  BY ListSeq DEF IsObject
<1>2. \A i \in 1..n : IsSection(o.sec[i], i - 1) /\ IsNamed(o.sec[i], o.sec[x + 1])
  BY <1>1 DEF IsObject, Indices, Section
<1>3. o.sec[1].type = "NULL" /\ o.sec[x + 1].type = "STRTAB" /\ x + 1 \in 1..n /\ 1 \in 1..n /\ x # 0
  BY <1>1 DEF IsObject, Section
<1>4. \A i \in 1..n : ReadAs(o.sec[i], read[i])
  BY SectionRead
<1>5. elf.shnum = n /\ elf.phnum = m /\ elf.phoff = o.phoff /\ elf.shoff = o.shoff /\ elf.shstrndx = x
  BY DEF elf_header
<1>6. p = [sec |-> secs, seg |-> segs, phoff |-> o.phoff, shoff |-> o.shoff, shstrndx |-> x]
  <2>1. header_load(file) = elf
    BY TablesRead
  <2> DEFINE e == header_load(file)
             s == Named([i \in 1..e.shnum |-> LoadSection(file, e, i - 1)], e.shstrndx)
  <2>2. p = [sec |-> s, seg |-> [k \in 1..e.phnum |-> LoadSegment(file, e, s, k)],
             phoff |-> e.phoff, shoff |-> e.shoff, shstrndx |-> e.shstrndx]
    BY DEF LoadedFrom
  <2>3. e = elf
    BY <2>1
  <2> HIDE DEF e, elf, p, n, m, x, file
  <2>4. s = secs
    BY <1>5, <2>3
  <2> HIDE DEF s, secs
  <2> QED
    BY <1>5, <2>2, <2>3, <2>4
<1>7. \A k \in 1..m : Len(secs) = n => IsSegment(LoadSegment(file, elf, secs, k), n)
  <2> HIDE DEF secs
  <2> QED
    BY SegmentRead
<1>8. IsList(read) /\ Len(read) = n /\ DOMAIN read = 1..n
  <2>1. read = [i \in 1..n |-> read[i]]
    OBVIOUS
  <2> HIDE DEF read, n
  <2> QED
    BY <1>1, <2>1, FunctionList, ListSeq
<1> HIDE DEF read, p, elf, file, x
<1> DEFINE old == o.sec[x + 1]
           table == read[x + 1]
           name(i) == get_string(table, read[i].name_offset)
<1>9. secs = [i \in 1..n |-> IF name(i) = NoString THEN read[i] ELSE [read[i] EXCEPT !.name = name(i)]]
  BY <1>3, <1>8 DEF Named
<1>10. ASSUME NEW t, IsList(t.data), t.data = Contents(old), t.size = old.size
       PROVE  \A k \in Nat : get_string(t, k) = get_string(old, k)
  <2>1. Occupies(old) /\ IsSection(old, x)
    <3>1. (x + 1) - 1 = x
      BY <1>1
    <3> QED
      BY <1>2, <1>3, <3>1 DEF Occupies
  <2> HIDE DEF old
  <2>2. IsList(Contents(old)) /\ Len(Contents(old)) = old.size /\ old.size \in Nat /\ \A k \in 1..old.size : Contents(old)[k] = old.data[k]
    BY <2>1, ContentsOf
  <2>3. has_data(old) /\ has_data(t)
    BY <1>10, <2>1, <2>2 DEF IsSection, has_data
  <2> SUFFICES ASSUME NEW k \in Nat PROVE get_string(t, k) = get_string(old, k)
    OBVIOUS
  <2>4. CASE k < old.size
    <3>1. k + 1 \in 1..old.size
      BY <2>2, <2>4
    <3>2. t.data[k + 1] = old.data[k + 1]
      BY <1>10, <2>2, <3>1
    <3> QED
      BY <1>10, <2>3, <2>4, <3>2 DEF get_string
  <2>5. CASE ~(k < old.size)
    BY <1>10, <2>5 DEF get_string
  <2> QED
    BY <2>4, <2>5
<1>11. IsList(table.data) /\ table.data = Contents(old) /\ table.size = old.size
  BY <1>3, <1>4 DEF ReadAs, Occupies
<1>12. \A k \in Nat : get_string(table, k) = get_string(old, k)
  <2> HIDE DEF table, old
  <2> QED
    BY <1>10, <1>11
<1>13. \A i \in 1..n : name(i) = o.sec[i].name /\ name(i) # NoString
  <2> SUFFICES ASSUME NEW i \in 1..n PROVE name(i) = o.sec[i].name /\ name(i) # NoString
    OBVIOUS
  <2>1. read[i].name_offset = o.sec[i].name_offset /\ o.sec[i].name_offset \in Nat
    BY <1>2, <1>4 DEF ReadAs, IsSection
  <2>2. name(i) = get_string(old, o.sec[i].name_offset)
    BY <1>12, <2>1
  <2>3. IsNamed(o.sec[i], old)
    BY <1>2
  <2> HIDE DEF name, old
  <2> QED
    BY <2>2, <2>3 DEF IsNamed
<1> HIDE DEF name, table
<1>14. IsList(secs) /\ Len(secs) = n /\ DOMAIN secs = 1..n
  <2>1. secs = [i \in 1..n |-> secs[i]]
    BY <1>9
  <2> HIDE DEF secs, n
  <2> QED
    BY <1>1, <2>1, FunctionList, ListSeq
<1>15. ASSUME NEW i \in 1..n PROVE ReadAs(o.sec[i], secs[i]) /\ secs[i].name = o.sec[i].name
  <2> DEFINE s == o.sec[i]
             t == secs[i]
  <2>1. t = [read[i] EXCEPT !.name = s.name]
    BY <1>9, <1>13
  <2>2. ReadAs(s, read[i])
    BY <1>4
  <2> HIDE DEF s, t
  <2>3. /\ DOMAIN t = SectionFields /\ t.index = read[i].index /\ t.address_set = read[i].address_set
        /\ t.name_offset = read[i].name_offset /\ t.type = read[i].type /\ t.address = read[i].address
        /\ t.offset = read[i].offset /\ t.size = read[i].size /\ t.addr_align = read[i].addr_align
        /\ t.data = read[i].data /\ t.name = s.name
    BY <2>1, <2>2 DEF ReadAs, SectionFields
  <2>4. ReadAs(s, t)
    BY <2>2, <2>3 DEF ReadAs
  <2> QED
    BY <2>3, <2>4 DEF s, t
<1> HIDE DEF secs, n
<1>16. ASSUME NEW i \in 1..n PROVE IsSection(secs[i], i - 1)
  <2> DEFINE s == o.sec[i]
             t == secs[i]
  <2>1. IsSection(s, i - 1) /\ ReadAs(s, t)
    BY <1>2, <1>15
  <2> HIDE DEF s, t
  <2>2. Occupies(t) => has_data(t)
    <3> SUFFICES ASSUME Occupies(t) PROVE has_data(t)
      OBVIOUS
    <3>1. Occupies(s)
      BY <2>1 DEF ReadAs, Occupies
    <3>2. Len(Contents(s)) = s.size /\ s.size \in Nat
      BY <2>1, <3>1, ContentsOf
    <3>3. Len(t.data) = t.size /\ t.size \in Nat
      BY <2>1, <3>1, <3>2 DEF ReadAs
    <3> QED
      BY <3>3 DEF has_data
  <2>3. IsSection(t, i - 1)
    BY <2>1, <2>2, FieldsAre DEF IsSection, ReadAs
  <2> QED
    BY <2>3 DEF t
<1>17. ASSUME NEW i \in 1..n PROVE IsNamed(secs[i], secs[x + 1])
  <2>1. secs[i].name = o.sec[i].name /\ secs[i].name_offset = o.sec[i].name_offset /\ o.sec[i].name_offset \in Nat
    BY <1>2, <1>15 DEF ReadAs, IsSection
  <2>2. IsNamed(o.sec[i], old)
    BY <1>2
  <2> DEFINE u == secs[x + 1]
  <2>3. IsList(u.data) /\ u.data = Contents(old) /\ u.size = old.size
    BY <1>3, <1>15 DEF ReadAs, Occupies
  <2> HIDE DEF u, old
  <2>4. \A k \in Nat : get_string(u, k) = get_string(old, k)
    BY <1>10, <2>3
  <2>5. IsNamed(secs[i], u)
    BY <2>1, <2>2, <2>4 DEF IsNamed
  <2> QED
    BY <2>5 DEF u
<1>18. /\ IsList(segs) /\ Len(segs) = m /\ DOMAIN segs = 1..m
       /\ \A k \in 1..m : IsSegment(segs[k], n)
  <2>1. segs = [k \in 1..m |-> segs[k]] /\ \A k \in 1..m : segs[k] = LoadSegment(file, elf, secs, k)
    OBVIOUS
  <2> HIDE DEF segs, m
  <2>2. IsList(segs) /\ Len(segs) = m /\ DOMAIN segs = 1..m
    BY <1>1, <2>1, FunctionList, ListSeq
  <2>3. \A k \in 1..m : IsSegment(segs[k], n)
    BY <1>7, <1>14, <2>1
  <2> QED
    BY <2>2, <2>3
<1> HIDE DEF segs
<1>19. /\ DOMAIN p = DOMAIN NoObject /\ p.sec = secs /\ p.seg = segs /\ p.phoff = o.phoff /\ p.shoff = o.shoff
       /\ p.shstrndx = x
  <2>1. DOMAIN p = {"sec", "seg", "phoff", "shoff", "shstrndx"}
    BY <1>6
  <2>2. DOMAIN NoObject = {"sec", "seg", "phoff", "shoff", "shstrndx"}
    BY FieldsAre
  <2> QED
    BY <1>6, <2>1, <2>2
<1>20. secs[1].type = "NULL" /\ secs[x + 1].type = "STRTAB"
  BY <1>3, <1>15 DEF ReadAs
<1>21. IsObject(p)
  BY <1>1, <1>14, <1>16, <1>17, <1>18, <1>19, <1>20 DEF IsObject, Indices, Segments, Section
<1>22. ASSUME NEW i \in 1..n, Occupies(o.sec[i]) PROVE Contents(secs[i]) = Contents(o.sec[i])
  <2> DEFINE s == o.sec[i]
             t == secs[i]
             c == Contents(s)
             d == Contents(t)
  <2>1. IsSection(s, i - 1) /\ IsSection(t, i - 1) /\ ReadAs(s, t) /\ Occupies(s)
    BY <1>2, <1>15, <1>16, <1>22
  <2> HIDE DEF s, t
  <2>2. Occupies(t) /\ t.size = s.size /\ t.data = c
    BY <2>1 DEF ReadAs, Occupies
  <2>3. IsList(c) /\ Len(c) = s.size
    BY <2>1, ContentsOf
  <2>4. IsList(d) /\ Len(d) = t.size /\ \A k \in 1..t.size : d[k] = t.data[k]
    BY <2>1, <2>2, ContentsOf
  <2> HIDE DEF c, d
  <2>5. IsList(d) /\ IsList(c) /\ Len(d) = Len(c) /\ \A k \in 1..Len(d) : d[k] = c[k]
    BY <2>2, <2>3, <2>4
  <2>6. d = c
    BY <2>5, ListsEqual
  <2> QED
    BY <2>6 DEF c, d, s, t
<1>23. Keeps(o, p)
  BY <1>1, <1>14, <1>15, <1>18, <1>19, <1>22 DEF Keeps, ReadAs, Indices, n, m
<1> QED
  BY <1>21, <1>23 DEF p, file

(***************************************************************************)
(* The user: the object is an object, and the file is that of an object    *)
(* and no write of it overlaps another.                                    *)
(***************************************************************************)
FileInv ==
  /\ obj = NoObject \/ IsObject(obj)
  /\ \/ disk = <<>> /\ saved = NoObject
     \/ IsObject(saved) /\ disk = FileOf(saved) /\ Disjoint(disk)

LEMMA EmptyFile == Disjoint(<<>>)
BY DEF Disjoint

LEMMA FileInitInv == ElfInit => FileInv
<1> SUFFICES ASSUME ElfInit PROVE FileInv
  OBVIOUS
<1>1. IsObject(obj)
  BY CreatedIs DEF ElfInit
<1>2. CASE saved = NoObject
  BY <1>1, <1>2 DEF ElfInit, FileInv
<1>3. CASE saved # NoObject
  <2>1. saved \in LinkedObjects /\ disk = FileOf(saved)
    BY <1>3 DEF ElfInit
  <2>2. IsObject(saved) /\ Disjoint(FileOf(saved))
    BY <2>1, LinkedAssumption
  <2> QED
    BY <1>1, <2>1, <2>2 DEF FileInv
<1> QED
  BY <1>2, <1>3

LEMMA SectionsAddIs ==
  ASSUME IsObject(obj), sections_add
  PROVE  IsObject(obj')
<1>1. PICK d \in SectionKinds : obj' = Filled(AddSection(obj, d.name), Len(obj.sec), d)
  BY DEF sections_add
<1> DEFINE n == Len(obj.sec)
           a == AddSection(obj, d.name)
<1>2. n \in Nat /\ obj.shstrndx \in 1..n - 1 /\ Occupies(obj.sec[obj.shstrndx + 1])
  BY ListSeq DEF IsObject, Occupies, Section
<1>3. Added(obj, d.name, a)
  <2>1. /\ DOMAIN obj = DOMAIN NoObject /\ IsList(obj.sec) /\ \A k \in 1..Len(obj.sec) : IsSection(obj.sec[k], k - 1)
    BY ListSeq DEF IsObject, Indices
  <2>2. obj.shstrndx \in 1..n
    BY <1>2
  <2> QED
    BY <1>2, <2>1, <2>2, SectionAdded
<1>4. d.name # NoString
  BY KindsAssumption
<1> HIDE DEF a
<1>5. IsObject(a) /\ SameRest(obj, a) /\ Len(a.sec) = n + 1
  BY <1>3, <1>4, ObjectAdded
<1>6. n \in 1..Len(a.sec) - 1 /\ n # a.shstrndx
  BY <1>2, <1>5 DEF SameRest
<1>7. IsObject(Filled(a, n, d))
  BY <1>5, <1>6, FilledIs
<1> QED
  BY <1>1, <1>7 DEF a

LEMMA SegmentsAddIs ==
  ASSUME IsObject(obj), segments_add
  PROVE  IsObject(obj')
<1>1. PICK d \in SegmentKinds :
        /\ \A k \in DOMAIN d.secs : d.secs[k] < Len(obj.sec)
        /\ obj' = [obj EXCEPT !.seg = Append(@, add_section_index(obj, NewSegment(d.type, d.vaddr, d.align), d.secs))]
  BY DEF segments_add
<1> QED
  BY <1>1, SegmentAdded

LEMMA AppendIs ==
  ASSUME IsObject(obj), append_to_section
  PROVE  IsObject(obj')
<1>1. PICK i \in Indices(obj), cells \in Additions :
        /\ obj.sec[i].type = "PROGBITS"
        /\ obj' = [obj EXCEPT !.sec[i] = append_data(@, cells)]
  BY DEF append_to_section
<1> QED
  BY <1>1, DataAdded

LEMMA SaveIs ==
  ASSUME IsObject(obj), LaysUpwards(obj), save
  PROVE  FileInv'
<1> DEFINE l == Layout(obj)
<1>1. l.good \in BOOLEAN /\ IsObject(l.o) /\ (l.good = TRUE => Arranged(l.o))
  BY ArrangedIs
<1>2. /\ obj' = l.o /\ disk' = (IF l.good THEN FileOf(l.o) ELSE <<>>)
      /\ saved' = (IF l.good THEN l.o ELSE NoObject)
  BY DEF save
<1> HIDE DEF l
<1>3. CASE l.good = TRUE
  <2>1. disk' = FileOf(l.o) /\ saved' = l.o
    BY <1>2, <1>3
  <2>2. WritesApart(l.o)
    BY <1>1, <1>3, WritesAre
  <2>3. Disjoint(FileOf(l.o))
    BY <1>1, <2>2, FileIs
  <2> QED
    BY <1>1, <1>2, <2>1, <2>3 DEF FileInv
<1>4. CASE l.good = FALSE
  <2>1. disk' = <<>> /\ saved' = NoObject
    BY <1>2, <1>4
  <2> QED
    BY <1>1, <1>2, <2>1 DEF FileInv
<1> QED
  BY <1>1, <1>3, <1>4

LEMMA LoadIs ==
  ASSUME FileInv, load
  PROVE  FileInv' /\ (disk # <<>> => Keeps(saved, obj'))
<1>1. CASE disk = <<>>
  BY <1>1 DEF load, FileInv
<1>2. CASE disk # <<>>
  <2>1. IsObject(saved) /\ disk = FileOf(saved) /\ Disjoint(FileOf(saved))
    BY <1>2 DEF FileInv
  <2>2. obj' = LoadedFrom(FileOf(saved)) /\ disk' = disk /\ saved' = saved
    BY <1>2, <2>1 DEF load
  <2>3. IsObject(LoadedFrom(FileOf(saved))) /\ Keeps(saved, LoadedFrom(FileOf(saved)))
    BY <2>1, LoadedIs
  <2> QED
    BY <2>1, <2>2, <2>3 DEF FileInv
<1> QED
  BY <1>1, <1>2

LEMMA FileNextInv == FileInv /\ [ElfNext]_elfVars /\ [save => LaysUpwards(obj)]_elfVars => FileInv'
<1> SUFFICES ASSUME FileInv, [ElfNext]_elfVars, [save => LaysUpwards(obj)]_elfVars PROVE FileInv'
  OBVIOUS
<1>1. CASE create
  <2>1. IsObject(obj') /\ disk' = disk /\ saved' = saved
    BY <1>1, CreatedIs DEF create
  <2> QED
    BY <2>1 DEF FileInv
<1>2. CASE sections_add
  <2>1. IsObject(obj) /\ disk' = disk /\ saved' = saved
    BY <1>2 DEF sections_add, FileInv
  <2>2. IsObject(obj')
    BY <1>2, <2>1, SectionsAddIs
  <2> QED
    BY <2>1, <2>2 DEF FileInv
<1>3. CASE segments_add
  <2>1. IsObject(obj) /\ disk' = disk /\ saved' = saved
    BY <1>3 DEF segments_add, FileInv
  <2>2. IsObject(obj')
    BY <1>3, <2>1, SegmentsAddIs
  <2> QED
    BY <2>1, <2>2 DEF FileInv
<1>4. CASE append_to_section
  <2>1. obj # NoObject
    <3>1. Indices(obj) # {}
      BY <1>4 DEF append_to_section
    <3> QED
      BY <3>1, EmptyList, ListSeq DEF Indices, NoObject
  <2>2. IsObject(obj) /\ disk' = disk /\ saved' = saved
    BY <1>4, <2>1 DEF append_to_section, FileInv
  <2>3. IsObject(obj')
    BY <1>4, <2>2, AppendIs
  <2> QED
    BY <2>2, <2>3 DEF FileInv
<1>5. CASE save
  <2>1. CASE UNCHANGED elfVars
    BY <2>1 DEF FileInv, elfVars
  <2>2. CASE LaysUpwards(obj)
    <3>1. IsObject(obj)
      BY <1>5 DEF save, FileInv
    <3> QED
      BY <1>5, <2>2, <3>1, SaveIs
  <2> QED
    BY <1>5, <2>1, <2>2
<1>6. CASE load
  BY <1>6, LoadIs
<1>7. CASE UNCHANGED elfVars
  BY <1>7 DEF FileInv, elfVars
<1> QED
  BY <1>1, <1>2, <1>3, <1>4, <1>5, <1>6, <1>7 DEF ElfNext

LEMMA FileHolds == ElfSpec /\ SavesUpwards => []FileInv
<1>1. ElfInit => FileInv
  BY FileInitInv
<1>2. FileInv /\ [ElfNext]_elfVars /\ [save => LaysUpwards(obj)]_elfVars => FileInv'
  BY FileNextInv
<1> QED
  BY <1>1, <1>2, PTL DEF ElfSpec, SavesUpwards

\* Whatever is added to an object, loaded, laid out and loaded again, it is
\* one: every section holds its contents and is found by its name in the
\* table of names, and every segment is made of sections there are.
THEOREM ElfTypeIsOK == ElfSpec /\ SavesUpwards => []ElfTypeOK
<1>1. FileInv => ElfTypeOK
  BY DEF FileInv, ElfTypeOK
<1> QED
  BY <1>1, FileHolds, PTL

\* When no section is given a place below its segment, the header, the tables
\* and the contents of the sections are written to places of their own:
\* elfio::save(), however many sections and segments there are, in whatever
\* order the segments were added and whichever of them are inside others.
THEOREM FileHasNoOverlap == ElfSpec /\ SavesUpwards => []FileIsDisjoint
<1>1. FileInv => FileIsDisjoint
  BY EmptyFile DEF FileInv, FileIsDisjoint
<1> QED
  BY <1>1, FileHolds, PTL

\* What elfio::load() reads of such a file is what was saved: as many
\* sections, each with its name, type, address, size and contents, and as
\* many segments.
THEOREM LoadGivesBack == ElfSpec /\ SavesUpwards => LoadRestores
<1>1. FileInv /\ [ElfNext]_elfVars => [load /\ disk # <<>> => Keeps(saved, obj')]_elfVars
  <2> SUFFICES ASSUME FileInv, load, disk # <<>> PROVE Keeps(saved, obj')
    OBVIOUS
  <2> QED
    BY LoadIs
<1> QED
  BY <1>1, FileHolds, PTL DEF ElfSpec, LoadRestores
=============================================================================
