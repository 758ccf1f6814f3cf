--------------------------- MODULE ElfSectionProofs ---------------------------
(***************************************************************************)
(* What the proofs about ELFIO share: numbers and the induction over them, *)
(* walks and lists, and what an addition to the buffer of a section keeps. *)
(*                                                                         *)
(* That a recursive function exists, and what it returns, follows from the *)
(* least of a set of numbers: no counterexample is the least one.          *)
(***************************************************************************)
EXTENDS ElfSection, TLAPS, WellFoundedInduction

(***************************************************************************)
(* The least and the greatest of a set of numbers.                         *)
(***************************************************************************)

LEMMA LeastNat ==
  ASSUME NEW T, T \subseteq Nat, T # {}
  PROVE  \E m \in T : \A n \in T : m <= n
<1> DEFINE R == OpToRel(<, Nat)
<1>1. IsWellFoundedOn(R, Nat)
  BY NatLessThanWellFounded
<1>2. \A a, b \in Nat : a < b => <<a, b>> \in R
  BY DEF OpToRel
<1> HIDE DEF R
<1>3. PICK m \in T : \A n \in T : ~ (<<n, m>> \in R)
  BY <1>1, WFMin, Zenon
<1>4. ASSUME NEW n \in T PROVE m <= n
  <2>1. m \in Nat /\ n \in Nat /\ ~(n < m)
    BY <1>2, <1>3
  <2> QED
    BY <2>1
<1> QED
  BY <1>4

LEMMA MinIsIn ==
  ASSUME NEW S, S \subseteq Nat, S # {}
  PROVE  Min(S) \in S
BY LeastNat DEF Min

LEMMA MaxIsIn ==
  ASSUME NEW n \in Nat, NEW S, S \subseteq 0..n, S # {}
  PROVE  Max(S) \in S
<1> DEFINE rest == {n - k : k \in S}
<1>1. rest \subseteq Nat /\ rest # {}
  <2>1. \A k \in S : k \in 0..n /\ n - k \in Nat
    OBVIOUS
  <2> QED
    BY <2>1
<1> HIDE DEF rest
<1>2. PICK m \in rest : \A l \in rest : m <= l
  BY <1>1, LeastNat
<1>3. \E k \in S : \A l \in S : k >= l
  BY <1>2 DEF rest
<1> QED
  BY <1>3 DEF Max

\* A set of numbers with the first and with the successor of each is all.
LEMMA Induction ==
  ASSUME NEW n \in Nat, NEW P, 0 \in P, \A k \in 0..n - 1 : k \in P => k + 1 \in P
  PROVE  \A k \in 0..n : k \in P
<1> DEFINE T == {k \in 0..n : k \notin P}
<1> SUFFICES ASSUME T # {} PROVE FALSE
  OBVIOUS
<1>1. T \subseteq Nat
  OBVIOUS
<1>2. PICK m \in T : \A l \in T : m <= l
  BY <1>1, LeastNat
<1>3. m \in 0..n /\ m \notin P /\ m # 0
  BY <1>2
<1>4. m - 1 \in 0..n - 1 /\ m - 1 \in P
  BY <1>2, <1>3
<1>5. (m - 1) + 1 = m
  BY <1>3
<1> QED
  BY <1>3, <1>4, <1>5

(***************************************************************************)
(* Walks: from each place to the next until one where the walk stops.      *)
(***************************************************************************)

Walk(f, S, stop, val, next) == [k \in S |-> IF k \in stop THEN val[k] ELSE f[next[k]]]
HasWalk(S, stop, val, next) == \E f : f = Walk(f, S, stop, val, next)

\* A rank, bounded by N, that every step decreases.
Ranked(S, N, rank, stop, next) ==
  /\ N \in Nat /\ rank \in [S -> 0..N] /\ next \in [S -> S]
  /\ \A k \in S : k \notin stop => rank[next[k]] < rank[k]

\* Places the walk does not leave.
Closed(C, S, stop, next) == C \subseteq S /\ \A k \in C : k \notin stop => next[k] \in C

Stops(f, k, C, stop, val) == \E j \in C : j \in stop /\ f[k] = val[j]

\* A walk on which a rank decreases is defined everywhere.
LEMMA WalkExists ==
  ASSUME NEW S, NEW N, NEW rank, NEW stop, NEW next, NEW val, Ranked(S, N, rank, stop, next)
  PROVE  HasWalk(S, stop, val, next)
<1> USE DEF Walk, HasWalk, Ranked
<1> DEFINE Below(m) == {k \in S : rank[k] < m}
           Walks(m) == \E f : f = [k \in Below(m) |-> IF k \in stop THEN val[k] ELSE f[next[k]]]
<1>1. Walks(0)
  <2>1. Below(0) = {}
    OBVIOUS
  <2>2. [k \in Below(0) |-> 0] = [k \in Below(0) |-> IF k \in stop THEN val[k] ELSE [l \in Below(0) |-> 0][next[k]]]
    BY <2>1
  <2> QED
    BY <2>2
<1>2. ASSUME NEW m \in Nat, Walks(m) PROVE Walks(m + 1)
  <2>1. PICK f : f = [k \in Below(m) |-> IF k \in stop THEN val[k] ELSE f[next[k]]]
    BY <1>2
  <2> DEFINE g == [k \in Below(m + 1) |-> IF k \in stop THEN val[k] ELSE f[next[k]]]
  <2>2. ASSUME NEW k \in Below(m + 1), k \notin stop PROVE g[next[k]] = f[next[k]]
    <3>1. next[k] \in Below(m) /\ next[k] \in Below(m + 1)
      BY <2>2
    <3> QED
      BY <2>1, <3>1
  <2>3. g = [k \in Below(m + 1) |-> IF k \in stop THEN val[k] ELSE g[next[k]]]
    BY <2>2
  <2> QED
    BY <2>3
<1>3. \A m \in Nat : Walks(m)
  <2> DEFINE T == {m \in Nat : ~Walks(m)}
  <2> SUFFICES ASSUME T # {} PROVE FALSE
    OBVIOUS
  <2> HIDE DEF Walks
  <2>1. PICK m \in T : \A l \in T : m <= l
    BY LeastNat
  <2>2. m \in Nat /\ m # 0 /\ ~Walks(m)
    BY <1>1
  <2>3. m - 1 \in Nat /\ Walks(m - 1) /\ (m - 1) + 1 = m
    BY <2>1, <2>2
  <2> QED
    BY <1>2, <2>2, <2>3
<1>4. Below(N + 1) = S
  OBVIOUS
<1> QED
  BY <1>3, <1>4

\* It ends at a place where it stops, and stays in any part of the places that
\* it does not leave.
LEMMA WalkStops ==
  ASSUME NEW S, NEW N, NEW rank, NEW stop, NEW next, NEW val, Ranked(S, N, rank, stop, next),
         NEW f, f = Walk(f, S, stop, val, next),
         NEW C, Closed(C, S, stop, next)
  PROVE  \A k \in C : Stops(f, k, C, stop, val)
<1> USE DEF Walk, Ranked, Closed, Stops
<1> DEFINE T == {rank[k] : k \in {l \in C : ~Stops(f, l, C, stop, val)}}
<1> SUFFICES ASSUME T # {} PROVE FALSE
  OBVIOUS
<1>1. T \subseteq Nat
  OBVIOUS
<1> HIDE DEF T
<1>2. PICK m \in T : \A l \in T : m <= l
  BY <1>1, LeastNat
<1>3. PICK k \in C : ~Stops(f, k, C, stop, val) /\ rank[k] = m
  BY <1>2 DEF T
<1>4. k \notin stop
  BY <1>3
<1>5. next[k] \in C /\ rank[next[k]] < rank[k] /\ f[k] = f[next[k]]
  BY <1>4
<1>6. ~Stops(f, next[k], C, stop, val)
  BY <1>3, <1>5
<1>7. rank[next[k]] \in T
  BY <1>5, <1>6 DEF T
<1> QED
  BY <1>1, <1>2, <1>3, <1>5, <1>7

(***************************************************************************)
(* Sequences.                                                              *)
(***************************************************************************)

\* What lies where when lists are put one behind the other.
LEMMA JoinedAt ==
  ASSUME NEW V, NEW a \in Seq(V), NEW b \in Seq(V)
  PROVE  /\ a \o b \in Seq(V) /\ Len(a \o b) = Len(a) + Len(b) /\ Len(a) \in Nat /\ Len(b) \in Nat
         /\ \A k \in 1..Len(a) : (a \o b)[k] = a[k]
         /\ \A k \in 1..Len(b) : (a \o b)[Len(a) + k] = b[k]
OBVIOUS

\* A part of a list that has the cells of another is that list.
LEMMA PartIs ==
  ASSUME NEW V, NEW s \in Seq(V), NEW t \in Seq(V), NEW at \in Nat, at + Len(t) <= Len(s),
         \A k \in 1..Len(t) : s[at + k] = t[k]
  PROVE  SubSeq(s, at + 1, at + Len(t)) = t
<1> DEFINE part == SubSeq(s, at + 1, at + Len(t))
<1>1. Len(t) \in Nat /\ Len(s) \in Nat
  OBVIOUS
<1>2. part \in Seq(V) /\ Len(part) = Len(t)
  BY <1>1
<1>3. \A k \in 1..Len(t) : part[k] = s[at + k]
  BY <1>1
<1> HIDE DEF part
<1>4. \A k \in 1..Len(t) : part[k] = t[k]
  BY <1>3
<1>5. part = t
  BY <1>1, <1>2, <1>4
<1> QED
  BY <1>5 DEF part

LEMMA ListIs ==
  ASSUME NEW m \in Nat, NEW V, NEW f, \A k \in 1..m : f[k] \in V
  PROVE  [k \in 1..m |-> f[k]] \in Seq(V) /\ Len([k \in 1..m |-> f[k]]) = m
OBVIOUS

\* A list that is longer by one.
Longer(n, s, t) ==
  /\ n \in Nat /\ s = [k \in 1..n |-> s[k]] /\ t = [k \in 1..n + 1 |-> t[k]]
  /\ \A k \in 1..n : t[k] = s[k]

LEMMA AppendedIs ==
  ASSUME NEW n, NEW s, NEW t, Longer(n, s, t)
  PROVE  t = Append(s, t[n + 1])
<1> USE DEF Longer
<1> DEFINE V == {s[k] : k \in 1..n} \union {t[n + 1]}
           u == Append(s, t[n + 1])
<1>1. \A k \in 1..n : s[k] \in V
  OBVIOUS
<1>2. t[n + 1] \in V
  OBVIOUS
<1> HIDE DEF V
<1>3. s \in Seq(V) /\ Len(s) = n
  <2>1. [k \in 1..n |-> s[k]] \in Seq(V) /\ Len([k \in 1..n |-> s[k]]) = n
    BY <1>1
  <2> QED
    BY <2>1
<1>4. t \in Seq(V) /\ Len(t) = n + 1
  <2> DEFINE m == n + 1
  <2>1. m \in Nat /\ \A k \in 1..m : t[k] \in V
    <3>1. m \in Nat /\ \A k \in 1..n : t[k] = s[k]
      OBVIOUS
    <3>2. \A k \in 1..m : k \in 1..n \/ k = n + 1
      OBVIOUS
    <3> HIDE DEF Longer, m
    <3> QED
      BY <1>1, <1>2, <3>1, <3>2
  <2>2. t = [k \in 1..m |-> t[k]]
    OBVIOUS
  <2> HIDE DEF m
  <2>3. [k \in 1..m |-> t[k]] \in Seq(V) /\ Len([k \in 1..m |-> t[k]]) = m
    BY <2>1, ListIs
  <2> QED
    BY <2>2, <2>3 DEF m
<1>5. u \in Seq(V) /\ Len(u) = n + 1 /\ u[n + 1] = t[n + 1] /\ \A k \in 1..n : u[k] = s[k]
  BY <1>2, <1>3
<1> HIDE DEF u
<1>6. \A k \in 1..n + 1 : u[k] = t[k]
  <2>1. \A k \in 1..n + 1 : k \in 1..n \/ k = n + 1
    OBVIOUS
  <2> QED
    BY <1>5, <2>1
<1>7. u = t
  BY <1>4, <1>5, <1>6
<1> QED
  BY <1>7 DEF u

LEMMA WholeIs ==
  ASSUME NEW V, NEW s \in Seq(V)
  PROVE  SubSeq(s, 1, Len(s)) = s
OBVIOUS

(***************************************************************************)
(* Sections and their buffers.                                             *)
(***************************************************************************)

\* A section whose buffer holds its contents, with the cells in V.
Buffered(V, s) ==
  /\ DOMAIN s = DOMAIN NewSection(0) /\ s.type # "NOBITS"
  /\ s.size \in Nat /\ s.data \in Seq(V) /\ Len(s.data) >= s.size

\* What lies behind a section that was added to, before it only its contents.
Extended(s, t, n) ==
  /\ t = [s EXCEPT !.data = t.data, !.size = s.size + n, !.stream_size = t.stream_size]
  /\ \A k \in 1..s.size : t.data[k] = s.data[k]

\* What is appended has its place, and what was there before keeps its own.
LEMMA DataAppended ==
  ASSUME NEW V, Unwritten \in V, NEW s, Buffered(V, s), NEW new \in Seq(V)
  PROVE  LET t == append_data(s, new)
         IN  /\ Buffered(V, t) /\ Extended(s, t, Len(new))
             /\ \A k \in 1..Len(new) : t.data[s.size + k] = new[k]
<1> DEFINE n == s.size
           c == Len(new)
           m == Len(s.data)
           spare == [k \in 1..(2 * (m + c) - n) |-> Unwritten]
           buffer == IF n + c < m THEN s.data ELSE Contents(s) \o spare
           cells == [k \in DOMAIN buffer |-> IF k - n \in 1..c THEN new[k - n] ELSE buffer[k]]
           t == append_data(s, new)
<1>1. n \in Nat /\ m \in Nat /\ c \in Nat /\ m >= n /\ s.data \in Seq(V)
  BY DEF Buffered
<1>2. Contents(s) \in Seq(V) /\ Len(Contents(s)) = n /\ \A k \in 1..n : Contents(s)[k] = s.data[k]
  BY <1>1 DEF Contents
<1>3. spare \in Seq(V) /\ Len(spare) = 2 * (m + c) - n
  <2> DEFINE size == 2 * (m + c) - n
  <2>1. size \in Nat
    BY <1>1
  <2> HIDE DEF size
  <2>2. [k \in 1..size |-> Unwritten] \in Seq(V) /\ Len([k \in 1..size |-> Unwritten]) = size
    BY <2>1
  <2> QED
    BY <2>2 DEF size
<1> HIDE DEF spare
<1>4. /\ Contents(s) \o spare \in Seq(V) /\ Len(Contents(s) \o spare) = n + Len(spare)
      /\ \A k \in 1..n : (Contents(s) \o spare)[k] = s.data[k]
  <2> DEFINE d == Contents(s)
  <2>1. d \in Seq(V) /\ Len(d) = n /\ \A k \in 1..n : d[k] = s.data[k]
    BY <1>2
  <2> HIDE DEF d
  <2>2. /\ d \o spare \in Seq(V) /\ Len(d \o spare) = Len(d) + Len(spare)
        /\ \A k \in 1..Len(d) : (d \o spare)[k] = d[k]
    BY <1>3, <2>1, JoinedAt
  <2>3. d = Contents(s)
    BY DEF d
  <2> QED
    BY <2>1, <2>2, <2>3
<1>5. buffer \in Seq(V) /\ Len(buffer) >= n + c /\ \A k \in 1..n : buffer[k] = s.data[k]
  BY <1>1, <1>3, <1>4
<1>6. append_data(s, new) = [s EXCEPT !.data = cells, !.size = @ + c, !.stream_size = @ + c]
  <2>1. s.type # "NOBITS"
    BY DEF Buffered
  <2> QED
    BY <2>1, Zenon DEF append_data, buffer, spare
<1> HIDE DEF buffer
<1>7. cells \in Seq(V) /\ Len(cells) = Len(buffer)
  <2>1. DOMAIN buffer = 1..Len(buffer) /\ Len(buffer) \in Nat
    BY <1>5
  <2>2. \A k \in 1..Len(buffer) : (IF k - n \in 1..c THEN new[k - n] ELSE buffer[k]) \in V
    BY <1>1, <1>5
  <2> HIDE DEF c
  <2> QED
    BY <2>1, <2>2
<1>8. (\A k \in 1..c : cells[n + k] = new[k]) /\ \A k \in 1..n : cells[k] = s.data[k]
  <2>1. DOMAIN buffer = 1..Len(buffer) /\ Len(buffer) \in Nat
    BY <1>5
  <2>2. ASSUME NEW k \in 1..c PROVE cells[n + k] = new[k]
    <3>1. n + k \in DOMAIN buffer /\ (n + k) - n = k
      BY <1>1, <1>5, <2>1
    <3> HIDE DEF n, c
    <3> QED
      BY <2>2, <3>1
  <2>3. ASSUME NEW k \in 1..n PROVE cells[k] = s.data[k]
    <3>1. k \in DOMAIN buffer /\ k - n \notin 1..c
      BY <1>1, <1>5, <2>1
    <3> HIDE DEF c
    <3> QED
      BY <1>5, <3>1
  <2> QED
    BY <2>2, <2>3
<1> HIDE DEF cells
<1>9. t = [s EXCEPT !.data = cells, !.size = @ + c, !.stream_size = @ + c]
  BY <1>6
<1> HIDE DEF t
<1>10. t.size = n + c /\ t.data = cells /\ t.type = s.type /\ DOMAIN t = DOMAIN NewSection(0)
  BY <1>9 DEF Buffered, NewSection
<1>11. Buffered(V, t)
  <2>1. n + c \in Nat /\ Len(cells) >= n + c
    BY <1>1, <1>5, <1>7
  <2> QED
    BY <1>7, <1>10, <2>1 DEF Buffered
<1>12. t = [s EXCEPT !.data = t.data, !.size = s.size + c, !.stream_size = t.stream_size]
  BY <1>9 DEF Buffered, NewSection
<1> QED
  BY <1>8, <1>10, <1>11, <1>12 DEF t, Extended

\* A string that is added is found at its offset, those of before at theirs;
\* the first of a table is the empty one.
Blank == ""

FoundIn(s, new, str) ==
  /\ new.sec = [s EXCEPT !.data = new.sec.data, !.size = new.sec.size, !.stream_size = new.sec.stream_size]
  /\ new.at \in Nat /\ new.at < new.sec.size /\ get_string(new.sec, new.at) = str
  /\ s.size \in Nat /\ new.sec.size \in Nat /\ s.size <= new.sec.size
  /\ \A k \in Nat : k < s.size => get_string(new.sec, k) = get_string(s, k)
  /\ s.size = 0 => new.at = 1 /\ get_string(new.sec, 0) = Blank

LEMMA StringAdded ==
  ASSUME NEW V, Unwritten \in V, Blank \in V, NEW s, Buffered(V, s), NEW str \in V
  PROVE  LET new == add_string(s, str) IN Buffered(V, new.sec) /\ FoundIn(s, new, str)
<1> DEFINE e == append_data(s, <<Blank>>)
           t == IF s.size = 0 THEN e ELSE s
           u == append_data(t, <<str>>)
<1>1. add_string(s, str) = [at |-> t.size, sec |-> u]
  BY Zenon DEF add_string, Blank
<1>2. s.size \in Nat
  BY DEF Buffered
<1>3. <<Blank>> \in Seq(V) /\ Len(<<Blank>>) = 1 /\ <<Blank>>[1] = Blank /\ <<str>> \in Seq(V) /\ Len(<<str>>) = 1 /\ <<str>>[1] = str
  OBVIOUS
<1>4. Buffered(V, e) /\ Extended(s, e, 1) /\ e.data[s.size + 1] = Blank
  <2> DEFINE new == <<Blank>>
  <2>1. new \in Seq(V) /\ Len(new) = 1 /\ new[1] = Blank /\ 1 \in 1..1
    BY <1>3
  <2> HIDE DEF new
  <2>2. /\ Buffered(V, append_data(s, new)) /\ Extended(s, append_data(s, new), Len(new))
        /\ \A k \in 1..Len(new) : append_data(s, new).data[s.size + k] = new[k]
    BY <2>1, DataAppended
  <2> QED
    BY <2>1, <2>2 DEF new
<1> HIDE DEF e
<1>5. /\ Buffered(V, t) /\ s.size <= t.size /\ t.size \in Nat /\ \A k \in 1..s.size : t.data[k] = s.data[k]
      /\ t = s \/ t = [s EXCEPT !.data = t.data, !.size = s.size + 1, !.stream_size = t.stream_size]
      /\ s.size = 0 => t.size = 1 /\ t.data[1] = Blank
  <2>1. CASE s.size = 0
    <3>1. t = e
      BY <2>1
    <3>2. DOMAIN s = DOMAIN NewSection(0)
      BY DEF Buffered
    <3>3. e = [s EXCEPT !.data = e.data, !.size = s.size + 1, !.stream_size = e.stream_size]
      BY <1>4 DEF Extended
    <3>4. e.size = 1
      <4>1. e.size = s.size + 1
        BY <3>2, <3>3 DEF NewSection
      <4> QED
        BY <2>1, <4>1
    <3>5. e.data[1] = Blank /\ \A k \in 1..s.size : e.data[k] = s.data[k]
      BY <1>4, <2>1 DEF Extended
    <3> HIDE DEF t
    <3> QED
      BY <1>4, <2>1, <3>1, <3>3, <3>4, <3>5
  <2>2. CASE s.size # 0
    <3>1. t = s
      BY <2>2
    <3> HIDE DEF t
    <3> QED
      BY <1>2, <2>2, <3>1
  <2> QED
    BY <2>1, <2>2
<1> HIDE DEF t
<1>6. Buffered(V, u) /\ Extended(t, u, 1) /\ u.data[t.size + 1] = str
  <2> DEFINE new == <<str>>
  <2>1. new \in Seq(V) /\ Len(new) = 1 /\ new[1] = str /\ 1 \in 1..1
    BY <1>3
  <2> HIDE DEF new
  <2>2. /\ Buffered(V, append_data(t, new)) /\ Extended(t, append_data(t, new), Len(new))
        /\ \A k \in 1..Len(new) : append_data(t, new).data[t.size + k] = new[k]
    <3>1. Buffered(V, t)
      BY <1>5
    <3> QED
      BY <2>1, <3>1, DataAppended
  <2> QED
    BY <2>1, <2>2 DEF new
<1> HIDE DEF u
<1>7. u.size = t.size + 1 /\ u = [s EXCEPT !.data = u.data, !.size = u.size, !.stream_size = u.stream_size]
  <2>1. u = [t EXCEPT !.data = u.data, !.size = t.size + 1, !.stream_size = u.stream_size]
    BY <1>6 DEF Extended
  <2>2. DOMAIN s = DOMAIN NewSection(0)
    BY DEF Buffered
  <2> QED
    BY <1>5, <2>1, <2>2 DEF NewSection
<1>8. u.size \in Nat /\ has_data(u) /\ has_data(s) /\ \A k \in 1..t.size : u.data[k] = t.data[k]
  BY <1>5, <1>6, <1>7 DEF Buffered, Extended, has_data
<1>9. get_string(u, t.size) = str /\ t.size < u.size
  BY <1>5, <1>6, <1>7, <1>8 DEF get_string
<1>10. ASSUME NEW k \in Nat, k < s.size PROVE get_string(u, k) = get_string(s, k)
  <2>1. k + 1 \in 1..s.size /\ k + 1 \in 1..t.size /\ k < u.size
    BY <1>2, <1>5, <1>7, <1>10
  <2>2. u.data[k + 1] = s.data[k + 1]
    BY <1>5, <1>8, <2>1
  <2> QED
    BY <1>8, <1>10, <2>1, <2>2 DEF get_string
<1>11. s.size = 0 => t.size = 1 /\ get_string(u, 0) = Blank
  BY <1>5, <1>7, <1>8 DEF get_string
<1>12. s.size <= u.size
  BY <1>2, <1>5, <1>7
<1>13. FoundIn(s, [at |-> t.size, sec |-> u], str)
  <2> DEFINE new == [at |-> t.size, sec |-> u]
  <2>1. new.at = t.size /\ new.sec = u
    OBVIOUS
  <2> HIDE DEF new
  <2> QED
    BY <1>2, <1>5, <1>7, <1>8, <1>9, <1>10, <1>11, <1>12, <2>1, Zenon DEF FoundIn
<1> QED
  BY <1>1, <1>6, <1>13
=============================================================================
