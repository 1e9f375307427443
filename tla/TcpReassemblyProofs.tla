------------------------ MODULE TcpReassemblyProofs ------------------------
(***************************************************************************)
(* What StreamReassembler hands on is what was sent: the inductive         *)
(* invariant of TcpReassembly and the properties that follow from it, for  *)
(* any number of bytes, of lost, late and repeated segments, and any port. *)
(*                                                                         *)
(* Induction over data takes the form of LeastNumber.                      *)
(***************************************************************************)
EXTENDS TcpReassembly, SequenceTheorems, FiniteSetTheorems, TLAPS

-----------------------------------------------------------------------------
(* Numbers and sets of numbers *)

\* A non-empty set of naturals has a least element.
LEMMA LeastNumber ==
  ASSUME NEW T \in SUBSET Nat, T # {}
  PROVE  \E x \in T : \A y \in T : x <= y
  <1> DEFINE Below == {0..x : x \in T}
  <1>1. Below \subseteq FiniteSubsetsOf(Nat)
    <2>1. \A x \in T : 0..x \in SUBSET Nat
      OBVIOUS
    <2>2. \A x \in T : IsFiniteSet(0..x)
      BY FS_Interval
    <2>3. QED
      BY <2>1, <2>2 DEF FiniteSubsetsOf
  <1>2. Below # {}
    OBVIOUS
  <1>3. \E b \in Below : \A c \in Below : ~(<<c, b>> \in StrictSubsetOrdering(Nat))
    <2>1. IsWellFoundedOn(StrictSubsetOrdering(Nat), FiniteSubsetsOf(Nat))
      BY FS_StrictSubsetOrderingWellFounded
    <2> HIDE DEF Below
    <2>2. QED
      BY <1>1, <1>2, <2>1, WFMin, Zenon
  <1>4. PICK x \in T : \A c \in Below : ~(<<c, 0..x>> \in StrictSubsetOrdering(Nat))
    BY <1>3
  <1>5. ASSUME NEW y \in T, y < x PROVE FALSE
    <2>1. 0..y \subseteq 0..x /\ 0..y # 0..x
      <3>1. x \in 0..x /\ ~(x \in 0..y)
        BY <1>5
      <3>2. QED
        BY <1>5, <3>1
    <2>2. <<0..y, 0..x>> \in (SUBSET Nat) \X (SUBSET Nat)
      OBVIOUS
    <2>3. <<0..y, 0..x>> \in StrictSubsetOrdering(Nat)
      BY <2>1, <2>2, Zenon DEF StrictSubsetOrdering
    <2>4. 0..y \in Below
      OBVIOUS
    <2>5. QED
      BY <1>4, <2>3, <2>4
  <1>6. QED
    BY <1>5

\* A non-empty set of integers with an upper bound has a maximum.
LEMMA MaxIsLargest ==
  ASSUME NEW T \in SUBSET Int, T # {}, NEW n \in Int, \A y \in T : y <= n
  PROVE  /\ Max(T) \in T
         /\ \A y \in T : y <= Max(T)
  <1> DEFINE Above == {n - y : y \in T}
  <1>1. Above \in SUBSET Nat /\ Above # {}
    <2>1. \A y \in T : n - y \in Nat
      OBVIOUS
    <2>2. QED
      BY <2>1
  <1>2. PICK k \in Above : \A l \in Above : k <= l
    BY <1>1, LeastNumber
  <1>3. PICK x \in T : k = n - x
    OBVIOUS
  <1>4. \A y \in T : x >= y
    <2> TAKE y \in T
    <2>1. n - x <= n - y
      BY <1>2, <1>3
    <2>2. QED
      BY <2>1
  <1>5. \E m \in T : \A y \in T : m >= y
    BY <1>4
  <1>6. QED
    BY <1>5 DEF Max

Rank(S, m) == Cardinality({j \in S : j <= m})

\* Ranks count up to the size of the set.
LEMMA RankFacts ==
  ASSUME NEW n \in Nat, NEW S \in SUBSET (1..n)
  PROVE  /\ IsFiniteSet(S) /\ Cardinality(S) \in Nat
         /\ \A m \in 0..n : Rank(S, m) \in 0..Cardinality(S)
         /\ Rank(S, 0) = 0 /\ Rank(S, n) = Cardinality(S)
         /\ \A m \in 1..n : IF m \in S THEN Rank(S, m) = Rank(S, m - 1) + 1
                            ELSE Rank(S, m) = Rank(S, m - 1)
         /\ \A l, m \in 0..n : l <= m => Rank(S, l) <= Rank(S, m)
  <1> DEFINE Low(m) == {j \in S : j <= m}
  <1>1. \A j \in S : j \in Nat /\ 1 <= j /\ j <= n
    OBVIOUS
  <1>2. IsFiniteSet(S) /\ Cardinality(S) \in Nat
    <2>1. IsFiniteSet(1..n)
      BY FS_Interval
    <2>2. QED
      BY <2>1, FS_Subset, FS_CardinalityType
  <1>3. \A m \in 0..n : IsFiniteSet(Low(m)) /\ Rank(S, m) \in 0..Cardinality(S)
    <2> TAKE m \in 0..n
    <2>1. Low(m) \in SUBSET S
      OBVIOUS
    <2>2. IsFiniteSet(Low(m)) /\ Cardinality(Low(m)) <= Cardinality(S)
      BY <1>2, <2>1, FS_Subset
    <2>3. Cardinality(Low(m)) \in Nat
      BY <2>2, FS_CardinalityType
    <2>4. QED
      BY <1>2, <2>2, <2>3 DEF Rank
  <1>4. Rank(S, 0) = 0 /\ Rank(S, n) = Cardinality(S)
    <2>1. \A j \in S : ~(j <= 0) /\ j <= n
      BY <1>1
    <2>2. Low(0) = {} /\ Low(n) = S
      BY <2>1, Zenon
    <2>3. QED
      BY <2>2, FS_EmptySet DEF Rank
  <1>5. ASSUME NEW m \in 1..n, m \in S PROVE Rank(S, m) = Rank(S, m - 1) + 1
    <2>0. \A j \in S : j <= m <=> j <= m - 1 \/ j = m
      BY <1>1
    <2>1. Low(m) = Low(m - 1) \cup {m} /\ ~(m \in Low(m - 1))
      <3>1. ~(m <= m - 1)
        OBVIOUS
      <3>2. QED
        BY <1>5, <2>0, <3>1, Zenon
    <2>2. IsFiniteSet(Low(m - 1))
      <3>1. m - 1 \in 0..n
        OBVIOUS
      <3>2. QED
        BY <1>3, <3>1, Zenon
    <2> HIDE DEF Low
    <2>3. Cardinality(Low(m)) = Cardinality(Low(m - 1)) + 1
      BY <2>1, <2>2, FS_AddElement
    <2>4. QED
      BY <2>3 DEF Low, Rank
  <1>6. ASSUME NEW m \in 1..n, m \notin S PROVE Rank(S, m) = Rank(S, m - 1)
    <2>1. \A j \in S : j <= m <=> j <= m - 1
      BY <1>1, <1>6
    <2>2. Low(m) = Low(m - 1)
      BY <2>1, Zenon
    <2>3. QED
      BY <2>2 DEF Rank
  <1>7. ASSUME NEW l \in 0..n, NEW m \in 0..n, l <= m PROVE Rank(S, l) <= Rank(S, m)
    <2>0. \A j \in S : j <= l => j <= m
      BY <1>1, <1>7
    <2>1. Low(l) \in SUBSET Low(m)
      BY <2>0, Zenon
    <2>2. IsFiniteSet(Low(m))
      BY <1>3
    <2> HIDE DEF Low
    <2>3. Cardinality(Low(l)) <= Cardinality(Low(m))
      BY <2>1, <2>2, FS_Subset
    <2>4. QED
      BY <2>3 DEF Low, Rank
  <1>8. QED
    BY <1>2, <1>3, <1>4, <1>5, <1>6, <1>7

\* The k-th of a set is in the set, and the smaller the k the smaller it is.
LEMMA NthFacts ==
  ASSUME NEW n \in Nat, NEW S \in SUBSET (1..n)
  PROVE  /\ \A k \in 1..Cardinality(S) : Nth(S, k) \in S
         /\ \A k, l \in 1..Cardinality(S) : k < l => Nth(S, k) < Nth(S, l)
         /\ \A i \in S : \E k \in 1..Cardinality(S) : Nth(S, k) = i
  <1>0. \A j \in S : j \in 1..n
    OBVIOUS
  <1>1. Cardinality(S) \in Nat
    BY RankFacts
  <1>2. \A k \in 1..Cardinality(S) : Nth(S, k) \in S /\ Rank(S, Nth(S, k)) = k
    <2> TAKE k \in 1..Cardinality(S)
    <2> DEFINE T == {m \in 0..n : Rank(S, m) >= k}
    <2>1. T \in SUBSET Nat /\ n \in T
      BY <1>1, RankFacts
    <2>2. PICK m \in T : \A y \in T : m <= y
      BY <2>1, LeastNumber
    <2>3. m \in 1..n
      BY <1>1, RankFacts
    <2>4. ~(m - 1 \in T)
      BY <2>2, <2>3
    <2>5. Rank(S, m - 1) < k /\ Rank(S, m) >= k
      BY <1>1, <2>3, <2>4, RankFacts
    <2>6. m \in S /\ Rank(S, m) = k
      BY <1>1, <2>3, <2>5, RankFacts
    <2>7. QED
      BY <2>6 DEF Nth, Rank
  <1>3. \A k, l \in 1..Cardinality(S) : k < l => Nth(S, k) < Nth(S, l)
    <2> TAKE k, l \in 1..Cardinality(S)
    <2>1. /\ Nth(S, k) \in 1..n /\ Nth(S, l) \in 1..n
          /\ Rank(S, Nth(S, k)) = k /\ Rank(S, Nth(S, l)) = l
      BY <1>0, <1>2
    <2>2. Nth(S, l) <= Nth(S, k) => l <= k
      BY <2>1, RankFacts
    <2>3. QED
      BY <1>1, <2>1, <2>2
  <1>4. ASSUME NEW i \in S PROVE \E k \in 1..Cardinality(S) : Nth(S, k) = i
    <2>1. i \in 1..n /\ Rank(S, i) \in 1..Cardinality(S)
      BY <1>0, <1>1, RankFacts
    <2>2. PICK j \in S : j = Nth(S, Rank(S, i)) /\ Rank(S, j) = Rank(S, i)
      BY <1>2, <2>1
    <2>3. ASSUME NEW a \in 1..n, NEW b \in 1..n, b \in S, a < b PROVE Rank(S, a) < Rank(S, b)
      <3>1. a \in 0..n /\ b - 1 \in 0..n /\ a <= b - 1
        BY <2>3
      <3>2. Rank(S, a) <= Rank(S, b - 1)
        BY <3>1, RankFacts
      <3>3. Rank(S, b) = Rank(S, b - 1) + 1
        BY <2>3, RankFacts
      <3>4. Rank(S, a) \in 0..Cardinality(S) /\ Rank(S, b - 1) \in 0..Cardinality(S)
        BY <3>1, RankFacts
      <3>5. QED
        BY <1>1, <3>2, <3>3, <3>4
    <2>4. j = i
      <3>1. j \in 1..n
        BY <1>0
      <3>2. ~(i < j) /\ ~(j < i)
        BY <1>1, <2>1, <2>2, <2>3, <3>1
      <3>3. QED
        BY <2>1, <3>1, <3>2
    <2>5. QED
      BY <2>1, <2>2, <2>4
  <1>5. QED
    BY <1>2, <1>3, <1>4

-----------------------------------------------------------------------------
(* The assembler's deliveries *)

\* Some pages of a connection, whose bytes end at B.
Pages(conn, B) ==
  /\ conn.next \in Int /\ conn.next <= B + 1 /\ conn.pages \in Seq(Segments)
  /\ \A i \in 1..Len(conn.pages) : conn.pages[i].seq + conn.pages[i].len <= B + 1

\* What is due after n pages is what the n-th goes beyond what was due before.
LEMMA DueFacts ==
  ASSUME NEW conn, NEW B \in Nat, Pages(conn, B)
  PROVE  /\ \A n \in 0..Len(conn.pages) : Due(conn, n) \in Int /\ Due(conn, n) <= B + 1
         /\ Due(conn, 0) = conn.next
         /\ \A n \in 1..Len(conn.pages) :
              Due(conn, n) = Larger(Due(conn, n - 1), conn.pages[n].seq + conn.pages[n].len)
         /\ \A m, n \in 0..Len(conn.pages) : m <= n => Due(conn, m) <= Due(conn, n)
  <1> DEFINE N == Len(conn.pages)
             end(i) == conn.pages[i].seq + conn.pages[i].len
             E(n) == {conn.next} \cup {end(i) : i \in 1..n}
  <1>1. N \in Nat
    BY DEF Pages
  <1>2. \A i \in 1..N : end(i) \in Int /\ end(i) <= B + 1
    <2> TAKE i \in 1..N
    <2>1. conn.pages[i] \in Segments
      BY DEF Pages
    <2>2. conn.pages[i].seq \in Nat /\ conn.pages[i].len \in Nat
      BY <2>1 DEF Segments
    <2>3. QED
      BY <2>2 DEF Pages
  <1>3. \A n \in 0..N : /\ Due(conn, n) \in E(n) /\ Due(conn, n) \in Int
                        /\ Due(conn, n) <= B + 1
                        /\ \A y \in E(n) : y <= Due(conn, n)
    <2> TAKE n \in 0..N
    <2>1. \A i \in 1..n : i \in 1..N
      BY <1>1
    <2>2. E(n) \in SUBSET Int /\ E(n) # {} /\ \A y \in E(n) : y <= B + 1
      BY <1>2, <2>1 DEF Pages
    <2> HIDE DEF E
    <2>3. Max(E(n)) \in E(n) /\ \A y \in E(n) : y <= Max(E(n))
      <3>1. B + 1 \in Int
        OBVIOUS
      <3>2. QED
        BY <2>2, <3>1, MaxIsLargest
    <2>4. Max(E(n)) = Due(conn, n)
      BY DEF E, Due
    <2>5. QED
      BY <2>2, <2>3, <2>4
  <1>4. Due(conn, 0) = conn.next
    <2>1. 0 \in 0..N
      BY <1>1
    <2>2. E(0) = {conn.next}
      OBVIOUS
    <2>3. QED
      BY <1>3, <2>1, <2>2
  <1>5. ASSUME NEW m \in 0..N, NEW n \in 0..N, m <= n PROVE Due(conn, m) <= Due(conn, n)
    <2>1. E(m) \subseteq E(n)
      <3>1. \A i \in 1..m : i \in 1..n
        BY <1>5
      <3>2. QED
        BY <3>1
    <2>2. QED
      BY <1>3, <2>1
  <1>6. ASSUME NEW n \in 1..N PROVE Due(conn, n) = Larger(Due(conn, n - 1), end(n))
    <2>1. n - 1 \in 0..N /\ n \in 0..N /\ n - 1 <= n
      BY <1>1
    <2>2. Due(conn, n - 1) <= Due(conn, n)
      BY <1>5, <2>1
    <2>3. end(n) \in E(n)
      OBVIOUS
    <2>4. end(n) <= Due(conn, n)
      BY <1>3, <2>1, <2>3
    <2>5. \A y \in E(n) : y \in E(n - 1) \/ y = end(n)
      <3>1. \A i \in 1..n : i \in 1..(n - 1) \/ i = n
        OBVIOUS
      <3>2. QED
        BY <3>1
    <2>6. Due(conn, n) <= Due(conn, n - 1) \/ Due(conn, n) = end(n)
      BY <1>3, <2>1, <2>5
    <2>7. end(n) \in Int /\ Due(conn, n) \in Int /\ Due(conn, n - 1) \in Int
      BY <1>2, <1>3, <2>1
    <2> HIDE DEF end, E
    <2>8. QED
      BY <2>2, <2>4, <2>6, <2>7 DEF Larger
  <1>7. QED
    BY <1>3, <1>4, <1>5, <1>6

\* Every page that is taken is ready, and they are as many as possible.
LEMMA ReadyFacts ==
  ASSUME NEW conn, conn.pages \in Seq(Segments), NEW force \in BOOLEAN
  PROVE  /\ Ready(conn, force) \in 0..Len(conn.pages)
         /\ \A n \in 0..Len(conn.pages) :
              (\A i \in 1..n : force \/ conn.pages[i].seq <= Due(conn, i - 1))
                => n <= Ready(conn, force)
  <1> DEFINE T == {n \in 0..Len(conn.pages) :
                     \A i \in 1..n : force \/ conn.pages[i].seq <= Due(conn, i - 1)}
  <1>1. Len(conn.pages) \in Nat
    OBVIOUS
  <1>2. T \in SUBSET Int /\ \A y \in T : y <= Len(conn.pages)
    BY <1>1
  <1>3. 0 \in T
    BY <1>1
  <1>4. Ready(conn, force) = Max(T)
    BY DEF Ready
  <1>5. Max(T) \in T /\ \A y \in T : y <= Max(T)
    <2> HIDE DEF T
    <2>1. Len(conn.pages) \in Int /\ T # {}
      BY <1>1, <1>3
    <2>2. QED
      BY <1>2, <2>1, MaxIsLargest
  <1>6. QED
    BY <1>4, <1>5

Pieces == [lo : Int, hi : Int, skip : BOOLEAN, end : BOOLEAN]
Brings(p) == p.lo <= p.hi
Filled(ps, b) == \E i \in 1..Len(ps) : ps[i].lo <= b /\ b <= ps[i].hi

\* The pieces bring, in order, bytes from c to before n, of B that were sent: all
\* of them if none is skipped, and one is missing if one is.
Stretch(ps, c, n, B) ==
  /\ ps \in Seq(Pieces) /\ c <= n
  /\ \A i \in 1..Len(ps) : Brings(ps[i]) =>
       1 <= ps[i].lo /\ c <= ps[i].lo /\ ps[i].hi < n /\ ps[i].hi <= B
  /\ \A i, j \in 1..Len(ps) :
       i < j /\ Brings(ps[i]) /\ Brings(ps[j]) => ps[i].hi < ps[j].lo
  /\ \/ \E i \in 1..Len(ps) : ps[i].skip
     \/ /\ c # Unstarted => \A b \in c..(n - 1) : Filled(ps, b)
        /\ \A i \in 1..Len(ps) : Brings(ps[i]) =>
             \A b \in ps[i].lo..(n - 1) : Filled(ps, b)
  /\ (\E i \in 1..Len(ps) : ps[i].skip) =>
       \E b \in 1..B : c <= b /\ b < n /\ ~Filled(ps, b)

\* The pages of a half, at most with the arriving segment before them.
Fitting(conn, B) ==
  /\ Pages(conn, B) /\ conn.next \in {Unstarted} \cup 1..(B + 1)
  /\ \A i \in 1..Len(conn.pages) :
       \/ conn.pages[i].seq >= 1
       \/ conn.pages[i].len = 0 /\ conn.next # Unstarted

\* A piece, field by field.
LEMMA PieceFacts ==
  ASSUME NEW c \in Int, NEW g \in Segments
  PROVE  /\ Piece(c, g) \in Pieces
         /\ Piece(c, g).lo = (IF c > g.seq THEN c ELSE g.seq)
         /\ Piece(c, g).hi = (g.seq + g.len) - 1
         /\ Piece(c, g).skip <=> c # Unstarted /\ g.seq > c
         /\ Piece(c, g).end = g.fin
  <1>1. g.seq \in Nat /\ g.len \in Nat /\ g.fin \in BOOLEAN
    BY DEF Segments
  <1>2. /\ Larger(c, g.seq) \in Int
        /\ Larger(c, g.seq) = IF c > g.seq THEN c ELSE g.seq
    BY <1>1 DEF Larger
  <1>3. g.seq + g.len - 1 \in Int /\ g.seq + g.len - 1 = (g.seq + g.len) - 1
    BY <1>1
  <1>4. Piece(c, g) \in Pieces
    BY <1>1, <1>2, <1>3 DEF Piece, Pieces
  <1>5. /\ Piece(c, g).lo = Larger(c, g.seq)
        /\ Piece(c, g).hi = g.seq + g.len - 1
        /\ Piece(c, g).skip <=> c # Unstarted /\ g.seq > c
        /\ Piece(c, g).end = g.fin
    BY DEF Piece
  <1>6. QED
    BY <1>2, <1>3, <1>4, <1>5

\* Pages of a fitting connection are delivered as a stretch from what was due to
\* what is due now.
LEMMA DeliverBrings ==
  ASSUME NEW conn, NEW B \in Nat, Fitting(conn, B), NEW force \in BOOLEAN
  PROVE  /\ Stretch(Deliver(conn, force).pieces, conn.next, Deliver(conn, force).next, B)
         /\ Deliver(conn, force).next \in {Unstarted} \cup 1..(B + 1)
         /\ Deliver(conn, force).pages \in Seq(Segments)
         /\ \A i \in 1..Len(Deliver(conn, force).pages) :
              \E j \in 1..Len(conn.pages) :
                Ready(conn, force) < j /\ Deliver(conn, force).pages[i] = conn.pages[j]
  <1> DEFINE L == Len(conn.pages)
             N == Ready(conn, force)
             D(i) == Due(conn, i)
             seq(i) == conn.pages[i].seq
             end(i) == conn.pages[i].seq + conn.pages[i].len
             r == Deliver(conn, force)
             P(i) == Piece(D(i - 1), conn.pages[i])
  <1>1. L \in Nat /\ N \in 0..L /\ conn.pages \in Seq(Segments)
    BY ReadyFacts DEF Fitting, Pages
  <1>2. /\ r.next = D(N)
        /\ r.pieces = [i \in 1..N |-> P(i)]
        /\ r.pages = SubSeq(conn.pages, N + 1, L)
    BY DEF Deliver
  <1>3. \A i \in 1..L : /\ seq(i) \in Nat /\ end(i) \in Nat /\ seq(i) <= end(i)
                        /\ end(i) <= B + 1 /\ conn.pages[i].fin \in BOOLEAN
                        /\ seq(i) >= 1 \/ (end(i) = seq(i) /\ conn.next # Unstarted)
    <2> TAKE i \in 1..L
    <2>1. conn.pages[i] \in Segments
      BY <1>1
    <2>2. seq(i) \in Nat /\ conn.pages[i].len \in Nat /\ conn.pages[i].fin \in BOOLEAN
      BY <2>1 DEF Segments
    <2>3. QED
      BY <2>2 DEF Fitting, Pages
  <1>4. /\ D(0) = conn.next
        /\ \A i \in 0..L : D(i) \in Int /\ D(i) <= B + 1
        /\ \A i \in 1..L : D(i) = IF D(i - 1) > end(i) THEN D(i - 1) ELSE end(i)
        /\ \A i, j \in 0..L : i <= j => D(i) <= D(j)
    <2>1. Pages(conn, B)
      BY DEF Fitting
    <2>2. QED
      BY <2>1, DueFacts DEF Larger
  <1>5. \A i \in 0..L : (D(i) = Unstarted /\ conn.next = Unstarted) \/ D(i) >= 1
    <2>1. conn.next = Unstarted \/ conn.next >= 1
      BY DEF Fitting
    <2>2. conn.next # Unstarted => \A i \in 0..L : D(i) >= 1
      <3>1. 0 \in 0..L /\ \A i \in 0..L : 0 <= i
        BY <1>1
      <3>2. \A i \in 0..L : D(0) <= D(i)
        BY <1>4, <3>1
      <3>3. QED
        BY <1>4, <2>1, <3>2
    <2>3. ASSUME conn.next = Unstarted, NEW i \in 0..L PROVE D(i) = Unstarted \/ D(i) >= 1
      <3>1. CASE i = 0
        BY <1>4, <2>3, <3>1
      <3>2. ASSUME i # 0 PROVE D(i) >= 1
        <4>1. i \in 1..L /\ i - 1 \in 0..L
          BY <1>1, <3>2
        <4>2. end(i) >= 1
          BY <1>3, <2>3, <4>1
        <4>3. D(i) >= end(i)
          BY <1>3, <1>4, <4>1
        <4>4. QED
          BY <1>3, <1>4, <4>1, <4>2, <4>3
      <3>3. QED
        BY <3>1, <3>2
    <2>4. QED
      BY <2>2, <2>3
  \* The i-th piece and what is due before and after it.
  <1>6. \A i \in 1..N : /\ P(i) \in Pieces
                        /\ P(i).lo = (IF D(i - 1) > seq(i) THEN D(i - 1) ELSE seq(i))
                        /\ P(i).hi = end(i) - 1
                        /\ P(i).skip <=> D(i - 1) # Unstarted /\ seq(i) > D(i - 1)
    <2> TAKE i \in 1..N
    <2>1. i \in 1..L /\ i - 1 \in 0..L
      BY <1>1
    <2>2. D(i - 1) \in Int /\ conn.pages[i] \in Segments
      BY <1>1, <1>4, <2>1
    <2>3. QED
      BY <2>2, PieceFacts
  <1>7. r.pieces \in Seq(Pieces) /\ Len(r.pieces) = N /\ \A i \in 1..N : r.pieces[i] = P(i)
    BY <1>1, <1>2, <1>6
  <1> DEFINE lo(i) == P(i).lo
             hi(i) == P(i).hi
             Full(i) == lo(i) <= hi(i)
             Skip(i) == P(i).skip
  <1>8. \A i \in 1..N : /\ lo(i) \in Int /\ hi(i) \in Int /\ hi(i) < D(i) /\ lo(i) >= D(i - 1)
                        /\ Full(i) => lo(i) >= 1 /\ D(i) = hi(i) + 1 /\ hi(i) <= B
                        /\ ~Skip(i) /\ D(i - 1) # Unstarted /\ D(i - 1) < D(i)
                             => Full(i) /\ lo(i) = D(i - 1)
                        /\ Skip(i) => /\ 1 <= D(i - 1) /\ D(i - 1) <= B
                                      /\ D(i - 1) < lo(i) /\ D(i - 1) < D(i)
    <2> TAKE i \in 1..N
    <2>1. i \in 1..L /\ i - 1 \in 0..L
      BY <1>1
    <2>2. /\ D(i - 1) \in Int /\ D(i) = IF D(i - 1) > end(i) THEN D(i - 1) ELSE end(i)
          /\ (D(i - 1) = Unstarted /\ conn.next = Unstarted) \/ D(i - 1) >= 1
      BY <1>4, <1>5, <2>1
    <2>3. /\ seq(i) \in Nat /\ end(i) \in Nat /\ seq(i) <= end(i) /\ end(i) <= B + 1
          /\ seq(i) >= 1 \/ (end(i) = seq(i) /\ conn.next # Unstarted)
      BY <1>3, <2>1
    <2>4. /\ lo(i) = (IF D(i - 1) > seq(i) THEN D(i - 1) ELSE seq(i))
          /\ hi(i) = end(i) - 1
          /\ Skip(i) <=> D(i - 1) # Unstarted /\ seq(i) > D(i - 1)
      BY <1>6
    <2> HIDE DEF P, D, seq, end, lo, hi, Skip
    <2>5. QED
      BY <2>2, <2>3, <2>4 DEF Unstarted
  <1>9. D(N) \in Int /\ D(N) \in {Unstarted} \cup 1..(B + 1) /\ conn.next <= D(N)
    <2>1. N \in 0..L /\ 0 \in 0..L /\ 0 <= N
      BY <1>1
    <2>2. D(N) \in Int /\ D(N) <= B + 1 /\ D(0) <= D(N) /\ (D(N) = Unstarted \/ D(N) >= 1)
      BY <1>4, <1>5, <2>1
    <2>3. QED
      BY <1>4, <2>2
  <1>10. \A i \in 1..N, j \in 1..N : i < j => D(i) <= D(j - 1)
    <2> TAKE i \in 1..N, j \in 1..N
    <2>1. i \in 0..L /\ j - 1 \in 0..L /\ (i < j => i <= j - 1)
      BY <1>1
    <2>2. QED
      BY <1>4, <2>1
  <1>11. \A i \in 1..N : /\ conn.next <= D(i - 1) /\ D(i) <= D(N)
                         /\ D(i - 1) \in Int /\ D(i) \in Int /\ D(i - 1) <= D(i)
    <2> TAKE i \in 1..N
    <2>1. i \in 0..L /\ i - 1 \in 0..L /\ N \in 0..L /\ 0 \in 0..L /\ i <= N /\ 0 <= i - 1
          /\ i - 1 <= i
      BY <1>1
    <2>2. QED
      BY <1>4, <2>1
  \* A byte between two points of the way was brought, or the way had a gap.
  <1>12. ASSUME \A k \in 1..N : ~Skip(k),
                NEW b \in Int, NEW m \in 0..N, D(m) <= b, b < D(N),
                D(m) # Unstarted
         PROVE  Filled(r.pieces, b)
    <2> DEFINE T == {k \in 0..N : b < D(k)}
    <2>1. N \in T /\ T \in SUBSET Nat
      BY <1>1, <1>12
    <2>2. PICK k \in T : \A y \in T : k <= y
      BY <2>1, LeastNumber
    <2>3. k \in 0..L /\ m \in 0..L
      BY <1>1
    <2>4. m < k
      <3>1. k <= m => D(k) <= D(m)
        BY <1>4, <2>3
      <3>2. D(k) \in Int /\ D(m) \in Int /\ b < D(k)
        BY <1>4, <2>3
      <3>3. QED
        BY <1>12, <2>3, <3>1, <3>2
    <2>5. k \in 1..N /\ k - 1 \in 0..N /\ m <= k - 1 /\ k - 1 \in 0..L
      BY <1>1, <2>3, <2>4
    <2>6. ~(k - 1 \in T)
      BY <2>2, <2>5
    <2>7. D(k - 1) <= b /\ b < D(k)
      <3>1. ~(b < D(k - 1)) /\ b < D(k)
        BY <2>2, <2>5, <2>6
      <3>2. D(k - 1) \in Int
        BY <1>11, <2>5
      <3>3. QED
        BY <1>12, <3>1, <3>2
    <2>8. D(k - 1) # Unstarted
      <3>1. D(m) <= D(k - 1) /\ D(m) \in Int
        BY <1>4, <2>3, <2>5
      <3>2. D(m) >= 1
        BY <1>5, <1>12, <2>3
      <3>3. QED
        BY <1>11, <2>5, <3>1, <3>2 DEF Unstarted
    <2>9. Full(k) /\ lo(k) = D(k - 1) /\ D(k) = hi(k) + 1
      BY <1>8, <1>11, <1>12, <2>5, <2>7, <2>8
    <2>10. lo(k) <= b /\ b <= hi(k)
      BY <1>8, <2>5, <2>7, <2>9
    <2>11. QED
      BY <1>7, <2>5, <2>10 DEF Filled
  <1>13. ASSUME \E i \in 1..N : Skip(i)
         PROVE  \E b \in 1..B : conn.next <= b /\ b < D(N) /\ ~Filled(r.pieces, b)
    <2>1. PICK i \in 1..N : Skip(i)
      BY <1>13
    <2>2. PICK b \in 1..B : b = D(i - 1)
      BY <1>8, <1>11, <2>1
    <2>3. conn.next <= b /\ b < D(N)
      BY <1>8, <1>9, <1>11, <2>1, <2>2
    <2>4. ASSUME NEW j \in 1..N PROVE ~(lo(j) <= b /\ b <= hi(j))
      <3>1. i \in Int /\ j \in Int /\ lo(j) \in Int /\ hi(j) \in Int
        BY <1>1, <1>8
      <3>2. CASE i = j
        BY <1>8, <2>1, <2>2, <3>1, <3>2
      <3>3. ASSUME i < j PROVE b < lo(j)
        BY <1>8, <1>10, <1>11, <2>1, <2>2, <3>3
      <3>4. ASSUME j < i PROVE hi(j) < b
        BY <1>8, <1>10, <1>11, <2>1, <2>2, <3>4
      <3>5. QED
        BY <3>1, <3>2, <3>3, <3>4
    <2>5. ~Filled(r.pieces, b)
      BY <1>7, <2>4 DEF Filled
    <2>6. QED
      BY <2>2, <2>3, <2>5
  <1>14. Stretch(r.pieces, conn.next, D(N), B)
    <2>1. \A i \in 1..N : Brings(r.pieces[i]) <=> Full(i)
      BY <1>7 DEF Brings
    <2>2. ASSUME NEW i \in 1..N, Full(i)
          PROVE  1 <= lo(i) /\ conn.next <= lo(i) /\ hi(i) < D(N) /\ hi(i) <= B
      <3>1. conn.next \in Int
        BY DEF Fitting, Pages
      <3>2. QED
        BY <1>8, <1>9, <1>11, <2>2, <3>1
    <2>3. ASSUME NEW i \in 1..N, NEW j \in 1..N, i < j, Full(i), Full(j)
          PROVE  hi(i) < lo(j)
      BY <1>8, <1>10, <1>11, <2>3
    <2>4. ASSUME \A i \in 1..N : ~Skip(i), conn.next # Unstarted,
                 NEW b \in conn.next..(D(N) - 1)
          PROVE  Filled(r.pieces, b)
      <3>1. conn.next \in Int /\ 0 \in 0..N /\ D(0) = conn.next
        BY <1>1, <1>4 DEF Fitting, Pages
      <3>2. b \in Int /\ D(0) <= b /\ b < D(N)
        BY <1>9, <3>1
      <3>3. QED
        BY <1>12, <2>4, <3>1, <3>2
    <2>5. ASSUME \A i \in 1..N : ~Skip(i), NEW i \in 1..N, Full(i),
                 NEW b \in lo(i)..(D(N) - 1)
          PROVE  Filled(r.pieces, b)
      <3>1. b \in Int /\ lo(i) <= b /\ b < D(N)
        BY <1>8, <1>9
      <3>2. CASE b <= hi(i)
        BY <1>7, <3>1, <3>2 DEF Filled
      <3>3. ASSUME hi(i) < b PROVE Filled(r.pieces, b)
        <4>1. i \in 0..N /\ D(i) <= b /\ D(i) # Unstarted
          BY <1>8, <1>11, <2>5, <3>1, <3>3 DEF Unstarted
        <4>2. QED
          BY <1>12, <2>5, <3>1, <4>1
      <3>4. QED
        BY <1>8, <3>1, <3>2, <3>3
    <2> HIDE DEF N, D, P, lo, hi, Full, Skip, r
    <2>6. QED
      BY <1>7, <1>9, <1>13, <2>1, <2>2, <2>3, <2>4, <2>5 DEF Stretch, lo, hi, Skip
  <1>15. /\ r.pages \in Seq(Segments)
         /\ \A i \in 1..Len(r.pages) : \E j \in 1..L : N < j /\ r.pages[i] = conn.pages[j]
    <2>1. r.pages \in Seq(Segments) /\ Len(r.pages) = L - N
          /\ \A i \in 1..(L - N) : r.pages[i] = conn.pages[N + i]
      BY <1>1, <1>2
    <2>2. \A i \in 1..(L - N) : N + i \in 1..L /\ N < N + i
      BY <1>1
    <2>3. QED
      BY <2>1, <2>2
  <1>16. QED
    BY <1>2, <1>9, <1>14, <1>15

\* A page that is inserted joins the others.
LEMMA InsertFacts ==
  ASSUME NEW pages \in Seq(Segments), NEW seg \in Segments
  PROVE  /\ Insert(pages, seg) \in Seq(Segments)
         /\ \A i \in 1..Len(Insert(pages, seg)) :
              \/ Insert(pages, seg)[i] = seg
              \/ \E j \in 1..Len(pages) : Insert(pages, seg)[i] = pages[j]
  <1> DEFINE L == Len(pages)
             T == {0} \cup {i \in 1..L : pages[i].seq <= seg.seq}
             n == Max(T)
             front == SubSeq(pages, 1, n)
             back == SubSeq(pages, n + 1, L)
  <1>1. L \in Nat
    OBVIOUS
  <1>2. n \in 0..L
    <2>1. T \in SUBSET Int /\ T # {} /\ L \in Int /\ \A y \in T : y <= L
      BY <1>1
    <2>2. T \subseteq 0..L
      BY <1>1
    <2> HIDE DEF T
    <2>3. QED
      BY <2>1, <2>2, MaxIsLargest
  <1>3. Insert(pages, seg) = front \o <<seg>> \o back
    BY DEF Insert
  <1> HIDE DEF n
  <1>4. /\ front \in Seq(Segments) /\ Len(front) = n /\ \A i \in 1..n : front[i] = pages[i]
        /\ back \in Seq(Segments) /\ Len(back) = L - n
        /\ \A i \in 1..(L - n) : back[i] = pages[n + i]
    BY <1>1, <1>2
  <1> HIDE DEF front, back
  <1>5. front \o <<seg>> \in Seq(Segments)
    BY <1>4
  <1>6. Insert(pages, seg) \in Seq(Segments)
    BY <1>3, <1>4, <1>5
  <1>7. ASSUME NEW i \in 1..Len(Insert(pages, seg))
        PROVE  \/ Insert(pages, seg)[i] = seg
               \/ \E j \in 1..L : Insert(pages, seg)[i] = pages[j]
    <2>1. /\ Len(front \o <<seg>>) = n + 1
          /\ \A k \in 1..(n + 1) : (front \o <<seg>>)[k] = IF k <= n THEN front[k] ELSE seg
      BY <1>2, <1>4
    <2>2. /\ Len(Insert(pages, seg)) = n + 1 + (L - n)
          /\ Insert(pages, seg)[i] = IF i <= n + 1 THEN (front \o <<seg>>)[i]
                                     ELSE back[i - (n + 1)]
      <3> DEFINE f == front \o <<seg>>
      <3>2. f \in Seq(Segments) /\ Len(f) = n + 1 /\ Insert(pages, seg) = f \o back
        BY <1>3, <1>5, <2>1
      <3> HIDE DEF f
      <3>3. /\ Len(f \o back) = Len(f) + Len(back)
            /\ \A k \in 1..(Len(f) + Len(back)) :
                 (f \o back)[k] = IF k <= Len(f) THEN f[k] ELSE back[k - Len(f)]
        <4>1. back \in Seq(Segments)
          BY <1>4
        <4>2. QED
          BY <3>2, <4>1, ConcatProperties, Zenon
      <3>4. /\ Len(Insert(pages, seg)) = Len(f) + Len(back)
            /\ Insert(pages, seg)[i] = IF i <= Len(f) THEN f[i] ELSE back[i - Len(f)]
        BY <3>2, <3>3
      <3>5. QED
        BY <1>2, <1>4, <3>2, <3>4 DEF f
    <2>3. CASE i <= n
      <3>1. i \in 1..n /\ i \in 1..(n + 1) /\ i \in 1..L
        BY <1>1, <1>2, <2>3
      <3>2. Insert(pages, seg)[i] = pages[i]
        BY <1>2, <1>4, <2>1, <2>2, <3>1
      <3>3. QED
        BY <3>1, <3>2
    <2>3a. CASE i = n + 1
      <3>1. i \in 1..(n + 1) /\ ~(i <= n)
        BY <1>2, <2>3a
      <3>2. QED
        BY <1>2, <2>1, <2>2, <3>1
    <2>4. CASE n + 1 < i
      <3>1. i - (n + 1) \in 1..(L - n) /\ n + (i - (n + 1)) \in 1..L
        BY <1>1, <1>2, <2>2, <2>4
      <3>2. Insert(pages, seg)[i] = pages[n + (i - (n + 1))]
        BY <1>2, <1>4, <2>2, <2>4, <3>1
      <3>3. QED
        BY <3>1, <3>2
    <2>5. QED
      BY <1>2, <2>3, <2>3a, <2>4
  <1>8. QED
    BY <1>6, <1>7

\* A half and a segment of a direction on which B bytes were sent.
Kept(conn, B) ==
  /\ conn \in Halves /\ conn.next \in {Unstarted} \cup 1..(B + 1)
  /\ \A i \in 1..Len(conn.pages) :
       conn.pages[i].seq >= 1 /\ conn.pages[i].seq + conn.pages[i].len <= B + 1

Sendable(seg, B) ==
  /\ seg \in Segments /\ seg.seq + seg.len <= B + 1
  /\ seg.seq >= 1 \/ (seg.syn /\ seg.len = 0)

\* What the assembler makes of any segment is a stretch.
LEMMA AssembledBrings ==
  ASSUME NEW conn, NEW B \in Nat, Kept(conn, B), NEW seg, Sendable(seg, B)
  PROVE  /\ Stretch(Assembled(conn, seg).pieces, conn.next, Assembled(conn, seg).next, B)
         /\ Assembled(conn, seg).next \in {Unstarted} \cup 1..(B + 1)
         /\ Assembled(conn, seg).pages \in Seq(Segments)
         /\ \A i \in 1..Len(Assembled(conn, seg).pages) :
              /\ Assembled(conn, seg).pages[i].seq >= 1
              /\ Assembled(conn, seg).pages[i].seq + Assembled(conn, seg).pages[i].len <= B + 1
  <1> DEFINE a == Assembled(conn, seg)
             Sent(p) == p.seq >= 1 /\ p.seq + p.len <= B + 1
  <1>1. /\ conn.pages \in Seq(Segments) /\ conn.next \in Int /\ conn.next <= B + 1
        /\ seg.seq \in Nat /\ seg.len \in Nat
    BY DEF Kept, Halves, Sendable, Segments, Unstarted
  <1>2. \A i \in 1..Len(conn.pages) : Sent(conn.pages[i])
    BY DEF Kept
  <1>3. CASE seg.syn /\ conn.next = Unstarted
    <2> DEFINE c == [conn EXCEPT !.next = 1]
    <2>1. c.next = 1 /\ c.pages = conn.pages
      BY DEF Kept, Halves
    <2>2. Fitting(c, B)
      BY <1>1, <1>2, <2>1 DEF Fitting, Pages, Unstarted
    <2>3. a = Deliver(c, FALSE)
      BY <1>3 DEF Assembled
    <2> HIDE DEF c
    <2> HIDE DEF a
    <2>4. /\ Stretch(a.pieces, 1, a.next, B) /\ a.next \in {Unstarted} \cup 1..(B + 1)
          /\ a.pages \in Seq(Segments)
          /\ \A i \in 1..Len(a.pages) : \E j \in 1..Len(conn.pages) : a.pages[i] = conn.pages[j]
      <3>1. FALSE \in BOOLEAN
        OBVIOUS
      <3>2. /\ Stretch(a.pieces, c.next, a.next, B) /\ a.next \in {Unstarted} \cup 1..(B + 1)
            /\ a.pages \in Seq(Segments)
            /\ \A i \in 1..Len(a.pages) : \E j \in 1..Len(c.pages) : a.pages[i] = c.pages[j]
        BY <2>2, <2>3, <3>1, DeliverBrings
      <3>3. QED
        BY <2>1, <3>2
    <2>5. Stretch(a.pieces, Unstarted, a.next, B)
      <3>1. a.next \in Int /\ \A i \in 1..Len(a.pieces) : a.pieces[i].lo \in Int
        <4>1. \A i \in 1..Len(a.pieces) : a.pieces[i] \in Pieces
          BY <2>4 DEF Stretch
        <4>2. QED
          BY <2>4, <4>1 DEF Pieces, Unstarted
      <3>2. \A b \in Int : 1 <= b => Unstarted <= b
        BY DEF Unstarted
      <3>3. QED
        BY <2>4, <3>1, <3>2 DEF Stretch
    <2>6. QED
      BY <1>2, <1>3, <2>4, <2>5 DEF a
  <1>4. CASE ~(seg.syn /\ conn.next = Unstarted) /\ (conn.next = Unstarted \/ seg.seq > conn.next)
    <2>1. a = [next |-> conn.next, pieces |-> <<>>, pages |-> Insert(conn.pages, seg)]
      BY <1>4 DEF Assembled
    <2>2. Sent(seg)
      BY <1>1, <1>4 DEF Kept, Sendable, Unstarted
    <2>3. Stretch(<<>>, conn.next, conn.next, B)
      BY <1>1 DEF Stretch
    <2>4. /\ Insert(conn.pages, seg) \in Seq(Segments)
          /\ \A i \in 1..Len(Insert(conn.pages, seg)) : Sent(Insert(conn.pages, seg)[i])
      <3>1. seg \in Segments
        BY DEF Sendable
      <3>2. \A i \in 1..Len(Insert(conn.pages, seg)) :
              \/ Insert(conn.pages, seg)[i] = seg
              \/ \E j \in 1..Len(conn.pages) : Insert(conn.pages, seg)[i] = conn.pages[j]
        BY <1>1, <3>1, InsertFacts
      <3>3. Insert(conn.pages, seg) \in Seq(Segments)
        BY <1>1, <3>1, InsertFacts
      <3>4. QED
        BY <1>2, <2>2, <3>2, <3>3
    <2>5. a.next = conn.next /\ a.pieces = <<>> /\ a.pages = Insert(conn.pages, seg)
      BY <2>1
    <2> HIDE DEF a
    <2>6. QED
      BY <2>3, <2>4, <2>5 DEF Kept, a
  <1>5. CASE ~(conn.next = Unstarted \/ seg.seq > conn.next)
    <2> DEFINE c == [conn EXCEPT !.pages = <<seg>> \o @]
    <2>1. /\ c.next = conn.next /\ c.pages \in Seq(Segments)
          /\ Len(c.pages) = Len(conn.pages) + 1 /\ c.pages[1] = seg
          /\ \A i \in 2..Len(c.pages) :
               i - 1 \in 1..Len(conn.pages) /\ c.pages[i] = conn.pages[i - 1]
      <3> DEFINE ps == conn.pages
                 one == <<seg>>
      <3>1. c.next = conn.next /\ c.pages = one \o ps
        BY DEF Kept, Halves
      <3>2. /\ one \in Seq(Segments) /\ ps \in Seq(Segments) /\ Len(one) = 1
            /\ one[1] = seg /\ Len(ps) \in Nat
        BY <1>1 DEF Sendable
      <3> HIDE DEF one, ps, c
      <3>3. /\ one \o ps \in Seq(Segments) /\ Len(one \o ps) = Len(one) + Len(ps)
            /\ \A i \in 1..(Len(one) + Len(ps)) :
                 (one \o ps)[i] = IF i <= Len(one) THEN one[i] ELSE ps[i - Len(one)]
        BY <3>2, ConcatProperties, Zenon
      <3>4. /\ c.pages \in Seq(Segments) /\ Len(c.pages) = Len(ps) + 1 /\ c.pages[1] = seg
            /\ \A i \in 2..Len(c.pages) : i - 1 \in 1..Len(ps) /\ c.pages[i] = ps[i - 1]
        BY <3>1, <3>2, <3>3
      <3>5. QED
        BY <3>1, <3>4 DEF ps
    <2>2. Fitting(c, B)
      <3>1. \A i \in 1..Len(c.pages) : i = 1 \/ i \in 2..Len(c.pages)
        BY <2>1
      <3>2. \A i \in 1..Len(c.pages) : i # 1 => Sent(c.pages[i])
        BY <1>2, <2>1, <3>1
      <3>3. /\ c.pages[1].seq + c.pages[1].len <= B + 1
            /\ c.pages[1].seq >= 1 \/ (c.pages[1].len = 0 /\ c.next # Unstarted)
        BY <1>5, <2>1 DEF Sendable
      <3>4. c.next \in {Unstarted} \cup 1..(B + 1) /\ c.next \in Int /\ c.next <= B + 1
        BY <1>1, <2>1 DEF Kept
      <3> HIDE DEF c
      <3>5. QED
        BY <2>1, <3>2, <3>3, <3>4 DEF Fitting, Pages
    <2>3. a = Deliver(c, FALSE)
      BY <1>5 DEF Assembled
    <2> HIDE DEF a, c
    <2>4. 1 <= Ready(c, FALSE)
      <3>1. 1 \in 0..Len(c.pages)
        BY <2>1
      <3>2. Due(c, 0) = conn.next
        BY <2>1, <2>2, DueFacts DEF Fitting
      <3>3. c.pages[1].seq <= Due(c, 0)
        BY <1>1, <1>5, <2>1, <3>2
      <3>4. \A i \in 1..1 : FALSE \/ c.pages[i].seq <= Due(c, i - 1)
        BY <3>3
      <3>5. QED
        BY <2>1, <3>1, <3>4, ReadyFacts
    <2>5. /\ Stretch(a.pieces, conn.next, a.next, B) /\ a.next \in {Unstarted} \cup 1..(B + 1)
          /\ a.pages \in Seq(Segments)
          /\ \A i \in 1..Len(a.pages) :
               \E j \in 1..Len(c.pages) : Ready(c, FALSE) < j /\ a.pages[i] = c.pages[j]
      <3>1. FALSE \in BOOLEAN
        OBVIOUS
      <3>2. /\ Stretch(a.pieces, c.next, a.next, B) /\ a.next \in {Unstarted} \cup 1..(B + 1)
            /\ a.pages \in Seq(Segments)
            /\ \A i \in 1..Len(a.pages) :
                 \E j \in 1..Len(c.pages) : Ready(c, FALSE) < j /\ a.pages[i] = c.pages[j]
        BY <2>2, <2>3, <3>1, DeliverBrings
      <3>3. QED
        BY <2>1, <3>2
    <2>6. \A i \in 1..Len(a.pages) : Sent(a.pages[i])
      <3> TAKE i \in 1..Len(a.pages)
      <3>1. PICK j \in 1..Len(c.pages) : Ready(c, FALSE) < j /\ a.pages[i] = c.pages[j]
        BY <2>5
      <3>2. j \in 2..Len(c.pages)
        <4>1. FALSE \in BOOLEAN /\ Len(c.pages) \in Nat
          BY <2>1
        <4> DEFINE N == Ready(c, FALSE)
        <4>2. N \in 0..Len(c.pages)
          BY <2>1, <4>1, ReadyFacts
        <4>3. 1 <= N /\ N < j
          BY <2>4, <3>1
        <4> HIDE DEF N
        <4>4. j \in Int /\ 1 < j /\ j <= Len(c.pages)
          BY <4>1, <4>2, <4>3
        <4>5. QED
          BY <4>4
      <3>3. QED
        BY <1>2, <2>1, <3>1, <3>2
    <2>7. QED
      BY <2>5, <2>6 DEF a
  <1>6. QED
    BY <1>3, <1>4, <1>5

-----------------------------------------------------------------------------
(* What a stretch does to the stream *)

\* The chunks hold the pieces that bring bytes, in their order.
MadeOf(K, d, client, ps) ==
  /\ K \in Seq(StreamChunks)
  /\ \A k \in 1..Len(K) : K[k].from = d /\ (K[k].isClient <=> d = client)
  /\ \A k, l \in 1..Len(K) : k <= l =>
       \E i, j \in 1..Len(ps) :
         /\ i <= j /\ (k < l => i < j) /\ Brings(ps[i]) /\ Brings(ps[j])
         /\ K[k].lo = ps[i].lo /\ K[k].hi = ps[i].hi
         /\ K[l].lo = ps[j].lo /\ K[l].hi = ps[j].hi
  /\ \A i \in 1..Len(ps) : Brings(ps[i]) =>
       \E k \in 1..Len(K) : K[k].lo = ps[i].lo /\ K[k].hi = ps[i].hi

\* The chunks made of the pieces are those that bring bytes, in order.
LEMMA ChunksOfFacts ==
  ASSUME NEW st, NEW d \in Sides, NEW ps \in Seq(Pieces),
         \A i \in 1..Len(ps) : Brings(ps[i]) => ps[i].lo >= 1
  PROVE  MadeOf(ChunksOf(st, d, ps), d, st.client, ps)
  <1> DEFINE full == {i \in 1..Len(ps) : ps[i].lo <= ps[i].hi}
             K == ChunksOf(st, d, ps)
             C(i) == [isClient |-> d = st.client, from |-> d, lo |-> ps[i].lo, hi |-> ps[i].hi]
             M == Cardinality(full)
  <1>1. Len(ps) \in Nat /\ full \in SUBSET (1..Len(ps))
    OBVIOUS
  <1>2. /\ M \in Nat
        /\ \A k \in 1..M : Nth(full, k) \in full
        /\ \A k, l \in 1..M : k < l => Nth(full, k) < Nth(full, l)
        /\ \A i \in full : \E k \in 1..M : Nth(full, k) = i
    <2> HIDE DEF full
    <2>1. QED
      BY <1>1, RankFacts, NthFacts
  <1>3. K = [k \in 1..M |-> C(Nth(full, k))]
    BY DEF ChunksOf
  <1>4. \A i \in full : C(i) \in StreamChunks
    <2> TAKE i \in full
    <2>1. ps[i] \in Pieces
      OBVIOUS
    <2>2. ps[i].lo \in Int /\ ps[i].hi \in Int /\ ps[i].lo >= 1 /\ ps[i].lo <= ps[i].hi
      BY <2>1 DEF Pieces, Brings
    <2>3. ps[i].lo \in Nat /\ ps[i].hi \in Nat /\ (d = st.client) \in BOOLEAN
      BY <2>2
    <2>4. QED
      BY <2>3 DEF StreamChunks
  <1>5. \A i \in 1..Len(ps) : i \in full <=> Brings(ps[i])
    BY DEF Brings
  <1>6. \A i \in full : i \in 1..Len(ps) /\ i \in Int
    OBVIOUS
  <1> HIDE DEF full, C, K, M
  <1>7. K \in Seq(StreamChunks) /\ Len(K) = M /\ \A k \in 1..M : K[k] = C(Nth(full, k))
    BY <1>2, <1>3, <1>4
  <1>8. \A i \in full : /\ C(i).from = d /\ C(i).lo = ps[i].lo /\ C(i).hi = ps[i].hi
                        /\ C(i).isClient <=> d = st.client
    BY DEF C
  <1>9. \A k \in 1..M : K[k].from = d /\ (K[k].isClient <=> d = st.client)
    BY <1>2, <1>7, <1>8
  <1>10. ASSUME NEW k \in 1..M, NEW l \in 1..M, k <= l
         PROVE  \E i, j \in 1..Len(ps) :
                  /\ i <= j /\ (k < l => i < j) /\ Brings(ps[i]) /\ Brings(ps[j])
                  /\ K[k].lo = ps[i].lo /\ K[k].hi = ps[i].hi
                  /\ K[l].lo = ps[j].lo /\ K[l].hi = ps[j].hi
    <2>1. PICK i \in full : i = Nth(full, k)
      BY <1>2
    <2>2. PICK j \in full : j = Nth(full, l)
      BY <1>2
    <2>3. i <= j /\ (k < l => i < j)
      BY <1>2, <1>6, <1>10, <2>1, <2>2
    <2>4. QED
      BY <1>5, <1>6, <1>7, <1>8, <2>1, <2>2, <2>3
  <1>11. ASSUME NEW i \in 1..Len(ps), Brings(ps[i])
         PROVE  \E k \in 1..M : K[k].lo = ps[i].lo /\ K[k].hi = ps[i].hi
    <2>1. PICK k \in 1..M : Nth(full, k) = i
      BY <1>2, <1>5, <1>11
    <2>2. QED
      BY <1>5, <1>7, <1>8, <1>11, <2>1
  <1>12. QED
    BY <1>7, <1>9, <1>10, <1>11 DEF K, MadeOf

\* Chunks of direction d added to a sequence of chunks.
LEMMA AppendedChunks ==
  ASSUME NEW cs \in Seq(StreamChunks), NEW K \in Seq(StreamChunks), NEW d \in Sides,
         \A k \in 1..Len(K) : K[k].from = d
  PROVE  /\ cs \o K \in Seq(StreamChunks) /\ Len(cs \o K) = Len(cs) + Len(K)
         /\ \A i \in 1..Len(cs) : (cs \o K)[i] = cs[i]
         /\ \A i \in 1..Len(cs \o K) :
              \/ i \in 1..Len(cs)
              \/ Len(cs) < i /\ i - Len(cs) \in 1..Len(K) /\ (cs \o K)[i] = K[i - Len(cs)]
         /\ \A e \in Sides \ {d} : From(cs \o K, e) = From(cs, e)
         /\ \A e \in Sides : \A b \in Int :
              b \in Carried(cs \o K, e) <=>
                \/ b \in Carried(cs, e)
                \/ e = d /\ \E k \in 1..Len(K) : K[k].lo <= b /\ b <= K[k].hi
  <1> DEFINE N == cs \o K
             L == Len(cs)
             M == Len(K)
  <1>1. L \in Nat /\ M \in Nat
    OBVIOUS
  <1>2. /\ N \in Seq(StreamChunks) /\ Len(N) = L + M
        /\ \A i \in 1..(L + M) : N[i] = IF i <= L THEN cs[i] ELSE K[i - L]
    <2>1. /\ Len(N) = L + M
          /\ \A i \in 1..(L + M) : N[i] = IF i <= L THEN cs[i] ELSE K[i - L]
      BY ConcatProperties, Zenon
    <2>2. N \in Seq(StreamChunks)
      OBVIOUS
    <2>3. QED
      BY <2>1, <2>2
  <1> HIDE DEF N
  <1>3. \A i \in 1..L : i \in 1..Len(N) /\ N[i] = cs[i]
    BY <1>1, <1>2
  <1>4. \A k \in 1..M : L + k \in 1..Len(N) /\ N[L + k] = K[k]
    <2> TAKE k \in 1..M
    <2>1. L + k \in 1..(L + M) /\ ~(L + k <= L) /\ (L + k) - L = k
      BY <1>1
    <2>2. QED
      BY <1>2, <2>1
  <1>5. \A i \in 1..Len(N) : i \in 1..L \/ (L < i /\ i - L \in 1..M /\ N[i] = K[i - L])
    BY <1>1, <1>2
  <1>6. ASSUME NEW e \in Sides \ {d} PROVE From(N, e) = From(cs, e)
    <2>1. \A i : i \in From(N, e) <=> i \in From(cs, e)
      BY <1>3, <1>5 DEF From
    <2>2. QED
      BY <2>1, Zenon
  <1>7. \A c \in StreamChunks : c.lo \in Nat /\ c.hi \in Nat
    BY DEF StreamChunks
  <1>8. \A k \in 1..M : K[k].lo \in Nat /\ K[k].hi \in Nat
    <2>1. \A k \in 1..M : K[k] \in StreamChunks
      OBVIOUS
    <2>2. QED
      BY <1>7, <2>1
  <1>9. ASSUME NEW e \in Sides, NEW b \in Int
        PROVE  b \in Carried(N, e) <=>
                 \/ b \in Carried(cs, e)
                 \/ e = d /\ \E k \in 1..M : K[k].lo <= b /\ b <= K[k].hi
    <2>1. ASSUME b \in Carried(N, e)
          PROVE  \/ b \in Carried(cs, e)
                 \/ e = d /\ \E k \in 1..M : K[k].lo <= b /\ b <= K[k].hi
      <3>1. PICK i \in From(N, e) : b \in N[i].lo..N[i].hi
        BY <2>1 DEF Carried
      <3>2. i \in 1..Len(N) /\ N[i].from = e
        BY DEF From
      <3>3. CASE i \in 1..L
        <4>1. i \in From(cs, e) /\ b \in cs[i].lo..cs[i].hi
          BY <1>3, <3>1, <3>2, <3>3 DEF From
        <4>2. QED
          BY <4>1 DEF Carried
      <3>4. CASE i - L \in 1..M /\ N[i] = K[i - L]
        BY <1>8, <3>1, <3>2, <3>4
      <3>5. QED
        BY <1>5, <3>2, <3>3, <3>4
    <2>2. ASSUME b \in Carried(cs, e) PROVE b \in Carried(N, e)
      <3>1. PICK i \in From(cs, e) : b \in cs[i].lo..cs[i].hi
        BY <2>2 DEF Carried
      <3>2. i \in From(N, e) /\ b \in N[i].lo..N[i].hi
        BY <1>3, <3>1 DEF From
      <3>3. QED
        BY <3>2 DEF Carried
    <2>3. ASSUME e = d, NEW k \in 1..M, K[k].lo <= b, b <= K[k].hi PROVE b \in Carried(N, e)
      <3>1. L + k \in 1..Len(N) /\ N[L + k] = K[k]
        BY <1>4
      <3>2. L + k \in From(N, e) /\ b \in N[L + k].lo..N[L + k].hi
        BY <1>8, <2>3, <3>1 DEF From
      <3>3. QED
        BY <3>2 DEF Carried
    <2>4. QED
      BY <2>1, <2>2, <2>3
  <1>10. QED
    BY <1>2, <1>3, <1>5, <1>6, <1>9 DEF N

\* r is the stream st with the bytes of the pieces ps, of direction d, after it;
\* ps went from byte c to n, of B.
HandedOver(st, r, d, ps, c, n, B) ==
  /\ r \in Streams /\ r.client = st.client /\ r.complete = st.complete
  /\ r.gap <=> st.gap \/ \E i \in 1..Len(ps) : ps[i].skip
  /\ \A e \in Sides : \A b \in Int :
       b \in Carried(r.chunks, e) <=>
         b \in Carried(st.chunks, e) \/ (e = d /\ Filled(ps, b))
  /\ \A i \in 1..Len(r.chunks) :
       \/ i \in 1..Len(st.chunks) /\ r.chunks[i] = st.chunks[i]
       \/ /\ r.chunks[i].from = d /\ r.chunks[i].hi <= B
          /\ 1 <= r.chunks[i].lo /\ r.chunks[i].lo <= r.chunks[i].hi
  /\ \A e \in Sides \ {d} : \A m \in Int :
       UpTo(st.chunks, st.gap, e, m) => UpTo(r.chunks, r.gap, e, m)
  /\ UpTo(st.chunks, st.gap, d, c) => UpTo(r.chunks, r.gap, d, n)

\* A stretch from where the chunks of a direction end is handed to the stream.
LEMMA HandOver ==
  ASSUME NEW st \in Streams, NEW d \in Sides, NEW B \in Nat, NEW c \in Int, NEW n \in Int,
         NEW ps, Stretch(ps, c, n, B)
  PROVE  HandedOver(st, Reassembled(st, d, ps), d, ps, c, n, B)
  <1> DEFINE K == ChunksOf(st, d, ps)
             skips == \E i \in 1..Len(ps) : ps[i].skip
             r == Reassembled(st, d, ps)
             cs == st.chunks
             rs == r.chunks
             L == Len(cs)
  <1>1. ps \in Seq(Pieces) /\ \A i \in 1..Len(ps) : Brings(ps[i]) => ps[i].lo >= 1
    <2>1. \A i \in 1..Len(ps) : Brings(ps[i]) => 1 <= ps[i].lo
      BY DEF Stretch
    <2>2. ps \in Seq(Pieces)
      BY DEF Stretch
    <2>3. \A i \in 1..Len(ps) : ps[i].lo \in Int
      <3>1. \A i \in 1..Len(ps) : ps[i] \in Pieces
        BY <2>2
      <3>2. QED
        BY <3>1 DEF Pieces
    <2>4. QED
      BY <2>1, <2>2, <2>3
  <1>2. \A i \in 1..Len(ps) : ps[i].lo \in Int /\ ps[i].hi \in Int
    <2>1. \A i \in 1..Len(ps) : ps[i] \in Pieces
      BY <1>1
    <2>2. QED
      BY <2>1 DEF Pieces
  <1>3. /\ K \in Seq(StreamChunks)
        /\ \A k \in 1..Len(K) : K[k].from = d
        /\ \A k, l \in 1..Len(K) : k <= l =>
             \E i, j \in 1..Len(ps) :
               /\ i <= j /\ (k < l => i < j) /\ Brings(ps[i]) /\ Brings(ps[j])
               /\ K[k].lo = ps[i].lo /\ K[k].hi = ps[i].hi
               /\ K[l].lo = ps[j].lo /\ K[l].hi = ps[j].hi
        /\ \A i \in 1..Len(ps) : Brings(ps[i]) =>
             \E k \in 1..Len(K) : K[k].lo = ps[i].lo /\ K[k].hi = ps[i].hi
    <2>1. MadeOf(K, d, st.client, ps)
      BY <1>1, ChunksOfFacts
    <2> HIDE DEF K
    <2>2. QED
      BY <2>1 DEF MadeOf
  <1> HIDE DEF K
  <1>4. /\ cs \in Seq(StreamChunks) /\ L \in Nat /\ st.gap \in BOOLEAN
        /\ st.client \in Sides /\ st.complete \in BOOLEAN
    BY DEF Streams
  <1>5. r = [st EXCEPT !.gap = @ \/ skips, !.chunks = cs \o K]
    BY DEF Reassembled, K
  <1> HIDE DEF r
  <1>6. /\ cs \o K \in Seq(StreamChunks) /\ Len(cs \o K) = L + Len(K)
        /\ \A i \in 1..L : (cs \o K)[i] = cs[i]
        /\ \A i \in 1..Len(cs \o K) :
             i \in 1..L \/ (L < i /\ i - L \in 1..Len(K) /\ (cs \o K)[i] = K[i - L])
        /\ \A e \in Sides \ {d} : From(cs \o K, e) = From(cs, e)
        /\ \A e \in Sides : \A b \in Int :
             b \in Carried(cs \o K, e) <=>
               b \in Carried(cs, e) \/ (e = d /\ \E k \in 1..Len(K) : K[k].lo <= b /\ b <= K[k].hi)
    <2>1. cs \in Seq(StreamChunks) /\ K \in Seq(StreamChunks)
      BY <1>3, <1>4
    <2>2. \A k \in 1..Len(K) : K[k].from = d
      BY <1>3
    <2> HIDE DEF cs
    <2>3. QED
      BY <2>1, <2>2, AppendedChunks
  <1>7. /\ rs = cs \o K /\ r \in Streams /\ r.client = st.client /\ r.complete = st.complete
        /\ r.gap <=> st.gap \/ skips
    <2>1. skips \in BOOLEAN
      OBVIOUS
    <2> HIDE DEF skips
    <2>2. (st.gap \/ skips) \in BOOLEAN
      BY <1>4, <2>1
    <2>3. QED
      BY <1>4, <1>5, <1>6, <2>2 DEF Streams
  <1>8. \A b \in Int : (\E k \in 1..Len(K) : K[k].lo <= b /\ b <= K[k].hi) <=> Filled(ps, b)
    <2> TAKE b \in Int
    <2>1. ASSUME NEW k \in 1..Len(K), K[k].lo <= b, b <= K[k].hi PROVE Filled(ps, b)
      <3>1. k <= k
        <4>1. k \in Int
          OBVIOUS
        <4>2. QED
          BY <4>1
      <3>2. PICK i \in 1..Len(ps) : K[k].lo = ps[i].lo /\ K[k].hi = ps[i].hi
        BY <1>3, <3>1
      <3>3. QED
        BY <2>1, <3>2 DEF Filled
    <2>2. ASSUME NEW i \in 1..Len(ps), ps[i].lo <= b, b <= ps[i].hi
          PROVE  \E k \in 1..Len(K) : K[k].lo <= b /\ b <= K[k].hi
      <3>1. Brings(ps[i])
        BY <1>2, <2>2 DEF Brings
      <3>2. QED
        BY <1>3, <2>2, <3>1
    <2>3. QED
      BY <2>1, <2>2 DEF Filled
  <1>9. \A e \in Sides : \A b \in Int :
          b \in Carried(rs, e) <=> b \in Carried(cs, e) \/ (e = d /\ Filled(ps, b))
    BY <1>6, <1>7, <1>8
  <1>10. \A i \in 1..Len(rs) :
           \/ i \in 1..L /\ rs[i] = cs[i]
           \/ /\ L < i /\ i - L \in 1..Len(K) /\ rs[i] = K[i - L] /\ rs[i].from = d
    <2>1. \A i \in 1..Len(cs \o K) :
            i \in 1..L \/ (L < i /\ i - L \in 1..Len(K) /\ (cs \o K)[i] = K[i - L])
      BY <1>6
    <2>2. \A i \in 1..L : (cs \o K)[i] = cs[i]
      BY <1>6
    <2>3. rs = cs \o K
      BY <1>7
    <2> HIDE DEF rs, cs, L
    <2>4. \A k \in 1..Len(K) : K[k].from = d
      BY <1>3
    <2> TAKE i \in 1..Len(rs)
    <2>5. CASE i \in 1..L
      BY <2>2, <2>3, <2>5
    <2>6. CASE L < i /\ i - L \in 1..Len(K) /\ (cs \o K)[i] = K[i - L]
      BY <2>3, <2>4, <2>6
    <2>7. QED
      BY <2>1, <2>3, <2>5, <2>6
  <1>11. \A k \in 1..Len(K) : /\ 1 <= K[k].lo /\ K[k].lo <= K[k].hi /\ K[k].hi <= B
                              /\ c <= K[k].lo /\ K[k].hi < n
    <2> TAKE k \in 1..Len(K)
    <2>1. k <= k
      <3>1. k \in Int
        OBVIOUS
      <3>2. QED
        BY <3>1
    <2>2. PICK i \in 1..Len(ps) : Brings(ps[i]) /\ K[k].lo = ps[i].lo /\ K[k].hi = ps[i].hi
      BY <1>3, <2>1
    <2>3. 1 <= ps[i].lo /\ c <= ps[i].lo /\ ps[i].hi < n /\ ps[i].hi <= B
      BY <2>2 DEF Stretch
    <2>4. QED
      BY <2>2, <2>3 DEF Brings
  <1> HIDE DEF rs, cs, L, skips
  <1>12. ASSUME NEW e \in Sides \ {d}, NEW m \in Int, UpTo(cs, st.gap, e, m)
         PROVE  UpTo(rs, r.gap, e, m)
    <2>1. From(rs, e) = From(cs, e) /\ \A i \in From(cs, e) : rs[i] = cs[i]
      BY <1>6, <1>7 DEF From, L
    <2>2. Carried(rs, e) = Carried(cs, e)
      BY <2>1 DEF Carried
    <2>3. QED
      BY <1>7, <1>12, <2>1, <2>2 DEF UpTo
  <1>13. ASSUME UpTo(cs, st.gap, d, c) PROVE UpTo(rs, r.gap, d, n)
    <2>0. \A i \in 1..L : cs[i].lo \in Nat /\ cs[i].hi \in Nat
      <3>1. \A i \in 1..L : cs[i] \in StreamChunks
        BY <1>4 DEF L
      <3>2. QED
        BY <3>1 DEF StreamChunks
    <2>1. \A i \in From(rs, d) : \/ i \in From(cs, d) /\ rs[i] = cs[i]
                                 \/ L < i /\ i - L \in 1..Len(K) /\ rs[i] = K[i - L]
      BY <1>10 DEF From, L
    <2>2. c <= n /\ \A i \in From(cs, d) : cs[i].hi < c /\ i \in 1..L
      BY <1>13 DEF Stretch, UpTo, From, L
    <2>3. \A k \in 1..Len(K) : K[k].lo \in Int /\ K[k].hi \in Int
      <3>1. \A k \in 1..Len(K) : K[k] \in StreamChunks
        BY <1>3
      <3>2. QED
        BY <3>1 DEF StreamChunks
    <2>4. \A i \in From(rs, d) : rs[i].hi < n
      BY <1>11, <2>0, <2>1, <2>2
    <2>5. ASSUME NEW i \in From(rs, d), NEW j \in From(rs, d), i < j
          PROVE  rs[i].hi < rs[j].lo
      <3>1. CASE j \in From(cs, d) /\ rs[j] = cs[j]
        <4>1. i \in From(cs, d) /\ rs[i] = cs[i]
          <5>1. i \in Int /\ j \in 1..L /\ L \in Int
            BY <1>4, <2>2, <3>1 DEF From, L
          <5>2. ~(L < i)
            BY <2>5, <5>1
          <5>3. QED
            BY <2>1, <5>2
        <4>2. QED
          BY <1>13, <2>5, <3>1, <4>1 DEF UpTo
      <3>2. CASE i \in From(cs, d) /\ rs[i] = cs[i] /\ j - L \in 1..Len(K) /\ rs[j] = K[j - L]
        BY <1>11, <2>0, <2>2, <2>3, <3>2
      <3>3. CASE i - L \in 1..Len(K) /\ rs[i] = K[i - L] /\ j - L \in 1..Len(K) /\ rs[j] = K[j - L]
        <4>1. i - L < j - L
          <5>1. i \in Int /\ j \in Int
            BY DEF From
          <5>2. QED
            BY <1>4, <2>5, <5>1
        <4>2. \A k, l \in 1..Len(K) : k < l => K[k].hi < K[l].lo
          <5> TAKE k, l \in 1..Len(K)
          <5> HAVE k < l
          <5>1. k <= l
            <6>1. k \in Int /\ l \in Int
              OBVIOUS
            <6>2. QED
              BY <6>1
          <5>2. PICK a, b \in 1..Len(ps) : /\ a < b /\ Brings(ps[a]) /\ Brings(ps[b])
                                           /\ K[k].hi = ps[a].hi /\ K[l].lo = ps[b].lo
            BY <1>3, <5>1
          <5>3. QED
            BY <5>2 DEF Stretch
        <4>3. QED
          BY <3>3, <4>1, <4>2
      <3>4. QED
        BY <2>1, <3>1, <3>2, <3>3
    <2>6. ASSUME ~r.gap, NEW i \in From(rs, d), NEW b \in rs[i].lo..(n - 1)
          PROVE  b \in Carried(rs, d)
      <3>1. ~st.gap /\ ~skips
        BY <1>7, <2>6
      <3>2. /\ c # Unstarted => \A x \in c..(n - 1) : Filled(ps, x)
            /\ \A k \in 1..Len(ps) : Brings(ps[k]) => \A x \in ps[k].lo..(n - 1) : Filled(ps, x)
        BY <3>1 DEF Stretch, skips
      <3>3. b \in Int
        OBVIOUS
      <3>4. CASE i \in From(cs, d) /\ rs[i] = cs[i]
        <4>1. c # Unstarted
          BY <2>0, <2>2, <3>4 DEF Unstarted
        <4>2. CASE b < c
          <5>1. b \in cs[i].lo..(c - 1)
            BY <2>0, <2>2, <3>3, <3>4, <4>2
          <5>2. b \in Carried(cs, d)
            BY <1>13, <3>1, <3>4, <5>1 DEF UpTo
          <5>3. QED
            BY <1>9, <3>3, <5>2
        <4>3. CASE c <= b
          <5>1. b \in c..(n - 1)
            BY <3>3, <4>3
          <5>2. QED
            BY <1>9, <3>2, <3>3, <4>1, <5>1
        <4>4. QED
          BY <3>3, <4>2, <4>3
      <3>5. CASE i - L \in 1..Len(K) /\ rs[i] = K[i - L]
        <4> DEFINE k == i - L
        <4>1. k \in 1..Len(K) /\ k <= k
          <5>1. k \in 1..Len(K) /\ k \in Int
            BY <3>5
          <5>2. QED
            BY <5>1
        <4>2. PICK p \in 1..Len(ps) : Brings(ps[p]) /\ K[k].lo = ps[p].lo
          BY <1>3, <4>1
        <4>3. b \in ps[p].lo..(n - 1)
          BY <3>5, <4>2
        <4>4. QED
          BY <1>9, <3>2, <3>3, <4>2, <4>3
      <3>6. QED
        BY <2>1, <3>4, <3>5
    <2>7. QED
      BY <2>4, <2>5, <2>6 DEF UpTo
  <1>14. QED
    BY <1>7, <1>9, <1>10, <1>11, <1>12, <1>13 DEF rs, cs, L, skips, r, HandedOver

-----------------------------------------------------------------------------
(* Steps of the assembler *)

\* A stream is not Nil.
LEMMA NotNil ==
  ASSUME NEW st \in Streams PROVE st # Nil
  <1>1. DOMAIN st = {"client", "complete", "gap", "chunks"}
    BY DEF Streams
  <1>2. DOMAIN Nil = {}
    BY DEF Nil
  <1>3. "client" \in DOMAIN st /\ "client" \notin DOMAIN Nil
    BY <1>1, <1>2
  <1>4. QED
    BY <1>3

\* What the chunks and the halves keep to, whatever is captured.
Fits == ChunksFit /\ GapStays /\ \A d \in Sides : HalfFits(d) /\ InStep(d)

Types == /\ sent \in [Sides -> [syn : BOOLEAN, fin : BOOLEAN, bytes : 0..MaxBytes]]
         /\ half \in [Sides -> Halves]
         /\ stream # Nil => stream \in Streams
         /\ past \in [Sides -> {"open", "ended", "reopened"}]

\* The stream a packet finds.
LEMMA KnownFacts ==
  ASSUME Types, NEW d \in Sides, NEW seg
  PROVE  /\ Known(d, seg) \in Streams
         /\ Known(d, seg).chunks = Chunks /\ (Known(d, seg).gap <=> Gap)
         /\ stream # Nil => Known(d, seg) = stream
  <1>1. CASE stream # Nil
    BY <1>1 DEF Known, Types, Chunks, Gap
  <1>2. CASE stream = Nil
    <2>1. ClientSide(d, seg) \in Sides
      BY DEF ClientSide, Sides, Peer
    <2>2. <<>> \in Seq(StreamChunks) /\ FALSE \in BOOLEAN
      OBVIOUS
    <2>3. Known(d, seg) = [client |-> ClientSide(d, seg), complete |-> FALSE,
                           gap |-> FALSE, chunks |-> <<>>]
      BY <1>2 DEF Known
    <2>4. QED
      BY <1>2, <2>1, <2>2, <2>3 DEF Streams, Chunks, Gap
  <1>3. QED
    BY <1>1, <1>2

\* The half as the assembler takes it up.
LEMMA ConnFacts ==
  ASSUME Types, NEW d \in Sides, NEW seg, HalfFits(d), NEW B \in Nat, B >= sent[d].bytes
  PROVE  /\ ConnOf(d, seg).next = half[d].next /\ ConnOf(d, seg).pages = half[d].pages
         /\ Kept(ConnOf(d, seg), B)
  <1>1. half[d] \in Halves /\ sent[d].bytes \in Nat
    <2>1. half[d] \in Halves /\ sent[d] \in [syn : BOOLEAN, fin : BOOLEAN, bytes : 0..MaxBytes]
      BY DEF Types
    <2>2. QED
      BY <2>1
  <1>2. Opened \in Halves /\ Opened.next = Closed.next /\ Opened.pages = Closed.pages
    <2>1. <<>> \in Seq(Segments) /\ TRUE \in BOOLEAN
      OBVIOUS
    <2>2. QED
      BY <2>1 DEF Opened, Closed, Halves
  <1>3. /\ ConnOf(d, seg).next = half[d].next /\ ConnOf(d, seg).pages = half[d].pages
        /\ ConnOf(d, seg) \in Halves
    BY <1>1, <1>2 DEF ConnOf, HalfFits
  <1>4. half[d].next \in {Unstarted} \cup 1..(B + 1)
    BY <1>1 DEF HalfFits
  <1>5. \A i \in 1..Len(half[d].pages) :
          half[d].pages[i].seq >= 1 /\ half[d].pages[i].seq + half[d].pages[i].len <= B + 1
    <2> TAKE i \in 1..Len(half[d].pages)
    <2>1. half[d].pages[i] \in Segments
      BY <1>1 DEF Halves
    <2>2. half[d].pages[i].seq \in Nat /\ half[d].pages[i].len \in Nat
      BY <2>1 DEF Segments
    <2>3. /\ half[d].pages[i].seq >= 1
          /\ half[d].pages[i].seq + half[d].pages[i].len <= sent[d].bytes + 1
      BY DEF HalfFits, WasSent
    <2>4. sent[d].bytes + 1 <= B + 1
      BY <1>1
    <2> DEFINE x == half[d].pages[i].seq
               y == half[d].pages[i].len
               z == sent[d].bytes
    <2>5. x \in Nat /\ y \in Nat /\ z \in Nat /\ x + y <= z + 1 /\ z + 1 <= B + 1
      BY <1>1, <2>2, <2>3, <2>4
    <2> HIDE DEF x, y, z
    <2>6. x + y <= B + 1
      BY <2>5
    <2>7. QED
      BY <2>3, <2>6 DEF x, y
  <1>6. QED
    BY <1>3, <1>4, <1>5 DEF Kept

\* More has been sent.
SentMore ==
  /\ sent' \in [Sides -> [syn : BOOLEAN, fin : BOOLEAN, bytes : 0..MaxBytes]]
  /\ \A e \in Sides : sent'[e].bytes >= sent[e].bytes

\* Who sends more keeps what it sent.
LEMMA SentMoreFacts ==
  ASSUME Types, SentMore
  PROVE  \A e \in Sides : /\ sent[e].bytes \in Nat /\ sent'[e].bytes \in Nat
                          /\ 1..sent[e].bytes \subseteq 1..sent'[e].bytes
  <1>1. \A e \in Sides : sent[e].bytes \in Nat /\ sent'[e].bytes \in Nat
    <2> TAKE e \in Sides
    <2>1. /\ sent[e] \in [syn : BOOLEAN, fin : BOOLEAN, bytes : 0..MaxBytes]
          /\ sent'[e] \in [syn : BOOLEAN, fin : BOOLEAN, bytes : 0..MaxBytes]
      BY DEF Types, SentMore
    <2>2. QED
      BY <2>1
  <1>2. QED
    BY <1>1 DEF SentMore

\* What a direction that was left alone keeps to.
LEMMA OtherDirection ==
  ASSUME Types, Fits, SentMore, pc = "reading", pc' = pc,
         NEW e \in Sides, half'[e] = half[e], past'[e] = past[e],
         \A m \in Int : UpTo(Chunks, Gap, e, m) => UpTo(Chunks', Gap', e, m)
  PROVE  HalfFits(e)' /\ InStep(e)'
  <1>1. \A d \in Sides : /\ sent[d].bytes \in Nat /\ sent'[d].bytes \in Nat
                         /\ sent'[d].bytes >= sent[d].bytes
    BY SentMoreFacts DEF SentMore
  <1>2. half[e] \in Halves /\ half[e].next \in Int
    <2>1. half[e] \in Halves
      BY DEF Types
    <2>2. QED
      BY <2>1 DEF Halves, Unstarted
  <1>3. HalfFits(e)'
    <2>1. half'[e].next \in {Unstarted} \cup 1..(sent'[e].bytes + 1)
      BY <1>1 DEF Fits, HalfFits
    <2>2. \A i \in 1..Len(half'[e].pages) :
            /\ half'[e].pages[i].seq >= 1
            /\ half'[e].pages[i].seq + half'[e].pages[i].len <= sent'[e].bytes + 1
      <3> TAKE i \in 1..Len(half'[e].pages)
      <3>1. WasSent(e, half[e].pages[i])
        BY DEF Fits, HalfFits
      <3>2. half[e].pages[i] \in Segments
        BY <1>2 DEF Halves
      <3> DEFINE x == half[e].pages[i].seq
                 y == half[e].pages[i].len
                 z == sent[e].bytes
                 w == sent'[e].bytes
      <3>3. x \in Nat /\ y \in Nat /\ z \in Nat /\ w \in Nat /\ x + y <= z + 1 /\ z <= w /\ x >= 1
        BY <1>1, <3>1, <3>2 DEF Segments, WasSent
      <3> HIDE DEF x, y, z, w
      <3>4. x >= 1 /\ x + y <= w + 1
        BY <3>3
      <3>5. QED
        BY <3>4 DEF x, y, w
    <2>3. half'[e].open \/ half'[e] = Closed
      BY DEF Fits, HalfFits
    <2>4. QED
      BY <2>1, <2>2, <2>3 DEF HalfFits, WasSent
  <1>4. InStep(e)'
    <2>1. CASE past[e] = "open"
      <3>1. UpTo(Chunks, Gap, e, half[e].next)
        BY <2>1 DEF Fits, InStep
      <3>2. UpTo(Chunks', Gap', e, half'[e].next)
        BY <1>2, <3>1
      <3>3. QED
        BY <2>1, <3>2 DEF InStep
    <2>2. CASE past[e] = "ended"
      <3>1. PICK m \in 0..(sent[e].bytes + 1) : UpTo(Chunks, Gap, e, m)
        BY <2>2 DEF Fits, InStep
      <3>2. half[e] = Closed
        BY <2>2 DEF Fits, InStep
      <3>3. m \in 0..(sent'[e].bytes + 1) /\ m \in Int
        BY <1>1
      <3>4. UpTo(Chunks', Gap', e, m)
        BY <3>1, <3>3
      <3>5. QED
        BY <2>2, <3>2, <3>3, <3>4 DEF InStep
    <2>3. QED
      BY <2>1, <2>2 DEF InStep, Types
  <1>5. QED
    BY <1>3, <1>4

\* What was sent and not captured changes nothing.
LEMMA Unmoved ==
  ASSUME Types, Fits, SentMore, pc = "reading", pc' = pc, UNCHANGED <<half, past>>,
         Chunks' = Chunks, Gap' <=> Gap,
         stream' # Nil => stream' \in Streams
  PROVE  Types' /\ Fits'
  <1>1. \A i \in 1..Len(Chunks) : Chunks[i] \in StreamChunks
    BY DEF Chunks, Types, Streams
  <1>2. Types'
    BY DEF Types, SentMore
  <1>3. \A e \in Sides : HalfFits(e)' /\ InStep(e)'
    <2> TAKE e \in Sides
    <2>1. \A m \in Int : UpTo(Chunks, Gap, e, m) => UpTo(Chunks', Gap', e, m)
      BY DEF UpTo
    <2>2. QED
      BY <2>1, OtherDirection
  <1>4. ChunksFit'
    <2> SUFFICES ASSUME NEW i \in 1..Len(Chunks)
                 PROVE  /\ 1 <= Chunks[i].lo /\ Chunks[i].lo <= Chunks[i].hi
                        /\ Chunks[i].hi <= sent'[Chunks[i].from].bytes
      BY DEF ChunksFit
    <2>1. /\ 1 <= Chunks[i].lo /\ Chunks[i].lo <= Chunks[i].hi
          /\ Chunks[i].hi <= sent[Chunks[i].from].bytes
      BY DEF Fits, ChunksFit
    <2>2. Chunks[i].from \in Sides /\ Chunks[i].hi \in Nat
      BY <1>1 DEF StreamChunks
    <2>3. QED
      BY <2>1, <2>2, SentMoreFacts DEF SentMore
  <1>5. GapStays'
    <2> SUFFICES ASSUME Gap', Reopened' = {}
                 PROVE  \E e \in Sides : \E b \in Missing(e)' :
                          past'[e] = "open" /\ pc' = "reading" => b < half'[e].next
      BY DEF GapStays
    <2>1. Gap /\ Reopened = {}
      BY DEF Reopened
    <2>2. PICK e \in Sides : \E b \in Missing(e) :
            past[e] = "open" /\ pc = "reading" => b < half[e].next
      BY <2>1 DEF Fits, GapStays
    <2>3. Missing(e) \subseteq Missing(e)'
      BY SentMoreFacts DEF Missing, Delivered
    <2>4. QED
      BY <2>2, <2>3 DEF SentMore
  <1>6. QED
    BY <1>2, <1>3, <1>4, <1>5 DEF Fits

\* A captured packet, of what has been sent by then, leaves everything fitting.
LEMMA PacketStep ==
  ASSUME Types, Fits, SentMore, pc = "reading", pc' = pc, NEW d \in Sides, NEW seg,
         Sendable(seg, sent'[d].bytes), ProcessPacket(d, seg)
  PROVE  Types' /\ stream' \in Streams /\ Fits'
  <1> DEFINE K == Known(d, seg)
             B == sent'[d].bytes
             conn == ConnOf(d, seg)
             a == Assembled(conn, seg)
             ends == Ends(a.pieces)
             r == Reassembled(K, d, a.pieces)
  <1>1. /\ K \in Streams /\ K.chunks = Chunks /\ (K.gap <=> Gap)
        /\ stream # Nil => K = stream
    BY KnownFacts
  <1>2. \A e \in Sides : sent[e].bytes \in Nat /\ sent'[e].bytes \in Nat
                         /\ sent'[e].bytes >= sent[e].bytes
    BY SentMoreFacts DEF SentMore
  <1>3. \A e \in Sides : 1..sent[e].bytes \subseteq 1..sent'[e].bytes
    BY SentMoreFacts
  <1>4. \A e \in Sides : half[e] \in Halves /\ half[e].next \in Int
    <2> TAKE e \in Sides
    <2>1. half[e] \in Halves
      BY DEF Types
    <2>2. QED
      BY <2>1 DEF Halves, Unstarted
  <1>6. ASSUME UNCHANGED <<half, past>>, stream' = K
        PROVE  Types' /\ stream' \in Streams /\ Fits'
    <2>1. stream' \in Streams /\ Chunks' = Chunks /\ (Gap' <=> Gap)
      BY <1>1, <1>6, NotNil DEF Chunks, Gap
    <2>2. QED
      BY <1>6, <2>1, Unmoved
  <1>7. ASSUME half' = [half EXCEPT ![d] = IF ends THEN Closed
                          ELSE [open |-> TRUE, next |-> a.next, pages |-> a.pages]],
               stream' = [r EXCEPT !.complete = @ \/ ends],
               past' = [past EXCEPT ![d] = IF @ # "open" THEN "reopened"
                                           ELSE IF ends THEN "ended" ELSE "open"]
        PROVE  Types' /\ stream' \in Streams /\ Fits'
    <2>1. conn.next = half[d].next /\ Kept(conn, B) /\ B \in Nat
      BY <1>2, ConnFacts DEF Fits
    <2>2. /\ Stretch(a.pieces, half[d].next, a.next, B) /\ a.next \in {Unstarted} \cup 1..(B + 1)
          /\ a.pages \in Seq(Segments)
          /\ \A i \in 1..Len(a.pages) : a.pages[i].seq >= 1 /\ a.pages[i].seq + a.pages[i].len <= B + 1
      BY <2>1, AssembledBrings
    <2>3. half[d].next \in Int /\ a.next \in Int
      BY <1>4, <2>1, <2>2 DEF Unstarted
    <2> DEFINE ps == a.pieces
               c == half[d].next
               n == a.next
    <2>3a. HandedOver(K, r, d, ps, c, n, B)
      BY <1>1, <2>1, <2>2, <2>3, HandOver
    <2>4. /\ r \in Streams /\ r.client = K.client /\ r.complete = K.complete
          /\ r.gap <=> K.gap \/ \E i \in 1..Len(ps) : ps[i].skip
          /\ \A e \in Sides : \A b \in Int :
               b \in Carried(r.chunks, e) <=>
                 b \in Carried(K.chunks, e) \/ (e = d /\ Filled(ps, b))
          /\ \A i \in 1..Len(r.chunks) :
               \/ i \in 1..Len(K.chunks) /\ r.chunks[i] = K.chunks[i]
               \/ /\ r.chunks[i].from = d /\ r.chunks[i].hi <= B
                  /\ 1 <= r.chunks[i].lo /\ r.chunks[i].lo <= r.chunks[i].hi
          /\ \A e \in Sides \ {d} : \A m \in Int :
               UpTo(K.chunks, K.gap, e, m) => UpTo(r.chunks, r.gap, e, m)
          /\ UpTo(K.chunks, K.gap, d, c) => UpTo(r.chunks, r.gap, d, n)
      <3> HIDE DEF K, B, a, r, ps, c, n
      <3>1. QED
        BY <2>3a DEF HandedOver
    <2>5. /\ stream' \in Streams /\ stream'.chunks = r.chunks /\ stream'.gap = r.gap
      <3>1. ends \in BOOLEAN
        BY DEF Ends
      <3> HIDE DEF r, ends
      <3>2. r.complete \in BOOLEAN /\ (r.complete \/ ends) \in BOOLEAN
        BY <2>4, <3>1 DEF Streams
      <3>3. QED
        BY <1>7, <2>4, <3>2 DEF Streams
    <2>6. Chunks' = r.chunks /\ (Gap' <=> r.gap)
      BY <2>5, NotNil DEF Chunks, Gap
    <2>7. \A e \in Sides \ {d} : half'[e] = half[e] /\ past'[e] = past[e]
      BY <1>7 DEF Types
    <2>8. /\ half'[d] = IF ends THEN Closed
                        ELSE [open |-> TRUE, next |-> a.next, pages |-> a.pages]
          /\ past'[d] = IF past[d] # "open" THEN "reopened" ELSE IF ends THEN "ended" ELSE "open"
      BY <1>7 DEF Types
    <2> HIDE DEF ends, r, a, K, B, ps, c, n
    <2>9. Types'
      <3>1. Closed \in Halves
        <4>1. <<>> \in Seq(Segments) /\ FALSE \in BOOLEAN
          OBVIOUS
        <4>2. QED
          BY <4>1 DEF Closed, Halves
      <3>2. [open |-> TRUE, next |-> a.next, pages |-> a.pages] \in Halves
        <4>1. TRUE \in BOOLEAN /\ a.next \in Nat \cup {Unstarted}
          BY <2>1, <2>2
        <4>2. QED
          BY <2>2, <4>1 DEF Halves
      <3>3. half' \in [Sides -> Halves]
        BY <1>7, <3>1, <3>2 DEF Types
      <3>4. past' \in [Sides -> {"open", "ended", "reopened"}]
        BY <1>7 DEF Types
      <3>5. QED
        BY <2>5, <3>3, <3>4 DEF Types, SentMore
    <2>10. ChunksFit'
      <3> SUFFICES ASSUME NEW i \in 1..Len(r.chunks)
                   PROVE  /\ 1 <= r.chunks[i].lo /\ r.chunks[i].lo <= r.chunks[i].hi
                          /\ r.chunks[i].hi <= sent'[r.chunks[i].from].bytes
        BY <2>6 DEF ChunksFit
      <3>1. CASE i \in 1..Len(K.chunks) /\ r.chunks[i] = K.chunks[i]
        <4>1. /\ 1 <= K.chunks[i].lo /\ K.chunks[i].lo <= K.chunks[i].hi
              /\ K.chunks[i].hi <= sent[K.chunks[i].from].bytes
          BY <1>1, <3>1 DEF Fits, ChunksFit
        <4>2. K.chunks[i] \in StreamChunks
          BY <1>1, <3>1 DEF Streams
        <4>3. K.chunks[i].from \in Sides /\ K.chunks[i].hi \in Nat
          BY <4>2 DEF StreamChunks
        <4>4. QED
          BY <1>2, <3>1, <4>1, <4>3
      <3>2. CASE /\ r.chunks[i].from = d /\ r.chunks[i].hi <= B
                 /\ 1 <= r.chunks[i].lo /\ r.chunks[i].lo <= r.chunks[i].hi
        BY <3>2 DEF B
      <3>3. QED
        BY <2>4, <3>1, <3>2
    <2>11. HalfFits(d)' /\ InStep(d)'
      <3>1. HalfFits(d)'
        <4>1. CASE ends
          BY <2>8, <4>1 DEF HalfFits, Closed
        <4>2. CASE ~ends
          <5>1. half'[d].open /\ half'[d].next = a.next /\ half'[d].pages = a.pages
            BY <2>8, <4>2
          <5>2. QED
            BY <2>2, <5>1 DEF HalfFits, WasSent, B
        <4>3. QED
          BY <4>1, <4>2
      <3>2. ASSUME past'[d] # "reopened" PROVE past[d] = "open" /\ UpTo(Chunks', Gap', d, a.next)
        <4>1. past[d] = "open"
          BY <2>8, <3>2
        <4>2. UpTo(Chunks, Gap, d, half[d].next)
          BY <4>1 DEF Fits, InStep
        <4>3. UpTo(K.chunks, K.gap, d, half[d].next)
          BY <1>1, <4>2 DEF UpTo
        <4>4. UpTo(r.chunks, r.gap, d, a.next)
          BY <2>4, <4>3 DEF c, n
        <4>5. QED
          BY <2>6, <4>1, <4>4 DEF UpTo
      <3>3. InStep(d)'
        <4>1. CASE past'[d] = "open"
          <5>1. half'[d].next = a.next /\ UpTo(Chunks', Gap', d, a.next)
            BY <2>8, <3>2, <4>1
          <5>2. UpTo(Chunks', Gap', d, half'[d].next)
            BY <5>1
          <5>3. QED
            BY <4>1, <5>2 DEF InStep
        <4>2. CASE past'[d] = "ended"
          <5>1. half'[d] = Closed /\ UpTo(Chunks', Gap', d, a.next)
            BY <2>8, <3>2, <4>2
          <5>2. \E m \in 0..(B + 1) : UpTo(Chunks', Gap', d, m)
            <6>1. CASE a.next = Unstarted
              <7>1. \A i \in From(Chunks', d) : Chunks'[i].hi \in Nat
                <8>1. \A i \in 1..Len(r.chunks) : r.chunks[i] \in StreamChunks
                  BY <2>4 DEF Streams
                <8>2. QED
                  BY <2>6, <8>1 DEF StreamChunks, From
              <7>2. From(Chunks', d) = {}
                BY <5>1, <6>1, <7>1 DEF UpTo, Unstarted
              <7>3. UpTo(Chunks', Gap', d, 0)
                BY <7>2 DEF UpTo
              <7>4. QED
                BY <2>1, <7>3
            <6>2. CASE a.next \in 1..(B + 1)
              BY <2>1, <5>1, <6>2
            <6>3. QED
              BY <2>2, <6>1, <6>2
          <5>3. QED
            BY <4>2, <5>1, <5>2 DEF InStep, B
        <4>3. QED
          BY <2>9, <4>1, <4>2 DEF InStep, Types
      <3>4. QED
        BY <3>1, <3>3
    <2>12. ASSUME NEW e \in Sides \ {d} PROVE HalfFits(e)' /\ InStep(e)'
      <3>1. \A m \in Int : UpTo(Chunks, Gap, e, m) => UpTo(Chunks', Gap', e, m)
        <4> TAKE m \in Int
        <4> HAVE UpTo(Chunks, Gap, e, m)
        <4>1. UpTo(K.chunks, K.gap, e, m)
          BY <1>1 DEF UpTo
        <4>2. UpTo(r.chunks, r.gap, e, m)
          BY <2>4, <4>1
        <4>3. QED
          BY <2>6, <4>2 DEF UpTo
      <3>2. QED
        BY <2>7, <3>1, OtherDirection
    <2>13. GapStays'
      <3> SUFFICES ASSUME Gap', Reopened' = {}
                   PROVE  \E e \in Sides : \E b \in Missing(e)' :
                            past'[e] = "open" /\ pc' = "reading" => b < half'[e].next
        BY DEF GapStays
      <3>1. Reopened = {} /\ past[d] = "open"
        <4>1. past'[d] # "reopened"
          BY DEF Reopened
        <4>2. past[d] = "open"
          BY <2>8, <4>1
        <4>3. \A e \in Sides : past[e] # "reopened"
          BY <2>7, <4>2 DEF Reopened
        <4>4. QED
          BY <4>2, <4>3 DEF Reopened
      <3>2. past'[d] = "open" => half'[d].next = a.next
        BY <2>8
      <3>3. \A e \in Sides : \A b \in 1..sent'[e].bytes :
              b \in Missing(e)' <=> b \notin Carried(K.chunks, e) /\ ~(e = d /\ Filled(ps, b))
        BY <2>4, <2>6 DEF Missing, Delivered
      <3>4. CASE Gap
        <4>1a. PICK e \in Sides : \E b \in Missing(e) :
                   past[e] = "open" /\ pc = "reading" => b < half[e].next
          BY <3>1, <3>4 DEF Fits, GapStays
        <4>1. PICK b \in Missing(e) : past[e] = "open" /\ pc = "reading" => b < half[e].next
          BY <4>1a
        <4>2. b \in 1..sent'[e].bytes /\ b \notin Carried(K.chunks, e)
          BY <1>1, <1>3, <4>1 DEF Missing, Delivered
        <4>3. CASE e # d
          BY <2>7, <3>3, <4>1, <4>2, <4>3
        <4>4. CASE e = d
          <5>1. b < half[d].next
            BY <3>1, <4>1, <4>4
          <5>2. ~Filled(ps, b)
            <6> SUFFICES ASSUME NEW i \in 1..Len(ps), ps[i].lo <= b, b <= ps[i].hi PROVE FALSE
              BY DEF Filled
            <6>1. ps[i] \in Pieces
              BY <2>2 DEF Stretch, ps
            <6>2. ps[i].lo \in Int /\ ps[i].hi \in Int
              BY <6>1 DEF Pieces
            <6>3. Brings(ps[i])
              BY <6>2, <4>2 DEF Brings
            <6>4. half[d].next <= ps[i].lo
              BY <2>2, <6>3 DEF Stretch, ps
            <6>5. QED
              BY <2>3, <4>2, <5>1, <6>2, <6>4
          <5>3. half[d].next <= a.next
            BY <2>2 DEF Stretch
          <5>4. b < a.next
            BY <2>3, <4>2, <5>1, <5>3
          <5>5. QED
            BY <3>2, <3>3, <4>2, <4>4, <5>2, <5>4
        <4>5. QED
          BY <4>3, <4>4
      <3>5. CASE ~Gap
        <4>1. \E i \in 1..Len(ps) : ps[i].skip
          BY <1>1, <2>4, <2>6, <3>5
        <4>2. PICK b \in 1..B : half[d].next <= b /\ b < a.next /\ ~Filled(ps, b)
          BY <2>2, <4>1 DEF Stretch, ps
        <4>3. b \notin Carried(K.chunks, d)
          <5> SUFFICES ASSUME NEW i \in From(Chunks, d), b \in Chunks[i].lo..Chunks[i].hi
                       PROVE  FALSE
            BY <1>1 DEF Carried
          <5>1. Chunks[i].hi < half[d].next
            BY <3>1 DEF Fits, InStep, UpTo
          <5>2. Chunks[i] \in StreamChunks
            BY <1>1 DEF Streams, From
          <5>3. Chunks[i].hi \in Nat
            BY <5>2 DEF StreamChunks
          <5>4. QED
            BY <2>3, <4>2, <5>1, <5>3
        <4>4. QED
          BY <3>2, <3>3, <4>2, <4>3 DEF B
      <3>6. QED
        BY <3>4, <3>5
    <2>14. QED
      BY <2>5, <2>9, <2>10, <2>11, <2>12, <2>13 DEF Fits
  <1>8. QED
    BY <1>6, <1>7 DEF ProcessPacket

\* The stream at the end of the file, when the directions of F are flushed.
Flushing(st, F) ==
  /\ st \in Streams
  /\ \A i \in 1..Len(st.chunks) :
       /\ 1 <= st.chunks[i].lo /\ st.chunks[i].lo <= st.chunks[i].hi
       /\ st.chunks[i].hi <= sent[st.chunks[i].from].bytes
  /\ \A e \in Sides : past[e] # "reopened" =>
       IF e \in F \/ past[e] = "ended"
       THEN \E n \in 0..(sent[e].bytes + 1) : UpTo(st.chunks, st.gap, e, n)
       ELSE UpTo(st.chunks, st.gap, e, half[e].next)
  /\ st.gap /\ Reopened = {} =>
       \E e \in Sides : \E b \in (1..sent[e].bytes) \ Carried(st.chunks, e) :
         past[e] = "open" /\ e \notin F => b < half[e].next

\* A direction that was never counted from has no chunks.
LEMMA NothingYet ==
  ASSUME NEW st \in Streams, NEW d \in Sides, UpTo(st.chunks, st.gap, d, Unstarted)
  PROVE  UpTo(st.chunks, st.gap, d, 0)
  <1>1. \A i \in 1..Len(st.chunks) : st.chunks[i].hi \in Nat
    <2>1. \A i \in 1..Len(st.chunks) : st.chunks[i] \in StreamChunks
      BY DEF Streams
    <2>2. QED
      BY <2>1 DEF StreamChunks
  <1>2. From(st.chunks, d) = {}
    BY <1>1 DEF UpTo, Unstarted, From
  <1>3. QED
    BY <1>2 DEF UpTo

\* FlushAll of one direction after those of F.
LEMMA FlushStep ==
  ASSUME Types, \A e \in Sides : HalfFits(e), NEW F \in SUBSET Sides, NEW d \in Sides \ F,
         NEW st, Flushing(st, F), past[d] = "ended" => half[d] = Closed
  PROVE  Flushing(Flushed(st, d), F \cup {d})
  <1>0. st \in Streams
    BY DEF Flushing
  <1>1. \A e \in Sides : sent[e].bytes \in Nat
    <2> TAKE e \in Sides
    <2>1. sent[e] \in [syn : BOOLEAN, fin : BOOLEAN, bytes : 0..MaxBytes]
      BY DEF Types
    <2>2. QED
      BY <2>1
  <1>2. half[d] \in Halves /\ half[d].next \in {Unstarted} \cup 1..(sent[d].bytes + 1)
    BY DEF Types, HalfFits
  <1>3. \A e \in Sides : past[e] # "reopened" /\ e # d =>
          IF e \in F \cup {d} \/ past[e] = "ended"
          THEN \E n \in 0..(sent[e].bytes + 1) : UpTo(st.chunks, st.gap, e, n)
          ELSE UpTo(st.chunks, st.gap, e, half[e].next)
    BY DEF Flushing
  <1>4. ASSUME ~half[d].open PROVE Flushing(Flushed(st, d), F \cup {d})
    <2>1. Flushed(st, d) = st
      BY <1>4 DEF Flushed
    <2>2. ASSUME past[d] # "reopened"
          PROVE  \E n \in 0..(sent[d].bytes + 1) : UpTo(st.chunks, st.gap, d, n)
      <3>1. CASE past[d] = "ended"
        BY <3>1 DEF Flushing
      <3>2. CASE past[d] = "open"
        <4>1. UpTo(st.chunks, st.gap, d, half[d].next)
          BY <3>2 DEF Flushing
        <4>2. half[d].next = Unstarted
          BY <1>4 DEF HalfFits, Closed
        <4>3. UpTo(st.chunks, st.gap, d, 0)
          BY <1>0, <4>1, <4>2, NothingYet
        <4>4. QED
          BY <1>1, <4>3
      <3>3. QED
        BY <2>2, <3>1, <3>2 DEF Types
    <2>3. st.gap /\ Reopened = {} =>
            \E e \in Sides : \E b \in (1..sent[e].bytes) \ Carried(st.chunks, e) :
              past[e] = "open" /\ e \notin F \cup {d} => b < half[e].next
      BY DEF Flushing
    <2>4. \A i \in 1..Len(st.chunks) :
            /\ 1 <= st.chunks[i].lo /\ st.chunks[i].lo <= st.chunks[i].hi
            /\ st.chunks[i].hi <= sent[st.chunks[i].from].bytes
      BY DEF Flushing
    <2>5. \A e \in Sides : past[e] # "reopened" =>
            IF e \in F \cup {d} \/ past[e] = "ended"
            THEN \E n \in 0..(sent[e].bytes + 1) : UpTo(st.chunks, st.gap, e, n)
            ELSE UpTo(st.chunks, st.gap, e, half[e].next)
      BY <1>3, <2>2
    <2>6. QED
      BY <1>0, <2>1, <2>3, <2>4, <2>5 DEF Flushing
  <1>5. ASSUME half[d].open PROVE Flushing(Flushed(st, d), F \cup {d})
    <2> DEFINE B == sent[d].bytes
               c == half[d].next
               a == Deliver(half[d], TRUE)
               ps == a.pieces
               n == a.next
               r == Reassembled(st, d, ps)
    <2>1. B \in Nat /\ c \in Int
      BY <1>1, <1>2 DEF Unstarted
    <2>2. Fitting(half[d], B)
      <3>1. \A i \in 1..Len(half[d].pages) :
              half[d].pages[i].seq >= 1 /\ half[d].pages[i].seq + half[d].pages[i].len <= B + 1
        BY DEF HalfFits, WasSent
      <3>2. half[d].pages \in Seq(Segments) /\ half[d].next <= B + 1
        BY <1>1, <1>2 DEF Halves, Unstarted
      <3>3. QED
        BY <1>2, <2>1, <3>1, <3>2 DEF Fitting, Pages
    <2>3. Stretch(ps, c, n, B) /\ n \in {Unstarted} \cup 1..(B + 1)
      <3>1. TRUE \in BOOLEAN
        OBVIOUS
      <3>2. QED
        BY <2>1, <2>2, <3>1, DeliverBrings
    <2>4. n \in Int
      <3> HIDE DEF n
      <3>1. QED
        BY <2>1, <2>3 DEF Unstarted
    <2>5. HandedOver(st, r, d, ps, c, n, B)
      BY <1>0, <2>1, <2>3, <2>4, HandOver
    <2>6. /\ Flushed(st, d) \in Streams
          /\ Flushed(st, d).chunks = r.chunks /\ Flushed(st, d).gap = r.gap
      <3>1. Flushed(st, d) = [r EXCEPT !.complete = TRUE]
        BY <1>5 DEF Flushed
      <3>2. r \in Streams /\ TRUE \in BOOLEAN
        BY <2>5 DEF HandedOver
      <3> HIDE DEF r
      <3>3. QED
        BY <3>1, <3>2 DEF Streams
    <2> HIDE DEF B, c, a, ps, n, r
    <2>7. \A i \in 1..Len(r.chunks) :
            /\ 1 <= r.chunks[i].lo /\ r.chunks[i].lo <= r.chunks[i].hi
            /\ r.chunks[i].hi <= sent[r.chunks[i].from].bytes
      <3> TAKE i \in 1..Len(r.chunks)
      <3>1. CASE i \in 1..Len(st.chunks) /\ r.chunks[i] = st.chunks[i]
        BY <3>1 DEF Flushing
      <3>2. CASE /\ r.chunks[i].from = d /\ r.chunks[i].hi <= B
                 /\ 1 <= r.chunks[i].lo /\ r.chunks[i].lo <= r.chunks[i].hi
        BY <3>2 DEF B
      <3>3. QED
        BY <2>5, <3>1, <3>2 DEF HandedOver
    <2>8. ASSUME NEW e \in Sides, past[e] # "reopened"
          PROVE  IF e \in F \cup {d} \/ past[e] = "ended"
                 THEN \E m \in 0..(sent[e].bytes + 1) : UpTo(r.chunks, r.gap, e, m)
                 ELSE UpTo(r.chunks, r.gap, e, half[e].next)
      <3>1. CASE e = d
        <4>1. past[d] = "open"
          <5>1. past[d] # "ended"
            BY <1>5 DEF Closed
          <5>2. QED
            BY <2>8, <3>1, <5>1 DEF Types
        <4>2. UpTo(st.chunks, st.gap, d, c)
          BY <4>1 DEF Flushing, c
        <4>3. UpTo(r.chunks, r.gap, d, n)
          BY <2>5, <4>2 DEF HandedOver
        <4>4. \E m \in 0..(B + 1) : UpTo(r.chunks, r.gap, d, m)
          <5>1. CASE n = Unstarted
            <6>1. UpTo(r.chunks, r.gap, d, 0)
              BY <2>5, <4>3, <5>1, NothingYet DEF HandedOver
            <6>2. QED
              BY <2>1, <6>1
          <5>2. CASE n \in 1..(B + 1)
            BY <2>1, <4>3, <5>2
          <5>3. QED
            BY <2>3, <5>1, <5>2
        <4>5. QED
          BY <3>1, <4>4 DEF B
      <3>2. CASE e # d
        <4>1. \A m \in Int : UpTo(st.chunks, st.gap, e, m) => UpTo(r.chunks, r.gap, e, m)
          BY <2>5, <3>2 DEF HandedOver
        <4>2. \A m \in 0..(sent[e].bytes + 1) : m \in Int
          OBVIOUS
        <4>3. half[e].next \in Int
          <5>1. half[e] \in Halves
            BY DEF Types
          <5>2. QED
            BY <5>1 DEF Halves, Unstarted
        <4>4. QED
          BY <1>3, <2>8, <3>2, <4>1, <4>2, <4>3
      <3>3. QED
        BY <3>1, <3>2
    <2>9. ASSUME r.gap, Reopened = {}
          PROVE  \E e \in Sides : \E b \in (1..sent[e].bytes) \ Carried(r.chunks, e) :
                   past[e] = "open" /\ e \notin F \cup {d} => b < half[e].next
      <3>1. past[d] = "open"
        <4>1. past[d] # "ended" /\ past[d] # "reopened"
          BY <1>5, <2>9 DEF Closed, Reopened
        <4>2. QED
          BY <4>1 DEF Types
      <3>2. \A i \in 1..Len(ps) : ps[i].lo \in Int /\ ps[i].hi \in Int
        <4>1. \A i \in 1..Len(ps) : ps[i] \in Pieces
          BY <2>3 DEF Stretch
        <4>2. QED
          BY <4>1 DEF Pieces
      <3>3. \A e \in Sides : \A b \in 1..sent[e].bytes :
              b \in Carried(r.chunks, e) <=>
                b \in Carried(st.chunks, e) \/ (e = d /\ Filled(ps, b))
        BY <2>5 DEF HandedOver
      <3>4. CASE st.gap
        <4>1. PICK e \in Sides : \E b \in (1..sent[e].bytes) \ Carried(st.chunks, e) :
                past[e] = "open" /\ e \notin F => b < half[e].next
          BY <2>9, <3>4 DEF Flushing
        <4>2. PICK b \in (1..sent[e].bytes) \ Carried(st.chunks, e) :
                past[e] = "open" /\ e \notin F => b < half[e].next
          BY <4>1
        <4>3. e = d => ~Filled(ps, b)
          <5> SUFFICES ASSUME e = d, NEW i \in 1..Len(ps), ps[i].lo <= b, b <= ps[i].hi
                       PROVE  FALSE
            BY DEF Filled
          <5>1. b < c
            BY <3>1, <4>2 DEF c
          <5>2. Brings(ps[i])
            BY <3>2, <4>2 DEF Brings
          <5>3. c <= ps[i].lo
            BY <2>3, <5>2 DEF Stretch
          <5>4. QED
            BY <2>1, <3>2, <4>2, <5>1, <5>3
        <4>4. b \in (1..sent[e].bytes) \ Carried(r.chunks, e)
          BY <3>3, <4>2, <4>3
        <4>5. QED
          BY <4>2, <4>4
      <3>5. CASE ~st.gap
        <4>1. \E i \in 1..Len(ps) : ps[i].skip
          BY <2>5, <2>9, <3>5 DEF HandedOver
        <4>2. PICK b \in 1..B : c <= b /\ ~Filled(ps, b)
          BY <2>3, <4>1 DEF Stretch
        <4>3. b \notin Carried(st.chunks, d)
          <5> SUFFICES ASSUME NEW i \in From(st.chunks, d), b \in st.chunks[i].lo..st.chunks[i].hi
                       PROVE  FALSE
            BY DEF Carried
          <5>1. st.chunks[i].hi < c
            BY <3>1 DEF Flushing, UpTo, c
          <5>2. st.chunks[i] \in StreamChunks
            BY <1>0 DEF Streams, From
          <5>3. st.chunks[i].hi \in Nat
            BY <5>2 DEF StreamChunks
          <5>4. QED
            BY <2>1, <4>2, <5>1, <5>3
        <4>4. QED
          BY <3>3, <4>2, <4>3 DEF B
      <3>6. QED
        BY <3>4, <3>5
    <2>10. QED
      BY <2>6, <2>7, <2>8, <2>9 DEF Flushing
  <1>6. QED
    BY <1>4, <1>5

\* GetStreams leaves everything fitting.
LEMMA GetStreamsStep ==
  ASSUME Types, Fits, GetStreams
  PROVE  Types' /\ Fits'
  <1>1. PICK d \in Sides : stream' = Flushed(Flushed(stream, d), Peer(d))
    BY DEF GetStreams
  <1>2. stream \in Streams /\ pc = "reading" /\ pc' = "done" /\ UNCHANGED <<sent, past>>
    BY DEF GetStreams, Types
  <1>3. half' = [e \in Sides |-> Closed]
    BY DEF GetStreams
  <1>4. Chunks = stream.chunks /\ (Gap <=> stream.gap)
    BY <1>2, NotNil DEF Chunks, Gap
  <1>5. Flushing(stream, {})
    <2>1. \A i \in 1..Len(stream.chunks) :
            /\ 1 <= stream.chunks[i].lo /\ stream.chunks[i].lo <= stream.chunks[i].hi
            /\ stream.chunks[i].hi <= sent[stream.chunks[i].from].bytes
      BY <1>4 DEF Fits, ChunksFit
    <2>2. ASSUME NEW e \in Sides, past[e] # "reopened"
          PROVE  IF e \in {} \/ past[e] = "ended"
                 THEN \E n \in 0..(sent[e].bytes + 1) : UpTo(stream.chunks, stream.gap, e, n)
                 ELSE UpTo(stream.chunks, stream.gap, e, half[e].next)
      <3>1. InStep(e)
        BY DEF Fits
      <3>2. UpTo(Chunks, Gap, e, half[e].next) => UpTo(stream.chunks, stream.gap, e, half[e].next)
        BY <1>4 DEF UpTo
      <3>3. \A n : UpTo(Chunks, Gap, e, n) => UpTo(stream.chunks, stream.gap, e, n)
        BY <1>4 DEF UpTo
      <3>4. CASE past[e] = "open"
        BY <1>2, <3>1, <3>2, <3>4 DEF InStep
      <3>5. CASE past[e] = "ended"
        BY <1>2, <3>1, <3>3, <3>5 DEF InStep
      <3>6. QED
        BY <2>2, <3>4, <3>5 DEF Types
    <2>3. ASSUME stream.gap, Reopened = {}
          PROVE  \E e \in Sides : \E b \in (1..sent[e].bytes) \ Carried(stream.chunks, e) :
                   past[e] = "open" /\ e \notin {} => b < half[e].next
      <3>1. PICK e \in Sides : \E b \in Missing(e) :
              past[e] = "open" /\ pc = "reading" => b < half[e].next
        BY <1>4, <2>3 DEF Fits, GapStays
      <3>2. Missing(e) = (1..sent[e].bytes) \ Carried(stream.chunks, e)
        BY <1>4 DEF Missing, Delivered
      <3>3. QED
        BY <1>2, <3>1, <3>2
    <2>4. QED
      BY <1>2, <2>1, <2>2, <2>3 DEF Flushing
  <1>6. \A e \in Sides : HalfFits(e) /\ (past[e] = "ended" => half[e] = Closed)
    BY DEF Fits, InStep
  <1>7. Peer(d) \in Sides \ {d} /\ {d, Peer(d)} = Sides
    BY DEF Peer, Sides
  <1>8. Flushing(Flushed(stream, d), {} \cup {d})
    <2>1. {} \in SUBSET Sides /\ d \in Sides \ {}
      OBVIOUS
    <2>2. QED
      BY <1>5, <1>6, <2>1, FlushStep
  <1>9. Flushing(stream', Sides)
    <2> DEFINE st == Flushed(stream, d)
               p == Peer(d)
    <2>1. Flushing(st, {d}) /\ p \in Sides \ {d} /\ {d} \in SUBSET Sides
      <3>1. {} \cup {d} = {d}
        OBVIOUS
      <3>2. QED
        BY <1>7, <1>8, <3>1
    <2>2. stream' = Flushed(st, p) /\ {d} \cup {p} = Sides
      BY <1>1, <1>7
    <2> HIDE DEF st, p
    <2>3. Flushing(Flushed(st, p), {d} \cup {p})
      BY <1>6, <2>1, FlushStep
    <2>4. QED
      BY <2>2, <2>3
  <1>10. stream' \in Streams /\ Chunks' = stream'.chunks /\ (Gap' <=> stream'.gap)
    <2>1. stream' \in Streams
      BY <1>9 DEF Flushing
    <2>2. QED
      BY <2>1, NotNil DEF Chunks, Gap
  <1>11. Types'
    <2>1. <<>> \in Seq(Segments) /\ FALSE \in BOOLEAN
      OBVIOUS
    <2>2. Closed \in Halves
      BY <2>1 DEF Closed, Halves
    <2>3. QED
      BY <1>2, <1>3, <1>10, <2>2 DEF Types
  <1>12. ChunksFit'
    BY <1>2, <1>9, <1>10 DEF ChunksFit, Flushing
  <1>13. \A e \in Sides : HalfFits(e)'
    BY <1>3 DEF HalfFits, Closed
  <1>14. \A e \in Sides : InStep(e)'
    <2> TAKE e \in Sides
    <2>1. CASE past[e] = "reopened"
      BY <1>2, <2>1 DEF InStep
    <2>2. CASE past[e] # "reopened"
      <3>1. \E n \in 0..(sent[e].bytes + 1) : UpTo(stream'.chunks, stream'.gap, e, n)
        BY <1>9, <2>2 DEF Flushing
      <3>2. \E n \in 0..(sent'[e].bytes + 1) : UpTo(Chunks', Gap', e, n)
        BY <1>2, <1>10, <3>1 DEF UpTo
      <3>3. QED
        BY <1>2, <1>3, <3>2 DEF InStep
    <2>3. QED
      BY <2>1, <2>2
  <1>15. GapStays'
    <2> SUFFICES ASSUME Gap', Reopened' = {}
                 PROVE  \E e \in Sides : \E b \in Missing(e)' :
                          past'[e] = "open" /\ pc' = "reading" => b < half'[e].next
      BY DEF GapStays
    <2>1. stream'.gap /\ Reopened = {}
      BY <1>2, <1>10 DEF Reopened
    <2>2. PICK e \in Sides : \E b \in (1..sent[e].bytes) \ Carried(stream'.chunks, e) : TRUE
      BY <1>9, <2>1 DEF Flushing
    <2>3. Missing(e)' = (1..sent[e].bytes) \ Carried(stream'.chunks, e)
      BY <1>2, <1>10 DEF Missing, Delivered
    <2>4. QED
      BY <1>2, <2>2, <2>3
  <1>16. QED
    BY <1>11, <1>12, <1>13, <1>14, <1>15 DEF Fits

-----------------------------------------------------------------------------
(* Captures in the order of the wire *)

\* Without pages nothing is delivered.
LEMMA DeliverNothing ==
  ASSUME NEW conn, conn.next \in Int, conn.pages = <<>>, NEW force \in BOOLEAN
  PROVE  /\ Deliver(conn, force).next = conn.next
         /\ Deliver(conn, force).pieces = <<>> /\ Deliver(conn, force).pages = <<>>
  <1> DEFINE n == Ready(conn, force)
  <1>1. conn.pages \in Seq(Segments) /\ Len(conn.pages) = 0
    OBVIOUS
  <1>2. n = 0
    <2>1. n \in 0..0
      BY <1>1, ReadyFacts
    <2> HIDE DEF n
    <2>2. QED
      BY <2>1
  <1>3. Due(conn, 0) = conn.next
    <2>1. conn.next >= 0 \/ conn.next < 0
      OBVIOUS
    <2>2. PICK B \in Nat : conn.next <= B + 1
      <3>1. CASE conn.next >= 0
        <4> DEFINE x == conn.next
        <4>1. x \in Nat /\ x <= x + 1
          BY <3>1
        <4>2. QED
          BY <4>1
      <3>2. CASE conn.next < 0
        <4>1. 0 \in Nat /\ conn.next <= 0 + 1
          BY <3>2
        <4>2. QED
          BY <4>1
      <3>3. QED
        BY <2>1, <3>1, <3>2
    <2>3. Pages(conn, B)
      BY <1>1, <2>2 DEF Pages
    <2>4. QED
      BY <2>3, DueFacts
  <1> HIDE DEF n
  <1>4. Deliver(conn, force) = [next   |-> Due(conn, n),
                                pieces |-> [i \in 1..n |-> Piece(Due(conn, i - 1), conn.pages[i])],
                                pages  |-> SubSeq(conn.pages, n + 1, Len(conn.pages))]
    BY DEF Deliver, n
  <1>5. SubSeq(conn.pages, 1, 0) = <<>>
    <2>1. SubSeq(<<>>, 1, 0) = <<>>
      OBVIOUS
    <2>2. QED
      BY <2>1
  <1>6. [i \in 1..0 |-> Piece(Due(conn, i - 1), conn.pages[i])] = <<>>
    OBVIOUS
  <1>7. QED
    BY <1>1, <1>2, <1>3, <1>4, <1>5, <1>6

\* A segment that is due, or was, is taken at once if nothing is kept.
LEMMA TakenAtOnce ==
  ASSUME NEW m \in Nat, m >= 1, NEW seg \in Segments, seg.seq <= m,
         NEW conn, conn = [Opened EXCEPT !.next = m]
  PROVE  /\ Assembled(conn, seg).next = Larger(m, seg.seq + seg.len)
         /\ Assembled(conn, seg).pages = <<>>
         /\ Len(Assembled(conn, seg).pieces) = 1
         /\ Assembled(conn, seg).pieces \in Seq(Pieces)
         /\ Assembled(conn, seg).pieces[1] = Piece(m, seg)
  <1> DEFINE c == [conn EXCEPT !.pages = <<seg>> \o @]
             n == Ready(c, FALSE)
             B == m + seg.seq + seg.len
  <1>1. conn.next = m /\ conn.pages = <<>>
    BY DEF Opened, Closed
  <1>2. c.next = m /\ c.pages = <<seg>>
    <2>1. c.pages = <<seg>> \o <<>> /\ c.next = m
      BY DEF Opened, Closed
    <2>2. <<seg>> \o <<>> = <<seg>>
      OBVIOUS
    <2>3. QED
      BY <2>1, <2>2
  <1>3. seg.seq \in Nat /\ seg.len \in Nat
    BY DEF Segments
  <1>4. Assembled(conn, seg) = Deliver(c, FALSE)
    <2>1. ~(conn.next = Unstarted) /\ ~(seg.seq > conn.next)
      BY <1>1, <1>3 DEF Unstarted
    <2>2. QED
      BY <2>1 DEF Assembled
  <1> HIDE DEF c
  <1>5. c.pages \in Seq(Segments) /\ Len(c.pages) = 1 /\ c.pages[1] = seg /\ FALSE \in BOOLEAN
    BY <1>2
  <1>6. Pages(c, B)
    BY <1>2, <1>3, <1>5 DEF Pages
  <1>7. B \in Nat
    BY <1>3
  <1>8. Due(c, 0) = m /\ Due(c, 1) = Larger(m, seg.seq + seg.len)
    <2>1. Due(c, 0) = c.next
      BY <1>6, <1>7, DueFacts
    <2>2. \A i \in 1..Len(c.pages) :
            Due(c, i) = Larger(Due(c, i - 1), c.pages[i].seq + c.pages[i].len)
      BY <1>6, <1>7, DueFacts
    <2>3. 1 \in 1..Len(c.pages) /\ 1 - 1 = 0
      BY <1>5
    <2>4. QED
      BY <1>2, <1>5, <2>1, <2>2, <2>3
  <1>9. n = 1
    <2>1. n \in 0..1
      BY <1>5, ReadyFacts
    <2>2. 1 \in 0..Len(c.pages) /\ \A i \in 1..1 : FALSE \/ c.pages[i].seq <= Due(c, i - 1)
      BY <1>5, <1>8
    <2>3. 1 <= n
      BY <1>5, <2>2, ReadyFacts
    <2> HIDE DEF n
    <2>4. QED
      BY <2>1, <2>3
  <1>11. SubSeq(c.pages, 2, 1) = <<>>
    BY <1>5
  <1>12. Piece(m, seg) \in Pieces
    <2>1. m \in Int
      OBVIOUS
    <2>2. QED
      BY <2>1, PieceFacts
  <1> DEFINE ps == [i \in 1..1 |-> Piece(Due(c, i - 1), c.pages[i])]
  <1>13. ps \in Seq(Pieces) /\ Len(ps) = 1 /\ ps[1] = Piece(m, seg)
    <2>1. \A i \in 1..1 : Piece(Due(c, i - 1), c.pages[i]) = Piece(m, seg)
      BY <1>5, <1>8
    <2>2. ps = [i \in 1..1 |-> Piece(m, seg)]
      BY <2>1, Zenon
    <2>3. 1 \in 1..1
      OBVIOUS
    <2> HIDE DEF ps
    <2>4. QED
      BY <1>12, <2>2, <2>3
  <1>14. Deliver(c, FALSE) = [next |-> Due(c, 1), pieces |-> ps, pages |-> <<>>]
    <2>1. SubSeq(c.pages, n + 1, Len(c.pages)) = <<>>
      <3> HIDE DEF n
      <3>1. n + 1 = 2
        BY <1>9
      <3>2. QED
        BY <1>5, <1>11, <3>1
    <2>2. Deliver(c, FALSE) = [next   |-> Due(c, n),
                               pieces |-> [i \in 1..n |-> Piece(Due(c, i - 1), c.pages[i])],
                               pages  |-> SubSeq(c.pages, n + 1, Len(c.pages))]
      BY DEF Deliver
    <2> HIDE DEF n
    <2>3. QED
      BY <1>9, <2>1, <2>2, Zenon
  <1> DEFINE a == Assembled(conn, seg)
             e == Larger(m, seg.seq + seg.len)
  <1> HIDE DEF ps, e
  <1>15. a = [next |-> e, pieces |-> ps, pages |-> <<>>]
    BY <1>4, <1>8, <1>14 DEF e
  <1> HIDE DEF a
  <1>16. a.next = e /\ a.pieces = ps /\ a.pages = <<>>
    BY <1>15
  <1>17. QED
    BY <1>13, <1>16 DEF a, e

\* Bytes of direction d as a chunk.
ChunkOf(st, d, lo, hi) == [isClient |-> d = st.client, from |-> d, lo |-> lo, hi |-> hi]

\* The chunks of at most one piece.
LEMMA OnePiece ==
  ASSUME NEW st, NEW d \in Sides, NEW ps \in Seq(Pieces), Len(ps) = 1,
         Brings(ps[1]) => ps[1].lo >= 1
  PROVE  /\ Brings(ps[1]) => ChunksOf(st, d, ps) = <<ChunkOf(st, d, ps[1].lo, ps[1].hi)>>
         /\ ~Brings(ps[1]) => ChunksOf(st, d, ps) = <<>>
  <1> DEFINE K == ChunksOf(st, d, ps)
             C == [isClient |-> d = st.client, from |-> d, lo |-> ps[1].lo, hi |-> ps[1].hi]
  <1>1. MadeOf(K, d, st.client, ps)
    <2>1. \A i \in 1..Len(ps) : Brings(ps[i]) => ps[i].lo >= 1
      OBVIOUS
    <2>2. QED
      BY <2>1, ChunksOfFacts
  <1> HIDE DEF K
  <1>2. K \in Seq(StreamChunks) /\ Len(K) \in Nat
    BY <1>1 DEF MadeOf
  <1>3. \A i \in 1..Len(ps) : i = 1
    OBVIOUS
  <1>4. \A k, l \in 1..Len(K) : ~(k < l)
    <2> SUFFICES ASSUME NEW k \in 1..Len(K), NEW l \in 1..Len(K), k < l PROVE FALSE
      OBVIOUS
    <2>1. k <= l
      <3>1. k \in Int /\ l \in Int
        BY <1>2
      <3>2. QED
        BY <3>1
    <2>2. \E i, j \in 1..Len(ps) : i < j
      BY <1>1, <2>1 DEF MadeOf
    <2>3. QED
      BY <1>3, <2>2
  <1>5. Len(K) = 0 \/ Len(K) = 1
    <2>1. 2 <= Len(K) => 1 \in 1..Len(K) /\ 2 \in 1..Len(K)
      BY <1>2
    <2>2. QED
      BY <1>2, <1>4, <2>1
  <1>6. \A k \in 1..Len(K) : k = 1 /\ Brings(ps[1]) /\ K[k] = C
    <2> TAKE k \in 1..Len(K)
    <2>1. k = 1 /\ k <= k
      <3>1. k \in Int /\ 1 <= k /\ k <= Len(K)
        BY <1>2
      <3> DEFINE L == Len(K)
      <3>2. k \in Int /\ 1 <= k /\ k <= L /\ (L = 0 \/ L = 1)
        BY <1>5, <3>1
      <3> HIDE DEF L
      <3>3. k = 1
        BY <3>2
      <3>4. QED
        BY <3>3
    <2>2. PICK i \in 1..Len(ps) : Brings(ps[i]) /\ K[k].lo = ps[i].lo /\ K[k].hi = ps[i].hi
      BY <1>1, <2>1 DEF MadeOf
    <2>3. i = 1
      BY <1>3
    <2>4. K[k].from = d /\ (K[k].isClient <=> d = st.client)
      BY <1>1 DEF MadeOf
    <2>5. K[k] \in StreamChunks
      BY <1>2
    <2>6. K[k] = [isClient |-> K[k].isClient, from |-> K[k].from, lo |-> K[k].lo, hi |-> K[k].hi]
          /\ K[k].isClient \in BOOLEAN
      BY <2>5 DEF StreamChunks
    <2>7. K[k].isClient = (d = st.client)
      BY <2>4, <2>6
    <2>8. QED
      BY <2>1, <2>2, <2>3, <2>4, <2>6, <2>7
  <1>7. ASSUME ~Brings(ps[1]) PROVE K = <<>>
    BY <1>2, <1>5, <1>6, <1>7
  <1>8. ASSUME Brings(ps[1]) PROVE K = <<C>>
    <2>1. \E k \in 1..Len(K) : TRUE
      <3>1. 1 \in 1..Len(ps)
        OBVIOUS
      <3>2. QED
        BY <1>1, <1>8, <3>1 DEF MadeOf
    <2>2. Len(K) = 1 /\ K[1] = C
      BY <1>2, <1>5, <1>6, <2>1
    <2> HIDE DEF C
    <2>3. QED
      BY <1>2, <2>2
  <1>9. QED
    BY <1>7, <1>8 DEF K, ChunkOf

\* A half that keeps nothing back, field by field.
LEMMA HalfRecord ==
  ASSUME NEW x
  PROVE  [Opened EXCEPT !.next = x] = [open |-> TRUE, next |-> x, pages |-> <<>>]
  <1>1. Closed \in [open : {FALSE}, next : {Unstarted}, pages : {<<>>}]
    BY DEF Closed
  <1>2. Opened \in [open : {TRUE}, next : {Unstarted}, pages : {<<>>}]
    BY <1>1 DEF Opened
  <1>3. [Opened EXCEPT !.next = x] \in [open : {TRUE}, next : {x}, pages : {<<>>}]
    BY <1>2
  <1> DEFINE r == [Opened EXCEPT !.next = x]
  <1> HIDE DEF r
  <1>4. r = [open |-> r.open, next |-> r.next, pages |-> r.pages]
    BY <1>3 DEF r
  <1>5. r.open = TRUE /\ r.next = x /\ r.pages = <<>>
    BY <1>3 DEF r
  <1>6. r = [open |-> TRUE, next |-> x, pages |-> <<>>]
    BY <1>4, <1>5
  <1>7. QED
    BY <1>6 DEF r

\* What a packet that is due, or was, does to an open direction that keeps nothing.
LEMMA InOrderPacket ==
  ASSUME Types, stream # Nil, NEW d \in Sides, NEW m \in Nat, m >= 1,
         half[d] = [Opened EXCEPT !.next = m], past[d] = "open",
         NEW seg \in Segments, seg.seq <= m, ProcessPacket(d, seg)
  PROVE  /\ half' = [half EXCEPT ![d] =
              IF seg.fin THEN Closed
              ELSE [Opened EXCEPT !.next = Larger(m, seg.seq + seg.len)]]
         /\ past' = [past EXCEPT ![d] = IF seg.fin THEN "ended" ELSE "open"]
         /\ stream' \in Streams /\ stream'.client = stream.client
         /\ seg.seq + seg.len <= m => stream'.chunks = stream.chunks
         /\ seg.seq + seg.len > m => stream'.chunks = stream.chunks \o
              <<ChunkOf(stream, d, m, (seg.seq + seg.len) - 1)>>
  <1> DEFINE conn == ConnOf(d, seg)
             a == Assembled(conn, seg)
             r == Reassembled(stream, d, a.pieces)
             ends == Ends(a.pieces)
             e == seg.seq + seg.len
  <1>1. Known(d, seg) = stream /\ stream \in Streams
    BY DEF Known, Types
  <1>2. seg.seq \in Nat /\ seg.len \in Nat /\ seg.fin \in BOOLEAN /\ e \in Nat
    BY DEF Segments
  <1>3. half[d].open /\ conn = [Opened EXCEPT !.next = m]
    BY DEF ConnOf, Opened, Closed
  <1>4. CASE seg.len = 0 /\ ~seg.syn /\ (~seg.fin \/ ~half[d].open)
    <2>1. ~seg.fin /\ stream' = stream /\ half' = half /\ past' = past
      BY <1>1, <1>3, <1>4 DEF ProcessPacket
    <2>2. e <= m /\ Larger(m, e) = m
      BY <1>2, <1>4 DEF Larger
    <2>3. half = [half EXCEPT ![d] = [Opened EXCEPT !.next = m]]
      BY DEF Types
    <2>4. past = [past EXCEPT ![d] = "open"]
      BY DEF Types
    <2> HIDE DEF e
    <2>5. QED
      BY <1>1, <1>2, <2>1, <2>2, <2>3, <2>4 DEF e
  <1>5. CASE ~(seg.len = 0 /\ ~seg.syn /\ (~seg.fin \/ ~half[d].open))
    <2>1. /\ half' = [half EXCEPT ![d] = IF ends THEN Closed
                        ELSE [open |-> TRUE, next |-> a.next, pages |-> a.pages]]
          /\ stream' = [r EXCEPT !.complete = @ \/ ends]
          /\ past' = [past EXCEPT ![d] = IF @ # "open" THEN "reopened"
                                         ELSE IF ends THEN "ended" ELSE "open"]
      BY <1>1, <1>5 DEF ProcessPacket
    <2>2. /\ a.next = Larger(m, e) /\ a.pages = <<>> /\ Len(a.pieces) = 1
          /\ a.pieces \in Seq(Pieces) /\ a.pieces[1] = Piece(m, seg)
      <3> HIDE DEF conn
      <3>1. QED
        BY <1>3, TakenAtOnce
    <2>3. /\ a.pieces[1].lo = m /\ a.pieces[1].hi = e - 1 /\ a.pieces[1].end = seg.fin
      <3>1. m \in Int
        OBVIOUS
      <3>2. /\ Piece(m, seg).lo = (IF m > seg.seq THEN m ELSE seg.seq)
            /\ Piece(m, seg).hi = e - 1 /\ Piece(m, seg).end = seg.fin
        BY <3>1, PieceFacts
      <3>3. (IF m > seg.seq THEN m ELSE seg.seq) = m
        BY <1>2
      <3> HIDE DEF a, e
      <3>4. QED
        BY <2>2, <3>2, <3>3
    <2>4. ends <=> seg.fin
      <3> HIDE DEF a
      <3>1. a.pieces # <<>> /\ a.pieces[Len(a.pieces)] = a.pieces[1]
        BY <2>2
      <3>2. QED
        BY <2>3, <3>1 DEF Ends
    <2>5. Brings(a.pieces[1]) <=> e > m
      <3> HIDE DEF a, e
      <3>1. QED
        BY <1>2, <2>3 DEF Brings
    <2>6. half' = [half EXCEPT ![d] =
            IF seg.fin THEN Closed ELSE [Opened EXCEPT !.next = Larger(m, e)]]
      <3> DEFINE x == Larger(m, e)
      <3> HIDE DEF a, ends, e, x
      <3>1. [open |-> TRUE, next |-> x, pages |-> <<>>] = [Opened EXCEPT !.next = x]
        BY HalfRecord
      <3>2. QED
        BY <2>1, <2>2, <2>4, <3>1 DEF x
    <2>7. past' = [past EXCEPT ![d] = IF seg.fin THEN "ended" ELSE "open"]
      <3> HIDE DEF ends
      <3>1. QED
        BY <2>1, <2>4 DEF Types
    <2> DEFINE K == ChunksOf(stream, d, a.pieces)
               C == [isClient |-> d = stream.client, from |-> d, lo |-> m, hi |-> e - 1]
    <2>8. (e > m => K = <<C>>) /\ (~(e > m) => K = <<>>)
      <3> DEFINE ps == a.pieces
      <3>1. /\ ps \in Seq(Pieces) /\ Len(ps) = 1 /\ ps[1].lo = m /\ ps[1].hi = e - 1
            /\ ps[1].lo >= 1
        BY <2>2, <2>3
      <3>2. Brings(ps[1]) <=> e > m
        BY <2>5
      <3> HIDE DEF ps, e
      <3>3. /\ Brings(ps[1]) => ChunksOf(stream, d, ps) = <<ChunkOf(stream, d, ps[1].lo, ps[1].hi)>>
            /\ ~Brings(ps[1]) => ChunksOf(stream, d, ps) = <<>>
        BY <3>1, OnePiece
      <3>4. QED
        BY <3>1, <3>2, <3>3 DEF ps, ChunkOf
    <2>9. stream.chunks \in Seq(StreamChunks) /\ stream.chunks \o <<>> = stream.chunks
      <3>1. stream.chunks \in Seq(StreamChunks)
        BY <1>1 DEF Streams
      <3>2. QED
        BY <3>1
    <2>10. /\ r.chunks = stream.chunks \o K /\ r.client = stream.client
           /\ r.complete \in BOOLEAN /\ r.gap \in BOOLEAN
           /\ r = [client |-> r.client, complete |-> r.complete, gap |-> r.gap, chunks |-> r.chunks]
      <3> DEFINE skips == \E i \in 1..Len(a.pieces) : a.pieces[i].skip
      <3>1. r = [stream EXCEPT !.gap = @ \/ skips, !.chunks = @ \o K]
        BY DEF Reassembled
      <3>2. skips \in BOOLEAN
        OBVIOUS
      <3> HIDE DEF skips, K, r
      <3>3. (stream.gap \/ skips) \in BOOLEAN
        BY <1>1, <3>2 DEF Streams
      <3>4. QED
        BY <1>1, <3>1, <3>3 DEF Streams
    <2>11. K \in Seq(StreamChunks)
      <3>1. CASE e > m
        <4>1. e - 1 \in Nat /\ (d = stream.client) \in BOOLEAN
          BY <1>2, <3>1
        <4>2. C \in StreamChunks
          <5> HIDE DEF e
          <5>1. QED
            BY <4>1 DEF StreamChunks
        <4> HIDE DEF C, K, e
        <4>3. <<C>> \in Seq(StreamChunks)
          BY <4>2
        <4>4. K = <<C>>
          BY <2>8, <3>1
        <4>5. QED
          BY <4>3, <4>4
      <3>2. CASE ~(e > m)
        <4> HIDE DEF K
        <4>1. QED
          BY <2>8, <3>2
      <3>3. QED
        BY <3>1, <3>2
    <2>12. /\ stream' \in Streams /\ stream'.client = stream.client
           /\ stream'.chunks = stream.chunks \o K
      <3> HIDE DEF r, ends, K
      <3>1. (r.complete \/ ends) \in BOOLEAN
        BY <2>4, <2>10, <1>2
      <3>2. stream' = [client |-> r.client, complete |-> r.complete \/ ends, gap |-> r.gap,
                       chunks |-> r.chunks]
        BY <2>1, <2>10
      <3>3. r.chunks \in Seq(StreamChunks)
        BY <2>9, <2>10, <2>11
      <3>4. stream.client \in Sides
        BY <1>1 DEF Streams
      <3>5. QED
        BY <2>10, <3>1, <3>2, <3>3, <3>4 DEF Streams
    <2> HIDE DEF K, C
    <2>13. e <= m => stream'.chunks = stream.chunks
      BY <1>2, <2>8, <2>9, <2>12
    <2>14. e > m => stream'.chunks = stream.chunks \o <<C>>
      BY <2>8, <2>12
    <2>15. QED
      BY <2>6, <2>7, <2>12, <2>13, <2>14 DEF C, ChunkOf
  <1>6. QED
    BY <1>4, <1>5

\* The stream has the bytes of the wire.
Spelled(st, w) ==
  /\ st.client = "client" /\ Len(st.chunks) = Len(w)
  /\ \A i \in 1..Len(w) :
       /\ <<st.chunks[i].from, st.chunks[i].lo>> = w[i] /\ st.chunks[i].hi = st.chunks[i].lo
       /\ st.chunks[i].isClient <=> st.chunks[i].from = "client"

\* The half of a direction that is captured as it is sent.
Orderly(h, s, p) ==
  /\ p = "ended" <=> s.fin
  /\ h = IF s.syn /\ ~s.fin THEN [Opened EXCEPT !.next = s.bytes + 1] ELSE Closed

\* InOrder, in these terms.
LEMMA InOrderMeans ==
  ASSUME InOrder, orderly, Reopened = {}
  PROVE  /\ stream = Nil <=> ~sent["client"].syn
         /\ stream # Nil => Spelled(stream, wire)
         /\ pc = "reading" => \A e \in Sides : Orderly(half[e], sent[e], past[e])
  BY DEF InOrder, ChunksAreWire, Spelled, Orderly

\* InOrder of the next state, in these terms.
LEMMA InOrderNext ==
  ASSUME orderly' /\ Reopened' = {} =>
           /\ stream' = Nil <=> ~sent'["client"].syn
           /\ stream' # Nil => Spelled(stream', wire')
           /\ pc' = "reading" => \A e \in Sides : Orderly(half'[e], sent'[e], past'[e])
  PROVE  InOrder'
  BY DEF InOrder, ChunksAreWire, Spelled, Orderly

\* A direction that has been met again after its FIN stays so.
LEMMA ReopenedStays ==
  ASSUME Types, NEW d \in Sides, NEW seg, ProcessPacket(d, seg), Reopened' = {}
  PROVE  Reopened = {}
  BY DEF Types, ProcessPacket, Reopened

\* What the sides have sent.
LEMMA SentFacts ==
  ASSUME Types, Connected, NEW d \in Sides
  PROVE  /\ sent[d].bytes \in Nat /\ sent[d].syn \in BOOLEAN /\ sent[d].fin \in BOOLEAN
         /\ sent["server"].syn => sent[d].syn
         /\ sent[d].bytes > 0 \/ sent[d].fin => sent[d].syn
         /\ sent[d].syn => sent["client"].syn
  <1>1. sent[d] \in [syn : BOOLEAN, fin : BOOLEAN, bytes : 0..MaxBytes]
    BY DEF Types
  <1>2. d = "client" \/ d = "server"
    BY DEF Sides
  <1>3. QED
    BY <1>1, <1>2 DEF Connected

\* A segment of an open direction that is sent again, or anything again after FIN.
LEMMA OrderlyRepeat ==
  ASSUME Types, Connected, InOrder, pc = "reading", NEW d \in Sides, sent[d].syn,
         NEW seg \in Segments, seg.seq + seg.len <= sent[d].bytes + 1,
         seg.fin => sent[d].fin, ProcessPacket(d, seg), UNCHANGED <<sent, wire, orderly, pc>>
  PROVE  InOrder'
  <1> SUFFICES ASSUME orderly', Reopened' = {}
               PROVE  /\ stream' = Nil <=> ~sent'["client"].syn
                      /\ stream' # Nil => Spelled(stream', wire')
                      /\ pc' = "reading" => \A e \in Sides : Orderly(half'[e], sent'[e], past'[e])
    BY InOrderNext
  <1>1. orderly /\ Reopened = {}
    BY ReopenedStays
  <1>2. /\ stream # Nil /\ stream \in Streams /\ Spelled(stream, wire) /\ sent["client"].syn
        /\ \A e \in Sides : Orderly(half[e], sent[e], past[e])
    BY <1>1, InOrderMeans, SentFacts DEF Types
  <1>3. CASE sent[d].fin
    <2>1. half[d] = Closed /\ past[d] = "ended"
      BY <1>2, <1>3 DEF Orderly
    <2>2. ~(past'[d] = "reopened")
      BY DEF Reopened
    <2>3. UNCHANGED <<half, past>> /\ stream' = stream
      BY <1>2, <2>1, <2>2 DEF ProcessPacket, Known, Types
    <2>4. QED
      BY <1>2, <2>3
  <1>4. CASE ~sent[d].fin
    <2> DEFINE m == sent[d].bytes + 1
    <2>1. m \in Nat /\ m >= 1 /\ seg.seq \in Nat /\ seg.len \in Nat /\ ~seg.fin
      BY <1>4, SentFacts DEF Segments
    <2>2. half[d] = [Opened EXCEPT !.next = m] /\ past[d] = "open"
      <3>1. past[d] # "ended" /\ past[d] # "reopened"
        BY <1>1, <1>2, <1>4 DEF Orderly, Reopened
      <3>2. QED
        BY <1>2, <1>4, <3>1 DEF Orderly, Types
    <2>3. seg.seq <= m /\ seg.seq + seg.len <= m
      BY <2>1
    <2> HIDE DEF m
    <2>4. /\ half' = [half EXCEPT ![d] =
               IF seg.fin THEN Closed
               ELSE [Opened EXCEPT !.next = Larger(m, seg.seq + seg.len)]]
          /\ past' = [past EXCEPT ![d] = IF seg.fin THEN "ended" ELSE "open"]
          /\ stream' \in Streams /\ stream'.client = stream.client
          /\ stream'.chunks = stream.chunks
      BY <1>2, <2>1, <2>2, <2>3, InOrderPacket
    <2>5. Larger(m, seg.seq + seg.len) = m
      BY <2>1, <2>3 DEF Larger
    <2>6. half' = half /\ past' = past
      BY <2>1, <2>2, <2>4, <2>5 DEF Types
    <2>7. stream' # Nil
      BY <2>4, NotNil
    <2>8. QED
      BY <1>2, <2>4, <2>6, <2>7 DEF Spelled
  <1>5. QED
    BY <1>3, <1>4

\* A FIN that is captured as it is sent.
LEMMA OrderlyFin ==
  ASSUME Types, Connected, InOrder, pc = "reading", NEW d \in Sides, sent["server"].syn,
         ~sent[d].fin, sent' = [sent EXCEPT ![d].fin = TRUE],
         NEW seg, seg = Fin(d), ProcessPacket(d, seg), UNCHANGED <<wire, orderly, pc>>
  PROVE  InOrder'
  <1> SUFFICES ASSUME orderly', Reopened' = {}
               PROVE  /\ stream' = Nil <=> ~sent'["client"].syn
                      /\ stream' # Nil => Spelled(stream', wire')
                      /\ pc' = "reading" => \A e \in Sides : Orderly(half'[e], sent'[e], past'[e])
    BY InOrderNext
  <1>1. orderly /\ Reopened = {}
    BY ReopenedStays
  <1>2. /\ stream # Nil /\ stream \in Streams /\ Spelled(stream, wire)
        /\ sent["client"].syn /\ sent[d].syn
        /\ \A e \in Sides : Orderly(half[e], sent[e], past[e])
    BY <1>1, InOrderMeans, SentFacts DEF Types
  <1> DEFINE m == sent[d].bytes + 1
  <1>3. m \in Nat /\ m >= 1
    BY SentFacts
  <1>4. /\ seg \in Segments /\ seg.seq = m /\ seg.len = 0 /\ seg.fin
    <2> HIDE DEF m
    <2>1. seg = [seq |-> m, len |-> 0, syn |-> FALSE, fin |-> TRUE]
      BY DEF Fin, m
    <2>2. QED
      BY <1>3, <2>1 DEF Segments
  <1>5. half[d] = [Opened EXCEPT !.next = m] /\ past[d] = "open"
    <2>1. past[d] # "ended" /\ past[d] # "reopened"
      BY <1>1, <1>2 DEF Orderly, Reopened
    <2>2. QED
      BY <1>2, <2>1 DEF Orderly, Types
  <1> HIDE DEF m
  <1>6. seg.seq <= m /\ seg.seq + seg.len <= m
    BY <1>3, <1>4
  <1>7. /\ half' = [half EXCEPT ![d] =
             IF seg.fin THEN Closed
             ELSE [Opened EXCEPT !.next = Larger(m, seg.seq + seg.len)]]
        /\ past' = [past EXCEPT ![d] = IF seg.fin THEN "ended" ELSE "open"]
        /\ stream' \in Streams /\ stream'.client = stream.client
        /\ stream'.chunks = stream.chunks
    BY <1>2, <1>3, <1>4, <1>5, <1>6, InOrderPacket
  <1>8. stream' # Nil
    BY <1>7, NotNil
  <1>9. sent'["client"].syn
    BY <1>2 DEF Types, Sides
  <1>10. \A e \in Sides : Orderly(half'[e], sent'[e], past'[e])
    <2> TAKE e \in Sides
    <2>1. CASE e = d
      <3>1. half'[e] = Closed /\ past'[e] = "ended" /\ sent'[e].fin
        BY <1>4, <1>7, <2>1 DEF Types
      <3>2. QED
        BY <3>1 DEF Orderly
    <2>2. CASE e # d
      <3>1. half'[e] = half[e] /\ past'[e] = past[e] /\ sent'[e] = sent[e]
        BY <1>7, <2>2 DEF Types
      <3>2. QED
        BY <1>2, <3>1
    <2>3. QED
      BY <2>1, <2>2
  <1>11. QED
    BY <1>2, <1>7, <1>8, <1>9, <1>10 DEF Spelled

\* A byte that is captured as it is sent.
LEMMA OrderlyByte ==
  ASSUME TypeOK, Types, Connected, InOrder, pc = "reading", NEW d \in Sides, sent["server"].syn,
         ~sent[d].fin, sent' = [sent EXCEPT ![d].bytes = @ + 1],
         wire' = Append(wire, <<d, sent[d].bytes + 1>>),
         NEW seg, seg = Bytes(sent[d].bytes + 1, sent[d].bytes + 1), ProcessPacket(d, seg),
         UNCHANGED <<orderly, pc>>
  PROVE  InOrder'
  <1> SUFFICES ASSUME orderly', Reopened' = {}
               PROVE  /\ stream' = Nil <=> ~sent'["client"].syn
                      /\ stream' # Nil => Spelled(stream', wire')
                      /\ pc' = "reading" => \A e \in Sides : Orderly(half'[e], sent'[e], past'[e])
    BY InOrderNext
  <1>1. orderly /\ Reopened = {}
    BY ReopenedStays
  <1>2. /\ stream # Nil /\ stream \in Streams /\ Spelled(stream, wire)
        /\ sent["client"].syn /\ sent[d].syn
        /\ \A e \in Sides : Orderly(half[e], sent[e], past[e])
    BY <1>1, InOrderMeans, SentFacts DEF Types
  <1> DEFINE m == sent[d].bytes + 1
             C == [isClient |-> d = stream.client, from |-> d, lo |-> m, hi |-> m]
             W == wire
  <1>3. m \in Nat /\ m >= 1
    BY SentFacts
  <1>4. /\ seg \in Segments /\ seg.seq = m /\ seg.len = 1 /\ ~seg.fin
    <2>1. seg = [seq |-> m, len |-> m - m + 1, syn |-> FALSE, fin |-> FALSE]
      BY DEF Bytes
    <2> HIDE DEF m
    <2>2. m - m + 1 = 1
      BY <1>3
    <2>3. seg = [seq |-> m, len |-> 1, syn |-> FALSE, fin |-> FALSE]
      BY <2>1, <2>2
    <2>4. 1 \in Nat /\ FALSE \in BOOLEAN
      OBVIOUS
    <2>5. seg \in Segments
      <3> DEFINE x == [seq |-> m, len |-> 1, syn |-> FALSE, fin |-> FALSE]
      <3>1. x \in Segments
        BY <1>3, <2>4 DEF Segments
      <3>2. QED
        BY <2>3, <3>1
    <2>6. seg.seq = m /\ seg.len = 1 /\ seg.fin = FALSE
      BY <2>3
    <2>7. QED
      BY <2>5, <2>6
  <1>5. half[d] = [Opened EXCEPT !.next = m] /\ past[d] = "open"
    <2>1. past[d] # "ended" /\ past[d] # "reopened"
      BY <1>1, <1>2 DEF Orderly, Reopened
    <2>2. QED
      BY <1>2, <2>1 DEF Orderly, Types
  <1>6. wire \in Seq(Sides \X (1..MaxBytes)) /\ wire' = Append(wire, <<d, m>>)
    BY DEF TypeOK
  <1>7. sent'[d] = [sent[d] EXCEPT !.bytes = m] /\ \A e \in Sides \ {d} : sent'[e] = sent[e]
    BY DEF Types
  <1> HIDE DEF m, C
  <1>8. seg.seq <= m /\ ~(seg.seq + seg.len <= m) /\ seg.seq + seg.len > m
        /\ Larger(m, seg.seq + seg.len) = m + 1 /\ (seg.seq + seg.len) - 1 = m
    BY <1>3, <1>4 DEF Larger
  <1>9. /\ half' = [half EXCEPT ![d] =
             IF seg.fin THEN Closed
             ELSE [Opened EXCEPT !.next = Larger(m, seg.seq + seg.len)]]
        /\ past' = [past EXCEPT ![d] = IF seg.fin THEN "ended" ELSE "open"]
        /\ stream' \in Streams /\ stream'.client = stream.client
        /\ stream'.chunks = stream.chunks \o
             <<ChunkOf(stream, d, m, (seg.seq + seg.len) - 1)>>
    <2>1. half' = [half EXCEPT ![d] =
             IF seg.fin THEN Closed
             ELSE [Opened EXCEPT !.next = Larger(m, seg.seq + seg.len)]]
      BY <1>2, <1>3, <1>4, <1>5, <1>8, InOrderPacket
    <2>2. past' = [past EXCEPT ![d] = IF seg.fin THEN "ended" ELSE "open"]
      BY <1>2, <1>3, <1>4, <1>5, <1>8, InOrderPacket
    <2>3. stream' \in Streams /\ stream'.client = stream.client
      BY <1>2, <1>3, <1>4, <1>5, <1>8, InOrderPacket
    <2>4. stream'.chunks = stream.chunks \o <<ChunkOf(stream, d, m, (seg.seq + seg.len) - 1)>>
      BY <1>2, <1>3, <1>4, <1>5, <1>8, InOrderPacket
    <2>5. QED
      BY <2>1, <2>2, <2>3, <2>4
  <1>10. half' = [half EXCEPT ![d] = [Opened EXCEPT !.next = m + 1]] /\ past' = past
         /\ stream'.chunks = stream.chunks \o <<C>>
    BY <1>4, <1>5, <1>8, <1>9 DEF Types, C, ChunkOf
  <1>11. stream' # Nil /\ sent'["client"].syn
    <2>1. sent'["client"].syn
      BY <1>2, <1>7 DEF Types, Sides
    <2>2. QED
      BY <1>9, <2>1, NotNil
  <1>12. Spelled(stream', wire')
    <2> DEFINE cs == stream.chunks
               ds == stream'.chunks
               N == Len(wire)
    <2>1. cs \in Seq(StreamChunks) /\ Len(cs) = N /\ N \in Nat
      BY <1>2, <1>6 DEF Streams, Spelled
    <2>2. Len(ds) = N + 1 /\ ds[N + 1] = C /\ \A i \in 1..N : ds[i] = cs[i]
      <3>1. ds = cs \o <<C>>
        BY <1>10
      <3>2. /\ Len(cs \o <<C>>) = Len(cs) + Len(<<C>>)
            /\ \A i \in 1..(Len(cs) + Len(<<C>>)) :
                 (cs \o <<C>>)[i] = IF i <= Len(cs) THEN cs[i] ELSE <<C>>[i - Len(cs)]
        <4>1. cs \in Seq(StreamChunks \cup {C}) /\ <<C>> \in Seq(StreamChunks \cup {C})
          BY <2>1
        <4> HIDE DEF cs
        <4>2. QED
          BY <4>1, ConcatProperties, Zenon
      <3> HIDE DEF cs, ds, N
      <3>3. Len(<<C>>) = 1 /\ <<C>>[1] = C
        OBVIOUS
      <3>4. (N + 1) - N = 1 /\ N + 1 \in 1..(N + 1) /\ ~(N + 1 <= N)
        BY <2>1
      <3>5. \A i \in 1..N : i \in 1..(N + 1) /\ i <= N
        BY <2>1
      <3>6. QED
        BY <2>1, <3>1, <3>2, <3>3, <3>4, <3>5
    <2>3. Len(wire') = N + 1 /\ wire'[N + 1] = <<d, m>> /\ \A i \in 1..N : wire'[i] = wire[i]
      <3>1. <<d, m>> \in Sides \X Nat /\ wire \in Seq(Sides \X Nat)
        BY <1>3, <1>6
      <3>2. QED
        BY <1>6, <3>1
    <2>4. stream.client = "client" /\ \A i \in 1..N :
            /\ <<cs[i].from, cs[i].lo>> = wire[i] /\ cs[i].hi = cs[i].lo
            /\ cs[i].isClient <=> cs[i].from = "client"
      BY <1>2, <2>1 DEF Spelled
    <2>5. C.from = d /\ C.lo = m /\ C.hi = m /\ (C.isClient <=> d = "client")
      BY <2>4 DEF C
    <2> HIDE DEF cs, ds, N
    <2>6. ASSUME NEW i \in 1..(N + 1)
          PROVE  /\ <<ds[i].from, ds[i].lo>> = wire'[i] /\ ds[i].hi = ds[i].lo
                 /\ ds[i].isClient <=> ds[i].from = "client"
      <3>1. i \in 1..N \/ i = N + 1
        BY <2>1
      <3>2. CASE i \in 1..N
        BY <2>2, <2>3, <2>4, <3>2
      <3>3. CASE i = N + 1
        BY <2>2, <2>3, <2>5, <3>3
      <3>4. QED
        BY <3>1, <3>2, <3>3
    <2>7. QED
      BY <1>9, <2>2, <2>3, <2>4, <2>6 DEF Spelled, ds
  <1>13. \A e \in Sides : Orderly(half'[e], sent'[e], past'[e])
    <2> TAKE e \in Sides
    <2>1. CASE e = d
      <3>1. half'[d] = [Opened EXCEPT !.next = m + 1] /\ past'[d] = "open"
        BY <1>5, <1>10 DEF Types
      <3>2. sent'[d].bytes = m /\ sent'[d].syn /\ ~sent'[d].fin
        <4>1. sent[d] \in [syn : BOOLEAN, fin : BOOLEAN, bytes : 0..MaxBytes]
          BY DEF Types
        <4>2. QED
          BY <1>2, <1>7, <4>1
      <3>3. QED
        BY <2>1, <3>1, <3>2 DEF Orderly
    <2>2. CASE e # d
      <3>1. half'[e] = half[e] /\ past'[e] = past[e] /\ sent'[e] = sent[e]
        BY <1>7, <1>10, <2>2 DEF Types
      <3>2. QED
        BY <1>2, <3>1
    <2>3. QED
      BY <2>1, <2>2
  <1>14. QED
    BY <1>11, <1>12, <1>13

\* No pieces make no chunks.
LEMMA NoPieces ==
  ASSUME NEW st, NEW d
  PROVE  ChunksOf(st, d, <<>>) = <<>>
  <1> DEFINE none == {i \in 1..Len(<<>>) : <<>>[i].lo <= <<>>[i].hi}
             k == Cardinality(none)
  <1>1. none = {}
    OBVIOUS
  <1>2. k = 0
    BY <1>1, FS_EmptySet
  <1>3. ChunksOf(st, d, <<>>) = [j \in 1..k |-> [isClient |-> d = st.client, from |-> d,
                                  lo |-> <<>>[Nth(none, j)].lo, hi |-> <<>>[Nth(none, j)].hi]]
    BY DEF ChunksOf
  <1> HIDE DEF k, none
  <1>4. QED
    BY <1>2, <1>3

\* A SYN that is captured as it is sent.
LEMMA OrderlySyn ==
  ASSUME Types, Connected, InOrder, pc = "reading", NEW d \in Sides, ~sent[d].syn,
         d = "server" => sent["client"].syn, sent' = [sent EXCEPT ![d].syn = TRUE],
         NEW seg, seg = Syn(d), ProcessPacket(d, seg), UNCHANGED <<wire, orderly, pc>>
  PROVE  InOrder'
  <1> SUFFICES ASSUME orderly', Reopened' = {}
               PROVE  /\ stream' = Nil <=> ~sent'["client"].syn
                      /\ stream' # Nil => Spelled(stream', wire')
                      /\ pc' = "reading" => \A e \in Sides : Orderly(half'[e], sent'[e], past'[e])
    BY InOrderNext
  <1>1. orderly /\ Reopened = {}
    BY ReopenedStays
  <1>2. /\ stream = Nil <=> ~sent["client"].syn
        /\ stream # Nil => stream \in Streams /\ Spelled(stream, wire)
        /\ \A e \in Sides : Orderly(half[e], sent[e], past[e])
    BY <1>1, InOrderMeans DEF Types
  <1>3. sent[d].bytes = 0 /\ ~sent[d].fin
    BY SentFacts
  <1>4. half[d] = Closed /\ past[d] = "open"
    <2>1. past[d] # "ended" /\ past[d] # "reopened"
      BY <1>1, <1>2, <1>3 DEF Orderly, Reopened
    <2>2. QED
      BY <1>2, <1>3, <2>1 DEF Orderly, Types
  <1>5. seg = [seq |-> 0, len |-> 0, syn |-> TRUE, fin |-> FALSE]
    BY DEF Syn
  <1> DEFINE K == Known(d, seg)
             c == [Opened EXCEPT !.next = 1]
             a == Assembled(ConnOf(d, seg), seg)
             r == Reassembled(K, d, a.pieces)
  <1>6. K \in Streams /\ Spelled(K, wire)
    <2>1. K \in Streams
      BY KnownFacts
    <2>2. CASE stream # Nil
      BY <1>2, <2>2 DEF Known
    <2>3. CASE stream = Nil
      <3>1. d = "client" /\ ~sent["client"].syn
        BY <1>2, <2>3 DEF Sides
      <3>2. K.client = "client" /\ K.chunks = <<>>
        BY <1>5, <2>3, <3>1 DEF Known, ClientSide
      <3>3. wire = <<>>
        BY <3>1 DEF Connected
      <3>4. Len(wire) = 0 /\ Len(K.chunks) = 0
        BY <3>2, <3>3
      <3>5. QED
        BY <2>1, <3>2, <3>4 DEF Spelled
    <2>4. QED
      BY <2>1, <2>2, <2>3
  <1>7. a.next = 1 /\ a.pieces = <<>> /\ a.pages = <<>>
    <2>1. ConnOf(d, seg) = Opened /\ Opened.next = Unstarted
      BY <1>4 DEF ConnOf, Closed, Opened
    <2>2. a = Deliver(c, FALSE)
      <3>1. seg.syn /\ a = Assembled(Opened, seg)
        BY <1>5, <2>1
      <3>2. QED
        BY <2>1, <3>1 DEF Assembled
    <2>3. c.next = 1 /\ c.pages = <<>>
      BY DEF Opened, Closed
    <2> HIDE DEF c, a
    <2>4. FALSE \in BOOLEAN /\ c.next \in Int
      BY <2>3
    <2>5. QED
      BY <2>2, <2>3, <2>4, DeliverNothing
  <1>8. ~Ends(a.pieces)
    BY <1>7 DEF Ends
  <1>9. r.chunks = K.chunks /\ r.client = K.client
    <2>1. ChunksOf(K, d, <<>>) = <<>>
      BY NoPieces
    <2>2. r = [K EXCEPT !.gap = @ \/ \E i \in 1..Len(a.pieces) : a.pieces[i].skip,
                        !.chunks = @ \o ChunksOf(K, d, a.pieces)]
      BY DEF Reassembled
    <2>3. K.chunks \o <<>> = K.chunks
      <3>1. K.chunks \in Seq(StreamChunks)
        BY <1>6 DEF Streams
      <3>2. QED
        BY <3>1
    <2>4. r.chunks = K.chunks \o ChunksOf(K, d, a.pieces) /\ r.client = K.client
      <3> HIDE DEF K, a, r
      <3>1. QED
        BY <1>6, <2>2 DEF Streams
    <2>5. QED
      BY <1>7, <2>1, <2>3, <2>4
  <1>10. /\ half' = [half EXCEPT ![d] = IF Ends(a.pieces) THEN Closed
                       ELSE [open |-> TRUE, next |-> a.next, pages |-> a.pages]]
         /\ stream' = [r EXCEPT !.complete = @ \/ Ends(a.pieces)]
         /\ past' = [past EXCEPT ![d] = IF @ # "open" THEN "reopened"
                                        ELSE IF Ends(a.pieces) THEN "ended" ELSE "open"]
    BY <1>5 DEF ProcessPacket
  <1>11. half' = [half EXCEPT ![d] = [Opened EXCEPT !.next = 1]] /\ past' = past
    <2> HIDE DEF a
    <2>1. half' = [half EXCEPT ![d] = [open |-> TRUE, next |-> 1, pages |-> <<>>]]
      BY <1>7, <1>8, <1>10
    <2>2. past' = past
      BY <1>4, <1>8, <1>10 DEF Types
    <2>3. QED
      BY <2>1, <2>2, HalfRecord
  <1>12. /\ stream'.chunks = K.chunks /\ stream'.client = K.client /\ stream' # Nil
    <2>1. K \in Streams /\ stream' = [r EXCEPT !.complete = @ \/ Ends(a.pieces)]
      BY <1>6, <1>10
    <2>2. DOMAIN r = {"client", "complete", "gap", "chunks"}
      BY <1>6 DEF Reassembled, Streams
    <2> HIDE DEF K, a, r
    <2>3. DOMAIN stream' = {"client", "complete", "gap", "chunks"}
          /\ stream'.chunks = r.chunks /\ stream'.client = r.client
      BY <2>1, <2>2
    <2>4. stream' # Nil
      <3>1. DOMAIN Nil = {} /\ "client" \in DOMAIN stream'
        BY <2>3 DEF Nil
      <3>2. QED
        BY <3>1
    <2>5. QED
      BY <1>9, <2>3, <2>4
  <1>13. Spelled(stream', wire')
    <2> HIDE DEF K
    <2>1. QED
      BY <1>6, <1>12 DEF Spelled
  <1>14. /\ sent'[d].syn /\ sent'[d].bytes = 0 /\ ~sent'[d].fin
         /\ \A e \in Sides \ {d} : sent'[e] = sent[e]
    <2>1. sent[d] \in [syn : BOOLEAN, fin : BOOLEAN, bytes : 0..MaxBytes]
      BY DEF Types
    <2>2. QED
      BY <1>3, <2>1 DEF Types
  <1>15. sent'["client"].syn
    <2>1. d = "client" \/ (d = "server" /\ "client" \in Sides \ {d})
      BY DEF Sides
    <2>2. QED
      BY <1>14, <2>1
  <1>16. \A e \in Sides : Orderly(half'[e], sent'[e], past'[e])
    <2> TAKE e \in Sides
    <2>1. CASE e = d
      <3>1. half'[d] = [Opened EXCEPT !.next = 0 + 1] /\ past'[d] = "open"
        BY <1>4, <1>11 DEF Types
      <3>2. QED
        BY <1>14, <2>1, <3>1 DEF Orderly
    <2>2. CASE e # d
      <3>1. half'[e] = half[e] /\ past'[e] = past[e] /\ sent'[e] = sent[e]
        BY <1>11, <1>14, <2>2 DEF Types
      <3>2. QED
        BY <1>2, <3>1
    <2>3. QED
      BY <2>1, <2>2
  <1>17. QED
    BY <1>12, <1>13, <1>15, <1>16

\* The flush of a direction that keeps nothing back.
LEMMA FlushNothing ==
  ASSUME NEW st \in Streams, NEW d \in Sides, half[d].pages = <<>>, half[d].next \in Int
  PROVE  /\ Flushed(st, d) \in Streams /\ Flushed(st, d).client = st.client
         /\ Flushed(st, d).chunks = st.chunks
  <1>1. CASE ~half[d].open
    BY <1>1 DEF Flushed
  <1>2. CASE half[d].open
    <2> DEFINE h == half[d]
               ps == Deliver(h, TRUE).pieces
               skips == \E i \in 1..Len(ps) : ps[i].skip
    <2>1. ps = <<>>
      <3> HIDE DEF h
      <3>1. TRUE \in BOOLEAN /\ h.next \in Int /\ h.pages = <<>>
        BY DEF h
      <3>2. QED
        BY <3>1, DeliverNothing
    <2>2. Flushed(st, d) = [[st EXCEPT !.gap = @ \/ skips, !.chunks = @ \o ChunksOf(st, d, ps)]
                              EXCEPT !.complete = TRUE]
      BY <1>2 DEF Flushed, Reassembled
    <2> HIDE DEF ps
    <2>3. ChunksOf(st, d, ps) = <<>>
      BY <2>1, NoPieces
    <2>4. ~skips
      BY <2>1
    <2>5. st.chunks \in Seq(StreamChunks) /\ st.chunks \o <<>> = st.chunks
      <3>1. st.chunks \in Seq(StreamChunks)
        BY DEF Streams
      <3>2. QED
        BY <3>1
    <2> HIDE DEF skips
    <2>6. (st.gap \/ skips) \in BOOLEAN /\ TRUE \in BOOLEAN
      BY <2>4 DEF Streams
    <2>7. Flushed(st, d) = [[st EXCEPT !.gap = @ \/ skips, !.chunks = st.chunks]
                             EXCEPT !.complete = TRUE]
      BY <2>2, <2>3, <2>5
    <2>8. QED
      BY <2>5, <2>6, <2>7 DEF Streams
  <1>3. QED
    BY <1>1, <1>2

\* The end of a capture in the order of the wire.
LEMMA OrderlyEnd ==
  ASSUME Types, InOrder, GetStreams
  PROVE  InOrder'
  <1> SUFFICES ASSUME orderly', Reopened' = {}
               PROVE  /\ stream' = Nil <=> ~sent'["client"].syn
                      /\ stream' # Nil => Spelled(stream', wire')
                      /\ pc' = "reading" => \A e \in Sides : Orderly(half'[e], sent'[e], past'[e])
    BY InOrderNext
  <1>1. orderly /\ Reopened = {} /\ pc = "reading" /\ pc' = "done" /\ UNCHANGED <<sent, wire>>
    BY DEF GetStreams, Reopened
  <1>2. PICK d \in Sides : stream' = Flushed(Flushed(stream, d), Peer(d))
    BY DEF GetStreams
  <1>3. /\ stream \in Streams /\ Spelled(stream, wire) /\ sent["client"].syn
        /\ \A e \in Sides : Orderly(half[e], sent[e], past[e])
    BY <1>1, InOrderMeans DEF GetStreams, Types
  <1>4. \A e \in Sides : half[e].pages = <<>> /\ half[e].next \in Int
    <2> TAKE e \in Sides
    <2>1. half[e] \in Halves
      BY DEF Types
    <2>2. half[e].next \in Int
      BY <2>1 DEF Halves, Unstarted
    <2>3. Closed.pages = <<>> /\ [Opened EXCEPT !.next = sent[e].bytes + 1].pages = <<>>
      BY DEF Closed, Opened
    <2>4. half[e] = Closed \/ half[e] = [Opened EXCEPT !.next = sent[e].bytes + 1]
      BY <1>3 DEF Orderly
    <2>5. QED
      BY <2>2, <2>3, <2>4
  <1> DEFINE st == Flushed(stream, d)
             p == Peer(d)
  <1>5. st \in Streams /\ st.client = stream.client /\ st.chunks = stream.chunks
    BY <1>3, <1>4, FlushNothing
  <1>6. p \in Sides /\ stream' = Flushed(st, p)
    BY <1>2 DEF Peer, Sides
  <1> HIDE DEF st, p
  <1>7. stream' \in Streams /\ stream'.client = stream.client /\ stream'.chunks = stream.chunks
    BY <1>4, <1>5, <1>6, FlushNothing
  <1>8. Spelled(stream', wire')
    BY <1>1, <1>3, <1>7 DEF Spelled
  <1>9. QED
    BY <1>1, <1>3, <1>7, <1>8, NotNil

-----------------------------------------------------------------------------
(* The invariant *)

\* The parts of RInv that are proved together.
LEMMA RInvMeans ==
  RInv <=> TypeOK /\ Fits /\ Connected /\ InOrder
  BY DEF RInv, Fits

\* The types the lemmas above need.
LEMMA TypesOfTypeOK ==
  ASSUME TypeOK PROVE Types
  BY DEF TypeOK, Types

\* The bounds are numbers.
LEMMA Bounds ==
  MaxBytes \in Nat /\ MaxRepeats \in Nat
  BY ReassemblyAssumption DEF ReassemblyAssumption

\* The initial state.
LEMMA InitHolds ==
  Init => RInv
  <1> SUFFICES ASSUME Init PROVE TypeOK /\ Fits /\ Connected /\ InOrder
    BY RInvMeans
  <1> USE DEF Init
  <1>1. Closed \in Halves
    <2>1. <<>> \in Seq(Segments) /\ FALSE \in BOOLEAN
      OBVIOUS
    <2>2. QED
      BY <2>1 DEF Closed, Halves
  <1>2. /\ \A e \in Sides : /\ sent[e].bytes = 0 /\ ~sent[e].syn /\ ~sent[e].fin
                            /\ half[e] = Closed /\ past[e] = "open"
        /\ "client" \in Sides /\ "server" \in Sides
    BY DEF Sides
  <1>3. TypeOK
    <2>1. 0 \in 0..MaxBytes /\ 0 \in 0..MaxRepeats
      BY Bounds
    <2>2. sent \in [Sides -> [syn : BOOLEAN, fin : BOOLEAN, bytes : 0..MaxBytes]]
      BY <2>1
    <2>3. wire \in Seq(Sides \X (1..MaxBytes)) /\ past \in [Sides -> {"open", "ended", "reopened"}]
      OBVIOUS
    <2>4. QED
      BY <1>1, <2>1, <2>2, <2>3 DEF TypeOK
  <1>4. Chunks = <<>> /\ Gap = FALSE
    BY DEF Chunks, Gap
  <1>5. Fits
    <2>1. ChunksFit /\ GapStays
      BY <1>4 DEF ChunksFit, GapStays
    <2>2. ASSUME NEW e \in Sides PROVE HalfFits(e) /\ InStep(e)
      <3>1. half[e].next = Unstarted /\ Len(half[e].pages) = 0
        BY <1>2 DEF Closed
      <3>2. HalfFits(e)
        BY <1>2, <3>1 DEF HalfFits
      <3>3. From(Chunks, e) = {}
        BY <1>4 DEF From
      <3>4. InStep(e)
        BY <1>2, <3>3 DEF InStep, UpTo
      <3>5. QED
        BY <3>2, <3>4
    <2>3. QED
      BY <2>1, <2>2 DEF Fits
  <1>6. Connected
    BY <1>2 DEF Connected
  <1>7. InOrder
    BY <1>2 DEF InOrder, ChunksAreWire, Nil
  <1>8. QED
    BY <1>3, <1>5, <1>6, <1>7

\* What holds of a step if it holds of the packet it may capture.
LEMMA CapturedStep ==
  ASSUME RInv, SentMore, pc = "reading", pc' = pc, NEW d \in Sides, NEW seg,
         Sendable(seg, sent'[d].bytes), Captured(d, seg),
         port' = port, repeats' \in 0..MaxRepeats, wire' \in Seq(Sides \X (1..MaxBytes)),
         Connected', ProcessPacket(d, seg) /\ orderly' = orderly => InOrder'
  PROVE  RInv'
  <1>1. TypeOK /\ Fits /\ Types
    BY RInvMeans, TypesOfTypeOK
  <1>2. CASE ProcessPacket(d, seg) /\ orderly' = orderly
    <2>1. Types' /\ Fits'
      BY <1>1, <1>2, PacketStep
    <2>2. TypeOK'
      BY <1>1, <1>2, <2>1 DEF TypeOK, Types
    <2>3. QED
      BY <1>2, <2>1, <2>2 DEF RInv, Fits
  <1>3. CASE orderly' = FALSE /\ UNCHANGED <<half, stream, past>>
    <2>1. Chunks' = Chunks /\ (Gap' <=> Gap) /\ (stream' # Nil => stream' \in Streams)
      BY <1>1, <1>3 DEF Chunks, Gap, Types
    <2>2. Types' /\ Fits'
      BY <1>1, <1>3, <2>1, Unmoved
    <2>3. TypeOK'
      BY <1>1, <1>3, <2>2 DEF TypeOK, Types
    <2>4. InOrder'
      BY <1>3 DEF InOrder
    <2>5. QED
      BY <2>2, <2>3, <2>4 DEF RInv, Fits
  <1>4. QED
    BY <1>2, <1>3 DEF Captured

\* What SentMore says, of one direction of which more is sent.
LEMMA MoreSent ==
  ASSUME Types, NEW d \in Sides, NEW x \in [syn : BOOLEAN, fin : BOOLEAN, bytes : 0..MaxBytes],
         sent' = [sent EXCEPT ![d] = x], x.bytes >= sent[d].bytes
  PROVE  SentMore /\ sent'[d] = x /\ \A e \in Sides \ {d} : sent'[e] = sent[e]
  <1>1. \A e \in Sides : sent[e].bytes \in Nat
    <2> TAKE e \in Sides
    <2>1. sent[e] \in [syn : BOOLEAN, fin : BOOLEAN, bytes : 0..MaxBytes]
      BY DEF Types
    <2>2. QED
      BY <2>1
  <1>2. sent'[d] = x /\ \A e \in Sides \ {d} : sent'[e] = sent[e]
    BY DEF Types
  <1>3. \A e \in Sides : sent'[e].bytes >= sent[e].bytes
    BY <1>1, <1>2
  <1>4. sent' \in [Sides -> [syn : BOOLEAN, fin : BOOLEAN, bytes : 0..MaxBytes]]
    BY DEF Types
  <1>5. QED
    BY <1>2, <1>3, <1>4 DEF SentMore

\* A SYN is sent.
LEMMA SynStep ==
  ASSUME RInv, pc = "reading", UNCHANGED <<pc, port, repeats>>, NEW d \in Sides, SendSyn(d)
  PROVE  RInv'
  <1>1. TypeOK /\ Types /\ Connected /\ InOrder
    BY RInvMeans, TypesOfTypeOK
  <1> DEFINE x == [sent[d] EXCEPT !.syn = TRUE]
  <1>2. sent' = [sent EXCEPT ![d] = x] /\ UNCHANGED wire
    BY DEF SendSyn
  <1>3. PICK seg : seg = Syn(d) /\ Captured(d, seg)
    BY DEF SendSyn, Captured, ProcessPacket
  <1>4. sent[d] \in [syn : BOOLEAN, fin : BOOLEAN, bytes : 0..MaxBytes]
    BY <1>1 DEF Types
  <1>5. /\ x \in [syn : BOOLEAN, fin : BOOLEAN, bytes : 0..MaxBytes] /\ x.bytes >= sent[d].bytes
        /\ x.bytes = sent[d].bytes /\ x.fin = sent[d].fin /\ x.syn
    <2>1. TRUE \in BOOLEAN /\ sent[d].bytes \in Nat
      BY <1>4
    <2>2. /\ x \in [syn : BOOLEAN, fin : BOOLEAN, bytes : 0..MaxBytes]
          /\ x.bytes = sent[d].bytes /\ x.fin = sent[d].fin /\ x.syn
      BY <1>4, <2>1
    <2> HIDE DEF x
    <2>3. QED
      BY <2>1, <2>2
  <1> HIDE DEF x
  <1>6. SentMore /\ sent'[d] = x /\ \A e \in Sides \ {d} : sent'[e] = sent[e]
    BY <1>1, <1>2, <1>5, MoreSent
  <1>7. Sendable(seg, sent'[d].bytes)
    <2>1. seg = [seq |-> 0, len |-> 0, syn |-> TRUE, fin |-> FALSE]
      BY <1>3 DEF Syn
    <2>2. x.bytes \in Nat
      BY <1>5
    <2>3. QED
      BY <1>6, <2>1, <2>2 DEF Sendable, Segments
  <1>8. Connected'
    <2>1. \A e \in Sides : /\ sent'[e].bytes = sent[e].bytes /\ sent'[e].fin = sent[e].fin
                           /\ sent[e].syn => sent'[e].syn
      BY <1>5, <1>6
    <2>2. sent'["server"].syn => sent'["client"].syn
      <3>1. d = "client" \/ d = "server"
        BY DEF Sides
      <3>2. sent["server"].syn => sent["client"].syn
        BY <1>1 DEF Connected
      <3>3. "server" \in Sides /\ "client" \in Sides /\ (d = "server" => sent["client"].syn)
        BY DEF Sides, SendSyn
      <3>4. CASE d = "client"
        BY <1>5, <1>6, <3>4
      <3>5. CASE d = "server"
        BY <2>1, <3>3, <3>5
      <3>6. QED
        BY <3>1, <3>4, <3>5
    <2>3. "server" \in Sides
      BY DEF Sides
    <2>4. QED
      BY <1>1, <1>2, <2>1, <2>2, <2>3 DEF Connected
  <1>9. ASSUME ProcessPacket(d, seg), orderly' = orderly PROVE InOrder'
    <2>1. sent' = [sent EXCEPT ![d].syn = TRUE] /\ ~sent[d].syn
          /\ (d = "server" => sent["client"].syn)
      BY DEF SendSyn
    <2>2. QED
      BY <1>1, <1>2, <1>3, <1>9, <2>1, OrderlySyn
  <1>10. wire' \in Seq(Sides \X (1..MaxBytes)) /\ repeats' \in 0..MaxRepeats
    BY <1>1, <1>2 DEF TypeOK
  <1>11. QED
    BY <1>3, <1>6, <1>7, <1>8, <1>9, <1>10, CapturedStep

\* A byte is sent.
LEMMA ByteStep ==
  ASSUME RInv, pc = "reading", UNCHANGED <<pc, port, repeats>>, NEW d \in Sides, SendByte(d)
  PROVE  RInv'
  <1>1. TypeOK /\ Types /\ Connected /\ InOrder
    BY RInvMeans, TypesOfTypeOK
  <1> DEFINE b == sent[d].bytes + 1
             x == [sent[d] EXCEPT !.bytes = b]
  <1>2. /\ sent' = [sent EXCEPT ![d] = x] /\ sent["server"].syn /\ ~sent[d].fin
        /\ sent[d].bytes < MaxBytes
    BY DEF SendByte
  <1>3. sent[d] \in [syn : BOOLEAN, fin : BOOLEAN, bytes : 0..MaxBytes] /\ MaxBytes \in Nat
    <2>1. MaxBytes \in Nat
      BY Bounds
    <2>2. QED
      BY <1>1, <2>1 DEF Types
  <1>4. sent'[d].bytes = b /\ b \in 1..MaxBytes
    BY <1>1, <1>2, <1>3 DEF Types
  <1>5. PICK seg : seg = Bytes(b, b) /\ Captured(d, seg)
    BY <1>4 DEF SendByte, Captured, ProcessPacket
  <1>6. wire' = Append(wire, <<d, b>>)
    BY <1>4 DEF SendByte
  <1>7. /\ x \in [syn : BOOLEAN, fin : BOOLEAN, bytes : 0..MaxBytes] /\ x.bytes >= sent[d].bytes
        /\ x.fin = sent[d].fin /\ x.syn = sent[d].syn
    BY <1>3, <1>4
  <1> HIDE DEF x
  <1>8. SentMore /\ sent'[d] = x /\ \A e \in Sides \ {d} : sent'[e] = sent[e]
    BY <1>1, <1>2, <1>7, MoreSent
  <1>9. Sendable(seg, sent'[d].bytes)
    <2> HIDE DEF b
    <2>1. seg = [seq |-> b, len |-> b - b + 1, syn |-> FALSE, fin |-> FALSE]
      BY <1>5 DEF Bytes
    <2>2. b - b + 1 = 1 /\ b \in Nat /\ b >= 1
      BY <1>4
    <2>3. seg = [seq |-> b, len |-> 1, syn |-> FALSE, fin |-> FALSE]
      BY <2>1, <2>2
    <2> DEFINE y == [seq |-> b, len |-> 1, syn |-> FALSE, fin |-> FALSE]
    <2>4. y \in Segments /\ y.seq + y.len <= b + 1 /\ y.seq >= 1
      <3>1. 1 \in Nat /\ FALSE \in BOOLEAN
        OBVIOUS
      <3>2. QED
        BY <2>2, <3>1 DEF Segments
    <2>5. QED
      BY <1>4, <2>3, <2>4 DEF Sendable
  <1>10. Connected'
    <2>1. \A e \in Sides : sent'[e].syn = sent[e].syn /\ sent'[e].fin = sent[e].fin
      BY <1>7, <1>8
    <2>2. "server" \in Sides /\ "client" \in Sides
      BY DEF Sides
    <2>3. QED
      BY <1>1, <1>2, <2>1, <2>2 DEF Connected
  <1>11. ASSUME ProcessPacket(d, seg), orderly' = orderly PROVE InOrder'
    <2>1. sent' = [sent EXCEPT ![d].bytes = @ + 1]
      BY DEF SendByte
    <2>2. QED
      BY <1>1, <1>2, <1>5, <1>6, <1>11, <2>1, OrderlyByte
  <1>12. wire' \in Seq(Sides \X (1..MaxBytes)) /\ repeats' \in 0..MaxRepeats
    <2>1. wire \in Seq(Sides \X (1..MaxBytes)) /\ <<d, b>> \in Sides \X (1..MaxBytes)
      BY <1>1, <1>4 DEF TypeOK
    <2> HIDE DEF b
    <2>2. QED
      BY <1>1, <1>6, <2>1 DEF TypeOK
  <1>13. QED
    BY <1>5, <1>8, <1>9, <1>10, <1>11, <1>12, CapturedStep

\* A FIN is sent.
LEMMA FinStep ==
  ASSUME RInv, pc = "reading", UNCHANGED <<pc, port, repeats>>, NEW d \in Sides, SendFin(d)
  PROVE  RInv'
  <1>1. TypeOK /\ Types /\ Connected /\ InOrder
    BY RInvMeans, TypesOfTypeOK
  <1> DEFINE x == [sent[d] EXCEPT !.fin = TRUE]
  <1>2. sent' = [sent EXCEPT ![d] = x] /\ UNCHANGED wire /\ sent["server"].syn /\ ~sent[d].fin
    BY DEF SendFin
  <1>3. PICK seg : seg = Fin(d) /\ Captured(d, seg)
    BY DEF SendFin, Captured, ProcessPacket
  <1>4. sent[d] \in [syn : BOOLEAN, fin : BOOLEAN, bytes : 0..MaxBytes]
    BY <1>1 DEF Types
  <1>5. /\ x \in [syn : BOOLEAN, fin : BOOLEAN, bytes : 0..MaxBytes] /\ x.bytes >= sent[d].bytes
        /\ x.bytes = sent[d].bytes /\ x.syn = sent[d].syn
    <2>1. TRUE \in BOOLEAN /\ sent[d].bytes \in Nat
      BY <1>4
    <2>2. /\ x \in [syn : BOOLEAN, fin : BOOLEAN, bytes : 0..MaxBytes]
          /\ x.bytes = sent[d].bytes /\ x.syn = sent[d].syn
      BY <1>4, <2>1
    <2> HIDE DEF x
    <2>3. QED
      BY <2>1, <2>2
  <1> HIDE DEF x
  <1>6. SentMore /\ sent'[d] = x /\ \A e \in Sides \ {d} : sent'[e] = sent[e]
    BY <1>1, <1>2, <1>5, MoreSent
  <1>7. Sendable(seg, sent'[d].bytes)
    <2> DEFINE b == sent[d].bytes
    <2>1. seg = [seq |-> b + 1, len |-> 0, syn |-> FALSE, fin |-> TRUE]
      BY <1>3 DEF Fin
    <2>2. b \in Nat /\ sent'[d].bytes = b
      BY <1>4, <1>5, <1>6
    <2> HIDE DEF b
    <2>3. QED
      BY <2>1, <2>2 DEF Sendable, Segments
  <1>8. Connected'
    <2>1. \A e \in Sides : sent'[e].syn = sent[e].syn
      BY <1>5, <1>6
    <2>2. "server" \in Sides /\ "client" \in Sides
      BY DEF Sides
    <2>3. QED
      BY <1>1, <1>2, <2>1, <2>2 DEF Connected
  <1>9. ASSUME ProcessPacket(d, seg), orderly' = orderly PROVE InOrder'
    <2>1. sent' = [sent EXCEPT ![d].fin = TRUE]
      BY DEF SendFin
    <2>2. QED
      BY <1>1, <1>2, <1>3, <1>9, <2>1, OrderlyFin
  <1>10. wire' \in Seq(Sides \X (1..MaxBytes)) /\ repeats' \in 0..MaxRepeats
    BY <1>1, <1>2 DEF TypeOK
  <1>11. QED
    BY <1>3, <1>6, <1>7, <1>8, <1>9, <1>10, CapturedStep

\* Segments that are captured late or again.
LEMMA RepeatStep ==
  ASSUME RInv, pc = "reading", UNCHANGED <<pc, port>>, NEW d \in Sides, Repeat(d)
  PROVE  RInv'
  <1>1. TypeOK /\ Types /\ Connected /\ InOrder
    BY RInvMeans, TypesOfTypeOK
  <1>2. UNCHANGED <<sent, wire, orderly>> /\ repeats < MaxRepeats /\ repeats' = repeats + 1
    BY DEF Repeat
  <1> DEFINE b == sent[d].bytes
  <1>3. b \in Nat /\ (b > 0 => sent[d].syn) /\ (sent[d].fin => sent[d].syn)
        /\ (sent["server"].syn => sent[d].syn)
    BY <1>1, SentFacts
  <1>4. PICK seg : /\ ProcessPacket(d, seg) /\ sent[d].syn
                   /\ \/ seg = Syn(d)
                      \/ seg = Fin(d) /\ sent[d].fin
                      \/ seg = Ack(d)
                      \/ \E i, j \in 1..b : i <= j /\ seg = Bytes(i, j)
    BY <1>3 DEF Repeat, ProcessPacket
  <1> HIDE DEF b
  <1>5. Sendable(seg, b) /\ (seg.fin => sent[d].fin)
    <2>0. TRUE \in BOOLEAN /\ FALSE \in BOOLEAN /\ 0 \in Nat
      OBVIOUS
    <2>1. CASE seg = Syn(d)
      <3>1. seg = [seq |-> 0, len |-> 0, syn |-> TRUE, fin |-> FALSE]
        BY <2>1 DEF Syn
      <3>2. QED
        BY <1>3, <2>0, <3>1 DEF Sendable, Segments
    <2>2. CASE seg = Fin(d) /\ sent[d].fin
      <3>1. seg = [seq |-> b + 1, len |-> 0, syn |-> FALSE, fin |-> TRUE]
        BY <2>2 DEF Fin, b
      <3>2. QED
        BY <1>3, <2>0, <2>2, <3>1 DEF Sendable, Segments
    <2>3. CASE seg = Ack(d)
      <3>1. seg = [seq |-> b + 1, len |-> 0, syn |-> FALSE, fin |-> FALSE]
        BY <2>3 DEF Ack, b
      <3>2. QED
        BY <1>3, <2>0, <3>1 DEF Sendable, Segments
    <2>4. ASSUME NEW i \in 1..b, NEW j \in 1..b, i <= j, seg = Bytes(i, j)
          PROVE  Sendable(seg, b) /\ (seg.fin => sent[d].fin)
      <3>1. seg = [seq |-> i, len |-> j - i + 1, syn |-> FALSE, fin |-> FALSE]
        BY <2>4 DEF Bytes
      <3>2. j - i + 1 \in Nat /\ i \in Nat /\ i >= 1 /\ i + (j - i + 1) <= b + 1
        BY <1>3, <2>4
      <3>3. QED
        BY <2>0, <3>1, <3>2 DEF Sendable, Segments
    <2>5. QED
      BY <1>4, <2>1, <2>2, <2>3, <2>4
  <1>6. SentMore /\ sent'[d].bytes = b
    <2>1. \A e \in Sides : sent[e].bytes >= sent[e].bytes
      BY <1>1, SentFacts
    <2>2. QED
      BY <1>1, <1>2, <2>1 DEF SentMore, Types, b
  <1>7. InOrder'
    <2>1. seg \in Segments /\ seg.seq + seg.len <= sent[d].bytes + 1
      BY <1>5 DEF Sendable, b
    <2>2. QED
      BY <1>1, <1>2, <1>4, <1>5, <2>1, OrderlyRepeat
  <1>8. Captured(d, seg)
    BY <1>2, <1>4 DEF Captured
  <1>9. repeats' \in 0..MaxRepeats /\ wire' \in Seq(Sides \X (1..MaxBytes)) /\ Connected'
    <2>1. repeats \in 0..MaxRepeats /\ MaxRepeats \in Nat
      <3>1. MaxRepeats \in Nat
        BY Bounds
      <3>2. QED
        BY <1>1, <3>1 DEF TypeOK
    <2>2. QED
      BY <1>1, <1>2, <2>1 DEF TypeOK, Connected
  <1>10. QED
    BY <1>4, <1>5, <1>6, <1>7, <1>8, <1>9, CapturedStep

\* Every packet of the capture.
LEMMA ReadingStep ==
  ASSUME RInv, Reading
  PROVE  RInv'
  <1>1. pc = "reading" /\ UNCHANGED <<pc, port>>
    BY DEF Reading
  <1>2. PICK d \in Sides : \/ SendSyn(d) /\ UNCHANGED repeats
                           \/ SendByte(d) /\ UNCHANGED repeats
                           \/ SendFin(d) /\ UNCHANGED repeats
                           \/ Repeat(d)
    BY DEF Reading
  <1>3. CASE SendSyn(d) /\ UNCHANGED repeats
    BY <1>1, <1>3, SynStep
  <1>4. CASE SendByte(d) /\ UNCHANGED repeats
    BY <1>1, <1>4, ByteStep
  <1>5. CASE SendFin(d) /\ UNCHANGED repeats
    BY <1>1, <1>5, FinStep
  <1>6. CASE Repeat(d)
    BY <1>1, <1>6, RepeatStep
  <1>7. QED
    BY <1>2, <1>3, <1>4, <1>5, <1>6

\* The end of the capture.
LEMMA EndStep ==
  ASSUME RInv, GetStreams
  PROVE  RInv'
  <1>1. TypeOK /\ Types /\ Fits /\ Connected /\ InOrder
    BY RInvMeans, TypesOfTypeOK
  <1>2. pc' = "done" /\ UNCHANGED <<port, sent, wire, orderly, past, repeats>>
    BY DEF GetStreams
  <1>3. Types' /\ Fits'
    BY <1>1, GetStreamsStep
  <1>4. InOrder'
    BY <1>1, OrderlyEnd
  <1>5. TypeOK'
    BY <1>1, <1>2, <1>3 DEF TypeOK, Types
  <1>6. Connected'
    BY <1>1, <1>2 DEF Connected
  <1>7. QED
    BY <1>3, <1>4, <1>5, <1>6 DEF RInv, Fits

\* A step that changes nothing.
LEMMA Stutters ==
  ASSUME RInv, UNCHANGED vars
  PROVE  RInv'
  <1> USE DEF vars
  <1>1. Chunks' = Chunks /\ (Gap' <=> Gap) /\ Reopened' = Reopened
    BY DEF Chunks, Gap, Reopened
  <1>2. TypeOK' /\ Connected' /\ InOrder'
    BY DEF RInv, TypeOK, Connected, InOrder, ChunksAreWire, Reopened
  <1>3. ChunksFit' /\ GapStays'
    BY <1>1 DEF RInv, ChunksFit, GapStays, Missing, Delivered
  <1>4. \A d \in Sides : HalfFits(d)' /\ InStep(d)'
    BY <1>1 DEF RInv, HalfFits, WasSent, InStep
  <1>5. QED
    BY <1>2, <1>3, <1>4 DEF RInv

\* The strengthening holds in every state: the assembler's buffers hold what was
\* sent, the chunks of a direction end where the assembler goes on, and a
\* capture in the order of the wire leaves nothing in the buffers.
THEOREM Inductive == Spec => []RInv
  <1>1. Init => RInv
    BY InitHolds
  <1>2. RInv /\ [Next]_vars => RInv'
    BY ReadingStep, EndStep, Stutters DEF Next
  <1>3. QED
    BY <1>1, <1>2, PTL DEF Spec

-----------------------------------------------------------------------------
(* The properties *)

\* The numbers the chunks are made of.
LEMMA ChunkFacts ==
  ASSUME RInv
  PROVE  /\ \A d \in Sides : sent[d].bytes \in Nat /\ half[d].next \in Int
         /\ \A i \in 1..Len(Chunks) :
              /\ Chunks[i].from \in Sides /\ Chunks[i].lo \in Nat /\ Chunks[i].hi \in Nat
              /\ 1 <= Chunks[i].lo /\ Chunks[i].lo <= Chunks[i].hi
              /\ Chunks[i].hi <= sent[Chunks[i].from].bytes
  <1>1. TypeOK /\ Types /\ ChunksFit /\ Connected
    BY RInvMeans, TypesOfTypeOK DEF Fits
  <1>2. \A d \in Sides : sent[d].bytes \in Nat
    BY <1>1, SentFacts
  <1>3. \A d \in Sides : half[d].next \in Int
    <2> TAKE d \in Sides
    <2>1. half[d] \in Halves
      BY <1>1 DEF Types
    <2>2. QED
      BY <2>1 DEF Halves, Unstarted
  <1>4. \A i \in 1..Len(Chunks) : Chunks[i] \in StreamChunks
    <2>1. CASE stream = Nil
      BY <2>1 DEF Chunks
    <2>2. CASE stream # Nil
      <3>1. stream.chunks \in Seq(StreamChunks) /\ Chunks = stream.chunks
        BY <1>1, <2>2 DEF Types, Streams, Chunks
      <3>2. QED
        BY <3>1
    <2>3. QED
      BY <2>1, <2>2
  <1>5. \A i \in 1..Len(Chunks) :
          Chunks[i].from \in Sides /\ Chunks[i].lo \in Nat /\ Chunks[i].hi \in Nat
    BY <1>4 DEF StreamChunks
  <1>6. QED
    BY <1>1, <1>2, <1>3, <1>5 DEF ChunksFit

\* BytesOnceInOrder for every number of bytes, losses and repeats: as long as a
\* direction was not met again after its FIN, its bytes come out once, in order,
\* and only those that were sent (reassembler.go:114-144).
THEOREM ComesOutOnce == Spec => []BytesOnceInOrder
  <1>1. RInv => BytesOnceInOrder
    <2> SUFFICES ASSUME RInv, NEW d \in Sides \ Reopened
                 PROVE  /\ Delivered(d) \subseteq 1..sent[d].bytes
                        /\ \A i, j \in From(Chunks, d) : i < j => Chunks[i].hi < Chunks[j].lo
      BY DEF BytesOnceInOrder
    <2>1. \E n : UpTo(Chunks, Gap, d, n)
      BY DEF RInv, InStep, Reopened
    <2>2. \A i, j \in From(Chunks, d) : i < j => Chunks[i].hi < Chunks[j].lo
      BY <2>1 DEF UpTo
    <2>3. \A i \in From(Chunks, d) : Chunks[i].lo..Chunks[i].hi \subseteq 1..sent[d].bytes
      <3> TAKE i \in From(Chunks, d)
      <3>1. i \in 1..Len(Chunks) /\ Chunks[i].from = d
        BY DEF From
      <3>2. /\ Chunks[i].lo \in Nat /\ Chunks[i].hi \in Nat /\ sent[d].bytes \in Nat
            /\ 1 <= Chunks[i].lo /\ Chunks[i].hi <= sent[d].bytes
        BY <3>1, ChunkFacts
      <3>3. QED
        BY <3>2
    <2>4. QED
      BY <2>2, <2>3 DEF Delivered, Carried
  <1>2. QED
    BY <1>1, Inductive, PTL

\* GapMeansMissing for every number of bytes, losses and repeats: a hole
\* between delivered bytes always raises the gap flag, because without it the
\* bytes from a chunk on are all there; and once raised it is right for ever,
\* because some byte the assembler has passed is missing (reassembler.go:120-122).
THEOREM GapsAreReal == Spec => []GapMeansMissing
  <1>1. RInv => GapMeansMissing
    <2> SUFFICES ASSUME RInv, stream # Nil, Reopened = {}
                 PROVE  /\ \A d \in Sides : Holes(d) # {} => stream.gap
                        /\ stream.gap => \E d \in Sides : Missing(d) # {}
      BY DEF GapMeansMissing
    <2>1. ASSUME NEW d \in Sides, Holes(d) # {}, ~stream.gap PROVE FALSE
      <3>1. PICK n \in Int : UpTo(Chunks, Gap, d, n)
        BY ChunkFacts DEF RInv, InStep, Reopened
      <3>2. PICK b \in Missing(d) : \E a, z \in Delivered(d) : a < b /\ b < z
        BY <2>1 DEF Holes
      <3>3. PICK a \in Delivered(d), z \in Delivered(d) : a < b /\ b < z
        BY <3>2
      <3>4. PICK i \in From(Chunks, d) : a \in Chunks[i].lo..Chunks[i].hi
        BY <3>3 DEF Delivered, Carried
      <3>5. PICK j \in From(Chunks, d) : z \in Chunks[j].lo..Chunks[j].hi
        BY <3>3 DEF Delivered, Carried
      <3>6. Chunks[i].lo..(n - 1) \subseteq Delivered(d) /\ Chunks[j].hi < n
        BY <2>1, <3>1 DEF UpTo, Gap, Delivered
      <3>7. b \in Nat /\ b \notin Delivered(d)
        BY <3>2, ChunkFacts DEF Missing
      <3>8. /\ Chunks[i].lo \in Nat /\ Chunks[i].hi \in Nat
            /\ Chunks[j].lo \in Nat /\ Chunks[j].hi \in Nat
        BY ChunkFacts DEF From
      <3>9. b \in Chunks[i].lo..(n - 1)
        BY <3>3, <3>4, <3>5, <3>6, <3>7, <3>8
      <3>10. QED
        BY <3>6, <3>7, <3>9
    <2>2. stream.gap => \E d \in Sides : Missing(d) # {}
      BY DEF RInv, GapStays, Gap
    <2>3. QED
      BY <2>1, <2>2
  <1>2. QED
    BY <1>1, Inductive, PTL

\* ChunksAreWire for every dialogue: if every segment is first captured as it is
\* sent, the chunks are the bytes of the wire in its order, each with its true
\* direction, whatever is retransmitted meanwhile (reassembler.go:114-144,
\* 163-217).
THEOREM ChunksTellTheWire == Spec => []ChunksAreWire
  <1>1. RInv => ChunksAreWire
    BY DEF RInv, InOrder, ChunksAreWire
  <1>2. QED
    BY <1>1, Inductive, PTL

-----------------------------------------------------------------------------
(* The protocol of a stream *)

\* At most one sign.
LEMMA FewSigns ==
  ASSUME NEW S, NEW x, S \subseteq {x}
  PROVE  Cardinality(S) \in 0..1 /\ (x \notin S => Cardinality(S) = 0)
  <1>1. S = {} \/ S = {x}
    OBVIOUS
  <1>2. Cardinality({}) = 0 /\ Cardinality({x}) = 1
    BY FS_EmptySet, FS_Singleton
  <1>3. QED
    BY <1>1, <1>2

\* The words of a session, and what of them comes together.
LEMMA PayloadFacts ==
  ASSUME RInv, NEW protocol \in {"SMTP", "IMAP", "POP3"}
  PROVE  /\ \A w \in Payload(protocol) :
              \E d \in Sides, b \in 1..2 : /\ w \in Says(protocol, d)[b]
                                          /\ Says(protocol, d)[b] \subseteq Payload(protocol)
         /\ Greeted => Says(protocol, "server")[1] \subseteq Payload(protocol)
  <1> DEFINE W(i, b) == Says(protocol, Chunks[i].from)[b]
             B(i) == Chunks[i].lo..Lesser(Chunks[i].hi, 2)
  <1>1. Payload(protocol) = UNION {UNION {W(i, b) : b \in B(i)} : i \in 1..Len(Chunks)}
    BY DEF Payload
  <1>2. \A i \in 1..Len(Chunks) : B(i) \subseteq 1..2 /\ (Chunks[i].lo = 1 => 1 \in B(i))
    <2> TAKE i \in 1..Len(Chunks)
    <2>1. /\ Chunks[i].lo \in Nat /\ Chunks[i].hi \in Nat
          /\ 1 <= Chunks[i].lo /\ Chunks[i].lo <= Chunks[i].hi
      BY ChunkFacts
    <2>2. QED
      BY <2>1 DEF Lesser
  <1>3. \A i \in 1..Len(Chunks) : Chunks[i].from \in Sides
    BY ChunkFacts
  <1> DEFINE P == Payload(protocol)
  <1>4. \A w : w \in P <=> \E i \in 1..Len(Chunks) : \E b \in B(i) : w \in W(i, b)
    <2> DEFINE Q(i) == UNION {W(i, b) : b \in B(i)}
    <2>1. \A i, w : w \in Q(i) <=> \E b \in B(i) : w \in W(i, b)
      OBVIOUS
    <2>2. P = UNION {Q(i) : i \in 1..Len(Chunks)}
      BY <1>1
    <2> HIDE DEF Q, P, B, W
    <2>3. \A w : w \in P <=> \E i \in 1..Len(Chunks) : w \in Q(i)
      BY <2>2
    <2>4. QED
      BY <2>1, <2>3
  <1> HIDE DEF P, B
  <1>5. \A i \in 1..Len(Chunks) : \A b \in B(i) : W(i, b) \subseteq P
    BY <1>4
  <1>6. \A w \in P : \E d \in Sides, b \in 1..2 : /\ w \in Says(protocol, d)[b]
                                                /\ Says(protocol, d)[b] \subseteq P
    BY <1>2, <1>3, <1>4, <1>5
  <1>7. Greeted => Says(protocol, "server")[1] \subseteq P
    BY <1>2, <1>5 DEF Greeted
  <1>8. QED
    BY <1>6, <1>7 DEF P

\* Five signs are finitely many.
LEMMA FiveSigns ==
  ASSUME NEW a, NEW b, NEW c, NEW d, NEW e
  PROVE  IsFiniteSet({a, b, c, d, e})
  <1>1. IsFiniteSet({a}) /\ IsFiniteSet({b}) /\ IsFiniteSet({c})
        /\ IsFiniteSet({d}) /\ IsFiniteSet({e})
    BY FS_Singleton
  <1>2. IsFiniteSet({a} \cup {b}) /\ IsFiniteSet({c} \cup {d})
    BY <1>1, FS_Union
  <1>3. IsFiniteSet(({a} \cup {b}) \cup ({c} \cup {d}))
    BY <1>2, FS_Union
  <1>4. IsFiniteSet((({a} \cup {b}) \cup ({c} \cup {d})) \cup {e})
    BY <1>1, <1>3, FS_Union
  <1>5. {a, b, c, d, e} = (({a} \cup {b}) \cup ({c} \cup {d})) \cup {e}
    OBVIOUS
  <1>6. QED
    BY <1>4, <1>5, Zenon

\* One sign, two signs.
LEMMA CountSigns ==
  ASSUME NEW T, IsFiniteSet(T)
  PROVE  /\ Cardinality(T) \in Nat
         /\ T # {} => Cardinality(T) >= 1
         /\ \A x, y \in T : x # y => Cardinality(T) >= 2
  <1>1. Cardinality(T) \in Nat /\ (Cardinality(T) = 0 => T = {})
    BY FS_CardinalityType, FS_EmptySet
  <1>2. ASSUME NEW x \in T, NEW y \in T, x # y PROVE Cardinality(T) >= 2
    <2>1. IsFiniteSet({x}) /\ Cardinality({x}) = 1
      BY FS_Singleton
    <2>2. IsFiniteSet({x} \cup {y}) /\ Cardinality({x} \cup {y}) = Cardinality({x}) + 1
      BY <1>2, <2>1, FS_AddElement
    <2>3. {x} \cup {y} \subseteq T
      BY <1>2
    <2>4. Cardinality({x} \cup {y}) <= Cardinality(T)
      BY <2>3, FS_Subset
    <2>5. QED
      BY <1>1, <2>1, <2>2, <2>4
  <1>3. QED
    BY <1>1, <1>2

\* What the detector sees of a payload.
LEMMA Signs ==
  ASSUME NEW P
  PROVE  /\ Cardinality(SMTPSigns(P)) \in Nat
         /\ Cardinality(IMAPSigns(P)) \in Nat
         /\ Cardinality(POP3Signs(P)) \in Nat
         /\ SMTPSigns(P) # {} => Cardinality(SMTPSigns(P)) >= 1
         /\ IMAPSigns(P) # {} => Cardinality(IMAPSigns(P)) >= 1
         /\ POP3Signs(P) # {} => Cardinality(POP3Signs(P)) >= 1
         /\ \A x, y \in IMAPSigns(P) : x # y => Cardinality(IMAPSigns(P)) >= 2
  <1> DEFINE S == {"220", "EHLO", "MAIL FROM", "250", "STARTTLS"}
             I == {"* OK", "CAPABILITY", "IMAP", "LOGIN", "A001"}
             O == {"+OK", "-ERR", "USER", "STLS", "LIST"}
  <1>1. IsFiniteSet(S) /\ IsFiniteSet(I) /\ IsFiniteSet(O)
    BY FiveSigns, Zenon
  <1>2. SMTPSigns(P) \subseteq S
    BY Zenon DEF SMTPSigns
  <1>3. IMAPSigns(P) \subseteq I /\ POP3Signs(P) \subseteq O
    BY Zenon DEF IMAPSigns, POP3Signs
  <1> HIDE DEF S, I, O
  <1>4. IsFiniteSet(SMTPSigns(P)) /\ IsFiniteSet(IMAPSigns(P)) /\ IsFiniteSet(POP3Signs(P))
    BY <1>1, <1>2, <1>3, FS_Subset
  <1>5. QED
    BY <1>4, CountSigns

\* How the scores decide.
LEMMA Decides ==
  ASSUME NEW p \in Nat, p \in {25, 143, 110, 2525, 10143, 10110, 4190}, NEW P,
         NEW s \in Nat, NEW i \in Nat, NEW o \in Nat,
         Cardinality(SMTPSigns(P)) = s, Cardinality(IMAPSigns(P)) = i,
         Cardinality(POP3Signs(P)) = o
  PROVE  /\ i <= 1 /\ o = 0 /\ (isSMTPPort(p) \/ (p = 4190 /\ s >= 1))
              => Detect(Ephemeral, p, P) = "SMTP"
         /\ s <= 1 /\ o <= 1 /\ (isIMAPPort(p) \/ (p = 4190 /\ i >= 1 /\ (s = 0 \/ i >= 2)))
              => Detect(Ephemeral, p, P) = "IMAP"
         /\ s = 0 /\ i = 0 /\ (isPOP3Port(p) \/ (p = 4190 /\ o >= 1))
              => Detect(Ephemeral, p, P) = "POP3"
  <1>1. /\ ~isSMTPPort(Ephemeral) /\ ~isIMAPPort(Ephemeral) /\ ~isPOP3Port(Ephemeral)
        /\ isSMTPPort(p) <=> p \in {25, 2525}
        /\ isIMAPPort(p) <=> p \in {143, 10143}
        /\ isPOP3Port(p) <=> p \in {110, 10110}
    BY DEF isSMTPPort, isIMAPPort, isPOP3Port, Ephemeral
  <1>2. QED
    BY <1>1 DEF Detect, Score

\* SpokenIsDetected for every connection and every capture: whatever part of a
\* session comes out, the words it shares with another protocol never outweigh
\* the port, nor the greeting on a port of none (detector.go:25-131).
THEOREM DetectionIsRight == Spec => []SpokenIsDetected
  <1> DEFINE Ports == {25, 143, 110, 2525, 10143, 10110, 4190}
             Spoken(p, protocol) == \/ protocol = "SMTP" /\ isSMTPPort(p)
                                    \/ protocol = "IMAP" /\ isIMAPPort(p)
                                    \/ protocol = "POP3" /\ isPOP3Port(p)
                                    \/ p = 4190 /\ Greeted
  <1>0. \A s, a, b : s = <<a, b>> => s[1] = a /\ s[2] = b
    OBVIOUS
  <1> HIDE DEF Ports, Spoken
  <1>1. ASSUME RInv, NEW p \in Ports, Spoken(p, "SMTP")
        PROVE  Detect(Ephemeral, p, Payload("SMTP")) = "SMTP"
    <2> DEFINE P == Payload("SMTP")
    <2>1. /\ Says("SMTP", "server") = <<{"220"}, {"250", "STARTTLS", "LOGIN"}>>
          /\ Says("SMTP", "client") = <<{"EHLO"}, {"LOGIN"}>>
      BY Zenon DEF Says
    <2>2. /\ P \subseteq {"220", "250", "STARTTLS", "LOGIN", "EHLO"}
          /\ Greeted => "220" \in P
      BY <1>1, <2>1, PayloadFacts DEF Sides
    <2> HIDE DEF P
    <2>3. IMAPSigns(P) \subseteq {"LOGIN"}
      BY <2>2, Zenon DEF IMAPSigns
    <2>4. POP3Signs(P) = {}
      BY <2>2, Zenon DEF POP3Signs
    <2>5. Greeted => "220" \in SMTPSigns(P)
      BY <2>2, Zenon DEF SMTPSigns
    <2>6. Cardinality(IMAPSigns(P)) <= 1 /\ Cardinality(POP3Signs(P)) = 0
      BY <2>3, <2>4, FewSigns
    <2>7. Greeted => Cardinality(SMTPSigns(P)) >= 1
      BY <2>5, Signs
    <2>8. isSMTPPort(p) \/ (p = 4190 /\ Greeted)
      BY <1>1, Zenon DEF Spoken
    <2>9. QED
      BY <1>1, <2>6, <2>7, <2>8, Signs, Decides DEF P, Ports
  <1>2. ASSUME RInv, NEW p \in Ports, Spoken(p, "IMAP")
        PROVE  Detect(Ephemeral, p, Payload("IMAP")) = "IMAP"
    <2> DEFINE P == Payload("IMAP")
    <2>1. /\ Says("IMAP", "server") = <<{"* OK"}, {"CAPABILITY", "IMAP", "STARTTLS"}>>
          /\ Says("IMAP", "client") = <<{"A001", "CAPABILITY"}, {"A001", "LIST"}>>
      BY Zenon DEF Says
    <2>2. /\ P \subseteq {"* OK", "CAPABILITY", "IMAP", "STARTTLS", "A001", "LIST"}
          /\ Greeted => "* OK" \in P
          /\ "STARTTLS" \in P => "CAPABILITY" \in P
      <3>1. \A w \in P : \E d \in Sides, b \in {1, 2} :
              w \in Says("IMAP", d)[b] /\ Says("IMAP", d)[b] \subseteq P
        BY <1>2, PayloadFacts
      <3>2. Greeted => Says("IMAP", "server")[1] \subseteq P
        BY <1>2, PayloadFacts
      <3> HIDE DEF P
      <3>3. /\ Says("IMAP", "server")[1] = {"* OK"}
            /\ Says("IMAP", "server")[2] = {"CAPABILITY", "IMAP", "STARTTLS"}
            /\ Says("IMAP", "client")[1] = {"A001", "CAPABILITY"}
            /\ Says("IMAP", "client")[2] = {"A001", "LIST"}
        BY <1>0, <2>1, Zenon
      <3>4. \A w \in P :
              \/ w \in {"* OK"}
              \/ w \in {"CAPABILITY", "IMAP", "STARTTLS"} /\ "CAPABILITY" \in P
              \/ w \in {"A001", "CAPABILITY"}
              \/ w \in {"A001", "LIST"}
        BY <3>1, <3>3, Zenon DEF Sides
      <3>5. QED
        BY <3>2, <3>3, <3>4, Zenon
    <2> HIDE DEF P
    <2>3. SMTPSigns(P) \subseteq {"STARTTLS"} /\ ("STARTTLS" \in SMTPSigns(P) => "STARTTLS" \in P)
      BY <2>2, Zenon DEF SMTPSigns
    <2>4. POP3Signs(P) \subseteq {"LIST"}
      BY <2>2, Zenon DEF POP3Signs
    <2>5. /\ Greeted => "* OK" \in IMAPSigns(P)
          /\ "STARTTLS" \in P => "CAPABILITY" \in IMAPSigns(P)
      BY <2>2, Zenon DEF IMAPSigns
    <2>6. Cardinality(SMTPSigns(P)) <= 1 /\ Cardinality(POP3Signs(P)) <= 1
      BY <2>3, <2>4, FewSigns
    <2>7. Greeted => Cardinality(IMAPSigns(P)) >= 1
      <3>1. Greeted => IMAPSigns(P) # {}
        BY <2>5, Zenon
      <3>2. QED
        BY <3>1, Signs
    <2>8. Greeted => Cardinality(SMTPSigns(P)) = 0 \/ Cardinality(IMAPSigns(P)) >= 2
      <3>1. "STARTTLS" \notin SMTPSigns(P) => Cardinality(SMTPSigns(P)) = 0
        BY <2>3, FewSigns
      <3>2. "* OK" # "CAPABILITY"
        BY Zenon
      <3>3. \A x, y \in IMAPSigns(P) : x # y => Cardinality(IMAPSigns(P)) >= 2
        BY Signs
      <3>4. QED
        BY <2>3, <2>5, <3>1, <3>2, <3>3, Zenon
    <2>9. isIMAPPort(p) \/ (p = 4190 /\ Greeted)
      BY <1>2, Zenon DEF Spoken
    <2>10. QED
      BY <1>2, <2>6, <2>7, <2>8, <2>9, Signs, Decides DEF P, Ports
  <1>3. ASSUME RInv, NEW p \in Ports, Spoken(p, "POP3")
        PROVE  Detect(Ephemeral, p, Payload("POP3")) = "POP3"
    <2> DEFINE P == Payload("POP3")
    <2>1. /\ Says("POP3", "server") = <<{"+OK"}, {"+OK", "STLS"}>>
          /\ Says("POP3", "client") = <<{"USER"}, {"LIST"}>>
      BY Zenon DEF Says
    <2>2. /\ P \subseteq {"+OK", "STLS", "USER", "LIST"}
          /\ Greeted => "+OK" \in P
      <3>1. \A w \in P : \E d \in Sides, b \in {1, 2} : w \in Says("POP3", d)[b]
        BY <1>3, PayloadFacts
      <3>2. Greeted => Says("POP3", "server")[1] \subseteq P
        BY <1>3, PayloadFacts
      <3> HIDE DEF P
      <3>3. /\ Says("POP3", "server")[1] = {"+OK"}
            /\ Says("POP3", "server")[2] = {"+OK", "STLS"}
            /\ Says("POP3", "client")[1] = {"USER"}
            /\ Says("POP3", "client")[2] = {"LIST"}
        BY <1>0, <2>1, Zenon
      <3>4. QED
        BY <3>1, <3>2, <3>3, Zenon DEF Sides
    <2> HIDE DEF P
    <2>3. SMTPSigns(P) = {} /\ IMAPSigns(P) = {}
      BY <2>2, Zenon DEF SMTPSigns, IMAPSigns
    <2>4. Greeted => POP3Signs(P) # {}
      BY <2>2, Zenon DEF POP3Signs
    <2>5. Cardinality(SMTPSigns(P)) = 0 /\ Cardinality(IMAPSigns(P)) = 0
      BY <2>3, FS_EmptySet
    <2>6. Greeted => Cardinality(POP3Signs(P)) >= 1
      BY <2>4, Signs
    <2>7. isPOP3Port(p) \/ (p = 4190 /\ Greeted)
      BY <1>3, Zenon DEF Spoken
    <2>8. QED
      BY <1>3, <2>5, <2>6, <2>7, Signs, Decides DEF P, Ports
  <1>4. RInv => SpokenIsDetected
    <2> SUFFICES ASSUME RInv, NEW p \in Ports, NEW protocol \in {"SMTP", "IMAP", "POP3"},
                        Spoken(p, protocol)
                 PROVE  Detect(Ephemeral, p, Payload(protocol)) = protocol
      BY DEF SpokenIsDetected, Ports, Spoken
    <2>1. QED
      BY <1>1, <1>2, <1>3, Zenon
  <1>5. QED
    BY <1>4, Inductive, PTL
=============================================================================
