------------------------- MODULE SessionViewProofs -------------------------
(***************************************************************************)
(* Proofs about SessionView: what closeBySID leaves open, for any order of *)
(* arrival, and how reference_query.sql groups joins, for every time,      *)
(* window and reconnect gap.                                               *)
(***************************************************************************)
EXTENDS SessionView, JoinStoreReplyProofs, FiniteSetTheorems, SequenceTheorems,
        WellFoundedInduction

-----------------------------------------------------------------------------
(* Numbers and finite sets                                                 *)

\* A set of naturals that is not empty has a least element.
LEMMA LeastNatural ==
    ASSUME NEW T \in SUBSET Nat, T # {}
    PROVE  \E x \in T : \A y \in T : x <= y
  <1> DEFINE R == {ss \in Nat \X Nat : ss[1] < ss[2]}
  <1>1. IsWellFoundedOn(R, Nat)
    BY NatLessThanWellFounded DEF OpToRel
  <1>2. PICK x \in T : \A y \in T : ~(<<y, x>> \in R)
    <2> HIDE DEF R
    <2> QED
      BY <1>1, WFMin
  <1>3. \A y \in T : ~(y < x)
    BY <1>2
  <1> QED
    BY <1>3

LEMMA GreatestNatural ==
    ASSUME NEW T \in SUBSET Nat, T # {}, NEW n \in Nat, \A x \in T : x <= n
    PROVE  \E x \in T : \A y \in T : y <= x
  <1> DEFINE D == {n - x : x \in T}
  <1>1. D \in SUBSET Nat /\ D # {}
    <2>1. \A x \in T : n - x \in Nat
      OBVIOUS
    <2> QED
      BY <2>1
  <1>2. PICK d \in D : \A c \in D : d <= c
    BY <1>1, LeastNatural
  <1>3. PICK x \in T : d = n - x
    OBVIOUS
  <1>4. \A y \in T : n - y \in D
    OBVIOUS
  <1>5. \A y \in T : d <= n - y
    BY <1>2, <1>4
  <1> HIDE DEF D
  <1> QED
    BY <1>3, <1>5

-----------------------------------------------------------------------------
(* The window functions of the query                                       *)

\* sum(is_new) never falls along a frame, and two rows have the same sum just
\* if no row after the one, up to the other, is new.
LEMMA Ordinals ==
    ASSUME NEW w, NEW gap, NEW i \in Nat, NEW k \in Nat, i <= k
    PROVE  /\ SessionOrdinal(w, i, gap) \in Nat
           /\ SessionOrdinal(w, i, gap) <= SessionOrdinal(w, k, gap)
           /\ SessionOrdinal(w, i, gap) = SessionOrdinal(w, k, gap)
              <=> \A m \in (i + 1)..k : ~IsNew(w, m, gap)
  <1> DEFINE N(n) == {m \in 1..n : IsNew(w, m, gap)}
  <1>1. \A n \in Nat : IsFiniteSet(N(n))
    <2> TAKE n \in Nat
    <2>1. IsFiniteSet(1..n)
      BY FS_Interval
    <2> QED
      BY <2>1, FS_Subset
  <1>2. N(i) \in SUBSET N(k)
    OBVIOUS
  <1>3. Cardinality(N(i)) \in Nat
    BY <1>1, FS_CardinalityType
  <1>4. /\ Cardinality(N(i)) <= Cardinality(N(k))
        /\ Cardinality(N(k)) = Cardinality(N(i)) => N(k) = N(i)
    BY <1>1, <1>2, FS_Subset
  <1>5. N(k) = N(i) <=> \A m \in (i + 1)..k : ~IsNew(w, m, gap)
    <2>1. ASSUME N(k) = N(i), NEW m \in (i + 1)..k, IsNew(w, m, gap)
          PROVE  FALSE
      <3>1. m \in N(k) /\ m \notin N(i)
        BY <2>1
      <3> QED
        BY <2>1, <3>1
    <2>2. ASSUME \A m \in (i + 1)..k : ~IsNew(w, m, gap)
          PROVE  N(k) = N(i)
      <3>1. \A m \in N(k) : m \in N(i)
        BY <2>2
      <3> QED
        BY <1>2, <3>1
    <2> QED
      BY <2>1, <2>2
  <1>6. SessionOrdinal(w, i, gap) = Cardinality(N(i)) /\ SessionOrdinal(w, k, gap) = Cardinality(N(k))
    BY DEF SessionOrdinal
  <1> HIDE DEF N
  <1> QED
    BY <1>3, <1>4, <1>5, <1>6

InStartOrder(w) == \A i, k \in DOMAIN w : i < k => w[i].started <= w[k].started

\* A session is an interval of its frame, in which no row but the first is new.
LEMMA SessionsAreIntervals ==
    ASSUME NEW S, NEW w \in Seq(S), NEW gap, NEW s \in Sessions(w, gap)
    PROVE  \E a, b \in 1..Len(w) :
              /\ a <= b
              /\ s = SubSeq(w, a, b)
              /\ \A m \in (a + 1)..b : ~IsNew(w, m, gap)
  <1> DEFINE joined(n) == {i \in DOMAIN w : SessionOrdinal(w, i, gap) = n}
  <1>1. PICK i \in DOMAIN w :
            s = SubSeq(w, Min(joined(SessionOrdinal(w, i, gap))),
                          Max(joined(SessionOrdinal(w, i, gap))))
    BY DEF Sessions
  <1> DEFINE J == joined(SessionOrdinal(w, i, gap))
  <1>2. J \in SUBSET Nat /\ J # {} /\ Len(w) \in Nat /\ (\A x \in J : x \in 1..Len(w))
    OBVIOUS
  <1>3. Min(J) \in J /\ \A y \in J : Min(J) <= y
    <2> HIDE DEF J
    <2> QED
      BY <1>2, LeastNatural DEF Min
  <1>4. Max(J) \in J /\ \A y \in J : y <= Max(J)
    <2>1. \A x \in J : x <= Len(w)
      BY <1>2
    <2> HIDE DEF J
    <2>2. \E x \in J : \A y \in J : y <= x
      BY <1>2, <2>1, GreatestNatural
    <2>3. \E x \in J : \A y \in J : x >= y
      BY <1>2, <2>2
    <2> QED
      BY <1>2, <2>3 DEF Max
  <1>5. /\ SessionOrdinal(w, Min(J), gap) = SessionOrdinal(w, Max(J), gap)
        /\ Min(J) \in 1..Len(w) /\ Max(J) \in 1..Len(w) /\ Min(J) <= Max(J)
    BY <1>2, <1>3, <1>4
  <1>6. s = SubSeq(w, Min(J), Max(J))
    BY <1>1
  <1> HIDE DEF J
  <1>7. \A m \in (Min(J) + 1)..Max(J) : ~IsNew(w, m, gap)
    BY <1>5, Ordinals
  <1> QED
    BY <1>5, <1>6, <1>7

\* The two ways to say that a session is open, and those to say when it began.
LEMMA SessionColumns ==
    ASSUME NEW S, NEW w \in Seq(S), NEW gap, NEW s \in Sessions(w, gap),
           InStartOrder(w), \A r \in S : r.started \in Nat
    PROVE  /\ StillOpen(s) <=> IsOpen(s)
           /\ SessionStartedAt(s) = StartedAt(s)
  <1>1. PICK a, b \in 1..Len(w) :
            /\ a <= b
            /\ s = SubSeq(w, a, b)
            /\ \A m \in (a + 1)..b : ~IsNew(w, m, gap)
    BY SessionsAreIntervals
  <1>2. /\ s \in Seq(S) /\ Len(s) = b - a + 1 /\ DOMAIN s = 1..Len(s)
        /\ \A i \in 1..Len(s) : s[i] = w[a + i - 1]
    BY <1>1
  <1>3. StillOpen(s) <=> IsOpen(s)
    <2>1. ASSUME NEW i \in DOMAIN s, s[i].ended = NoEnd
          PROVE  i = Len(s)
      <3>1. w[a + i - 1].ended = NoEnd
        BY <1>2, <2>1
      <3>2. CASE i # Len(s)
        <4>1. a + i \in (a + 1)..b /\ (a + i) - 1 = a + i - 1
          BY <1>1, <1>2, <3>2
        <4>2. IsNew(w, a + i, gap)
          BY <3>1, <4>1 DEF IsNew
        <4> QED
          BY <1>1, <4>1, <4>2
      <3> QED
        BY <3>2
    <2>2. Len(s) \in DOMAIN s
      BY <1>1, <1>2
    <2> QED
      BY <2>1, <2>2 DEF StillOpen, IsOpen
  <1>4. SessionStartedAt(s) = StartedAt(s)
    <2> DEFINE A == {s[i].started : i \in DOMAIN s}
    <2>1. 1 \in DOMAIN s
      BY <1>1, <1>2
    <2>2. s[1].started \in A /\ A \subseteq Nat
      BY <1>2, <2>1
    <2>3. \A i \in DOMAIN s : s[1].started <= s[i].started
      <3> TAKE i \in DOMAIN s
      <3>1. /\ s[1] = w[a] /\ s[i] = w[a + i - 1] /\ a + i - 1 \in DOMAIN w /\ a \in DOMAIN w
            /\ a <= a + i - 1 /\ w[a].started \in Nat
        BY <1>1, <1>2, <2>1
      <3> QED
        BY <3>1 DEF InStartOrder
    <2>4. \A x \in A : s[1].started <= x
      BY <2>3
    <2> HIDE DEF A
    <2>5. Min(A) \in A /\ \A y \in A : Min(A) <= y
      BY <2>2, LeastNatural DEF Min
    <2>6. Min(A) = s[1].started
      <3>1. PICK n \in Nat : n = s[1].started
        BY <2>2
      <3>2. Min(A) <= n /\ n <= Min(A) /\ Min(A) \in Nat
        BY <2>2, <2>4, <2>5, <3>1
      <3> QED
        BY <3>1, <3>2
    <2> QED
      BY <2>6 DEF SessionStartedAt, StartedAt, A
  <1> QED
    BY <1>3, <1>4

\* A row that the query can select: if it has an end, that is after its start.
Stay(r) ==
    /\ r.started \in Nat
    /\ r.ended # NoEnd => r.ended \in Nat /\ r.started < r.ended

\* Two rows are in one session just if no new row lies between them.
LEMMA OneSession ==
    ASSUME NEW S, NEW w \in Seq(S), NEW gap, NEW i \in DOMAIN w, NEW k \in DOMAIN w, i < k
    PROVE  InOneSession(w, i, k, gap) <=> \A m \in (i + 1)..k : ~IsNew(w, m, gap)
  <1>1. i \in Nat /\ k \in Nat /\ i <= k
    OBVIOUS
  <1>2. SessionOrdinal(w, i, gap) = SessionOrdinal(w, k, gap)
        <=> \A m \in (i + 1)..k : ~IsNew(w, m, gap)
    BY <1>1, Ordinals
  <1> QED
    BY <1>2 DEF InOneSession

\* A new row after one that is closed comes after an absence.
LEMMA NewMeansAbsent ==
    ASSUME NEW S, NEW w \in Seq(S), NEW gap \in Nat, InStartOrder(w), EndInOrder(w),
           \A r \in S : Stay(r),
           NEW i \in DOMAIN w, NEW k \in DOMAIN w, NEW m \in (i + 1)..k, IsNew(w, m, gap)
    PROVE  AbsentBetween(w, i, k, gap)
  <1>1. /\ m \in DOMAIN w /\ m - 1 \in DOMAIN w /\ i <= m - 1 /\ m - 1 < m /\ m <= k /\ m # 1
        /\ m \in Nat
    OBVIOUS
  <1>2. \A n \in DOMAIN w : Stay(w[n])
    OBVIOUS
  <1>3. w[m - 1].ended # NoEnd
    BY <1>1 DEF EndInOrder
  <1>4. w[m - 1].ended \in Nat /\ w[m].started - w[m - 1].ended > gap
    BY <1>1, <1>2, <1>3 DEF IsNew, Stay
  <1>5. \A n \in DOMAIN w : n <= m - 1 => Before(w[n], w[m - 1].ended)
    <2> SUFFICES ASSUME NEW n \in DOMAIN w, n <= m - 1
                 PROVE  w[n].ended # NoEnd /\ w[n].ended <= w[m - 1].ended
      BY DEF Before
    <2>1. CASE n = m - 1
      BY <1>3, <1>4, <2>1
    <2>2. CASE n < m - 1
      BY <1>1, <1>3, <2>2 DEF EndInOrder
    <2> QED
      BY <1>1, <2>1, <2>2
  <1>6. \A n \in DOMAIN w : m <= n => w[m].started <= w[n].started
    <2> SUFFICES ASSUME NEW n \in DOMAIN w, m <= n
                 PROVE  w[m].started <= w[n].started
      OBVIOUS
    <2>1. w[m].started \in Nat
      BY <1>1, <1>2 DEF Stay
    <2>2. CASE m < n
      BY <1>1, <2>2 DEF InStartOrder
    <2> QED
      BY <1>1, <2>1, <2>2
  <1>7. \A n \in DOMAIN w : n <= m - 1 \/ m <= n
    BY <1>1
  <1> QED
    BY <1>1, <1>3, <1>4, <1>5, <1>6, <1>7 DEF AbsentBetween

\* And where there is an absence, the first row after it is new.
LEMMA AbsentMeansNew ==
    ASSUME NEW S, NEW w \in Seq(S), NEW gap \in Nat, \A r \in S : Stay(r),
           NEW i \in DOMAIN w, NEW k \in DOMAIN w, i < k, AbsentBetween(w, i, k, gap)
    PROVE  \E m \in (i + 1)..k : IsNew(w, m, gap)
  <1>1. \A n \in DOMAIN w : Stay(w[n])
    OBVIOUS
  <1>2. PICK x, y \in DOMAIN w :
            /\ w[x].ended # NoEnd
            /\ Before(w[i], w[x].ended)
            /\ w[y].started <= w[k].started
            /\ w[y].started - w[x].ended > gap
            /\ \A m \in DOMAIN w : Before(w[m], w[x].ended) \/ w[y].started <= w[m].started
    BY DEF AbsentBetween
  <1> DEFINE B == {m \in i..k : Before(w[m], w[x].ended)}
  <1>3. B \in SUBSET Nat /\ B # {} /\ k \in Nat /\ \A m \in B : m <= k
    <2>1. i \in B
      BY <1>2
    <2> QED
      BY <2>1
  <1>4. PICK last \in B : \A m \in B : m <= last
    <2> HIDE DEF B
    <2> QED
      BY <1>3, GreatestNatural
  <1>5. last \in i..k /\ last \in DOMAIN w /\ Before(w[last], w[x].ended)
    BY <1>4
  <1>6. PICK xe \in Nat : xe = w[x].ended
    BY <1>1, <1>2 DEF Stay
  <1>7. PICK ys \in Nat : ys = w[y].started
    BY <1>1 DEF Stay
  <1>8. ys - xe > gap
    BY <1>2, <1>6, <1>7
  <1>9. PICK le \in Nat : le = w[last].ended /\ le <= xe /\ w[last].started < le
    BY <1>1, <1>5, <1>6 DEF Before, Stay
  <1>10. last # k
    <2>1. ASSUME last = k
          PROVE  FALSE
      <3>1. PICK ks \in Nat : ks = w[k].started /\ ks < le /\ ys <= ks
        BY <1>1, <1>2, <1>7, <1>9, <2>1 DEF Stay
      <3> QED
        BY <1>8, <1>9, <3>1
    <2> QED
      BY <2>1
  <1>11. last + 1 \in (i + 1)..k /\ last + 1 \in DOMAIN w /\ last + 1 \notin B
    <2>1. last + 1 \in (i + 1)..k /\ last + 1 \in DOMAIN w /\ ~(last + 1 <= last)
      BY <1>5, <1>10
    <2> HIDE DEF B
    <2> QED
      BY <1>4, <2>1
  <1>12. w[y].started <= w[last + 1].started
    <2>1. last + 1 \in i..k
      BY <1>11
    <2> QED
      BY <1>2, <1>11, <2>1
  <1>13. PICK ns \in Nat : ns = w[last + 1].started /\ ys <= ns
    BY <1>1, <1>7, <1>11, <1>12 DEF Stay
  <1>14. (last + 1) - 1 = last /\ ns - le > gap
    <2>1. le <= xe /\ ys <= ns /\ ys - xe > gap
      BY <1>8, <1>9, <1>13
    <2>2. ns - le > gap
      BY <2>1
    <2>3. (last + 1) - 1 = last
      BY <1>5
    <2> QED
      BY <2>2, <2>3
  <1>15. IsNew(w, last + 1, gap)
    BY <1>9, <1>13, <1>14 DEF IsNew
  <1> QED
    BY <1>11, <1>15

LEMMA GroupedByAbsence ==
    ASSUME NEW S, NEW w \in Seq(S), NEW gap \in Nat, InStartOrder(w), EndInOrder(w),
           \A r \in S : Stay(r), NEW i \in DOMAIN w, NEW k \in DOMAIN w, i < k
    PROVE  InOneSession(w, i, k, gap) <=> ~AbsentBetween(w, i, k, gap)
  <1>1. InOneSession(w, i, k, gap) <=> \A m \in (i + 1)..k : ~IsNew(w, m, gap)
    BY OneSession
  <1>2. AbsentBetween(w, i, k, gap) <=> \E m \in (i + 1)..k : IsNew(w, m, gap)
    BY NewMeansAbsent, AbsentMeansNew
  <1> QED
    BY <1>1, <1>2

-----------------------------------------------------------------------------
(* The frames of a query on the committed tables                           *)

\* The rows of r's participant and room that the query selects.
PartOf(r, from, to) ==
    {q \in Overlapping(Rows, from, to) : q.room = r.room /\ q.identity = r.identity}

FiniteJoins == IsFiniteSet(joins)

LEMMA SelectedRowsAreStays ==
    ASSUME IInv, NEW from \in Int, NEW to \in Int, NEW r \in Overlapping(Rows, from, to)
    PROVE  Stay(r)
  <1>1. PICK j \in joins : r = Row(j)
    BY DEF Overlapping, Rows
  <1>2. j \in Event /\ endedBy[j] \in Event \cup {NoEvent}
    BY DEF IInv, TypeOK
  <1>3. r.started = j.at /\ r.ended = IF endedBy[j] = NoEvent THEN NoEnd ELSE endedBy[j].at
    BY <1>1 DEF Row
  <1>4. r.started \in Nat /\ (r.ended # NoEnd => r.ended \in Nat)
    BY <1>2, <1>3, EventTimeAssumption
  <1>5. r.ended # NoEnd => r.started < r.ended
    BY DEF Overlapping, Overlaps
  <1> QED
    BY <1>4, <1>5 DEF Stay

LEMMA FiniteParts ==
    ASSUME FiniteJoins, NEW P \in SUBSET Rows
    PROVE  IsFiniteSet(P)
  <1> DEFINE f == [j \in joins |-> Row(j)]
  <1>1. f \in Surjection(joins, Rows)
    BY DEF Rows, Surjection
  <1>2. IsFiniteSet(Rows)
    BY <1>1, FS_Surjection DEF FiniteJoins
  <1> QED
    BY <1>2, FS_Subset

\* An ordering of a finite set lists each of its elements once.
LEMMA OrderedLists ==
    ASSUME NEW P, IsFiniteSet(P), NEW w \in Ordered(P)
    PROVE  /\ w \in Seq(P)
           /\ InStartOrder(w)
           /\ \A i, k \in DOMAIN w : w[i] = w[k] => i = k
           /\ \A r \in P : \E i \in DOMAIN w : w[i] = r
  <1> DEFINE n == Cardinality(P)
  <1>1. n \in Nat
    BY FS_CardinalityType
  <1>2. w \in [1..n -> P] /\ \A i, k \in 1..n : i # k => w[i] # w[k]
    BY DEF Ordered, SetToSeqs
  <1>3. w \in Seq(P) /\ Len(w) = n /\ DOMAIN w = 1..n
    BY <1>1, <1>2
  <1>4. InStartOrder(w)
    BY DEF Ordered, InStartOrder
  <1>5. \A r \in P : \E i \in DOMAIN w : w[i] = r
    <2> DEFINE R == {w[i] : i \in 1..n}
    <2>1. R \in SUBSET P
      BY <1>2
    <2>2. w \in Surjection(1..n, R) /\ w \in Injection(1..n, R)
      BY <1>2 DEF Surjection, Injection, IsInjective
    <2>3. IsFiniteSet(1..n) /\ Cardinality(1..n) = n
      BY <1>1, FS_Interval
    <2>4. Cardinality(R) = n
      BY <2>2, <2>3, FS_Surjection
    <2>5. R = P
      BY <2>1, <2>4, FS_Subset
    <2> QED
      BY <1>3, <2>5
  <1> QED
    BY <1>2, <1>3, <1>4, <1>5

LEMMA FrameOfPart ==
    ASSUME IInv, FiniteJoins, NEW now \in Int, NEW window \in Int,
           NEW w \in Frames(now, window)
    PROVE  \E r \in Overlapping(Rows, now - window, now) :
              w \in Ordered(PartOf(r, now - window, now))
  BY DEF Frames, Partitions, PartOf

\* w lists the rows of P, which the query may select, in the order of their
\* starts.
Frame(w, P) ==
    /\ w \in Seq(P)
    /\ InStartOrder(w)
    /\ \A i, k \in DOMAIN w : w[i] = w[k] => i = k
    /\ \A q \in P : \E i \in DOMAIN w : w[i] = q
    /\ \A q \in P : Stay(q)

LEMMA FrameFacts ==
    ASSUME IInv, FiniteJoins, NEW now \in Int, NEW window \in Int,
           NEW r \in Overlapping(Rows, now - window, now),
           NEW w \in Ordered(PartOf(r, now - window, now))
    PROVE  Frame(w, PartOf(r, now - window, now))
  <1>1. PartOf(r, now - window, now) \in SUBSET Rows
    BY DEF PartOf, Overlapping
  <1>2. IsFiniteSet(PartOf(r, now - window, now))
    BY <1>1, FiniteParts
  <1>3. \A q \in PartOf(r, now - window, now) : Stay(q)
    BY SelectedRowsAreStays DEF PartOf
  <1> QED
    BY <1>2, <1>3, OrderedLists DEF Frame

LEMMA ColumnsAgree ==
    ASSUME IInv, FiniteJoins
    PROVE  StillOpenIsLastOpen
  <1> SUFFICES ASSUME NEW now \in Clock, NEW window \in Window, NEW gap \in Gap,
                      NEW w \in Frames(now, window), NEW s \in Sessions(w, gap)
               PROVE  (StillOpen(s) <=> IsOpen(s)) /\ SessionStartedAt(s) = StartedAt(s)
    BY DEF StillOpenIsLastOpen
  <1>1. now \in Int /\ window \in Int
    BY QueryAssumption
  <1>2. PICK r \in Overlapping(Rows, now - window, now) :
            w \in Ordered(PartOf(r, now - window, now))
    BY <1>1, FrameOfPart
  <1>3. Frame(w, PartOf(r, now - window, now))
    BY <1>1, <1>2, FrameFacts
  <1> QED
    BY <1>3, SessionColumns DEF Stay, Frame

LEMMA GroupsArePresences ==
    ASSUME IInv, FiniteJoins
    PROVE  SessionsArePresences
  <1> SUFFICES ASSUME NEW now \in Clock, NEW window \in Window, NEW gap \in Gap,
                      NEW w \in Frames(now, window), EndInOrder(w),
                      NEW i \in DOMAIN w, NEW k \in DOMAIN w, i < k
               PROVE  InOneSession(w, i, k, gap) <=> ~AbsentBetween(w, i, k, gap)
    BY DEF SessionsArePresences
  <1>1. now \in Int /\ window \in Int /\ gap \in Nat
    BY QueryAssumption
  <1>2. PICK r \in Overlapping(Rows, now - window, now) :
            w \in Ordered(PartOf(r, now - window, now))
    BY <1>1, FrameOfPart
  <1>3. Frame(w, PartOf(r, now - window, now))
    BY <1>1, <1>2, FrameFacts
  <1> QED
    BY <1>1, <1>3, GroupedByAbsence DEF Frame

-----------------------------------------------------------------------------
(* A narrower window                                                       *)

\* What the narrow window drops has ended when the window begins.
LEMMA NarrowDrops ==
    ASSUME NEW now \in Int, NEW narrow \in Int, NEW wide \in Int, narrow < wide, narrow > 0,
           NEW r, Stay(r)
    PROVE  /\ Overlaps(r, now - narrow, now) => Overlaps(r, now - wide, now)
           /\ Overlaps(r, now - wide, now) =>
                 (Overlaps(r, now - narrow, now) <=> r.ended = NoEnd \/ now - narrow < r.ended)
  <1>1. now - wide < now - narrow /\ now - narrow < now /\ now - wide < now
        /\ now - wide \in Int /\ now - narrow \in Int
    OBVIOUS
  <1>2. CASE r.ended = NoEnd
    BY <1>1, <1>2 DEF Overlaps, Stay
  <1>3. CASE r.ended # NoEnd
    <2>1. PICK end \in Nat : end = r.ended
      BY <1>3 DEF Stay
    <2>2. now - narrow < end => now - wide < end
      BY <1>1
    <2> QED
      BY <1>1, <1>3, <2>1, <2>2 DEF Overlaps, Stay
  <1> QED
    BY <1>2, <1>3

\* AbsentBetween, said of a set of rows.
AbsentIn(T, a, b, gap) ==
    \E x, y \in T :
        /\ x.ended # NoEnd
        /\ Before(a, x.ended)
        /\ y.started <= b.started
        /\ y.started - x.ended > gap
        /\ \A q \in T : Before(q, x.ended) \/ y.started <= q.started

LEMMA AbsentInFrame ==
    ASSUME NEW V, NEW v \in Seq(V), NEW gap, \A r \in V : \E n \in DOMAIN v : v[n] = r,
           NEW i \in DOMAIN v, NEW k \in DOMAIN v
    PROVE  AbsentBetween(v, i, k, gap) <=> AbsentIn(V, v[i], v[k], gap)
  <1>1. \A n \in DOMAIN v : v[n] \in V
    OBVIOUS
  <1>2. ASSUME AbsentBetween(v, i, k, gap)
        PROVE  AbsentIn(V, v[i], v[k], gap)
    <2>1. PICK x, y \in DOMAIN v :
              /\ v[x].ended # NoEnd
              /\ Before(v[i], v[x].ended)
              /\ v[y].started <= v[k].started
              /\ v[y].started - v[x].ended > gap
              /\ \A m \in DOMAIN v : Before(v[m], v[x].ended) \/ v[y].started <= v[m].started
      BY <1>2 DEF AbsentBetween
    <2>2. \A q \in V : Before(q, v[x].ended) \/ v[y].started <= q.started
      BY <2>1
    <2>3. v[x] \in V /\ v[y] \in V
      BY <1>1
    <2> QED
      BY <2>1, <2>2, <2>3, Zenon DEF AbsentIn
  <1>3. ASSUME AbsentIn(V, v[i], v[k], gap)
        PROVE  AbsentBetween(v, i, k, gap)
    <2>1. PICK x, y \in V :
              /\ x.ended # NoEnd
              /\ Before(v[i], x.ended)
              /\ y.started <= v[k].started
              /\ y.started - x.ended > gap
              /\ \A q \in V : Before(q, x.ended) \/ y.started <= q.started
      BY <1>3, Zenon DEF AbsentIn
    <2>2. PICK m \in DOMAIN v : v[m] = x
      OBVIOUS
    <2>3. PICK n \in DOMAIN v : v[n] = y
      OBVIOUS
    <2> QED
      BY <1>1, <2>1, <2>2, <2>3, Zenon DEF AbsentBetween
  <1> QED
    BY <1>2, <1>3

\* What is present after from, or still.
Lasts(r, from) == r.ended # NoEnd => from < r.ended

\* Rows that had ended before a and b begin make no difference to whether there
\* was an absence between a and b.
LEMMA PastDoesNotMatter ==
    ASSUME NEW V, NEW W, NEW gap \in Nat, NEW from \in Int, \A r \in W : Stay(r),
           V \subseteq W, \A r \in W : r \in V <=> Lasts(r, from),
           NEW a \in V, NEW b \in V
    PROVE  AbsentIn(V, a, b, gap) <=> AbsentIn(W, a, b, gap)
  <1>1. ASSUME AbsentIn(V, a, b, gap)
        PROVE  AbsentIn(W, a, b, gap)
    <2>1. PICK x, y \in V :
              /\ x.ended # NoEnd
              /\ Before(a, x.ended)
              /\ y.started <= b.started
              /\ y.started - x.ended > gap
              /\ \A q \in V : Before(q, x.ended) \/ y.started <= q.started
      BY <1>1, Zenon DEF AbsentIn
    <2>2. PICK xe \in Nat : xe = x.ended /\ from < xe
      BY <2>1 DEF Stay, Lasts
    <2>3. ASSUME NEW q \in W, q \notin V
          PROVE  Before(q, x.ended)
      <3>1. q.ended # NoEnd /\ ~(from < q.ended)
        BY <2>3 DEF Lasts
      <3>2. PICK qe \in Nat : qe = q.ended
        BY <3>1 DEF Stay
      <3>3. qe <= xe
        BY <2>2, <3>1, <3>2
      <3> QED
        BY <2>2, <3>1, <3>2, <3>3 DEF Before
    <2>4. \A q \in W : Before(q, x.ended) \/ y.started <= q.started
      BY <2>1, <2>3
    <2>5. x \in W /\ y \in W
      OBVIOUS
    <2> QED
      BY <2>1, <2>4, <2>5, Zenon DEF AbsentIn
  <1>2. ASSUME AbsentIn(W, a, b, gap)
        PROVE  AbsentIn(V, a, b, gap)
    <2>1. PICK x, y \in W :
              /\ x.ended # NoEnd
              /\ Before(a, x.ended)
              /\ y.started <= b.started
              /\ y.started - x.ended > gap
              /\ \A q \in W : Before(q, x.ended) \/ y.started <= q.started
      BY <1>2, Zenon DEF AbsentIn
    <2>2. PICK xe \in Nat : xe = x.ended
      BY <2>1 DEF Stay
    <2>3. PICK ae \in Nat : ae = a.ended /\ ae <= xe /\ from < ae
      BY <2>1, <2>2 DEF Before, Stay, Lasts
    <2>4. from < xe
      BY <2>3
    <2>5. x \in V
      BY <2>2, <2>4 DEF Lasts
    <2>6. PICK ys \in Nat : ys = y.started /\ ys - xe > gap
      BY <2>1, <2>2 DEF Stay
    <2>7. from < ys
      BY <2>4, <2>6
    <2>8. Lasts(y, from)
      <3> SUFFICES ASSUME y.ended # NoEnd PROVE from < y.ended
        BY DEF Lasts
      <3>1. PICK ye \in Nat : ye = y.ended /\ ys < ye
        BY <2>6 DEF Stay
      <3>2. from < ye
        BY <2>7, <3>1
      <3> QED
        BY <3>1, <3>2
    <2>9. y \in V
      BY <2>8
    <2>10. \A q \in V : Before(q, x.ended) \/ y.started <= q.started
      BY <2>1
    <2> QED
      BY <2>1, <2>5, <2>9, <2>10, Zenon DEF AbsentIn
  <1> QED
    BY <1>1, <1>2

\* Rows that come in one order in one frame and in the other order in another
\* have the same start and end, and are in one session in both.
LEMMA TiedRows ==
    ASSUME NEW V, NEW W, NEW v, NEW w, NEW gap \in Nat,
           Frame(v, V), EndInOrder(v), Frame(w, W), EndInOrder(w),
           NEW i \in DOMAIN v, NEW k \in DOMAIN v, NEW m \in DOMAIN w, NEW n \in DOMAIN w,
           v[i] = w[m], v[k] = w[n], i < k, n < m
    PROVE  InOneSession(v, i, k, gap) /\ InOneSession(w, n, m, gap)
  <1>1. /\ v[i].started <= v[k].started /\ v[k].started <= v[i].started
        /\ v[i].ended # NoEnd /\ v[k].ended # NoEnd
        /\ v[i].ended <= v[k].ended /\ v[k].ended <= v[i].ended
    BY DEF InStartOrder, EndInOrder, Frame
  <1>2. Stay(v[i]) /\ Stay(v[k])
    BY DEF Frame
  <1>3. PICK s \in Nat, e \in Nat :
            /\ v[i].started = s /\ v[k].started = s /\ v[i].ended = e /\ v[k].ended = e /\ s < e
    BY <1>1, <1>2 DEF Stay
  <1>4. ASSUME NEW T, NEW t \in Seq(T), \A r \in T : Stay(r),
               NEW a \in DOMAIN t, NEW b \in DOMAIN t, t[a].ended = e, t[b].started = s
        PROVE  ~AbsentBetween(t, a, b, gap)
    <2> SUFFICES ASSUME NEW x \in DOMAIN t, NEW y \in DOMAIN t,
                        t[x].ended # NoEnd, Before(t[a], t[x].ended),
                        t[y].started <= t[b].started, t[y].started - t[x].ended > gap
                 PROVE  FALSE
      BY DEF AbsentBetween
    <2>1. PICK xe \in Nat : xe = t[x].ended
      BY <1>4 DEF Stay
    <2>2. PICK ys \in Nat : ys = t[y].started
      BY <1>4 DEF Stay
    <2>3. e <= xe /\ ys <= s /\ ys - xe > gap
      BY <1>4, <2>1, <2>2 DEF Before
    <2> QED
      BY <1>3, <2>3
  <1>5. ~AbsentBetween(v, i, k, gap) /\ ~AbsentBetween(w, n, m, gap)
    BY <1>3, <1>4 DEF Frame
  <1> QED
    BY <1>5, GroupedByAbsence DEF Frame

\* Of one participant in one room, the narrow window selects just those rows of
\* the wide one that last into it.
LEMMA NarrowPart ==
    ASSUME IInv, NEW now \in Int, NEW narrow \in Int, NEW wide \in Int, narrow < wide,
           NEW rv \in Overlapping(Rows, now - narrow, now),
           NEW rw \in Overlapping(Rows, now - wide, now),
           rv.room = rw.room, rv.identity = rw.identity
    PROVE  LET V == PartOf(rv, now - narrow, now)
               W == PartOf(rw, now - wide, now)
           IN  V \subseteq W /\ \A r \in W : r \in V <=> Lasts(r, now - narrow)
  <1>1. narrow > 0
    <2>1. now - narrow < now
      BY DEF Overlapping, Overlaps
    <2> QED
      BY <2>1
  <1>2. ASSUME NEW r \in Overlapping(Rows, now - narrow, now)
        PROVE  r \in Overlapping(Rows, now - wide, now)
    <2>1. Stay(r)
      BY SelectedRowsAreStays
    <2> QED
      BY <1>1, <2>1, NarrowDrops DEF Overlapping
  <1>3. ASSUME NEW r \in Overlapping(Rows, now - wide, now)
        PROVE  r \in Overlapping(Rows, now - narrow, now) <=> Lasts(r, now - narrow)
    <2>1. Stay(r)
      BY SelectedRowsAreStays
    <2>2. r \in Rows /\ Overlaps(r, now - wide, now)
      BY DEF Overlapping
    <2>3. Overlaps(r, now - narrow, now) <=> r.ended = NoEnd \/ now - narrow < r.ended
      BY <1>1, <2>1, <2>2, NarrowDrops
    <2> QED
      BY <2>2, <2>3 DEF Overlapping, Lasts
  <1> QED
    BY <1>2, <1>3 DEF PartOf

LEMMA WindowsAgree ==
    ASSUME IInv, FiniteJoins
    PROVE  WindowOnlyTruncates
  <1> SUFFICES ASSUME NEW now \in Clock, NEW gap \in Gap,
                      NEW narrow \in Window, NEW wide \in Window, narrow < wide,
                      NEW w \in Frames(now, wide), EndInOrder(w),
                      NEW v \in Frames(now, narrow), EndInOrder(v)
               PROVE  \A i, k \in DOMAIN v : \A m, n \in DOMAIN w :
                          v[i] = w[m] /\ v[k] = w[n] =>
                              (InOneSession(v, i, k, gap) <=> InOneSession(w, m, n, gap))
    BY DEF WindowOnlyTruncates
  <1>1. now \in Int /\ narrow \in Int /\ wide \in Int /\ gap \in Nat /\ now - narrow \in Int
    BY QueryAssumption
  <1>2. PICK rw \in Overlapping(Rows, now - wide, now) :
            w \in Ordered(PartOf(rw, now - wide, now))
    BY <1>1, FrameOfPart
  <1>3. PICK rv \in Overlapping(Rows, now - narrow, now) :
            v \in Ordered(PartOf(rv, now - narrow, now))
    BY <1>1, FrameOfPart
  <1> DEFINE V == PartOf(rv, now - narrow, now)
             W == PartOf(rw, now - wide, now)
  <1> HIDE DEF V, W
  <1>4. Frame(w, W)
    BY <1>1, <1>2, FrameFacts DEF W
  <1>5. Frame(v, V)
    BY <1>1, <1>3, FrameFacts DEF V
  <1>6. ASSUME NEW i \in DOMAIN v, NEW k \in DOMAIN v, NEW m \in DOMAIN w, NEW n \in DOMAIN w,
               v[i] = w[m], v[k] = w[n], i < k
        PROVE  InOneSession(v, i, k, gap) <=> InOneSession(w, m, n, gap)
    <2>1. v[i] \in V /\ v[k] \in V /\ w[m] \in W
      BY <1>4, <1>5 DEF Frame
    <2>2. rv.room = rw.room /\ rv.identity = rw.identity
      BY <1>6, <2>1 DEF PartOf, V, W
    <2>3. V \subseteq W /\ \A r \in W : r \in V <=> Lasts(r, now - narrow)
      BY <1>1, <2>2, NarrowPart DEF V, W
    <2>4. i \in Nat /\ k \in Nat /\ m \in Nat /\ n \in Nat
      BY <1>4, <1>5 DEF Frame
    <2>5. CASE m < n
      <3>1. InOneSession(v, i, k, gap) <=> ~AbsentBetween(v, i, k, gap)
        BY <1>1, <1>5, <1>6, GroupedByAbsence DEF Frame
      <3>2. InOneSession(w, m, n, gap) <=> ~AbsentBetween(w, m, n, gap)
        BY <1>1, <1>4, <2>5, GroupedByAbsence DEF Frame
      <3>3. AbsentBetween(v, i, k, gap) <=> AbsentIn(V, v[i], v[k], gap)
        BY <1>5, AbsentInFrame DEF Frame
      <3>4. AbsentBetween(w, m, n, gap) <=> AbsentIn(W, v[i], v[k], gap)
        BY <1>4, <1>6, AbsentInFrame DEF Frame
      <3>5. AbsentIn(V, v[i], v[k], gap) <=> AbsentIn(W, v[i], v[k], gap)
        BY <1>1, <1>4, <2>1, <2>3, PastDoesNotMatter DEF Frame
      <3> QED
        BY <3>1, <3>2, <3>3, <3>4, <3>5
    <2>6. CASE n < m
      <3>1. InOneSession(v, i, k, gap) /\ InOneSession(w, n, m, gap)
        BY <1>1, <1>4, <1>5, <1>6, <2>6, TiedRows
      <3> QED
        BY <3>1 DEF InOneSession
    <2>7. m # n
      BY <1>5, <1>6, <2>4 DEF Frame
    <2> QED
      BY <2>4, <2>5, <2>6, <2>7
  <1>7. ASSUME NEW i \in DOMAIN v, NEW k \in DOMAIN v, NEW m \in DOMAIN w, NEW n \in DOMAIN w,
               v[i] = w[m], v[k] = w[n]
        PROVE  InOneSession(v, i, k, gap) <=> InOneSession(w, m, n, gap)
    <2>1. CASE i < k
      BY <1>6, <1>7, <2>1
    <2>2. CASE k < i
      <3>1. InOneSession(v, k, i, gap) <=> InOneSession(w, n, m, gap)
        BY <1>6, <1>7, <2>2
      <3> QED
        BY <3>1 DEF InOneSession
    <2>3. CASE i = k
      <3>1. m = n
        BY <1>4, <1>7, <2>3 DEF Frame
      <3> QED
        BY <2>3, <3>1 DEF InOneSession
    <2>4. i \in Nat /\ k \in Nat
      BY <1>5 DEF Frame
    <2> QED
      BY <2>1, <2>2, <2>3, <2>4
  <1> QED
    BY <1>7

-----------------------------------------------------------------------------
(* Departures and the joins they miss                                      *)

\* The transaction of p has run closeBySID, or is running it.
Looked(p) == pc[p] \in {"close_by_sid", "close_by_identity", "commit"}

\* Of the joins with the SID of a departure, those not committed when closeBySID
\* looked are in overtook, and the others are closed or will be by the commit.
Accounted ==
    /\ overtook \in [Event -> SUBSET Event]
    /\ \A p \in Proc : Looked(p) => \A j \in OwnJoins(ev[p]) :
          \/ j \in overtook[ev[p]]
          \/ j \in joins /\ (endedBy[j] # NoEvent \/ j \in todo[p] \cup locked[p])
    /\ \A e \in eventRaw : \A j \in OwnJoins(e) :
          j \in overtook[e] \/ (j \in joins /\ endedBy[j] # NoEvent)

ViewInv == IInv /\ FiniteJoins /\ Accounted

\* Only applyJoinEffect starts closeBySID, for a departure with a SID.
LEMMA StartsBySID ==
    ASSUME IInv, Next, NEW p \in Proc, pc[p] # "close_by_sid", pc'[p] = "close_by_sid"
    PROVE  /\ pc[p] = "apply_join_effect" /\ ev' = ev /\ UNCHANGED tables
           /\ todo'[p] = BySID(ev[p])
  <1> USE DEF IInv, TypeOK
  <1>1. ~Crash
    BY DEF Crash
  <1>2. PICK q \in Proc : (\E e \in Event : Call(q, e)) \/ RecordEvent(q) \/ Return(q)
    BY <1>1 DEF Next
  <1>3. q = p
    BY <1>2, OneCallMoves
  <1>4. ~((\E e \in Event : Call(p, e)) \/ Return(p) \/ Begin(p) \/ InsertEvent(p))
    BY DEF Call, Return, Begin, InsertEvent, Rollback, Finish
  <1>5. ~(Fail(p) \/ Commit(p) \/ CommitDuplicate(p) \/ StatementTimeout(p)
          \/ \E j \in Event : CloseOutOfOrder(p, j))
    BY DEF Fail, BeginFails, StoreFails, CommitReplyLost, Commit, CommitDuplicate,
           StatementTimeout, CloseOutOfOrder, Rollback, Finish
  <1>6. ~(FinishClose(p) \/ \E j \in Event : UpdateRow(p, j))
    BY DEF FinishClose, StartClose, UpdateRow
  <1>7. ApplyJoinEffect(p)
    BY <1>2, <1>3, <1>4, <1>5, <1>6 DEF RecordEvent, Proceed
  <1> QED
    BY <1>7 DEF ApplyJoinEffect, OpenJoin, StartClose, tables

\* What has been recorded of a departure stands while its transaction runs and
\* when it is stored.
LEMMA RecordStands ==
    ASSUME IInv, Next, Watch, NEW e \in Event,
           e \in eventRaw \/ \E p \in Proc : Looked(p) /\ ev[p] = e
    PROVE  overtook'[e] = overtook[e]
  <1>1. ASSUME NEW q \in Proc, ev[q] = e, pc[q] # "close_by_sid", pc'[q] = "close_by_sid"
        PROVE  FALSE
    <2>1. pc[q] = "apply_join_effect"
      BY <1>1, StartsBySID
    <2>2. ev[q] \notin eventRaw /\ \A p \in Proc \ {q} : pc[p] \in Inserting => ev[p] # ev[q]
      BY <2>1 DEF IInv, Isolation, Inserting
    <2>3. \A p \in Proc : Looked(p) => pc[p] \in Inserting /\ p # q
      BY <2>1 DEF Looked, Inserting, Closing
    <2> QED
      BY <1>1, <2>2, <2>3
  <1> QED
    BY <1>1 DEF Watch

\* A close statement that starts, in the call that moves.
LEMMA LookKeeps ==
    ASSUME ViewInv, Next, Watch, NEW p \in Proc, RecordEvent(p), Looked(p)',
           NEW j \in OwnJoins(ev[p])
    PROVE  \/ j \in overtook'[ev[p]]
           \/ j \in joins' /\ (endedBy'[j] # NoEvent \/ j \in todo'[p] \cup locked'[p])
  <1> USE DEF ViewInv, IInv, TypeOK
  <1>0. /\ ev[p] \in Event /\ j \in Event /\ ev[p].type = EventParticipantLeft
        /\ ev[p].sid # NoSID /\ j.room = ev[p].room /\ j.sid = ev[p].sid
    <2>1. pc[p] # "idle"
      BY CallStaysBusy
    <2> QED
      BY <2>1 DEF OwnJoins, Isolation
  <1>1. Looked(p) => overtook'[ev[p]] = overtook[ev[p]]
    BY <1>0, RecordStands
  <1>2. Looked(p) =>
            \/ j \in overtook[ev[p]]
            \/ j \in joins /\ (endedBy[j] # NoEvent \/ j \in todo[p] \cup locked[p])
    BY DEF Accounted
  <1>3. CASE ApplyJoinEffect(p)
    <2>1. pc'[p] = "close_by_sid" /\ pc[p] = "apply_join_effect"
      BY <1>0, <1>3 DEF ApplyJoinEffect, StartClose, EventParticipantLeft,
                        EventParticipantJoined, EventRoomFinished
    <2>2. todo'[p] = BySID(ev[p]) /\ UNCHANGED tables
      BY <2>1, StartsBySID
    <2>3. overtook'[ev[p]] = OwnJoins(ev[p]) \ joins
      BY <1>0, <2>1 DEF Watch
    <2> QED
      BY <1>0, <2>2, <2>3 DEF BySID, Open, tables
  <1>4. CASE \E k \in Event : UpdateRow(p, k)
    <2>1. PICK k \in Event : UpdateRow(p, k)
      BY <1>4
    <2>2. /\ UNCHANGED tables /\ Looked(p)
          /\ todo'[p] = todo[p] \ {k}
          /\ locked'[p] = IF StillMatches(p, k) THEN locked[p] \cup {k} ELSE locked[p]
      BY <2>1 DEF UpdateRow, Looked
    <2>3. ~StillMatches(p, k) => endedBy[k] # NoEvent
      BY DEF StillMatches
    <2> QED
      BY <1>1, <1>2, <2>2, <2>3 DEF tables
  <1>5. CASE FinishClose(p)
    <2>1. /\ Looked(p) /\ UNCHANGED tables /\ todo[p] = {} /\ locked' = locked
      BY <1>0, <1>5 DEF FinishClose, StartClose, Looked, Closing, Selected,
                        EventParticipantLeft, EventRoomFinished
    <2> QED
      BY <1>1, <1>2, <2>1 DEF tables
  <1>6. ~(Begin(p) \/ InsertEvent(p) \/ Fail(p) \/ Commit(p) \/ CommitDuplicate(p)
          \/ StatementTimeout(p) \/ \E k \in Event : CloseOutOfOrder(p, k))
    BY DEF Looked, Begin, InsertEvent, Fail, BeginFails, StoreFails, CommitReplyLost, Commit,
           CommitDuplicate, StatementTimeout, CloseOutOfOrder, Rollback, Finish
  <1> QED
    BY <1>3, <1>4, <1>5, <1>6 DEF RecordEvent, Proceed

\* In the step that stores a departure its joins are closed, but for those that
\* it overtook.
LEMMA StoreAccounts ==
    ASSUME ViewInv, Next, Watch, NEW e \in eventRaw', NEW j \in OwnJoins(e)
    PROVE  j \in overtook'[e] \/ (j \in joins' /\ endedBy'[j] # NoEvent)
  <1> USE DEF ViewInv
  <1>1. joins \subseteq joins' /\ \A k \in joins : endedBy[k] # NoEvent => endedBy'[k] # NoEvent
    BY ClosedRowsStay
  <1>2. CASE e \in eventRaw
    <2>1. e \in Event
      BY <1>2 DEF IInv, TypeOK
    <2> QED
      BY <1>1, <1>2, <2>1, RecordStands DEF Accounted
  <1>3. CASE e \notin eventRaw
    <2>1. PICK p \in Proc : pc[p] = "commit" /\ Publish(p)
      BY <1>3, OnlyCommitsWrite DEF tables
    <2>2. e = ev[p] /\ e \in Event
      BY <1>3, <2>1, ReadyToCommit DEF Publish
    <2>3. Looked(p)
      BY <2>1 DEF Looked
    <2>4. overtook'[e] = overtook[e]
      BY <2>2, <2>3, RecordStands
    <2>5. todo[p] = {}
      BY <2>1 DEF IInv, Selected, Closing
    <2>6. j \in overtook[e] \/ (j \in joins /\ (endedBy[j] # NoEvent \/ j \in locked[p]))
      BY <2>2, <2>3, <2>5 DEF Accounted
    <2>7. j \in locked[p] => endedBy'[j] # NoEvent
      BY <2>1, <2>2, NoEventAssumption DEF Publish, OwnJoins
    <2> QED
      BY <1>1, <2>4, <2>6, <2>7
  <1> QED
    BY <1>2, <1>3

LEMMA ViewInductive ==
    ASSUME ViewInv, [ViewNext]_viewVars
    PROVE  ViewInv'
  <1>1. CASE UNCHANGED viewVars
    <2>1. IInv'
      BY <1>1, Inductive DEF viewVars, ViewInv
    <2>2. FiniteJoins'
      BY <1>1 DEF viewVars, vars, tables, ViewInv, FiniteJoins
    <2>3. Accounted'
      BY <1>1 DEF viewVars, vars, tables, calls, ViewInv, Accounted, Looked
    <2> QED
      BY <2>1, <2>2, <2>3 DEF ViewInv
  <1>2. CASE Next /\ Watch
    <2>1. IInv'
      BY <1>2, Inductive DEF ViewInv
    <2>2. FiniteJoins'
      <3>1. CASE UNCHANGED tables
        BY <3>1 DEF tables, ViewInv, FiniteJoins
      <3>2. ASSUME NEW p \in Proc, Publish(p)
            PROVE  FiniteJoins'
        BY <3>2, FS_AddElement DEF Publish, ViewInv, FiniteJoins
      <3> QED
        BY <1>2, <3>1, <3>2, OnlyCommitsWrite
    <2>3. overtook' \in [Event -> SUBSET Event]
      BY <1>2 DEF Watch, OwnJoins, ViewInv, Accounted
    <2>4. ASSUME NEW p \in Proc, Looked(p)', NEW j \in OwnJoins(ev'[p])
          PROVE  \/ j \in overtook'[ev'[p]]
                 \/ j \in joins' /\ (endedBy'[j] # NoEvent \/ j \in todo'[p] \cup locked'[p])
      <3>1. ~Crash
        BY <2>4 DEF Crash, Looked
      <3>2. PICK q \in Proc : (\E e \in Event : Call(q, e)) \/ RecordEvent(q) \/ Return(q)
        BY <1>2, <3>1 DEF Next
      <3>3. CASE q = p
        <4>1. ~((\E e \in Event : Call(p, e)) \/ Return(p))
          BY <2>4 DEF Call, Return, Looked, ViewInv, IInv, TypeOK
        <4>2. RecordEvent(p) /\ ev' = ev
          BY <3>2, <3>3, <4>1, CallStaysBusy DEF ViewInv, IInv
        <4> QED
          BY <1>2, <2>4, <4>2, LookKeeps
      <3>4. CASE q # p
        <4>1. /\ pc'[p] = pc[p] /\ ev'[p] = ev[p]
              /\ todo'[p] = todo[p] /\ locked'[p] = locked[p]
          BY <3>2, <3>4, OneCallMoves DEF ViewInv, IInv
        <4>2. Looked(p) /\ ev[p] \in Event
          BY <2>4, <4>1 DEF Looked, ViewInv, IInv, Isolation
        <4>3. overtook'[ev[p]] = overtook[ev[p]]
          BY <1>2, <4>2, RecordStands DEF ViewInv
        <4>4. /\ joins \subseteq joins'
              /\ \A k \in joins : endedBy[k] # NoEvent => endedBy'[k] # NoEvent
          BY <1>2, ClosedRowsStay DEF ViewInv
        <4> QED
          BY <2>4, <4>1, <4>2, <4>3, <4>4 DEF ViewInv, Accounted
      <3> QED
        BY <3>3, <3>4
    <2>5. \A e \in eventRaw' : \A j \in OwnJoins(e) :
              j \in overtook'[e] \/ (j \in joins' /\ endedBy'[j] # NoEvent)
      BY <1>2, StoreAccounts
    <2>6. Accounted'
      BY <2>3, <2>4, <2>5 DEF Accounted, OwnJoins
    <2> QED
      BY <2>1, <2>2, <2>6 DEF ViewInv
  <1> QED
    BY <1>1, <1>2 DEF ViewNext

-----------------------------------------------------------------------------
(* The theorems                                                            *)

LEMMA ViewInitial ==
    ASSUME ViewInit
    PROVE  ViewInv
  <1>1. IInv
    BY Inductive DEF ViewInit
  <1>2. FiniteJoins
    BY FS_EmptySet DEF ViewInit, Init, FiniteJoins
  <1>3. Accounted
    BY DEF ViewInit, Init, Accounted, Looked
  <1> QED
    BY <1>1, <1>2, <1>3 DEF ViewInv

\* The invariant holds of every order in which events are delivered.
THEOREM ViewInvariance == ViewSpec => []ViewInv
  <1>1. ViewInit => ViewInv
    BY ViewInitial
  <1>2. ViewInv /\ [ViewNext]_viewVars => ViewInv'
    BY ViewInductive
  <1> QED
    BY <1>1, <1>2, PTL DEF ViewSpec

\* In any order of arrival, a join stays open although its departure is stored
\* only if it was not committed when closeBySID looked.
THEOREM OnlyOvertakenStaysOpen == ViewSpec => []OpenOnlyIfOvertaken
  <1>1. ViewInv => OpenOnlyIfOvertaken
    BY DEF ViewInv, Accounted, OpenOnlyIfOvertaken, Open
  <1> QED
    BY <1>1, ViewInvariance, PTL

\* still_open and Session.IsOpen agree, and so do session_started_at and
\* Session.StartedAt, for every window, gap and tie.
THEOREM OpenColumnsAgree == ViewSpec => []StillOpenIsLastOpen
  <1>1. ViewInv => StillOpenIsLastOpen
    BY ColumnsAgree DEF ViewInv
  <1> QED
    BY <1>1, ViewInvariance, PTL

\* The query separates two joins just where the participant was away for more
\* than the gap, if joins end in the order they start.
THEOREM QueryFindsAbsences == ViewSpec => []SessionsArePresences
  <1>1. ViewInv => SessionsArePresences
    BY GroupsArePresences DEF ViewInv
  <1> QED
    BY <1>1, ViewInvariance, PTL

\* A narrower window neither merges nor splits what it still shows.
THEOREM NarrowWindowTruncates == ViewSpec => []WindowOnlyTruncates
  <1>1. ViewInv => WindowOnlyTruncates
    BY WindowsAgree DEF ViewInv
  <1> QED
    BY <1>1, ViewInvariance, PTL

\* Deliveries in order are a case of deliveries in any order, so that all of
\* this holds of them.
THEOREM InOrderIsView == InOrderSpec => ViewSpec
  <1>1. InOrderNext => ViewNext
    BY DEF InOrderNext, ViewNext, Next
  <1> QED
    BY <1>1, PTL DEF InOrderSpec, ViewSpec
=============================================================================
