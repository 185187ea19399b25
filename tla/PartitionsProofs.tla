-------------------------- MODULE PartitionsProofs --------------------------
(***************************************************************************)
(* Proofs about Partitions, for every length of a day, every zone and      *)
(* every sequence of migrations at any times.                              *)
(***************************************************************************)
EXTENDS Partitions, TLAPS

-----------------------------------------------------------------------------
(* Arithmetic of days                                                      *)

\* A time lies in the day its quotient names.
LEMMA DayOfTime ==
    ASSUME NEW x \in Int
    PROVE  /\ x \div Day \in Int
           /\ (x \div Day) * Day <= x
           /\ x < (x \div Day) * Day + Day
  BY DayAssumption

\* Days are ordered as their starts are.
LEMMA DayOrder ==
    ASSUME NEW a \in Int, NEW b \in Int, a <= b
    PROVE  a * Day <= b * Day
  BY DayAssumption

\* A day starts where the one before it ends, and seven and thirteen days are
\* seven and thirteen times a day.
LEMMA DaySums ==
    ASSUME NEW a \in Int
    PROVE  /\ a * Day \in Int
           /\ (a + 1) * Day = a * Day + Day
           /\ (a - 7) * Day = a * Day - 7 * Day
           /\ (a + 14) * Day = a * Day + 14 * Day
  BY DayAssumption

\* Two days that contain one time are the same.
LEMMA OneDay ==
    ASSUME NEW a \in Int, NEW b \in Int, NEW x \in Int,
           a * Day <= x, x < a * Day + Day, b * Day <= x, x < b * Day + Day
    PROVE  a = b
  <1>1. ASSUME NEW c \in Int, NEW d \in Int, c * Day <= x, x < d * Day + Day
        PROVE  c <= d
    <2>1. d + 1 <= c => (d + 1) * Day <= c * Day
      BY DayOrder
    <2>2. /\ c * Day \in Int /\ d * Day \in Int /\ Day \in Int
          /\ (d + 1) * Day = d * Day + Day
      BY DaySums, DayAssumption
    <2> QED
      BY <1>1, <2>1, <2>2
  <1> QED
    BY <1>1

-----------------------------------------------------------------------------
(* The inductive invariant                                                 *)

\* Every partition is the one of its day, and the days up has to create, those
\* that exist and those it made, are all there.
PartitionsInv ==
    /\ now \in Nat /\ created \in Int
    /\ zone \in Int /\ -Day < zone /\ zone < Day
    /\ \A p \in partitions : p.day \in Int /\ p = Partition(p.day)
    /\ created # -1 =>
          \A day \in (created \div Day - 7)..(created \div Day + 13) :
              Partition(day) \in partitions

\* The invariant holds initially and is kept by up, down, force and the clock.
LEMMA PartitionsInductive ==
    /\ Init => PartitionsInv
    /\ PartitionsInv /\ [Next]_vars => PartitionsInv'
  <1>1. Init => PartitionsInv
    BY DayAssumption, ZoneAssumption DEF Init, PartitionsInv
  <1>2. ASSUME PartitionsInv, Up
        PROVE  PartitionsInv'
    <2>1. /\ created' = now /\ now' = now /\ zone' = zone
          /\ partitions' = partitions \cup
                {Partition(day) : day \in Bootstrap \ {p.day : p \in partitions}}
      BY <1>2 DEF Up
    <2>2. now \in Nat /\ now \div Day \in Int
      BY <1>2, DayOfTime DEF PartitionsInv
    <2>3. \A day : Partition(day)' = Partition(day) /\ Partition(day).day = day
      BY <2>1 DEF Partition, Midnight
    <2>4. \A p \in partitions' : p.day \in Int /\ p = Partition(p.day)
      BY <1>2, <2>1, <2>2, <2>3 DEF PartitionsInv, Bootstrap, Today
    <2>5. \A day \in (now \div Day - 7)..(now \div Day + 13) : Partition(day) \in partitions'
      <3> SUFFICES ASSUME NEW day \in (now \div Day - 7)..(now \div Day + 13)
                   PROVE  Partition(day) \in partitions'
        OBVIOUS
      <3>1. CASE \E p \in partitions : p.day = day
        BY <1>2, <2>1, <3>1 DEF PartitionsInv
      <3>2. CASE day \notin {p.day : p \in partitions}
        BY <2>1, <3>2 DEF Bootstrap, Today
      <3> QED
        BY <3>1, <3>2
    <2> QED
      BY <1>2, <2>1, <2>2, <2>3, <2>4, <2>5 DEF PartitionsInv
  <1>3. ASSUME PartitionsInv, Down
        PROVE  PartitionsInv'
    BY <1>3 DEF PartitionsInv, Down
  <1>4. ASSUME PartitionsInv, MigrateForce \/ Tick \/ UNCHANGED vars
        PROVE  PartitionsInv'
    <2>1. UNCHANGED <<zone, partitions, created>> /\ now' \in {now, now + 1}
      BY <1>4 DEF MigrateForce, Tick, vars
    <2>2. now' \in Nat
      BY <1>4, <2>1 DEF PartitionsInv
    <2>3. \A day : Partition(day)' = Partition(day)
      BY <2>1 DEF Partition, Midnight
    <2> QED
      BY <1>4, <2>1, <2>2, <2>3 DEF PartitionsInv
  <1> QED
    BY <1>1, <1>2, <1>3, <1>4 DEF Next

-----------------------------------------------------------------------------
(* Results                                                                 *)

\* In the window around the time up ran, the day that contains an instant in
\* the database's zone is one of the days up creates, and no other day does.
LEMMA WindowIsCovered ==
    ASSUME PartitionsInv
    PROVE  FreshWindowIsCovered
  <1> SUFFICES ASSUME created # -1,
                      NEW t \in (created - 6 * Day)..(created + 12 * Day)
               PROVE  \E p \in partitions :
                         Covers(p, t) /\ \A q \in partitions : Covers(q, t) => q = p
    BY DEF FreshWindowIsCovered
  <1> DEFINE c == created \div Day
             k == (t + zone) \div Day
  <1>1. /\ t \in Int /\ created \in Int /\ zone \in Int /\ Day \in Int
        /\ created - 6 * Day <= t /\ t <= created + 12 * Day
        /\ -Day < zone /\ zone < Day
    BY DayAssumption DEF PartitionsInv
  <1>2. c \in Int /\ c * Day <= created /\ created < c * Day + Day
    BY <1>1, DayOfTime
  <1>3. k \in Int /\ k * Day <= t + zone /\ t + zone < k * Day + Day
    BY <1>1, DayOfTime
  <1> HIDE DEF c, k
  <1>4. /\ c * Day \in Int /\ k * Day \in Int
        /\ (c - 7) * Day = c * Day - 7 * Day /\ (c + 14) * Day = c * Day + 14 * Day
        /\ (k + 1) * Day = k * Day + Day
    BY <1>2, <1>3, DaySums
  <1>5. c - 7 <= k
    <2>1. k + 1 <= c - 7 => (k + 1) * Day <= (c - 7) * Day
      BY <1>2, <1>3, DayOrder
    <2> QED
      BY <1>1, <1>2, <1>3, <1>4, <2>1
  <1>6. k <= c + 13
    <2>1. c + 14 <= k => (c + 14) * Day <= k * Day
      BY <1>2, <1>3, DayOrder
    <2> QED
      BY <1>1, <1>2, <1>3, <1>4, <2>1
  <1>7. Partition(k) \in partitions
    BY <1>2, <1>3, <1>5, <1>6 DEF PartitionsInv, c
  <1>8. ASSUME NEW day \in Int
        PROVE  Covers(Partition(day), t) <=>
                  day * Day <= t + zone /\ t + zone < day * Day + Day
    <2>1. /\ Partition(day).from = day * Day - zone
          /\ Partition(day).to = (day + 1) * Day - zone
      BY DEF Partition, Midnight
    <2>2. day * Day \in Int /\ (day + 1) * Day = day * Day + Day
      BY DaySums
    <2> QED
      BY <1>1, <2>1, <2>2 DEF Covers
  <1>9. Covers(Partition(k), t)
    BY <1>3, <1>8
  <1>10. ASSUME NEW q \in partitions, Covers(q, t)
         PROVE  q = Partition(k)
    <2>1. q.day \in Int /\ q = Partition(q.day)
      BY DEF PartitionsInv
    <2>2. q.day * Day <= t + zone /\ t + zone < q.day * Day + Day
      BY <1>8, <1>10, <2>1
    <2>3. q.day = k
      BY <1>1, <1>3, <2>1, <2>2, OneDay
    <2> QED
      BY <2>1, <2>3
  <1> QED
    BY <1>7, <1>9, <1>10

\* A freshly migrated database accepts writes: every instant from six days
\* before up ran to twelve days after is in exactly one partition.
THEOREM FreshDatabaseAcceptsWrites == Spec => []FreshWindowIsCovered
  <1>1. Spec => []PartitionsInv
    BY PartitionsInductive, PTL DEF Spec
  <1> QED
    BY <1>1, WindowIsCovered, PTL
=============================================================================
