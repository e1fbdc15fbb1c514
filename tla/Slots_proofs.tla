---------------------------- MODULE Slots_proofs -----------------------------
(***************************************************************************)
(* The slots a provider is offered to have free, for any hours, bookings,   *)
(* lengths and number of requests: what is offered is free, and all that is *)
(* free is offered.                                                         *)
(***************************************************************************)
EXTENDS Slots, TLAPS

Covers(iv, t) == iv.start <= t /\ t < iv.end

Within(iv, h) == h.start <= iv.start /\ iv.end <= h.end

\* Two intervals of a list that subtraction has left: never even adjacent.
Apart(x, y) == x.end < y.start \/ y.end < x.start

-----------------------------------------------------------------------------
(***************************************************************************)
(* Arithmetic                                                               *)
(***************************************************************************)
LEMMA Multiples ==
    ASSUME NEW d \in Nat \ {0}, NEW k \in Nat, NEW n \in Nat
    PROVE  /\ k * d \in Nat
           /\ (k + 1) * d = k * d + d
           /\ k < n => (k + 1) * d <= n * d
           /\ k <= n => k * d <= n * d
<1>1. k * d \in Nat /\ n * d \in Nat /\ (k + 1) * d = k * d + d
  OBVIOUS
<1>2. ASSUME k <= n PROVE k * d <= n * d
  <2>1. (n - k) * d = n * d - k * d
    OBVIOUS
  <2>2. (n - k) * d >= 0
    BY <1>2
  <2> QED
    BY <1>1, <2>1, <2>2
<1>3. ASSUME k < n PROVE (k + 1) * d <= n * d
  <2>1. (n - (k + 1)) * d = n * d - (k + 1) * d
    OBVIOUS
  <2>2. n - (k + 1) \in Nat
    BY <1>3
  <2>3. (n - (k + 1)) * d >= 0
    BY <2>2
  <2> QED
    BY <1>1, <2>1, <2>3
<1> QED
  BY <1>1, <1>2, <1>3

\* Cutting a stretch x into pieces of d puts each of its points in one piece.
LEMMA Division ==
    ASSUME NEW d \in Nat \ {0}, NEW x \in Nat
    PROVE  \E k \in 0..x : k * d <= x /\ x < (k + 1) * d
<1> DEFINE k == x \div d
<1>1. k \in Nat /\ x = d * k + (x % d) /\ x % d \in 0..(d - 1)
  OBVIOUS
<1>2. k * d <= x /\ x < (k + 1) * d
  BY <1>1
<1>3. k <= k * d
  BY <1>1
<1> QED
  BY <1>1, <1>2, <1>3

LEMMA IntervalType ==
    ASSUME NEW s \in Int, NEW e \in Int, s < e
    PROVE  [start |-> s, end |-> e] \in Interval
  BY DEF Interval

-----------------------------------------------------------------------------
(***************************************************************************)
(* What a booking leaves of an interval, and what an interval is cut into.  *)
(***************************************************************************)
LEMMA PartsAreIntervals ==
    ASSUME NEW iv \in Interval, NEW b \in Interval
    PROVE  Parts(iv, b) \subseteq Interval
  BY DEF Parts, Interval

LEMMA PartsWithin ==
    ASSUME NEW iv \in Interval, NEW b \in Interval, NEW p \in Parts(iv, b)
    PROVE  Within(p, iv) /\ Disjoint(p, b)
  BY DEF Parts, Interval, Within, Disjoint

LEMMA PartsApart ==
    ASSUME NEW iv \in Interval, NEW b \in Interval,
           NEW p \in Parts(iv, b), NEW q \in Parts(iv, b), p # q
    PROVE  Apart(p, q)
  BY DEF Parts, Interval, Apart

LEMMA PartsCover ==
    ASSUME NEW iv \in Interval, NEW b \in Interval, NEW t \in Int,
           Covers(iv, t), ~Covers(b, t)
    PROVE  \E p \in Parts(iv, b) : Covers(p, t)
<1> DEFINE ovStart == IF b.start > iv.start THEN b.start ELSE iv.start
           ovEnd == IF b.end < iv.end THEN b.end ELSE iv.end
<1>1. ovStart \in Int /\ ovEnd \in Int /\ iv.start \in Int /\ iv.end \in Int
  BY DEF Interval
<1>2. CASE ovStart >= ovEnd
  BY <1>2 DEF Parts
<1>3. CASE ovStart < ovEnd /\ t < ovStart
  <2>1. [start |-> iv.start, end |-> ovStart] \in Parts(iv, b)
    BY <1>1, <1>3 DEF Parts, Covers
  <2> QED
    BY <1>1, <1>3, <2>1 DEF Covers
<1>4. CASE ovStart < ovEnd /\ ovEnd <= t
  <2>1. [start |-> ovEnd, end |-> iv.end] \in Parts(iv, b)
    BY <1>1, <1>4 DEF Parts, Covers
  <2> QED
    BY <1>1, <1>4, <2>1 DEF Covers
<1>5. ~(ovStart <= t /\ t < ovEnd)
  BY DEF Covers, Interval
<1> QED
  BY <1>1, <1>2, <1>3, <1>4, <1>5

LEMMA CutType ==
    ASSUME NEW iv \in Interval, NEW d \in Nat \ {0}, NEW s \in Cut(iv, d)
    PROVE  s \in Interval /\ Within(s, iv) /\ s.end - s.start = d
<1>1. PICK k \in Nat : /\ s = [start |-> iv.start + k * d, end |-> iv.start + (k + 1) * d]
                       /\ iv.start + (k + 1) * d <= iv.end
  BY DEF Cut
<1>2. k * d \in Nat /\ (k + 1) * d = k * d + d
  BY Multiples
<1> QED
  BY <1>1, <1>2 DEF Interval, Within

LEMMA CutDisjoint ==
    ASSUME NEW iv \in Interval, NEW d \in Nat \ {0},
           NEW r \in Cut(iv, d), NEW s \in Cut(iv, d), r # s
    PROVE  Disjoint(r, s)
<1>1. PICK k \in Nat : r = [start |-> iv.start + k * d, end |-> iv.start + (k + 1) * d]
  BY DEF Cut
<1>2. PICK n \in Nat : s = [start |-> iv.start + n * d, end |-> iv.start + (n + 1) * d]
  BY DEF Cut
<1>3. k < n \/ n < k
  BY <1>1, <1>2
<1>4. CASE k < n
  BY <1>1, <1>2, <1>4, Multiples DEF Disjoint, Interval
<1>5. CASE n < k
  BY <1>1, <1>2, <1>5, Multiples DEF Disjoint, Interval
<1> QED
  BY <1>3, <1>4, <1>5

\* No slot of the length fits beside the ones an interval is cut into.
LEMMA CutFills ==
    ASSUME NEW iv \in Interval, NEW d \in Nat \ {0}, NEW t \in Int,
           iv.start <= t, t + d <= iv.end
    PROVE  \E r \in Cut(iv, d) : ~Disjoint(r, [start |-> t, end |-> t + d])
<1>1. t - iv.start \in Nat /\ iv.start \in Int /\ iv.end \in Int
  BY DEF Interval
<1>2. PICK k \in 0..(t - iv.start) : k * d <= t - iv.start /\ t - iv.start < (k + 1) * d
  BY <1>1, Division
<1>3. k * d \in Nat /\ (k + 1) * d = k * d + d
  BY Multiples, <1>1
<1> DEFINE r == [start |-> iv.start + k * d, end |-> iv.start + (k + 1) * d]
<1>4. iv.start + (k + 1) * d <= iv.end
  BY <1>1, <1>2, <1>3
<1>5. k \in 0..(iv.end - iv.start)
  BY <1>1, <1>2
<1>6. r \in Cut(iv, d)
  BY <1>4, <1>5 DEF Cut
<1>7. ~Disjoint(r, [start |-> t, end |-> t + d])
  BY <1>1, <1>2, <1>3 DEF Disjoint
<1> QED
  BY <1>6, <1>7

-----------------------------------------------------------------------------
(***************************************************************************)
(* Type correctness                                                         *)
(***************************************************************************)
Lengths == {m * Minute : m \in Durations \cup {1}}

LEMMA LengthsPositive == Lengths \subseteq Nat \ {0}
<1> SUFFICES ASSUME NEW m \in Durations \cup {1} PROVE m * Minute \in Nat \ {0}
  BY DEF Lengths
<1>1. m \in Nat /\ 1 <= m /\ Minute \in Nat \ {0}
  BY QueryAssumption, ClockAssumption
<1>2. 1 * Minute <= m * Minute /\ m * Minute \in Nat
  BY <1>1, Multiples
<1> QED
  BY <1>1, <1>2

\* The open hours of a date: whole minutes, and over before the last minute is.
LEMMA HoursType ==
    ASSUME NEW rows \in WeekdayRows, NEW hasOff \in BOOLEAN,
           NEW row \in getOpenIntervalsForDate(rows, hasOff)
    PROVE  LET h == [start |-> row.startMinutes * Minute, end |-> row.endMinutes * Minute]
           IN  h \in Interval /\ 0 <= h.start /\ h.end <= Day - 1
<1>1. row \in Schedules /\ row.startMinutes < row.endMinutes
  BY DEF WeekdayRows, getOpenIntervalsForDate, getScheduleForDate
<1> DEFINE s == row.startMinutes
           e == row.endMinutes
<1>2. s \in Nat /\ e \in Nat /\ s < e /\ e <= MinutesPerDay - 1 /\ e < MinutesPerDay
  BY <1>1, ScheduleAssumption, ClockAssumption
<1>3. Minute \in Nat \ {0} /\ MinutesPerDay \in Nat
  BY ClockAssumption
<1> HIDE DEF s, e
<1>4. s * Minute \in Nat /\ e * Minute \in Nat
  BY <1>2, <1>3, Multiples
<1>5. (s + 1) * Minute = s * Minute + Minute /\ (s + 1) * Minute <= e * Minute
  BY <1>2, <1>3, Multiples
<1>6. (e + 1) * Minute = e * Minute + Minute /\ (e + 1) * Minute <= Day
  BY <1>2, <1>3, Multiples DEF Day
<1>7. Day \in Int
  BY <1>3 DEF Day
<1> QED
  BY <1>3, <1>4, <1>5, <1>6, <1>7 DEF Interval, s, e

LEMMA DayType == AnySlot \in Interval
<1>1. Minute \in Nat \ {0} /\ MinutesPerDay \in Nat \ {0}
  BY ClockAssumption
<1>2. 1 * Minute <= MinutesPerDay * Minute /\ MinutesPerDay * Minute \in Nat
  BY <1>1, Multiples
<1> QED
  BY <1>1, <1>2 DEF AnySlot, Interval, Day

LEMMA AskType ==
    ASSUME TypeOK, NEW a \in Asks, NEW minutes \in Durations,
           NEW rows \in WeekdayRows, NEW hasOff \in BOOLEAN,
           GetOpenIntervals(a, minutes, rows, hasOff)
    PROVE  /\ TypeOK'
           /\ \A h \in open'[a] : 0 <= h.start /\ h.end <= Day - 1
<1>1. \A h \in open'[a] : h \in Interval /\ 0 <= h.start /\ h.end <= Day - 1
  BY HoursType DEF TypeOK, GetOpenIntervals
<1>2. open' \in [Asks -> SUBSET Interval]
  BY <1>1 DEF TypeOK, GetOpenIntervals
<1>3. length' \in [Asks -> Lengths] /\ pc' \in [Asks -> {"idle", "read", "subtract", "answered"}]
  BY DEF TypeOK, GetOpenIntervals, At, Lengths
<1> QED
  BY <1>1, <1>2, <1>3 DEF TypeOK, GetOpenIntervals, rowVars, Lengths, StatusTypeOK

LEMMA ReadType ==
    ASSUME TypeOK, NEW a \in Asks, ReadBookings(a)
    PROVE  TypeOK'
<1>1. left' \in [Asks -> SUBSET Orders]
  BY DEF TypeOK, ReadBookings, findBookingsByProviderAndDate
<1>2. free' \in [Asks -> SUBSET Interval]
  BY DEF TypeOK, ReadBookings
<1> QED
  BY <1>1, <1>2 DEF TypeOK, ReadBookings, At, rowVars, StatusTypeOK

LEMMA SubtractType ==
    ASSUME TypeOK, NEW a \in Asks, NEW o \in Orders, SubtractBooked(a, o)
    PROVE  TypeOK'
<1>1. \A iv \in free[a] : Parts(iv, slot[o]) \subseteq Interval
  BY PartsAreIntervals DEF TypeOK
<1>2. UNION {Parts(iv, slot[o]) : iv \in free[a]} \subseteq Interval
  BY <1>1
<1>3. free' \in [Asks -> SUBSET Interval]
  BY <1>2 DEF TypeOK, SubtractBooked
<1> QED
  BY <1>3 DEF TypeOK, SubtractBooked, At, rowVars, readVars, StatusTypeOK

LEMMA AnswerType ==
    ASSUME TypeOK, NEW a \in Asks, Answer(a)
    PROVE  TypeOK'
<1>1. length[a] \in Nat \ {0} /\ free[a] \subseteq Interval
  BY LengthsPositive DEF TypeOK, Lengths
<1>2. UNION {Cut(iv, length[a]) : iv \in free[a]} \subseteq Interval
  BY <1>1, CutType
<1>3. slots' \in [Asks -> SUBSET Interval]
  BY <1>2 DEF TypeOK, Answer
<1> QED
  BY <1>3 DEF TypeOK, Answer, At, rowVars, readVars, StatusTypeOK

LEMMA InsertType ==
    ASSUME TypeOK, NEW o \in Orders, NEW s \in Interval, NEW a \in Asks \cup {Nobody},
           Insert(o, s, a)
    PROVE  TypeOK'
<1>1. status' \in [Orders -> Status \cup {"NO_ROW"}]
  BY DEF TypeOK, Insert, StatusTypeOK, Status
<1> QED
  BY <1>1 DEF TypeOK, Insert, askVars, readVars, StatusTypeOK

LEMMA MovesType ==
    ASSUME TypeOK, NEW o \in Orders, RowMoves(o)
    PROVE  /\ TypeOK'
           /\ Exists(o) /\ status[o] # "CANCELLED"
           /\ \E to \in Status : status' = [status EXCEPT ![o] = to]
<1>1. PICK step \in PaymentSteps \cup FulfilmentSteps :
        status[o] = step[1] /\ status' = [status EXCEPT ![o] = step[2]]
  BY DEF RowMoves, Takes
<1>2. step[2] \in Status /\ status[o] # "CANCELLED"
  BY <1>1 DEF PaymentSteps, FulfilmentSteps, Cancellable, Status
<1>3. status' \in [Orders -> Status \cup {"NO_ROW"}]
  BY <1>1, <1>2 DEF TypeOK, StatusTypeOK
<1> QED
  BY <1>1, <1>2, <1>3 DEF TypeOK, RowMoves, askVars, readVars, StatusTypeOK

\* The rows that a request of a client inserts.
LEMMA Bookings ==
    ASSUME TypeOK, NEW o \in Orders, BookOther(o) \/ \E a \in Asks : BookOffered(o, a)
    PROVE  \E s \in Interval, a \in Asks \cup {Nobody} :
              /\ Insert(o, s, a)
              /\ a # Nobody => pc[a] = "answered" /\ s \in slots[a]
  BY SlotAssumption DEF TypeOK, BookOther, BookOffered

\* Every value the module names stays of its type.
THEOREM TypeCorrect == Spec => []TypeOK
<1>1. Init => TypeOK
  <2> SUFFICES ASSUME Init PROVE TypeOK
    OBVIOUS
  <2>1. Minute \in {m * Minute : m \in Durations \cup {1}}
    <3>1. 1 * Minute = Minute
      BY ClockAssumption
    <3> QED
      BY <3>1, Zenon
  <2>2. StatusTypeOK
    BY DEF Init, StatusInit, StatusTypeOK
  <2> QED
    BY <2>1, <2>2, DayType DEF Init, TypeOK
<1>2. TypeOK /\ [Next]_vars => TypeOK'
  <2> SUFFICES ASSUME TypeOK, [Next]_vars PROVE TypeOK'
    OBVIOUS
  <2>1. CASE \E a \in Asks, minutes \in Durations, rows \in WeekdayRows, hasOff \in BOOLEAN :
                GetOpenIntervals(a, minutes, rows, hasOff)
    BY <2>1, AskType
  <2>2. CASE \E a \in Asks : ReadBookings(a)
    BY <2>2, ReadType
  <2>3. CASE \E a \in Asks, o \in Orders : SubtractBooked(a, o)
    BY <2>3, SubtractType
  <2>4. CASE \E a \in Asks : Answer(a)
    BY <2>4, AnswerType
  <2>5. CASE \E o \in Orders : BookOther(o) \/ \E a \in Asks : BookOffered(o, a)
    BY <2>5, Bookings, InsertType
  <2>6. CASE \E o \in Orders : RowMoves(o)
    BY <2>6, MovesType
  <2>7. CASE UNCHANGED vars
    BY <2>7 DEF TypeOK, StatusTypeOK, vars, rowVars, askVars, readVars
  <2> QED
    BY <2>1, <2>2, <2>3, <2>4, <2>5, <2>6, <2>7 DEF Next
<1> QED
  BY <1>1, <1>2, PTL DEF Spec

-----------------------------------------------------------------------------
(***************************************************************************)
(* The inductive invariant                                                  *)
(***************************************************************************)
\* The provider service answers with one interval at most, within the date.
HoursOpen ==
    \A a \in Asks : /\ \A h, i \in open[a] : h = i
                   /\ \A h \in open[a] : 0 <= h.start /\ h.end <= Day - 1

\* What a request has read stays: rows stay, with their slots, and a cancelled
\* one stays cancelled.
RowsRead ==
    \A a \in Asks : /\ live[a] \subseteq existing[a]
                   /\ \A o \in existing[a] :
                        Exists(o) /\ (o \notin live[a] => status[o] = "CANCELLED")

\* The loop invariant of subtractBookedFromRange: what is left is the open
\* hours without the bookings subtracted so far, in pieces with gaps between.
Subtracting(a) ==
    /\ left[a] \subseteq live[a]
    /\ \A iv \in free[a] :
         /\ \E h \in open[a] : Within(iv, h)
         /\ \A o \in live[a] \ left[a] : Disjoint(iv, slot[o])
         /\ \A jv \in free[a] : iv = jv \/ Apart(iv, jv)
    /\ \A h \in open[a], t \in Int :
         Covers(h, t) /\ (\A o \in live[a] \ left[a] : ~Covers(slot[o], t))
         => \E iv \in free[a] : Covers(iv, t)

\* The two properties of one answer.
Free(a) ==
    \A s \in slots[a] :
        /\ s.end - s.start = length[a]
        /\ \E iv \in open[a] : iv.start <= s.start /\ s.end <= iv.end
        /\ \A o \in live[a] : Disjoint(s, slot[o])
        /\ \A r \in slots[a] \ {s} : Disjoint(r, s)

Full(a) ==
    \A iv \in open[a] : \A t \in iv.start..(iv.end - length[a]) :
        LET s == [start |-> t, end |-> t + length[a]]
        IN  (\A o \in live[a] : Disjoint(s, slot[o]))
            => \E r \in slots[a] : ~Disjoint(r, s)

\* A request that has not answered has no slots yet.
Progress(a) ==
    /\ pc[a] # "answered" => slots[a] = {}
    /\ pc[a] = "subtract" => Subtracting(a)
    /\ pc[a] = "answered" => Free(a) /\ Full(a)

BookedFromAnswer ==
    \A o \in Orders : askOf[o] # Nobody =>
        Exists(o) /\ pc[askOf[o]] = "answered" /\ slot[o] \in slots[askOf[o]]

SlotInv == HoursOpen /\ RowsRead /\ BookedFromAnswer /\ \A a \in Asks : Progress(a)

-----------------------------------------------------------------------------
(***************************************************************************)
(* The steps of one request                                                 *)
(***************************************************************************)
LEMMA ReadEstablishes ==
    ASSUME TypeOK, HoursOpen, NEW a \in Asks, ReadBookings(a)
    PROVE  Subtracting(a)'
<1>1. /\ open' = open /\ slot' = slot /\ free'[a] = open[a]
      /\ left'[a] = findBookingsByProviderAndDate
      /\ live'[a] = {o \in Orders : Exists(o) /\ status[o] # "CANCELLED"}
  BY DEF TypeOK, ReadBookings, rowVars
<1>2. left'[a] \subseteq live'[a]
  BY <1>1 DEF findBookingsByProviderAndDate
<1>3. ASSUME NEW iv \in open[a], NEW o \in live'[a] \ left'[a]
      PROVE  Disjoint(iv, slot[o])
  <2>1. slot[o].start >= Day - 1 \/ slot[o].end <= 0
    <3>1. slot[o] \in Interval /\ Day \in Int
      BY <1>1, ClockAssumption DEF TypeOK, Day
    <3>2. ~(slot[o].start < Day - 1 /\ slot[o].end > 0)
      BY <1>1 DEF findBookingsByProviderAndDate
    <3> QED
      BY <3>1, <3>2 DEF Interval
  <2>2. iv \in Interval /\ slot[o] \in Interval /\ Day \in Int
    BY <1>1, ClockAssumption DEF TypeOK, Day
  <2>3. 0 <= iv.start /\ iv.end <= Day - 1
    BY DEF HoursOpen
  <2> QED
    BY <2>1, <2>2, <2>3 DEF Interval, Disjoint
<1>4. ASSUME NEW iv \in open[a] PROVE Within(iv, iv)
  BY DEF TypeOK, Interval, Within
<1>5. \A iv, jv \in open[a] : iv = jv
  BY DEF HoursOpen
<1> QED
  BY <1>1, <1>2, <1>3, <1>4, <1>5 DEF Subtracting

LEMMA SubtractKeeps ==
    ASSUME TypeOK, NEW a \in Asks, NEW o \in Orders, Subtracting(a), SubtractBooked(a, o)
    PROVE  Subtracting(a)'
<1>1. /\ open' = open /\ slot' = slot /\ live' = live
      /\ left'[a] = left[a] \ {o} /\ o \in left[a]
      /\ free'[a] = UNION {Parts(iv, slot[o]) : iv \in free[a]}
  BY DEF TypeOK, SubtractBooked, rowVars, readVars
<1>2. slot[o] \in Interval /\ free[a] \subseteq Interval /\ free'[a] \subseteq Interval
  BY SubtractType DEF TypeOK
<1>3. left'[a] \subseteq live'[a] /\ o \in live[a]
  BY <1>1 DEF Subtracting
<1>4. ASSUME NEW p \in free'[a]
      PROVE  \E iv \in free[a] : p \in Parts(iv, slot[o])
  BY <1>1
<1>5. ASSUME NEW p \in free'[a]
      PROVE  /\ \E h \in open[a] : Within(p, h)
             /\ \A q \in live[a] \ left'[a] : Disjoint(p, slot[q])
  <2>1. PICK iv \in free[a] : p \in Parts(iv, slot[o])
    BY <1>4
  <2>2. Within(p, iv) /\ Disjoint(p, slot[o]) /\ p \in Interval
    BY <1>2, <2>1, PartsWithin
  <2>3. PICK h \in open[a] : Within(iv, h)
    BY DEF Subtracting
  <2>4. Within(p, h)
    BY <1>2, <2>2, <2>3 DEF TypeOK, Within, Interval
  <2>5. ASSUME NEW q \in live[a] \ left'[a], q # o PROVE Disjoint(p, slot[q])
    <3>1. q \in live[a] \ left[a] /\ Disjoint(iv, slot[q])
      BY <1>1, <2>5 DEF Subtracting
    <3>2. slot[q] \in Interval
      BY DEF TypeOK
    <3> QED
      BY <1>2, <2>2, <3>1, <3>2 DEF Within, Disjoint, Interval
  <2> QED
    BY <2>2, <2>4, <2>5
<1>6. ASSUME NEW p \in free'[a], NEW q \in free'[a], p # q
      PROVE  Apart(p, q)
  <2>1. PICK iv \in free[a] : p \in Parts(iv, slot[o])
    BY <1>4
  <2>2. PICK jv \in free[a] : q \in Parts(jv, slot[o])
    BY <1>4
  <2>3. CASE iv = jv
    BY <1>2, <1>6, <2>1, <2>2, <2>3, PartsApart
  <2>4. CASE iv # jv
    <3>1. Apart(iv, jv)
      BY <2>4 DEF Subtracting
    <3>2. Within(p, iv) /\ Within(q, jv)
      BY <1>2, <2>1, <2>2, PartsWithin
    <3> QED
      BY <1>2, <3>1, <3>2 DEF Apart, Within, Interval
  <2> QED
    BY <2>3, <2>4
<1>7. ASSUME NEW h \in open[a], NEW t \in Int, Covers(h, t),
             \A q \in live[a] \ left'[a] : ~Covers(slot[q], t)
      PROVE  \E p \in free'[a] : Covers(p, t)
  <2>1. ~Covers(slot[o], t) /\ \A q \in live[a] \ left[a] : ~Covers(slot[q], t)
    BY <1>1, <1>3, <1>7
  <2>2. PICK iv \in free[a] : Covers(iv, t)
    BY <1>7, <2>1 DEF Subtracting
  <2>3. PICK p \in Parts(iv, slot[o]) : Covers(p, t)
    BY <1>2, <2>1, <2>2, PartsCover
  <2> QED
    BY <1>1, <2>3
<1> QED
  BY <1>1, <1>3, <1>5, <1>6, <1>7 DEF Subtracting

\* Every slot cut comes from a free piece; so they lie in the open hours, and
\* two of them meet neither in one piece nor in two.
LEMMA AnswerIsFree ==
    ASSUME TypeOK, NEW a \in Asks, Subtracting(a), Answer(a)
    PROVE  Free(a)'
<1>1. /\ open' = open /\ slot' = slot /\ live' = live /\ length' = length
      /\ left[a] = {}
      /\ slots'[a] = UNION {Cut(iv, length[a]) : iv \in free[a]}
  BY DEF TypeOK, Answer, rowVars, readVars
<1>2. /\ free[a] \subseteq Interval /\ length[a] \in Nat \ {0}
      /\ open[a] \subseteq Interval /\ \A o \in live[a] : slot[o] \in Interval
  BY LengthsPositive DEF TypeOK, Lengths
<1>3. ASSUME NEW s \in slots'[a]
      PROVE  \E iv \in free[a] : /\ s \in Cut(iv, length[a]) /\ s \in Interval
                                /\ Within(s, iv) /\ s.end - s.start = length[a]
  BY <1>1, <1>2, CutType
<1>4. ASSUME NEW s \in slots'[a]
      PROVE  /\ s.end - s.start = length[a]
             /\ \E h \in open[a] : h.start <= s.start /\ s.end <= h.end
             /\ \A o \in live[a] : Disjoint(s, slot[o])
  <2>1. PICK iv \in free[a] : s \in Interval /\ Within(s, iv) /\ s.end - s.start = length[a]
    BY <1>3
  <2>2. PICK h \in open[a] : Within(iv, h)
    BY DEF Subtracting
  <2>3. \A o \in live[a] : Disjoint(iv, slot[o])
    BY <1>1 DEF Subtracting
  <2>4. h.start <= s.start /\ s.end <= h.end
    BY <1>2, <2>1, <2>2 DEF Within, Interval
  <2>5. \A o \in live[a] : Disjoint(s, slot[o])
    BY <1>2, <2>1, <2>3 DEF Within, Interval, Disjoint
  <2> QED
    BY <2>1, <2>4, <2>5
<1>5. ASSUME NEW s \in slots'[a], NEW r \in slots'[a], r # s
      PROVE  Disjoint(r, s)
  <2>1. PICK iv \in free[a] : s \in Cut(iv, length[a]) /\ s \in Interval /\ Within(s, iv)
    BY <1>3
  <2>2. PICK jv \in free[a] : r \in Cut(jv, length[a]) /\ r \in Interval /\ Within(r, jv)
    BY <1>3
  <2>3. CASE iv = jv
    BY <1>2, <1>5, <2>1, <2>2, <2>3, CutDisjoint
  <2>4. CASE iv # jv
    <3>1. Apart(iv, jv)
      BY <2>4 DEF Subtracting
    <3> QED
      BY <1>2, <2>1, <2>2, <3>1 DEF Apart, Within, Interval, Disjoint
  <2> QED
    BY <2>3, <2>4
<1> QED
  BY <1>1, <1>4, <1>5 DEF Free

\* A stretch that meets no booking lies in one free piece: pieces have gaps
\* between them, and in a gap lies a booking.
LEMMA StretchInOnePiece ==
    ASSUME TypeOK, NEW a \in Asks, Subtracting(a), left[a] = {},
           NEW h \in open[a], NEW s \in Interval, Within(s, h),
           \A o \in live[a] : Disjoint(s, slot[o])
    PROVE  \E iv \in free[a] : Within(s, iv)
<1>1. h \in Interval /\ free[a] \subseteq Interval /\ \A o \in live[a] : slot[o] \in Interval
  BY DEF TypeOK
<1>2. ASSUME NEW t \in Int, Covers(s, t) PROVE \E iv \in free[a] : Covers(iv, t)
  <2>1. Covers(h, t)
    BY <1>1, <1>2 DEF Covers, Within, Interval
  <2>2. \A o \in live[a] : ~Covers(slot[o], t)
    BY <1>1, <1>2 DEF Covers, Disjoint, Interval
  <2> QED
    BY <2>1, <2>2 DEF Subtracting
<1>3. PICK iv \in free[a] : Covers(iv, s.start)
  BY <1>2 DEF Covers, Interval
<1>4. s.end <= iv.end
  <2>1. SUFFICES ASSUME iv.end < s.end PROVE FALSE
    BY <1>1 DEF Interval
  <2>2. PICK jv \in free[a] : Covers(jv, iv.end)
    BY <1>1, <1>2, <1>3, <2>1 DEF Covers, Interval
  <2>3. iv = jv \/ Apart(iv, jv)
    BY DEF Subtracting
  <2> QED
    BY <1>1, <2>2, <2>3 DEF Covers, Apart, Interval
<1> QED
  BY <1>3, <1>4 DEF Covers, Within

LEMMA AnswerIsFull ==
    ASSUME TypeOK, NEW a \in Asks, Subtracting(a), Answer(a)
    PROVE  Full(a)'
<1>1. /\ open' = open /\ slot' = slot /\ live' = live /\ length' = length
      /\ left[a] = {}
      /\ slots'[a] = UNION {Cut(iv, length[a]) : iv \in free[a]}
  BY DEF TypeOK, Answer, rowVars, readVars
<1>2. /\ free[a] \subseteq Interval /\ length[a] \in Nat \ {0}
      /\ open[a] \subseteq Interval
  BY LengthsPositive DEF TypeOK, Lengths
<1> DEFINE d == length[a]
           S(t) == [start |-> t, end |-> t + d]
<1>3. ASSUME NEW h \in open[a], NEW t \in h.start..(h.end - d),
             \A o \in live[a] : Disjoint(S(t), slot[o])
      PROVE  \E r \in slots'[a] : ~Disjoint(r, S(t))
  <2>1. h \in Interval /\ t \in Int /\ h.start <= t /\ t + d <= h.end
    BY <1>2 DEF Interval
  <2>2. S(t) \in Interval /\ Within(S(t), h)
    BY <1>2, <2>1 DEF Interval, Within
  <2>3. PICK iv \in free[a] : Within(S(t), iv)
    BY <1>1, <1>3, <2>2, StretchInOnePiece
  <2>4. iv \in Interval /\ iv.start <= t /\ t + d <= iv.end
    BY <1>2, <2>3 DEF Within
  <2>5. \E r \in Cut(iv, d) : ~Disjoint(r, S(t))
    BY <1>2, <2>1, <2>4, CutFills
  <2> QED
    BY <1>1, <2>5
<1> QED
  BY <1>1, <1>3 DEF Full

-----------------------------------------------------------------------------
(***************************************************************************)
(* Steps that are none of a request's own.                                  *)
(***************************************************************************)
\* No step changes or removes a row that is there, or revives a cancelled one.
LEMMA RowsStay ==
    ASSUME TypeOK, [Next]_vars, NEW o \in Orders, Exists(o)
    PROVE  /\ Exists(o)' /\ slot'[o] = slot[o] /\ askOf'[o] = askOf[o]
           /\ status[o] = "CANCELLED" => status'[o] = "CANCELLED"
<1>1. CASE \E p \in Orders : BookOther(p) \/ \E a \in Asks : BookOffered(p, a)
  BY <1>1 DEF BookOther, BookOffered, Insert, Exists, TypeOK, StatusTypeOK
<1>2. CASE \E p \in Orders : RowMoves(p)
  <2>1. PICK p \in Orders : RowMoves(p)
    BY <1>2
  <2>2. PICK to \in Status : status' = [status EXCEPT ![p] = to]
    BY <2>1, MovesType
  <2>3. status[p] # "CANCELLED" /\ slot' = slot /\ askOf' = askOf
    BY <2>1, MovesType DEF RowMoves
  <2> QED
    BY <2>2, <2>3 DEF Exists, Status, TypeOK, StatusTypeOK
<1>3. CASE UNCHANGED rowVars
  BY <1>3 DEF rowVars, Exists
<1> QED
  BY <1>1, <1>2, <1>3 DEF Next, GetOpenIntervals, ReadBookings, SubtractBooked, Answer, vars

\* What Progress says of a request rests on its own fields and the rows it read.
LEMMA ProgressStays ==
    ASSUME TypeOK, [Next]_vars, RowsRead, NEW a \in Asks, Progress(a),
           pc'[a] = pc[a], length'[a] = length[a], open'[a] = open[a], left'[a] = left[a],
           free'[a] = free[a], slots'[a] = slots[a], live'[a] = live[a]
    PROVE  Progress(a)'
<1>1. \A o \in live[a] : slot'[o] = slot[o]
  BY RowsStay DEF RowsRead, TypeOK
<1>2. Subtracting(a) => Subtracting(a)'
  BY <1>1 DEF Subtracting
<1>3. Free(a) => Free(a)'
  BY <1>1 DEF Free
<1>4. Full(a) => Full(a)'
  BY <1>1 DEF Full
<1> QED
  BY <1>2, <1>3, <1>4 DEF Progress

\* A step of one request leaves the others as they are.
LEMMA OneRequestMoves ==
    ASSUME TypeOK, [Next]_vars, NEW a \in Asks,
           ~ \/ \E minutes \in Durations, rows \in WeekdayRows, hasOff \in BOOLEAN :
                  GetOpenIntervals(a, minutes, rows, hasOff)
             \/ ReadBookings(a) \/ (\E o \in Orders : SubtractBooked(a, o)) \/ Answer(a)
    PROVE  /\ pc'[a] = pc[a] /\ length'[a] = length[a] /\ open'[a] = open[a]
           /\ left'[a] = left[a] /\ free'[a] = free[a] /\ slots'[a] = slots[a]
           /\ live'[a] = live[a] /\ existing'[a] = existing[a]
<1> DEFINE Same == /\ pc'[a] = pc[a] /\ length'[a] = length[a] /\ open'[a] = open[a]
                   /\ left'[a] = left[a] /\ free'[a] = free[a] /\ slots'[a] = slots[a]
                   /\ live'[a] = live[a] /\ existing'[a] = existing[a]
<1> SUFFICES Same
  OBVIOUS
<1>1. CASE UNCHANGED askVars
  BY <1>1 DEF askVars, readVars
<1>2. CASE \E b \in Asks, minutes \in Durations, rows \in WeekdayRows, hasOff \in BOOLEAN :
              GetOpenIntervals(b, minutes, rows, hasOff)
  <2>1. PICK b \in Asks, minutes \in Durations, rows \in WeekdayRows, hasOff \in BOOLEAN :
           GetOpenIntervals(b, minutes, rows, hasOff)
    BY <1>2
  <2>2. b # a
    BY <2>1
  <2>3. PICK x, y, z : /\ pc' = [pc EXCEPT ![b] = x] /\ length' = [length EXCEPT ![b] = y]
                       /\ open' = [open EXCEPT ![b] = z]
                       /\ UNCHANGED <<left, free, slots, live, existing>>
    BY <2>1, Zenon DEF GetOpenIntervals, At
  <2> QED
    BY <2>2, <2>3 DEF TypeOK
<1>3. CASE \E b \in Asks : ReadBookings(b)
  <2>1. PICK b \in Asks : ReadBookings(b) /\ b # a
    BY <1>3
  <2>2. PICK w, x, y, z : /\ left' = [left EXCEPT ![b] = w] /\ free' = [free EXCEPT ![b] = x]
                          /\ live' = [live EXCEPT ![b] = y] /\ existing' = [existing EXCEPT ![b] = z]
                          /\ pc' = [pc EXCEPT ![b] = "subtract"] /\ UNCHANGED <<length, open, slots>>
    BY <2>1, Zenon DEF ReadBookings, At
  <2> QED
    BY <2>1, <2>2 DEF TypeOK
<1>4. CASE \E b \in Asks, o \in Orders : SubtractBooked(b, o)
  BY <1>4 DEF SubtractBooked, At, TypeOK, readVars
<1>5. CASE \E b \in Asks : Answer(b)
  <2>1. PICK b \in Asks : Answer(b) /\ b # a
    BY <1>5
  <2> DEFINE cut == UNION {Cut(iv, length[b]) : iv \in free[b]}
  <2>2. slots' = [slots EXCEPT ![b] = cut] /\ UNCHANGED <<left, free, readVars>>
    BY <2>1 DEF Answer
  <2>3. pc'[a] = pc[a]
    BY <2>1 DEF Answer, At, TypeOK
  <2> HIDE DEF cut
  <2> QED
    BY <2>1, <2>2, <2>3 DEF TypeOK, readVars
<1>6. CASE \E o \in Orders : BookOther(o) \/ RowMoves(o) \/ \E b \in Asks : BookOffered(o, b)
  BY <1>1, <1>6 DEF BookOther, BookOffered, Insert, RowMoves
<1>7. CASE UNCHANGED vars
  BY <1>1, <1>7 DEF vars
<1> HIDE DEF Same
<1> QED
  BY <1>2, <1>3, <1>4, <1>5, <1>6, <1>7 DEF Next

LEMMA HoursOpenStays ==
    ASSUME TypeOK, HoursOpen, [Next]_vars
    PROVE  HoursOpen'
<1> SUFFICES ASSUME NEW a \in Asks
             PROVE  /\ \A h, i \in open'[a] : h = i
                    /\ \A h \in open'[a] : 0 <= h.start /\ h.end <= Day - 1
  BY DEF HoursOpen
<1>1. CASE \E minutes \in Durations, rows \in WeekdayRows, hasOff \in BOOLEAN :
              GetOpenIntervals(a, minutes, rows, hasOff)
  <2>1. PICK minutes \in Durations, rows \in WeekdayRows, hasOff \in BOOLEAN :
              GetOpenIntervals(a, minutes, rows, hasOff)
    BY <1>1
  <2>2. \A r, q \in getOpenIntervalsForDate(rows, hasOff) : r = q
    BY DEF WeekdayRows, getOpenIntervalsForDate, getScheduleForDate
  <2>3. open'[a] = {[start |-> row.startMinutes * Minute, end |-> row.endMinutes * Minute] :
                      row \in getOpenIntervalsForDate(rows, hasOff)}
    BY <2>1 DEF GetOpenIntervals, TypeOK
  <2> QED
    BY <2>1, <2>2, <2>3, AskType
<1>2. CASE open'[a] = open[a]
  BY <1>2 DEF HoursOpen
<1> QED
  BY <1>1, <1>2, OneRequestMoves DEF ReadBookings, SubtractBooked, Answer, readVars

LEMMA RowsReadStays ==
    ASSUME TypeOK, RowsRead, [Next]_vars
    PROVE  RowsRead'
<1> SUFFICES ASSUME NEW a \in Asks
             PROVE  /\ live'[a] \subseteq existing'[a]
                    /\ \A o \in existing'[a] :
                         Exists(o)' /\ (o \notin live'[a] => status'[o] = "CANCELLED")
  BY DEF RowsRead
<1>1. CASE ReadBookings(a)
  BY <1>1 DEF ReadBookings, TypeOK, rowVars, Exists
<1>2. CASE live'[a] = live[a] /\ existing'[a] = existing[a]
  BY <1>2, RowsStay DEF RowsRead, TypeOK
<1> QED
  BY <1>1, <1>2, OneRequestMoves DEF GetOpenIntervals, SubtractBooked, Answer, readVars

LEMMA ProgressKept ==
    ASSUME TypeOK, SlotInv, [Next]_vars, NEW a \in Asks
    PROVE  Progress(a)'
<1>1. CASE \E minutes \in Durations, rows \in WeekdayRows, hasOff \in BOOLEAN :
              GetOpenIntervals(a, minutes, rows, hasOff)
  <2>1. PICK minutes \in Durations, rows \in WeekdayRows, hasOff \in BOOLEAN :
              GetOpenIntervals(a, minutes, rows, hasOff)
    BY <1>1
  <2>2. slots[a] = {} /\ slots' = slots
    BY <2>1 DEF GetOpenIntervals, At, SlotInv, Progress
  <2>3. CASE open'[a] = {}
    BY <2>1, <2>2, <2>3 DEF GetOpenIntervals, At, TypeOK, Progress, Free, Full
  <2>4. CASE open'[a] # {}
    BY <2>1, <2>2, <2>4 DEF GetOpenIntervals, At, TypeOK, Progress
  <2> QED
    BY <2>3, <2>4
<1>2. CASE ReadBookings(a)
  <2>1. pc'[a] = "subtract" /\ slots'[a] = slots[a] /\ pc[a] = "read"
    BY <1>2 DEF ReadBookings, At, TypeOK
  <2> QED
    BY <1>2, <2>1, ReadEstablishes DEF SlotInv, Progress
<1>3. CASE \E o \in Orders : SubtractBooked(a, o)
  <2>1. pc'[a] = "subtract" /\ slots'[a] = slots[a] /\ pc[a] = "subtract"
    BY <1>3 DEF SubtractBooked, At, TypeOK
  <2> QED
    BY <1>3, <2>1, SubtractKeeps DEF SlotInv, Progress
<1>4. CASE Answer(a)
  <2>1. pc'[a] = "answered" /\ pc[a] = "subtract"
    BY <1>4 DEF Answer, At, TypeOK
  <2> QED
    BY <1>4, <2>1, AnswerIsFree, AnswerIsFull DEF SlotInv, Progress
<1> QED
  BY <1>1, <1>2, <1>3, <1>4, OneRequestMoves, ProgressStays DEF SlotInv

LEMMA BookedStays ==
    ASSUME TypeOK, SlotInv, [Next]_vars
    PROVE  BookedFromAnswer'
<1> SUFFICES ASSUME NEW o \in Orders, askOf'[o] # Nobody
             PROVE  Exists(o)' /\ pc'[askOf'[o]] = "answered" /\ slot'[o] \in slots'[askOf'[o]]
  BY DEF BookedFromAnswer
<1>1. ASSUME NEW a \in Asks, pc[a] = "answered"
      PROVE  pc'[a] = "answered" /\ slots'[a] = slots[a]
  BY <1>1, OneRequestMoves DEF GetOpenIntervals, ReadBookings, SubtractBooked, Answer, At
<1>2. CASE askOf[o] # Nobody
  <2>1. Exists(o) /\ pc[askOf[o]] = "answered" /\ slot[o] \in slots[askOf[o]] /\ askOf[o] \in Asks
    BY <1>2 DEF SlotInv, BookedFromAnswer, TypeOK
  <2> QED
    BY <1>1, <2>1, RowsStay
<1>3. CASE askOf[o] = Nobody
  <2>1. PICK p \in Orders : BookOther(p) \/ \E a \in Asks : BookOffered(p, a)
    BY <1>3 DEF Next, GetOpenIntervals, ReadBookings, SubtractBooked, Answer, RowMoves,
                vars, rowVars
  <2>2. PICK s \in Interval, a \in Asks \cup {Nobody} :
            Insert(p, s, a) /\ (a # Nobody => pc[a] = "answered" /\ s \in slots[a])
    BY <2>1, Bookings
  <2>3. o = p /\ askOf'[o] = a /\ slot'[o] = s /\ Exists(o)'
    BY <1>3, <2>2 DEF Insert, TypeOK, StatusTypeOK, Exists
  <2> QED
    BY <1>1, <2>2, <2>3
<1> QED
  BY <1>2, <1>3

LEMMA SlotInvHolds == Spec => []SlotInv
<1>1. Init => SlotInv
  BY DEF Init, SlotInv, HoursOpen, RowsRead, BookedFromAnswer, Progress
<1>2. TypeOK /\ SlotInv /\ [Next]_vars => SlotInv'
  BY HoursOpenStays, RowsReadStays, ProgressKept, BookedStays DEF SlotInv
<1> QED
  BY <1>1, <1>2, TypeCorrect, PTL DEF Spec

-----------------------------------------------------------------------------
(***************************************************************************)
(* The theorems                                                             *)
(***************************************************************************)
\* What getAvailableSlots offers is open and free, for any hours, any bookings
\* in the table in any order, and any length.
THEOREM OffersAreFree == Spec => []OfferedIsFree
<1>1. SlotInv => OfferedIsFree
  BY DEF SlotInv, Progress, Free, OfferedIsFree
<1> QED
  BY <1>1, SlotInvHolds, PTL

\* And nothing else is: no slot of that length fits beside those offered.
THEOREM NoSlotIsWithheld == Spec => []NothingWithheld
<1>1. SlotInv => NothingWithheld
  BY DEF SlotInv, Progress, Full, NothingWithheld
<1> QED
  BY <1>1, SlotInvHolds, PTL

\* Two bookings made from answers meet only when neither was there to be seen by
\* the other's request.
THEOREM DoubleBookingNeedsRace == Spec => []OverlapOnlyByRace
<1>1. TypeOK /\ SlotInv => OverlapOnlyByRace
  <2> SUFFICES ASSUME TypeOK, SlotInv, NEW o \in Orders, NEW p \in Orders,
                      askOf[p] # Nobody, status[o] # "CANCELLED",
                      o \in existing[askOf[p]]
               PROVE  Disjoint(slot[o], slot[p])
    BY DEF OverlapOnlyByRace
  <2>1. askOf[p] \in Asks /\ slot[p] \in slots[askOf[p]] /\ pc[askOf[p]] = "answered"
    BY DEF SlotInv, BookedFromAnswer, TypeOK
  <2>2. o \in live[askOf[p]]
    BY <2>1 DEF SlotInv, RowsRead
  <2>3. Disjoint(slot[p], slot[o])
    BY <2>1, <2>2 DEF SlotInv, Progress, Free
  <2> QED
    BY <2>3 DEF Disjoint
<1> QED
  BY <1>1, SlotInvHolds, TypeCorrect, PTL
=============================================================================
