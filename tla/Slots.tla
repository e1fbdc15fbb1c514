-------------------------------- MODULE Slots --------------------------------
(***************************************************************************)
(* The slots a provider has free on one date: the open hours the provider   *)
(* service answers with, less the bookings found in the table, cut into     *)
(* slots of the length asked for; and the bookings made from such answers.  *)
(*                                                                          *)
(* A time is a number of milliseconds from midnight UTC of the date, so it  *)
(* is negative on the day before.  The columns slotStart and slotEnd are    *)
(* written once, when the row is inserted, and no handler looks whether the *)
(* slot of a new booking is free.                                           *)
(***************************************************************************)
EXTENDS BookingTable, Integers

CONSTANTS
    Asks,           \* GET /bookings/available-slots for this provider and date
    Nobody,         \* a row that was not booked from the answer to one of Asks
    Minute,         \* milliseconds in a minute
    MinutesPerDay,
    Schedules,      \* rows of provider_schedules a weekday may have
    Durations,      \* values of slotDurationMinutes
    OtherSlots      \* slots of bookings made without asking first

Day == MinutesPerDay * Minute

Interval == {iv \in [start : Int, end : Int] : iv.start < iv.end}

ASSUME AskAssumption == Nobody \notin Asks
ASSUME ClockAssumption == Minute \in Nat \ {0} /\ MinutesPerDay \in Nat \ {0}

\* schema.prisma, ProviderSchedule: both columns are 0 to 1439.
ASSUME ScheduleAssumption ==
    \A row \in Schedules :
        row \in [startMinutes : 0..(MinutesPerDay - 1), endMinutes : 0..(MinutesPerDay - 1)]

\* availableSlotsQuerySchema and createBookingSchema
ASSUME QueryAssumption == Durations \subseteq Nat \ {0}
ASSUME SlotAssumption == OtherSlots \subseteq Interval

VARIABLES
    slot,      \* columns slotStart and slotEnd
    pc,        \* the requests: where they are,
    length,    \* ... slotDurationMinutes, in milliseconds
    open,      \* ... the open intervals, one at most
    left,      \* ... bookings found and not subtracted yet
    free,      \* ... what is left of the open interval
    slots,     \* ... and the answer
    \* for the properties
    live,      \* rows that were not cancelled when the request read the table
    existing,  \* all rows it then held
    askOf      \* the answer a row was booked from

rowVars == <<status, slot, askOf>>
readVars == <<length, open, live, existing>>
askVars == <<pc, left, free, slots, readVars>>
vars == <<rowVars, askVars>>

TypeOK ==
    /\ StatusTypeOK
    /\ slot \in [Orders -> Interval]
    /\ askOf \in [Orders -> Asks \cup {Nobody}]
    /\ pc \in [Asks -> {"idle", "read", "subtract", "answered"}]
    /\ length \in [Asks -> {m * Minute : m \in Durations \cup {1}}]
    /\ open \in [Asks -> SUBSET Interval]
    /\ left \in [Asks -> SUBSET Orders]
    /\ free \in [Asks -> SUBSET Interval]
    /\ slots \in [Asks -> SUBSET Interval]
    /\ live \in [Asks -> SUBSET Orders]
    /\ existing \in [Asks -> SUBSET Orders]

\* The slot of a row that is not there yet.
AnySlot == [start |-> 0, end |-> Day]

Init ==
    /\ StatusInit
    /\ slot = [o \in Orders |-> AnySlot]
    /\ askOf = [o \in Orders |-> Nobody]
    /\ pc = [a \in Asks |-> "idle"]
    /\ length = [a \in Asks |-> Minute]
    /\ open = [a \in Asks |-> {}]
    /\ left = [a \in Asks |-> {}]
    /\ free = [a \in Asks |-> {}]
    /\ slots = [a \in Asks |-> {}]
    /\ live = [a \in Asks |-> {}]
    /\ existing = [a \in Asks |-> {}]

-----------------------------------------------------------------------------
(***************************************************************************)
(* The provider service                                                     *)
(***************************************************************************)

\* The rows for the weekday and for the date, as the provider service finds
\* them: no handler writes either table, and who edits them may do so any time.
WeekdayRows == {{}} \cup {{row} : row \in Schedules}

\* getScheduleForDate: a row that ends before it starts counts for none.
getScheduleForDate(rows) == {row \in rows : row.startMinutes < row.endMinutes}

getOpenIntervalsForDate(rows, hasOff) == IF hasOff THEN {} ELSE getScheduleForDate(rows)

-----------------------------------------------------------------------------
(***************************************************************************)
(* getAvailableSlots                                                        *)
(***************************************************************************)
At(a, from, to) == pc[a] = from /\ pc' = [pc EXCEPT ![a] = to]

\* getProviderOpenIntervals, a call to the provider service.  Without an open
\* interval the loop over them does nothing, and the answer is empty.
GetOpenIntervals(a, minutes, rows, hasOff) ==
    LET intervals == {[start |-> row.startMinutes * Minute, end |-> row.endMinutes * Minute] :
                        row \in getOpenIntervalsForDate(rows, hasOff)}
    IN  /\ At(a, "idle", IF intervals = {} THEN "answered" ELSE "read")
        /\ length' = [length EXCEPT ![a] = minutes * Minute]
        /\ open' = [open EXCEPT ![a] = intervals]
        /\ UNCHANGED <<rowVars, left, free, slots, live, existing>>

\* Mutant: the bookings that lie within the date.
BookingsWithinDate ==
    {o \in Orders : /\ Exists(o) /\ status[o] # "CANCELLED"
                    /\ slot[o].start >= 0 /\ slot[o].end < Day}

\* Mutant: the bookings that were paid for.
BookingsServed ==
    {o \in Orders : /\ status[o] \in Served
                    /\ slot[o].start < Day - 1 /\ slot[o].end > 0}

\* The day ends at 23:59:59.999.
findBookingsByProviderAndDate ==
    {o \in Orders : /\ Exists(o) /\ status[o] # "CANCELLED"
                    /\ slot[o].start < Day - 1 /\ slot[o].end > 0}

ReadBookings(a) ==
    /\ At(a, "read", "subtract")
    /\ left' = [left EXCEPT ![a] = findBookingsByProviderAndDate]
    /\ free' = [free EXCEPT ![a] = open[a]]
    /\ live' = [live EXCEPT ![a] = {o \in Orders : Exists(o) /\ status[o] # "CANCELLED"}]
    /\ existing' = [existing EXCEPT ![a] = {o \in Orders : Exists(o)}]
    /\ UNCHANGED <<rowVars, length, open, slots>>

\* What a booking leaves of an interval.
Parts(iv, b) ==
    LET ovStart == IF b.start > iv.start THEN b.start ELSE iv.start
        ovEnd == IF b.end < iv.end THEN b.end ELSE iv.end
    IN  IF ovStart >= ovEnd THEN {iv}
        ELSE {p \in {[start |-> iv.start, end |-> ovStart],
                     [start |-> ovEnd, end |-> iv.end]} : p.start < p.end}

\* A turn of the loop of subtractBookedFromRange.  The rows come in no
\* particular order.  The loop runs without an await; that the other steps
\* come between its turns here changes nothing, as they share nothing with it.
SubtractBooked(a, o) ==
    /\ At(a, "subtract", "subtract")
    /\ o \in left[a]
    /\ left' = [left EXCEPT ![a] = @ \ {o}]
    /\ free' = [free EXCEPT ![a] = UNION {Parts(iv, slot[o]) : iv \in @}]
    /\ UNCHANGED <<rowVars, readVars, slots>>

\* Mutant: the last slot must end before the interval does.
CutShort(iv, d) ==
    {[start |-> iv.start + k * d, end |-> iv.start + (k + 1) * d] :
        k \in {n \in 0..(iv.end - iv.start) : iv.start + (n + 1) * d < iv.end}}

\* The while loop: slots end to end from the start of the interval.
Cut(iv, d) ==
    {[start |-> iv.start + k * d, end |-> iv.start + (k + 1) * d] :
        k \in {n \in 0..(iv.end - iv.start) : iv.start + (n + 1) * d <= iv.end}}

Answer(a) ==
    /\ At(a, "subtract", "answered")
    /\ left[a] = {}
    /\ slots' = [slots EXCEPT ![a] = UNION {Cut(iv, length[a]) : iv \in free[a]}]
    /\ UNCHANGED <<rowVars, readVars, left, free>>

-----------------------------------------------------------------------------
\* bookingRepo.create: any slot the client sends goes into the row.
Insert(o, s, a) ==
    /\ status[o] = "NO_ROW"
    /\ status' = [status EXCEPT ![o] = "PENDING_PAYMENT"]
    /\ slot' = [slot EXCEPT ![o] = s]
    /\ askOf' = [askOf EXCEPT ![o] = a]
    /\ UNCHANGED askVars

BookOffered(o, a) == pc[a] = "answered" /\ \E s \in slots[a] : Insert(o, s, a)

BookOther(o) == \E s \in OtherSlots : Insert(o, s, Nobody)

\* Payment, cancel and fulfilment of a row (the modules of the same names).
RowMoves(o) ==
    /\ Exists(o)
    /\ Takes(PaymentSteps \cup FulfilmentSteps, o)
    /\ UNCHANGED <<slot, askOf, askVars>>

Next ==
    \/ \E a \in Asks :
         \/ \E minutes \in Durations, rows \in WeekdayRows, hasOff \in BOOLEAN :
              GetOpenIntervals(a, minutes, rows, hasOff)
         \/ ReadBookings(a)
         \/ \E o \in Orders : SubtractBooked(a, o)
         \/ Answer(a)
    \/ \E o \in Orders :
         \/ \E a \in Asks : BookOffered(o, a)
         \/ BookOther(o)
         \/ RowMoves(o)

Spec == Init /\ [][Next]_vars

-----------------------------------------------------------------------------
(***************************************************************************)
(* Properties                                                               *)
(***************************************************************************)
Disjoint(x, y) == x.end <= y.start \/ y.end <= x.start

\* Booking service, comment of getAvailableSlots, "open intervals from Provider
\* minus existing bookings": every slot offered has the length asked for, lies
\* in the hours the provider has open, and meets neither another slot of the
\* answer nor a booking, of this date or across midnight, that was in the table
\* and not cancelled when it was read.
OfferedIsFree ==
    \A a \in Asks : pc[a] = "answered" => \A s \in slots[a] :
        /\ s.end - s.start = length[a]
        /\ \E iv \in open[a] : iv.start <= s.start /\ s.end <= iv.end
        /\ \A o \in live[a] : Disjoint(s, slot[o])
        /\ \A r \in slots[a] \ {s} : Disjoint(r, s)

\* Nothing more could have been offered: any stretch of the length asked for
\* that lies in the open hours and meets no booking meets a slot of the answer.
NothingWithheld ==
    \A a \in Asks : pc[a] = "answered" =>
        \A iv \in open[a] : \A t \in iv.start..(iv.end - length[a]) :
            LET s == [start |-> t, end |-> t + length[a]]
            IN  (\A o \in live[a] : Disjoint(s, slot[o]))
                => \E r \in slots[a] : ~Disjoint(r, s)

\* One stretch of time is booked twice only in a race: of two bookings that
\* meet, made from answers and neither cancelled, neither was in the table when
\* the answer for the other was made, paid or abandoned as it may be by now.
OverlapOnlyByRace ==
    \A o, p \in Orders :
        /\ o # p /\ askOf[o] # Nobody /\ askOf[p] # Nobody
        /\ status[o] # "CANCELLED" /\ status[p] # "CANCELLED"
        /\ ~Disjoint(slot[o], slot[p])
        => o \notin existing[askOf[p]]
=============================================================================
