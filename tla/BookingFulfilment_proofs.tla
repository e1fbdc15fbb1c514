---------------------- MODULE BookingFulfilment_proofs ----------------------
(***************************************************************************)
(* The fulfilment of any number of bookings by any number of requests.      *)
(***************************************************************************)
EXTENDS BookingFulfilment, SequenceTheorems, TLAPS

Marked == {"PENDING_COMPLETION_VERIFICATION", "COMPLETED"}

\* The request moved the status of its booking.
Told(q) ==
    \/ OpOf[q] \in Verifying \cup {"markComplete"} /\ tasks[q].pc = "done"
    \/ At(q, "markComplete", "issue")

\* What the status is from then on.
After(op) == CASE op = "confirmArrival" -> Arrived
               [] op = "markComplete" -> Marked
               [] op = "verifyCompletion" -> {"COMPLETED"}

\* What a request under way, or one that was answered, has found or done.
TaskInv(q) ==
    LET o == tasks[q].order
        t == TypeOf(OpOf[q])
    IN  /\ tasks[q].pc # "idle" => o \in Orders
        /\ tasks[q].pc = "use" => /\ OpOf[q] \in Verifying
                                  /\ tasks[q].code \in 1..Len(otps[o][t])
        /\ tasks[q].pc = "issue" => OpOf[q] \in Issuing
        /\ At(q, "assign", "write") => tasks[q].person \in Persons
        /\ At(q, "assign", "issue") => assigned[o] # Nobody
        /\ OpOf[q] \in Verifying /\ tasks[q].pc = "write" => UsedCodes(o, t) # {}
        /\ At(q, "review", "write") => status[o] = "COMPLETED"
        /\ At(q, "review", "done") => reviews[o] = {q}
        /\ Told(q) => status[o] \in After(OpOf[q])

OneTold ==
    \A q, r \in Tasks :
        Told(q) /\ Told(r) /\ OpOf[q] = OpOf[r] /\ tasks[q].order = tasks[r].order => q = r

Tables ==
    /\ otps \in [Orders -> [OtpType -> Seq(Otp)]]
    /\ \A o \in Orders : otps[o]["ARRIVAL"] # <<>> => assigned[o] # Nobody
    /\ \A o \in Orders : reviews[o] # {} => status[o] = "COMPLETED"

FulInv == JobsTypeOK /\ Tables /\ (\A q \in Tasks : TaskInv(q)) /\ OneTold /\ ServedByProof

-----------------------------------------------------------------------------
(***************************************************************************)
(* What no step undoes                                                      *)
(***************************************************************************)
StatusKept ==
    \A o \in Orders : /\ status[o] \in Arrived => status'[o] \in Arrived
                      /\ status[o] \in Marked => status'[o] \in Marked
                      /\ status[o] = "COMPLETED" => status'[o] = "COMPLETED"

CodesKept ==
    \A o \in Orders, t \in OtpType :
        /\ Len(otps[o][t]) <= Len(otps'[o][t])
        /\ \A i \in 1..Len(otps[o][t]) : otps[o][t][i].used => otps'[o][t][i].used

Kept ==
    /\ StatusKept
    /\ CodesKept
    /\ \A o \in Orders : assigned[o] # Nobody => assigned'[o] # Nobody
    /\ \A o \in Orders : reviews[o] # {} => reviews'[o] = reviews[o]

LEMMA UsedStay ==
    ASSUME JobsTypeOK, JobsTypeOK', CodesKept, NEW o \in Orders, NEW t \in OtpType
    PROVE  /\ UsedCodes(o, t) \subseteq UsedCodes(o, t)'
           /\ 1..Len(otps[o][t]) \subseteq 1..Len(otps'[o][t])
<1>1. otps[o][t] \in Seq(Otp) /\ otps'[o][t] \in Seq(Otp)
  BY DEF JobsTypeOK
<1>2. Len(otps[o][t]) \in Nat /\ Len(otps'[o][t]) \in Nat
  BY <1>1
<1>3. 1..Len(otps[o][t]) \subseteq 1..Len(otps'[o][t])
  BY <1>2 DEF CodesKept
<1> QED
  BY <1>3 DEF UsedCodes, CodesKept

\* A request that does not move keeps what it has found.
LEMMA OthersKeep ==
    ASSUME FulInv, JobsTypeOK', Kept, NEW q \in Tasks, tasks'[q] = tasks[q]
    PROVE  TaskInv(q)'
<1>1. TaskInv(q)
  BY DEF FulInv
<1>2. TypeOf(OpOf[q]) \in OtpType
  BY DEF TypeOf, OtpType
<1>3. CASE tasks[q].pc = "idle"
  BY <1>3 DEF TaskInv, At, Told
<1>4. CASE tasks[q].pc # "idle"
  <2> DEFINE o == tasks[q].order
             t == TypeOf(OpOf[q])
  <2>1. o \in Orders
    BY <1>1, <1>4 DEF TaskInv
  <2>2. UsedCodes(o, t) \subseteq UsedCodes(o, t)' /\ 1..Len(otps[o][t]) \subseteq 1..Len(otps'[o][t])
    <3>1. \A x \in Orders, y \in OtpType :
             UsedCodes(x, y) \subseteq UsedCodes(x, y)' /\ 1..Len(otps[x][y]) \subseteq 1..Len(otps'[x][y])
      BY UsedStay DEF FulInv, Kept
    <3>2. {i \in 1..Len(otps[o][t]) : otps[o][t][i].used}
            \subseteq {i \in 1..Len(otps'[o][t]) : otps'[o][t][i].used}
      BY <1>2, <2>1, <3>1 DEF UsedCodes
    <3> QED
      BY <1>2, <2>1, <3>1, <3>2 DEF UsedCodes
  <2>3. Told(q)' => status'[o] \in After(OpOf[q])
    <3>1. Told(q)' <=> Told(q)
      BY DEF Told, At
    <3>2. status[o] \in After(OpOf[q]) /\ Told(q) => status'[o] \in After(OpOf[q])
      BY <2>1 DEF After, Kept, StatusKept, Told, At, Verifying
    <3> QED
      BY <1>1, <3>1, <3>2 DEF TaskInv
  <2>4. /\ tasks'[q].pc = "use" => OpOf[q] \in Verifying /\ tasks'[q].code \in 1..Len(otps'[o][t])
        /\ OpOf[q] \in Verifying /\ tasks'[q].pc = "write"
             => {i \in 1..Len(otps'[o][t]) : otps'[o][t][i].used} # {}
    BY <1>1, <2>2 DEF TaskInv, UsedCodes
  <2>5. /\ At(q, "assign", "issue")' => assigned'[o] # Nobody
        /\ At(q, "review", "write")' => status'[o] = "COMPLETED"
        /\ At(q, "review", "done")' => reviews'[o] = {q}
    BY <1>1, <2>1 DEF TaskInv, At, Kept, StatusKept
  <2> QED
    BY <1>1, <2>1, <2>3, <2>4, <2>5 DEF TaskInv, At, UsedCodes
<1> QED
  BY <1>3, <1>4

\* A step that undoes nothing keeps the proof of each status, when what it adds has one.
LEMMA ServedKeep ==
    ASSUME FulInv, JobsTypeOK', Kept,
           \A o \in Orders :
             /\ status'[o] \in Arrived => status[o] \in Arrived \/ UsedCodes(o, "ARRIVAL") # {}
             /\ status'[o] = "COMPLETED" =>
                  status[o] = "COMPLETED" \/ UsedCodes(o, "COMPLETION") # {}
             /\ otps'[o]["COMPLETION"] # <<>> =>
                  otps[o]["COMPLETION"] # <<>> \/ status[o] \in Marked
    PROVE  ServedByProof'
<1>1. \A o \in Orders, t \in OtpType : UsedCodes(o, t) \subseteq UsedCodes(o, t)'
  BY UsedStay DEF FulInv, Kept
<1>2. \A o \in Orders : UsedCodes(o, "ARRIVAL") \subseteq UsedCodes(o, "ARRIVAL")'
                        /\ UsedCodes(o, "COMPLETION") \subseteq UsedCodes(o, "COMPLETION")'
  BY <1>1 DEF OtpType
<1>3. \A o \in Orders : UsedCodes(o, "ARRIVAL") # {} => assigned'[o] # Nobody
  <2> SUFFICES ASSUME NEW o \in Orders, UsedCodes(o, "ARRIVAL") # {} PROVE assigned'[o] # Nobody
    OBVIOUS
  <2>1. otps[o]["ARRIVAL"] # <<>>
    BY DEF UsedCodes
  <2> QED
    BY <2>1 DEF FulInv, Tables, Kept
<1>4. \A o \in Orders : status[o] \in Arrived =>
        UsedCodes(o, "ARRIVAL") # {} /\ assigned'[o] # Nobody
  BY DEF FulInv, ServedByProof, Kept
<1>5. \A o \in Orders : status[o] \in Marked => status'[o] \in Marked
  BY DEF Kept, StatusKept
<1>6. \A o \in Orders : /\ status[o] = "COMPLETED" => UsedCodes(o, "COMPLETION") # {}
                        /\ otps[o]["COMPLETION"] # <<>> => status[o] \in Marked
  BY DEF FulInv, ServedByProof, Marked
<1> QED
  BY <1>2, <1>3, <1>4, <1>5, <1>6 DEF ServedByProof, Marked

\* A step of one request keeps the invariant, when it is told of a change that
\* nobody was told of.
LEMMA TaskStep ==
    ASSUME FulInv, NEW q \in Tasks, JobsTypeOK', Tables', Kept, ServedByProof', TaskInv(q)',
           \A r \in Tasks \ {q} : tasks'[r] = tasks[r],
           Told(q)' => /\ tasks'[q].order = tasks[q].order
                       /\ Told(q) \/ status[tasks[q].order] \notin After(OpOf[q])
    PROVE  FulInv'
<1>1. \A r \in Tasks : TaskInv(r)'
  BY OthersKeep
<1>2. \A r \in Tasks \ {q} : Told(r)' => Told(r) /\ tasks'[r].order = tasks[r].order
  BY DEF Told, At
<1>3. \A r \in Tasks : Told(r) => status[tasks[r].order] \in After(OpOf[r])
  BY DEF FulInv, TaskInv
<1>4. OneTold'
  <2> SUFFICES ASSUME NEW r \in Tasks, NEW s \in Tasks, Told(r)', Told(s)', OpOf[r] = OpOf[s],
                      tasks'[r].order = tasks'[s].order, r # s
               PROVE  FALSE
    BY DEF OneTold
  <2>1. \A x \in Tasks : Told(x)' => tasks'[x].order = tasks[x].order
    BY <1>2
  <2>2. Told(r) /\ Told(s) => FALSE
    BY <2>1 DEF FulInv, OneTold
  <2>3. CASE r = q
    BY <1>2, <1>3, <2>1, <2>2, <2>3
  <2>4. CASE s = q
    BY <1>2, <1>3, <2>1, <2>2, <2>4
  <2> QED
    BY <1>2, <2>2, <2>3, <2>4
<1> QED
  BY <1>1, <1>4 DEF FulInv

\* The request after a step of its own.
LEMMA Advanced ==
    ASSUME JobsTypeOK, NEW q \in Tasks, NEW pc \in {"write", "issue", "done", "refused", "failed"},
           Advance(q, pc)
    PROVE  /\ tasks' \in [Tasks -> Task]
           /\ tasks'[q].pc = pc /\ tasks'[q].order = tasks[q].order
           /\ tasks'[q].person = tasks[q].person /\ tasks'[q].code = tasks[q].code
           /\ \A r \in Tasks \ {q} : tasks'[r] = tasks[r]
  BY DEF JobsTypeOK, Advance, Task

LEMMA Begun ==
    ASSUME JobsTypeOK, NEW q \in Tasks, NEW o \in Orders, NEW p \in Persons \cup {Nobody},
           NEW i \in 0..MaxCodes, NEW pc \in {"write", "use"}, NEW found, Begin(q, o, p, i, pc, found)
    PROVE  /\ tasks' \in [Tasks -> Task]
           /\ tasks'[q].pc \in {pc, "refused"} /\ (tasks'[q].pc = pc => found)
           /\ tasks'[q].order = o /\ tasks'[q].person = p /\ tasks'[q].code = i
           /\ \A r \in Tasks \ {q} : tasks'[r] = tasks[r]
  BY DEF JobsTypeOK, Begin, Task

\* A step that writes no table: only what the request found is to be shown.
LEMMA TablesAlone ==
    ASSUME FulInv, NEW q \in Tasks, UNCHANGED <<status, assigned, otps, reviews>>,
           tasks' \in [Tasks -> Task], \A r \in Tasks \ {q} : tasks'[r] = tasks[r],
           TaskInv(q)', ~Told(q)'
    PROVE  FulInv'
<1>1. JobsTypeOK'
  BY DEF FulInv, JobsTypeOK, StatusTypeOK
<1>2. Tables'
  BY DEF FulInv, Tables
<1>3. ServedByProof'
  BY DEF FulInv, ServedByProof, UsedCodes
<1>4. Kept
  <2>1. \A o \in Orders, t \in OtpType : Len(otps[o][t]) <= Len(otps[o][t])
    BY DEF FulInv, JobsTypeOK
  <2> QED
    BY <2>1 DEF Kept, StatusKept, CodesKept
<1> QED
  BY <1>1, <1>2, <1>3, <1>4, TaskStep

-----------------------------------------------------------------------------
(***************************************************************************)
(* The steps                                                                *)
(***************************************************************************)
LEMMA ReadKeeps ==
    ASSUME FulInv, NEW q \in Tasks,
           \E o \in Orders : \/ \E p \in Persons : AssignRead(q, o, p)
                             \/ MarkCompleteRead(q, o)
                             \/ \E i \in 0..MaxCodes : VerifyCode(q, o, i)
                             \/ ReviewRead(q, o)
    PROVE  FulInv'
<1> USE DEF FulInv
<1>1. PICK o \in Orders : \/ \E p \in Persons : AssignRead(q, o, p)
                          \/ MarkCompleteRead(q, o)
                          \/ \E i \in 0..MaxCodes : VerifyCode(q, o, i)
                          \/ ReviewRead(q, o)
  OBVIOUS
<1>2. /\ UNCHANGED <<status, assigned, otps, reviews>>
      /\ \E p \in Persons \cup {Nobody}, i \in 0..MaxCodes, pc \in {"write", "use"},
            found \in BOOLEAN :
           /\ Begin(q, o, p, i, pc, found)
           /\ OpOf[q] \in Verifying => /\ pc = "use"
                                       /\ found => i \in Active(o, TypeOf(OpOf[q]))
           /\ OpOf[q] \notin Verifying => pc = "write"
           /\ OpOf[q] = "assign" => p \in Persons
           /\ OpOf[q] = "review" /\ found => status[o] = "COMPLETED"
  <2> USE DEF At, Verifying, From
  <2>1. ASSUME NEW p \in Persons, AssignRead(q, o, p)
        PROVE  Begin(q, o, p, 0, "write", status[o] = From("assign")) /\ OpOf[q] = "assign"
               /\ UNCHANGED <<status, assigned, otps, reviews>>
    BY <2>1 DEF AssignRead
  <2>2. ASSUME MarkCompleteRead(q, o)
        PROVE  Begin(q, o, Nobody, 0, "write", status[o] = From("markComplete"))
               /\ OpOf[q] = "markComplete" /\ UNCHANGED <<status, assigned, otps, reviews>>
    BY <2>2 DEF MarkCompleteRead
  <2>3. ASSUME NEW i \in 0..MaxCodes, VerifyCode(q, o, i)
        PROVE  /\ Begin(q, o, Nobody, i, "use", IsNewestActive(o, TypeOf(OpOf[q]), i))
               /\ OpOf[q] \in Verifying /\ UNCHANGED <<status, assigned, otps, reviews>>
               /\ IsNewestActive(o, TypeOf(OpOf[q]), i) => i \in Active(o, TypeOf(OpOf[q]))
    BY <2>3 DEF VerifyCode, IsNewestActive
  <2>4. ASSUME ReviewRead(q, o)
        PROVE  Begin(q, o, Nobody, 0, "write", status[o] = From("review") /\ reviews[o] = {})
               /\ OpOf[q] = "review" /\ UNCHANGED <<status, assigned, otps, reviews>>
    BY <2>4 DEF ReviewRead
  <2>5. 0 \in 0..MaxCodes
    BY MaxCodesAssumption
  <2>6. IsNewestActive(o, TypeOf(OpOf[q]), 0) \in BOOLEAN
        /\ \A i \in 0..MaxCodes : IsNewestActive(o, TypeOf(OpOf[q]), i) \in BOOLEAN
    BY DEF IsNewestActive
  <2> QED
    BY <1>1, <2>1, <2>2, <2>3, <2>4, <2>5, <2>6
<1>3. PICK p \in Persons \cup {Nobody}, i \in 0..MaxCodes, pc \in {"write", "use"},
           found \in BOOLEAN :
           /\ Begin(q, o, p, i, pc, found)
           /\ OpOf[q] \in Verifying => /\ pc = "use"
                                       /\ found => i \in Active(o, TypeOf(OpOf[q]))
           /\ OpOf[q] \notin Verifying => pc = "write"
           /\ OpOf[q] = "assign" => p \in Persons
           /\ OpOf[q] = "review" /\ found => status[o] = "COMPLETED"
  BY <1>2
<1>4. /\ tasks' \in [Tasks -> Task]
      /\ tasks'[q].pc \in {pc, "refused"} /\ (tasks'[q].pc = pc => found)
      /\ tasks'[q].order = o /\ tasks'[q].person = p /\ tasks'[q].code = i
      /\ \A r \in Tasks \ {q} : tasks'[r] = tasks[r]
  <2>1. tasks \in [Tasks -> Task] /\ Begin(q, o, p, i, pc, found)
    BY <1>3 DEF JobsTypeOK
  <2> HIDE DEF FulInv
  <2>2. tasks' = [tasks EXCEPT ![q] = [pc |-> IF found THEN pc ELSE "refused", order |-> o,
                                       person |-> p, code |-> i]]
    BY <2>1, Zenon DEF Begin
  <2>3. [pc |-> IF found THEN pc ELSE "refused", order |-> o, person |-> p, code |-> i] \in Task
    BY DEF Task
  <2> QED
    BY <2>1, <2>2, <2>3
<1>5. TaskInv(q)'
  <2>1. tasks'[q].pc = "use" => /\ OpOf[q] \in Verifying
                                /\ tasks'[q].code \in 1..Len(otps'[o][TypeOf(OpOf[q])])
    BY <1>2, <1>3, <1>4 DEF Active
  <2>2. At(q, "assign", "write")' => tasks'[q].person \in Persons
    BY <1>3, <1>4 DEF At
  <2>3. At(q, "review", "write")' => status'[o] = "COMPLETED"
    BY <1>2, <1>3, <1>4 DEF At, Verifying
  <2>4. OpOf[q] \in Verifying => tasks'[q].pc # "write"
    BY <1>3, <1>4
  <2>5. tasks'[q].pc \in {"write", "use", "refused"}
    BY <1>3, <1>4
  <2> QED
    BY <1>4, <2>1, <2>2, <2>3, <2>4, <2>5 DEF TaskInv, At, Told
<1>6. ~Told(q)'
  BY <1>4 DEF Told, At
<1> QED
  BY <1>2, <1>4, <1>5, <1>6, TablesAlone

LEMMA DiesKeeps ==
    ASSUME FulInv, NEW q \in Tasks, TaskDies(q)
    PROVE  FulInv'
<1>1. UNCHANGED <<status, assigned, otps, reviews>> /\ Advance(q, "failed") /\ tasks[q].pc # "idle"
  BY DEF TaskDies
<1>2. /\ tasks' \in [Tasks -> Task] /\ tasks'[q].pc = "failed"
      /\ tasks'[q].order = tasks[q].order /\ \A r \in Tasks \ {q} : tasks'[r] = tasks[r]
  BY <1>1, Advanced DEF FulInv
<1>3. TaskInv(q)' /\ ~Told(q)'
  BY <1>1, <1>2 DEF FulInv, TaskInv, Told, At
<1> QED
  BY <1>1, <1>2, <1>3, TablesAlone

LEMMA CodesUnchanged ==
    ASSUME FulInv, UNCHANGED otps
    PROVE  CodesKept
<1>1. \A o \in Orders, t \in OtpType : Len(otps[o][t]) <= Len(otps[o][t])
  BY DEF FulInv, JobsTypeOK
<1> QED
  BY <1>1 DEF CodesKept

LEMMA AssignWriteKeeps ==
    ASSUME FulInv, NEW q \in Tasks, AssignWrite(q)
    PROVE  FulInv'
<1> DEFINE o == tasks[q].order
<1>1. /\ OpOf[q] = "assign" /\ o \in Orders /\ tasks[q].person \in Persons
      /\ tasks[q].pc = "write"
  BY DEF AssignWrite, At, FulInv, TaskInv
<1>2. PICK updated \in BOOLEAN :
        /\ \/ /\ Matched(o, {"CONFIRMED"}, "CONFIRMED", updated)
              /\ assigned' = [assigned EXCEPT ![o] = tasks[q].person]
           \/ Unmatched(o, {"CONFIRMED"}, updated) /\ UNCHANGED assigned
        /\ Advance(q, IF updated THEN "issue" ELSE "refused")
  BY DEF AssignWrite
<1>3. /\ tasks' \in [Tasks -> Task] /\ tasks'[q].pc = (IF updated THEN "issue" ELSE "refused")
      /\ tasks'[q].order = o /\ \A r \in Tasks \ {q} : tasks'[r] = tasks[r]
  BY <1>2, Advanced DEF FulInv
<1>4. status' = status
  BY <1>2 DEF Matched, Unmatched, FulInv, JobsTypeOK, StatusTypeOK
<1>5. /\ UNCHANGED <<otps, reviews>>
      /\ assigned' \in [Orders -> Persons \cup {Nobody}]
      /\ \A b \in Orders : assigned[b] # Nobody => assigned'[b] # Nobody
      /\ updated => assigned'[o] # Nobody
  BY <1>1, <1>2, PersonAssumption DEF AssignWrite, Matched, Unmatched, FulInv, JobsTypeOK
<1>6. JobsTypeOK'
  BY <1>3, <1>4, <1>5 DEF FulInv, JobsTypeOK, StatusTypeOK
<1>7. Kept
  BY <1>4, <1>5, CodesUnchanged DEF Kept, StatusKept
<1>8. Tables'
  BY <1>4, <1>5 DEF FulInv, Tables
<1>9. ServedByProof'
  BY <1>4, <1>5, <1>6, <1>7, ServedKeep
<1>10. TaskInv(q)' /\ ~Told(q)'
  BY <1>1, <1>3, <1>5 DEF TaskInv, At, Told, Issuing, Verifying
<1> QED
  BY <1>3, <1>6, <1>7, <1>8, <1>9, <1>10, TaskStep

\* The two updates of the status that are told to the request.
LEMMA StatusWrite ==
    ASSUME FulInv, NEW q \in Tasks, tasks[q].order \in Orders,
           UNCHANGED <<assigned, otps, reviews>>,
           tasks' \in [Tasks -> Task], tasks'[q].order = tasks[q].order,
           \A r \in Tasks \ {q} : tasks'[r] = tasks[r],
           TaskInv(q)',
           Told(q)' => status[tasks[q].order] \notin After(OpOf[q]),
           NEW from, NEW to, NEW updated,
           updateStatus(tasks[q].order, from, to, updated),
           <<from, to>> \in FulfilmentSteps,
           to = "ARRIVAL_CONFIRMED" => UsedCodes(tasks[q].order, "ARRIVAL") # {},
           to = "COMPLETED" => UsedCodes(tasks[q].order, "COMPLETION") # {}
    PROVE  FulInv'
<1> DEFINE o == tasks[q].order
<1>1. \/ status[o] = from /\ status' = [status EXCEPT ![o] = to]
      \/ status' = status
  BY DEF updateStatus, Matched, Unmatched
<1>2. \/ from = "CONFIRMED" /\ to = "ARRIVAL_CONFIRMED"
      \/ from = "ARRIVAL_CONFIRMED" /\ to = "PENDING_COMPLETION_VERIFICATION"
      \/ from = "PENDING_COMPLETION_VERIFICATION" /\ to = "COMPLETED"
  BY DEF FulfilmentSteps
<1>3. status \in [Orders -> Status \cup {"NO_ROW"}]
  BY DEF FulInv, JobsTypeOK, StatusTypeOK
<1>4. JobsTypeOK'
  BY <1>1, <1>2, <1>3 DEF FulInv, JobsTypeOK, StatusTypeOK, Status
<1>5. StatusKept
  BY <1>1, <1>2, <1>3 DEF StatusKept, Arrived, Marked
<1>6. Kept
  BY <1>5, CodesUnchanged DEF Kept
<1>7. Tables'
  BY <1>5 DEF FulInv, Tables, StatusKept
<1>8. ServedByProof'
  <2>1. \A b \in Orders :
             /\ status'[b] \in Arrived => status[b] \in Arrived \/ UsedCodes(b, "ARRIVAL") # {}
             /\ status'[b] = "COMPLETED" =>
                  status[b] = "COMPLETED" \/ UsedCodes(b, "COMPLETION") # {}
    BY <1>1, <1>2, <1>3 DEF Arrived
  <2> QED
    BY <1>4, <1>6, <2>1, ServedKeep
<1> QED
  BY <1>4, <1>6, <1>7, <1>8, TaskStep

LEMMA MarkCompleteWriteKeeps ==
    ASSUME FulInv, NEW q \in Tasks, MarkCompleteWrite(q)
    PROVE  FulInv'
<1> DEFINE o == tasks[q].order
<1>1. OpOf[q] = "markComplete" /\ tasks[q].pc = "write" /\ o \in Orders
      /\ UNCHANGED <<assigned, otps, reviews>>
  BY DEF MarkCompleteWrite, At, FulInv, TaskInv
<1>2. PICK updated \in BOOLEAN :
        /\ updateStatus(o, "ARRIVAL_CONFIRMED", "PENDING_COMPLETION_VERIFICATION", updated)
        /\ Advance(q, IF updated THEN "issue" ELSE "refused")
  BY DEF MarkCompleteWrite, From, To
<1>3. /\ tasks' \in [Tasks -> Task] /\ tasks'[q].pc = (IF updated THEN "issue" ELSE "refused")
      /\ tasks'[q].order = o /\ \A r \in Tasks \ {q} : tasks'[r] = tasks[r]
  BY <1>2, Advanced DEF FulInv
<1>4. updated => status[o] = "ARRIVAL_CONFIRMED" /\ status'[o] = "PENDING_COMPLETION_VERIFICATION"
  BY <1>1, <1>2 DEF updateStatus, Matched, Unmatched, FulInv, JobsTypeOK, StatusTypeOK
<1>5. TaskInv(q)'
  BY <1>1, <1>3, <1>4 DEF TaskInv, At, Told, Issuing, Verifying, After, Marked
<1>6. Told(q)' => status[o] \notin After(OpOf[q])
  BY <1>1, <1>3, <1>4 DEF Told, At, After, Marked
<1>7. <<"ARRIVAL_CONFIRMED", "PENDING_COMPLETION_VERIFICATION">> \in FulfilmentSteps
  BY DEF FulfilmentSteps
<1> QED
  BY <1>1, <1>2, <1>3, <1>5, <1>6, <1>7, StatusWrite

LEMMA VerifiedWriteKeeps ==
    ASSUME FulInv, NEW q \in Tasks, VerifiedWrite(q)
    PROVE  FulInv'
<1> DEFINE o == tasks[q].order
<1>1. OpOf[q] \in Verifying /\ tasks[q].pc = "write" /\ o \in Orders
      /\ UNCHANGED <<assigned, otps, reviews>> /\ UsedCodes(o, TypeOf(OpOf[q])) # {}
  BY DEF VerifiedWrite, At, FulInv, TaskInv
<1>2. PICK updated \in BOOLEAN :
        /\ updateStatus(o, From(OpOf[q]), To(OpOf[q]), updated)
        /\ Advance(q, IF updated THEN "done" ELSE "refused")
  BY DEF VerifiedWrite
<1>3. /\ tasks' \in [Tasks -> Task] /\ tasks'[q].pc = (IF updated THEN "done" ELSE "refused")
      /\ tasks'[q].order = o /\ \A r \in Tasks \ {q} : tasks'[r] = tasks[r]
  BY <1>2, Advanced DEF FulInv
<1>4. updated => status[o] = From(OpOf[q]) /\ status'[o] = To(OpOf[q])
  BY <1>1, <1>2 DEF updateStatus, Matched, Unmatched, FulInv, JobsTypeOK, StatusTypeOK
<1>5. \/ /\ OpOf[q] = "confirmArrival" /\ From(OpOf[q]) = "CONFIRMED"
         /\ To(OpOf[q]) = "ARRIVAL_CONFIRMED" /\ TypeOf(OpOf[q]) = "ARRIVAL"
         /\ After(OpOf[q]) = Arrived
      \/ /\ OpOf[q] = "verifyCompletion" /\ From(OpOf[q]) = "PENDING_COMPLETION_VERIFICATION"
         /\ To(OpOf[q]) = "COMPLETED" /\ TypeOf(OpOf[q]) = "COMPLETION"
         /\ After(OpOf[q]) = {"COMPLETED"}
  BY <1>1 DEF Verifying, From, To, TypeOf, After
<1>6. TaskInv(q)'
  BY <1>1, <1>3, <1>4, <1>5 DEF TaskInv, At, Told, Arrived
<1>7. Told(q)' => status[o] \notin After(OpOf[q])
  BY <1>1, <1>3, <1>4, <1>5 DEF Told, At, Arrived
<1>8. <<From(OpOf[q]), To(OpOf[q])>> \in FulfilmentSteps
  BY <1>5 DEF FulfilmentSteps
<1>9. /\ To(OpOf[q]) = "ARRIVAL_CONFIRMED" => UsedCodes(o, "ARRIVAL") # {}
      /\ To(OpOf[q]) = "COMPLETED" => UsedCodes(o, "COMPLETION") # {}
  BY <1>1, <1>5
<1> QED
  BY <1>1, <1>2, <1>3, <1>6, <1>7, <1>8, <1>9, StatusWrite

LEMMA ReviewWriteKeeps ==
    ASSUME FulInv, NEW q \in Tasks, ReviewWrite(q)
    PROVE  FulInv'
<1> DEFINE o == tasks[q].order
<1>1. OpOf[q] = "review" /\ tasks[q].pc = "write" /\ o \in Orders /\ status[o] = "COMPLETED"
      /\ UNCHANGED <<status, assigned, otps>>
  BY DEF ReviewWrite, At, FulInv, TaskInv
<1>2. \/ reviews[o] = {} /\ reviews' = [reviews EXCEPT ![o] = {q}] /\ Advance(q, "done")
      \/ UNCHANGED reviews /\ Advance(q, "failed")
  BY DEF ReviewWrite
<1>3. /\ tasks' \in [Tasks -> Task] /\ tasks'[q].pc \in {"done", "failed"}
      /\ tasks'[q].order = o /\ \A r \in Tasks \ {q} : tasks'[r] = tasks[r]
  BY <1>2, Advanced DEF FulInv
<1>4. /\ reviews' \in [Orders -> SUBSET Tasks]
      /\ \A b \in Orders : reviews[b] # {} => reviews'[b] = reviews[b]
      /\ \A b \in Orders \ {o} : reviews'[b] = reviews[b]
      /\ tasks'[q].pc = "done" => reviews'[o] = {q}
  <2>1. reviews \in [Orders -> SUBSET Tasks]
    BY DEF FulInv, JobsTypeOK
  <2>2. CASE reviews[o] = {} /\ reviews' = [reviews EXCEPT ![o] = {q}] /\ Advance(q, "done")
    BY <1>1, <2>1, <2>2
  <2>3. CASE UNCHANGED reviews /\ Advance(q, "failed")
    BY <2>1, <2>3, Advanced DEF FulInv
  <2> QED
    BY <1>2, <2>2, <2>3
<1>5. JobsTypeOK'
  BY <1>1, <1>3, <1>4 DEF FulInv, JobsTypeOK, StatusTypeOK
<1>6. Kept
  BY <1>1, <1>4, CodesUnchanged DEF Kept, StatusKept
<1>7. Tables'
  BY <1>1, <1>4 DEF FulInv, Tables
<1>8. ServedByProof'
  BY <1>1, <1>5, <1>6, ServedKeep
<1>9. TaskInv(q)' /\ ~Told(q)'
  BY <1>1, <1>3, <1>4 DEF TaskInv, At, Told, Issuing, Verifying
<1> QED
  BY <1>3, <1>5, <1>6, <1>7, <1>8, <1>9, TaskStep

-----------------------------------------------------------------------------
\* What the code handling does to the codes of one booking and type.
LEMMA NewCode ==
    ASSUME NEW c \in Seq(Otp)
    PROVE  LET d == Append(c, [used |-> FALSE, expired |-> FALSE])
           IN  /\ d \in Seq(Otp) /\ Len(d) = Len(c) + 1
               /\ \A i \in 1..Len(c) : d[i] = c[i]
  BY DEF Otp

LEMMA ChangedCode ==
    ASSUME NEW c \in Seq(Otp), NEW i \in 1..Len(c), NEW x \in Otp, c[i].used => x.used
    PROVE  LET d == [c EXCEPT ![i] = x]
           IN  /\ d \in Seq(Otp) /\ Len(d) = Len(c) /\ d[i] = x
               /\ \A j \in 1..Len(c) : c[j].used => d[j].used
  OBVIOUS

\* The codes of one booking and type are replaced ...
CodesBecome(o, t, d) == otps' = [otps EXCEPT ![o][t] = d]

\* ... and undo nothing.
LEMMA CodesChanged ==
    ASSUME FulInv, NEW o \in Orders, NEW t \in OtpType, NEW d \in Seq(Otp), Len(d) <= MaxCodes,
           CodesBecome(o, t, d),
           Len(otps[o][t]) <= Len(d), \A i \in 1..Len(otps[o][t]) : otps[o][t][i].used => d[i].used
    PROVE  /\ otps' \in [Orders -> [OtpType -> Seq(Otp)]]
           /\ \A b \in Orders, u \in OtpType : Len(otps'[b][u]) <= MaxCodes
           /\ CodesKept /\ otps'[o][t] = d
           /\ \A b \in Orders, u \in OtpType : b # o \/ u # t => otps'[b][u] = otps[b][u]
<1>1. otps \in [Orders -> [OtpType -> Seq(Otp)]]
  BY DEF FulInv, Tables
<1>2. /\ otps' \in [Orders -> [OtpType -> Seq(Otp)]] /\ otps'[o][t] = d
      /\ \A b \in Orders, u \in OtpType : b # o \/ u # t => otps'[b][u] = otps[b][u]
  BY <1>1 DEF CodesBecome
<1>3. \A b \in Orders, u \in OtpType : Len(otps[b][u]) <= MaxCodes /\ Len(otps[b][u]) <= Len(otps[b][u])
  BY DEF FulInv, JobsTypeOK
<1>4. \A b \in Orders, u \in OtpType : Len(otps'[b][u]) <= MaxCodes
  BY <1>2, <1>3
<1>5. CodesKept
  <2> SUFFICES ASSUME NEW b \in Orders, NEW u \in OtpType
               PROVE  /\ Len(otps[b][u]) <= Len(otps'[b][u])
                      /\ \A i \in 1..Len(otps[b][u]) : otps[b][u][i].used => otps'[b][u][i].used
    BY DEF CodesKept
  <2>1. CASE b = o /\ u = t
    BY <1>2, <2>1
  <2>2. CASE b # o \/ u # t
    BY <1>2, <1>3, <2>2
  <2> QED
    BY <2>1, <2>2
<1> QED
  BY <1>2, <1>4, <1>5

LEMMA CodeAdded ==
    ASSUME FulInv, NEW o \in Orders, NEW t \in OtpType, IssueCode(o, t)
    PROVE  /\ otps' \in [Orders -> [OtpType -> Seq(Otp)]]
           /\ \A b \in Orders, u \in OtpType : Len(otps'[b][u]) <= MaxCodes
           /\ CodesKept
           /\ \A b \in Orders, u \in OtpType : b # o \/ u # t => otps'[b][u] = otps[b][u]
<1> DEFINE d == Append(otps[o][t], [used |-> FALSE, expired |-> FALSE])
<1>1. otps[o][t] \in Seq(Otp) /\ Len(otps[o][t]) < MaxCodes
  BY DEF FulInv, JobsTypeOK, IssueCode
<1>2. /\ d \in Seq(Otp) /\ Len(d) = Len(otps[o][t]) + 1
      /\ \A i \in 1..Len(otps[o][t]) : d[i] = otps[o][t][i]
  BY <1>1, NewCode
<1>3. CodesBecome(o, t, d)
  BY DEF IssueCode, CodesBecome
<1> HIDE DEF d
<1>4. Len(d) <= MaxCodes /\ Len(otps[o][t]) <= Len(d)
  <2>1. Len(otps[o][t]) \in Nat
    BY <1>1
  <2> QED
    BY <1>1, <1>2, <2>1, MaxCodesAssumption
<1>5. \A i \in 1..Len(otps[o][t]) : otps[o][t][i].used => d[i].used
  BY <1>2
<1>6. PICK e \in Seq(Otp) :
        /\ CodesBecome(o, t, e)
        /\ Len(e) <= MaxCodes /\ Len(otps[o][t]) <= Len(e)
        /\ \A i \in 1..Len(otps[o][t]) : otps[o][t][i].used => e[i].used
  BY <1>2, <1>3, <1>4, <1>5, Zenon
<1> QED
  BY <1>6, CodesChanged, ZenonT(60)

LEMMA IssueKeeps ==
    ASSUME FulInv, NEW q \in Tasks, Issue(q)
    PROVE  FulInv'
<1> DEFINE o == tasks[q].order
           t == TypeOf(OpOf[q])
<1>1. /\ tasks[q].pc = "issue" /\ OpOf[q] \in Issuing /\ o \in Orders /\ t \in OtpType
      /\ UNCHANGED <<status, assigned, reviews>> /\ IssueCode(o, t)
  BY DEF Issue, FulInv, TaskInv, TypeOf, OtpType
<1>2. /\ tasks' \in [Tasks -> Task] /\ tasks'[q].pc = "done"
      /\ tasks'[q].order = o /\ \A r \in Tasks \ {q} : tasks'[r] = tasks[r]
  BY Advanced DEF Issue, FulInv
<1>3. PICK p \in Orders, v \in OtpType : p = o /\ v = t
  BY <1>1
<1>4. IssueCode(p, v)
  BY <1>1, <1>3
<1>5. /\ otps' \in [Orders -> [OtpType -> Seq(Otp)]]
      /\ \A b \in Orders, u \in OtpType : Len(otps'[b][u]) <= MaxCodes
      /\ CodesKept
      /\ \A b \in Orders, u \in OtpType : b # o \/ u # t => otps'[b][u] = otps[b][u]
  BY <1>3, <1>4, CodeAdded
<1>6. JobsTypeOK'
  BY <1>1, <1>2, <1>5 DEF FulInv, JobsTypeOK, StatusTypeOK
<1>7. Kept
  BY <1>1, <1>5 DEF Kept, StatusKept
<1>8. \/ OpOf[q] = "assign" /\ t = "ARRIVAL" /\ assigned[o] # Nobody
      \/ OpOf[q] = "markComplete" /\ t = "COMPLETION" /\ status[o] \in Marked /\ Told(q)
  BY <1>1 DEF FulInv, TaskInv, At, Issuing, TypeOf, Told, After
<1>9. Tables'
  <2>1. \A b \in Orders : otps'[b]["ARRIVAL"] # <<>> => otps[b]["ARRIVAL"] # <<>> \/ assigned[b] # Nobody
    BY <1>5, <1>8 DEF OtpType
  <2> QED
    BY <1>1, <1>5, <2>1 DEF FulInv, Tables
<1>10. ServedByProof'
  <2>1. \A b \in Orders : otps'[b]["COMPLETION"] # <<>> =>
                            otps[b]["COMPLETION"] # <<>> \/ status[b] \in Marked
    BY <1>5, <1>8 DEF OtpType
  <2> QED
    BY <1>1, <1>6, <1>7, <2>1, ServedKeep
<1>11. TaskInv(q)'
  BY <1>1, <1>2, <1>8 DEF TaskInv, At, Told, Issuing, Verifying, After
<1>12. Told(q)' => Told(q)
  BY <1>2, <1>8 DEF Told, At, Verifying
<1> QED
  BY <1>2, <1>6, <1>7, <1>9, <1>10, <1>11, <1>12, TaskStep

\* One code of one booking becomes used, or expires.
LEMMA CodeWrite ==
    ASSUME FulInv, NEW o \in Orders, NEW t \in OtpType, NEW i \in 1..Len(otps[o][t]), NEW x \in Otp,
           otps[o][t][i].used => x.used, otps' = [otps EXCEPT ![o][t][i] = x],
           UNCHANGED <<status, assigned, reviews>>, tasks' \in [Tasks -> Task]
    PROVE  /\ JobsTypeOK' /\ Tables' /\ Kept /\ ServedByProof'
           /\ x.used => \E j \in 1..Len(otps'[o][t]) : otps'[o][t][j].used
<1> DEFINE d == [otps[o][t] EXCEPT ![i] = x]
<1>1. otps[o][t] \in Seq(Otp) /\ Len(otps[o][t]) <= MaxCodes
  BY DEF FulInv, JobsTypeOK
<1>2. /\ d \in Seq(Otp) /\ Len(d) = Len(otps[o][t]) /\ d[i] = x
      /\ \A j \in 1..Len(otps[o][t]) : otps[o][t][j].used => d[j].used
  BY <1>1, ChangedCode
<1>3. CodesBecome(o, t, d)
  BY DEF CodesBecome
<1> HIDE DEF d
<1>4. Len(d) <= MaxCodes /\ Len(otps[o][t]) <= Len(d)
  BY <1>1, <1>2
<1>5. /\ otps' \in [Orders -> [OtpType -> Seq(Otp)]]
      /\ \A b \in Orders, u \in OtpType : Len(otps'[b][u]) <= MaxCodes
      /\ CodesKept /\ otps'[o][t] = d
      /\ \A b \in Orders, u \in OtpType : b # o \/ u # t => otps'[b][u] = otps[b][u]
  <2>1. PICK e \in Seq(Otp) :
          /\ e = d /\ CodesBecome(o, t, e)
          /\ Len(e) <= MaxCodes /\ Len(otps[o][t]) <= Len(e)
          /\ \A j \in 1..Len(otps[o][t]) : otps[o][t][j].used => e[j].used
    BY <1>2, <1>3, <1>4, Zenon
  <2> QED
    BY <2>1, CodesChanged, ZenonT(60)
<1>6. JobsTypeOK'
  BY <1>5 DEF FulInv, JobsTypeOK, StatusTypeOK
<1>7. Kept
  BY <1>5 DEF Kept, StatusKept
<1>8. \A b \in Orders, u \in OtpType : otps'[b][u] # <<>> => otps[b][u] # <<>>
  <2>1. otps[o][t] # <<>>
    OBVIOUS
  <2> QED
    BY <1>5, <2>1
<1>9. \A b \in Orders : /\ otps'[b]["ARRIVAL"] # <<>> => otps[b]["ARRIVAL"] # <<>>
                        /\ otps'[b]["COMPLETION"] # <<>> => otps[b]["COMPLETION"] # <<>>
  BY <1>8 DEF OtpType
<1>10. Tables'
  BY <1>5, <1>9 DEF FulInv, Tables
<1>11. ServedByProof'
  BY <1>6, <1>7, <1>9, ServedKeep
<1>12. x.used => i \in 1..Len(otps'[o][t]) /\ otps'[o][t][i].used
  BY <1>2, <1>5
<1> QED
  BY <1>6, <1>7, <1>10, <1>11, <1>12

LEMMA UsedField ==
    ASSUME NEW y \in Otp, NEW z, z = [y EXCEPT !.used = TRUE]
    PROVE  z = [used |-> TRUE, expired |-> y.expired]
  BY DEF Otp

LEMMA ExpiredField ==
    ASSUME NEW y \in Otp, NEW z, z = [y EXCEPT !.expired = TRUE]
    PROVE  z = [used |-> y.used, expired |-> TRUE]
  BY DEF Otp

LEMMA UseCodeKeeps ==
    ASSUME FulInv, NEW q \in Tasks, UseCode(q)
    PROVE  FulInv'
<1> DEFINE o == tasks[q].order
           t == TypeOf(OpOf[q])
           i == tasks[q].code
           x == [used |-> TRUE, expired |-> otps[o][t][i].expired]
<1>1. /\ tasks[q].pc = "use" /\ OpOf[q] \in Verifying /\ o \in Orders /\ t \in OtpType
      /\ i \in 1..Len(otps[o][t]) /\ UNCHANGED <<status, assigned, reviews>>
  BY DEF UseCode, FulInv, TaskInv, TypeOf, OtpType
<1>2. otps[o][t] \in Seq(Otp) /\ otps \in [Orders -> [OtpType -> Seq(Otp)]]
  BY <1>1 DEF FulInv, JobsTypeOK, Tables
<1>3. otps[o][t][i] \in Otp
  BY <1>1, <1>2
<1>4. x \in Otp
  BY <1>3 DEF Otp
<1>5. [otps[o][t][i] EXCEPT !.used = TRUE] = x
  BY <1>3, UsedField, Zenon
<1>6. otps' = [otps EXCEPT ![o][t][i].used = TRUE]
  BY DEF UseCode
<1>7. otps' = [otps EXCEPT ![o][t][i] = x]
  BY <1>5, <1>6
<1>8. /\ tasks' \in [Tasks -> Task] /\ tasks'[q].pc = "write"
      /\ tasks'[q].order = o /\ \A r \in Tasks \ {q} : tasks'[r] = tasks[r]
  BY Advanced DEF UseCode, FulInv
<1>9. otps[o][t][i].used => x.used
  OBVIOUS
<1>10. /\ JobsTypeOK' /\ Tables' /\ Kept /\ ServedByProof'
       /\ \E j \in 1..Len(otps'[o][t]) : otps'[o][t][j].used
  <2>1. x.used
    OBVIOUS
  <2> HIDE DEF o, t, i, x
  <2> QED
    BY <1>1, <1>4, <1>7, <1>8, <1>9, <2>1, CodeWrite
<1>11. TaskInv(q)' /\ ~Told(q)'
  BY <1>1, <1>8, <1>10 DEF TaskInv, At, Told, Verifying, UsedCodes
<1> QED
  BY <1>8, <1>10, <1>11, TaskStep

LEMMA OtpExpiresKeeps ==
    ASSUME FulInv, NEW o \in Orders, NEW t \in OtpType, NEW i \in 1..MaxCodes, OtpExpires(o, t, i)
    PROVE  FulInv'
<1> DEFINE x == [used |-> otps[o][t][i].used, expired |-> TRUE]
<1>1. i \in 1..Len(otps[o][t]) /\ UNCHANGED <<status, assigned, reviews, tasks>>
  BY DEF OtpExpires, Active
<1>2. otps[o][t] \in Seq(Otp) /\ otps \in [Orders -> [OtpType -> Seq(Otp)]]
  BY <1>1 DEF FulInv, JobsTypeOK, Tables
<1>3. otps[o][t][i] \in Otp
  BY <1>1, <1>2
<1>4. x \in Otp
  BY <1>3 DEF Otp
<1>5. [otps[o][t][i] EXCEPT !.expired = TRUE] = x
  BY <1>3, ExpiredField, Zenon
<1>6. otps' = [otps EXCEPT ![o][t][i].expired = TRUE]
  BY DEF OtpExpires
<1>7. otps' = [otps EXCEPT ![o][t][i] = x]
  BY <1>5, <1>6
<1>8. tasks' \in [Tasks -> Task]
  BY <1>1 DEF FulInv, JobsTypeOK
<1>9. JobsTypeOK' /\ Tables' /\ Kept /\ ServedByProof'
  <2>1. otps[o][t][i].used => x.used
    OBVIOUS
  <2> HIDE DEF x
  <2> QED
    BY <1>1, <1>4, <1>7, <1>8, <2>1, CodeWrite
<1>10. \A q \in Tasks : TaskInv(q)'
  BY <1>1, <1>9, OthersKeep
<1>11. OneTold'
  BY <1>1 DEF FulInv, OneTold, Told, At
<1> QED
  BY <1>9, <1>10, <1>11 DEF FulInv

LEMMA PaymentStepKeeps ==
    ASSUME FulInv, NEW o \in Orders, PaymentStep(o)
    PROVE  FulInv'
<1>1. UNCHANGED <<assigned, otps, reviews, tasks>>
  BY DEF PaymentStep, jobRows
<1>2. /\ status[o] \in {"NO_ROW", "PENDING_PAYMENT", "CONFIRMED"}
      /\ \E to \in {"PENDING_PAYMENT", "CONFIRMED", "PAYMENT_FAILED", "CANCELLED"} :
           status' = [status EXCEPT ![o] = to]
  <2>1. PICK s \in PaymentSteps : status[o] = s[1] /\ status' = [status EXCEPT ![o] = s[2]]
    BY DEF PaymentStep, Takes
  <2>2. /\ s[1] \in {"NO_ROW", "PENDING_PAYMENT", "CONFIRMED"}
        /\ s[2] \in {"PENDING_PAYMENT", "CONFIRMED", "PAYMENT_FAILED", "CANCELLED"}
    BY DEF PaymentSteps, Cancellable
  <2> QED
    BY <2>1, <2>2
<1>3. status \in [Orders -> Status \cup {"NO_ROW"}]
  BY DEF FulInv, JobsTypeOK, StatusTypeOK
<1>4. JobsTypeOK'
  BY <1>1, <1>2, <1>3 DEF FulInv, JobsTypeOK, StatusTypeOK, Status
<1>5. StatusKept /\ \A b \in Orders : status'[b] \in Arrived => status[b] \in Arrived
  BY <1>2, <1>3 DEF StatusKept, Arrived, Marked
<1>6. Kept
  BY <1>1, <1>5, CodesUnchanged DEF Kept
<1>7. Tables'
  BY <1>1, <1>5 DEF FulInv, Tables, StatusKept
<1>8. ServedByProof'
  <2>1. \A b \in Orders : status'[b] = "COMPLETED" => status[b] = "COMPLETED"
    BY <1>2, <1>3
  <2> QED
    BY <1>1, <1>4, <1>5, <1>6, <2>1, ServedKeep
<1>9. \A q \in Tasks : TaskInv(q)'
  BY <1>1, <1>4, <1>6, OthersKeep
<1>10. OneTold'
  BY <1>1 DEF FulInv, OneTold, Told, At
<1> QED
  BY <1>4, <1>7, <1>8, <1>9, <1>10 DEF FulInv

-----------------------------------------------------------------------------
(***************************************************************************)
(* The theorems                                                             *)
(***************************************************************************)
LEMMA FulInvKept == FulInv /\ [JobsNext]_jobsVars => FulInv'
<1> SUFFICES ASSUME FulInv, [JobsNext]_jobsVars PROVE FulInv'
  OBVIOUS
<1>1. CASE UNCHANGED jobsVars
  <2>1. JobsTypeOK' /\ Tables' /\ OneTold' /\ ServedByProof'
    BY <1>1 DEF FulInv, JobsTypeOK, StatusTypeOK, Tables, OneTold, Told, At, ServedByProof, UsedCodes,
                jobsVars, jobRows
  <2>2. \A q \in Tasks : TaskInv(q)'
    BY <1>1 DEF FulInv, TaskInv, Told, At, UsedCodes, jobsVars, jobRows
  <2> QED
    BY <2>1, <2>2 DEF FulInv
<1>2. ASSUME NEW q \in Tasks, TaskNext(q) PROVE FulInv'
  BY <1>2, ReadKeeps, AssignWriteKeeps, MarkCompleteWriteKeeps, IssueKeeps, UseCodeKeeps,
     VerifiedWriteKeeps, ReviewWriteKeeps, DiesKeeps DEF TaskNext
<1> QED
  BY <1>1, <1>2, OtpExpiresKeeps, PaymentStepKeeps DEF JobsNext, FulfilmentNext

LEMMA FulInvInit == JobsInit => FulInv
<1> SUFFICES ASSUME JobsInit PROVE FulInv
  OBVIOUS
<1>1. JobsTypeOK /\ Tables
  BY MaxCodesAssumption DEF JobsInit, JobsTypeOK, StatusTypeOK, StatusInit, Tables, Task, OtpType
<1>2. (\A q \in Tasks : TaskInv(q)) /\ OneTold
  BY DEF JobsInit, TaskInv, OneTold, Told, At
<1>3. ServedByProof
  BY DEF JobsInit, StatusInit, ServedByProof, Arrived, OtpType
<1> QED
  BY <1>1, <1>2, <1>3 DEF FulInv

LEMMA FulInvHolds == JobsSpec => []FulInv
BY FulInvInit, FulInvKept, PTL DEF JobsSpec

\* Every variable keeps its type.
THEOREM JobsTypeCorrect == JobsSpec => []JobsTypeOK
<1>1. FulInv => JobsTypeOK
  BY DEF FulInv
<1> QED
  BY <1>1, FulInvHolds, PTL

\* No booking advances without a code of its user, whatever races and expires.
THEOREM EveryStepIsProved == JobsSpec => []ServedByProof
<1>1. FulInv => ServedByProof
  BY DEF FulInv
<1> QED
  BY <1>1, FulInvHolds, PTL

\* Of requests racing for one advance of a booking one at most succeeds.
THEOREM OneAdvances == JobsSpec => []OneTaskAdvances
<1>1. FulInv => OneTaskAdvances
  <2> SUFFICES ASSUME FulInv, NEW q \in Tasks, NEW r \in Tasks,
                      tasks[q].pc = "done", tasks[r].pc = "done", OpOf[q] = OpOf[r],
                      tasks[q].order = tasks[r].order, OpOf[q] # "assign"
               PROVE  q = r
    BY DEF OneTaskAdvances
  <2>1. CASE OpOf[q] = "review"
    BY <2>1 DEF FulInv, TaskInv, At
  <2>2. CASE OpOf[q] # "review"
    <3>1. OpOf[q] \in Verifying \cup {"markComplete"}
      BY <2>2, OpAssumption DEF Issuing
    <3>2. Told(q) /\ Told(r)
      BY <3>1 DEF Told
    <3> QED
      BY <3>2 DEF FulInv, OneTold
  <2> QED
    BY <2>1, <2>2
<1> QED
  BY <1>1, FulInvHolds, PTL

\* A review is of a completed booking, and the one the answered request wrote.
THEOREM ReviewsAreEarned == JobsSpec => []ReviewIsOfCompletedBooking
<1>1. FulInv => ReviewIsOfCompletedBooking
  BY DEF FulInv, Tables, TaskInv, At, ReviewIsOfCompletedBooking
<1> QED
  BY <1>1, FulInvHolds, PTL

\* Nobody replaces the person who has arrived.
THEOREM TheArrivedStays == JobsSpec => ArrivedPersonKept
<1> DEFINE Keeps == \A o \in Orders : status[o] \in Arrived => assigned'[o] = assigned[o]
<1>1. FulInv /\ [JobsNext]_jobsVars => [Keeps]_jobsVars
  <2> SUFFICES ASSUME FulInv, JobsNext PROVE Keeps
    OBVIOUS
  <2>1. ASSUME NEW q \in Tasks, AssignWrite(q) PROVE Keeps
    BY <2>1 DEF AssignWrite, Matched, Unmatched, Arrived, FulInv, JobsTypeOK
  <2>2. (\A q \in Tasks : ~AssignWrite(q)) => UNCHANGED assigned
    BY DEF JobsNext, FulfilmentNext, TaskNext, AssignRead, MarkCompleteRead, VerifyCode, ReviewRead,
           MarkCompleteWrite, Issue, UseCode, VerifiedWrite, ReviewWrite, TaskDies, OtpExpires,
           PaymentStep, jobRows
  <2> QED
    BY <2>1, <2>2
<1> QED
  BY <1>1, FulInvHolds, PTL DEF ArrivedPersonKept, JobsSpec
-----------------------------------------------------------------------------
(***************************************************************************)
(* Where no code is left                                                    *)
(***************************************************************************)
\* A code that is used or expires is active no more, and no other becomes so.
LEMMA ActiveShrinks ==
    ASSUME FulInv, NEW p \in Orders, NEW t \in OtpType, NEW i \in 1..Len(otps[p][t]),
           NEW x \in Otp, x.used \/ x.expired, otps' = [otps EXCEPT ![p][t][i] = x],
           NEW o \in Orders
    PROVE  Active(o, "COMPLETION")' \subseteq Active(o, "COMPLETION")
<1> DEFINE c == otps[o]["COMPLETION"]
           d == otps'[o]["COMPLETION"]
<1>1. otps \in [Orders -> [OtpType -> Seq(Otp)]]
  BY DEF FulInv, Tables
<1>2. c \in Seq(Otp)
  BY <1>1 DEF OtpType
<1>3. CASE p = o /\ t = "COMPLETION"
  <2>1. d = [c EXCEPT ![i] = x]
    BY <1>1, <1>3 DEF OtpType
  <2>2. i \in 1..Len(c)
    BY <1>3
  <2>3. Len(d) = Len(c) /\ \A j \in 1..Len(c) : d[j] = IF j = i THEN x ELSE c[j]
    BY <1>2, <2>1, <2>2
  <2> HIDE DEF c, d
  <2>4. {j \in 1..Len(d) : ~d[j].used /\ ~d[j].expired}
          \subseteq {j \in 1..Len(c) : ~c[j].used /\ ~c[j].expired}
    BY <2>3
  <2> QED
    BY <2>4 DEF Active, c, d
<1>4. CASE p # o \/ t # "COMPLETION"
  <2>1. d = c
    BY <1>1, <1>4 DEF OtpType
  <2> QED
    BY <2>1 DEF Active
<1> QED
  BY <1>3, <1>4

\* The codes of a dead end: none becomes active.
LEMMA DeadCodes ==
    ASSUME FulInv, JobsNext, NEW o \in Orders, DeadEnd(o)
    PROVE  Active(o, "COMPLETION")' = {}
<1>1. CASE UNCHANGED otps
  BY <1>1 DEF DeadEnd, Active
<1>2. ASSUME NEW q \in Tasks, Issue(q) PROVE UNCHANGED otps[o]["COMPLETION"]
  <2> DEFINE p == tasks[q].order
             t == TypeOf(OpOf[q])
  <2>1. OpOf[q] \in Issuing /\ p \in Orders /\ t \in OtpType /\ IssueCode(p, t)
    BY <1>2 DEF Issue, FulInv, TaskInv, TypeOf, OtpType
  <2>2. p # o \/ t # "COMPLETION"
    BY <1>2, <2>1 DEF DeadEnd, At, Issue, Issuing, TypeOf
  <2>3. otps \in [Orders -> [OtpType -> Seq(Otp)]]
    BY DEF FulInv, Tables
  <2> QED
    BY <2>1, <2>2, <2>3 DEF IssueCode, OtpType
<1>3. ASSUME NEW q \in Tasks, UseCode(q)
      PROVE  Active(o, "COMPLETION")' \subseteq Active(o, "COMPLETION")
  <2> DEFINE p == tasks[q].order
             t == TypeOf(OpOf[q])
             i == tasks[q].code
             x == [used |-> TRUE, expired |-> otps[p][t][i].expired]
  <2>1. p \in Orders /\ t \in OtpType /\ i \in 1..Len(otps[p][t])
    BY <1>3 DEF UseCode, FulInv, TaskInv, TypeOf, OtpType
  <2>2. otps[p][t] \in Seq(Otp)
    BY <2>1 DEF FulInv, Tables
  <2>3. otps[p][t][i] \in Otp
    BY <2>1, <2>2
  <2>4. x \in Otp /\ x.used
    BY <2>3 DEF Otp
  <2>5. [otps[p][t][i] EXCEPT !.used = TRUE] = x
    BY <2>3, UsedField, Zenon
  <2>6. otps' = [otps EXCEPT ![p][t][i].used = TRUE]
    BY <1>3 DEF UseCode
  <2>7. otps' = [otps EXCEPT ![p][t][i] = x]
    BY <2>5, <2>6
  <2> HIDE DEF p, t, i, x
  <2> QED
    BY <2>1, <2>4, <2>7, ActiveShrinks
<1>4. ASSUME NEW p \in Orders, NEW t \in OtpType, NEW i \in 1..MaxCodes, OtpExpires(p, t, i)
      PROVE  Active(o, "COMPLETION")' \subseteq Active(o, "COMPLETION")
  <2> DEFINE x == [used |-> otps[p][t][i].used, expired |-> TRUE]
  <2>1. i \in 1..Len(otps[p][t])
    BY <1>4 DEF OtpExpires, Active
  <2>2. otps[p][t] \in Seq(Otp)
    BY DEF FulInv, Tables
  <2>3. otps[p][t][i] \in Otp
    BY <2>1, <2>2
  <2>4. x \in Otp /\ x.expired
    BY <2>3 DEF Otp
  <2>5. [otps[p][t][i] EXCEPT !.expired = TRUE] = x
    BY <2>3, ExpiredField, Zenon
  <2>6. otps' = [otps EXCEPT ![p][t][i].expired = TRUE]
    BY <1>4 DEF OtpExpires
  <2>7. otps' = [otps EXCEPT ![p][t][i] = x]
    BY <2>5, <2>6
  <2> HIDE DEF x
  <2> QED
    BY <2>1, <2>4, <2>7, ActiveShrinks
<1>5. (\E q \in Tasks : Issue(q)) => Active(o, "COMPLETION")' = Active(o, "COMPLETION")
  BY <1>2 DEF Active
<1>6. \/ UNCHANGED otps
      \/ \E q \in Tasks : Issue(q) \/ UseCode(q)
      \/ \E p \in Orders, t \in OtpType, i \in 1..MaxCodes : OtpExpires(p, t, i)
  BY DEF JobsNext, FulfilmentNext, TaskNext, AssignRead, MarkCompleteRead, VerifyCode,
         ReviewRead, AssignWrite, MarkCompleteWrite, VerifiedWrite, ReviewWrite, TaskDies,
         PaymentStep, jobRows
<1> QED
  BY <1>1, <1>3, <1>4, <1>5, <1>6 DEF DeadEnd

\* The status of a dead end: no request is where it could write another.
LEMMA DeadStatus ==
    ASSUME FulInv, JobsNext, NEW o \in Orders, DeadEnd(o)
    PROVE  status'[o] = "PENDING_COMPLETION_VERIFICATION"
<1> USE DEF FulInv, JobsTypeOK, StatusTypeOK
<1>1. status[o] = "PENDING_COMPLETION_VERIFICATION"
  BY DEF DeadEnd
<1>2. CASE UNCHANGED status
  BY <1>1, <1>2
<1>3. ASSUME NEW q \in Tasks, AssignWrite(q) PROVE status'[o] = status[o]
  BY <1>1, <1>3 DEF AssignWrite, Matched, Unmatched
<1>4. ASSUME NEW q \in Tasks, MarkCompleteWrite(q) PROVE status'[o] = status[o]
  BY <1>1, <1>4 DEF MarkCompleteWrite, updateStatus, Matched, Unmatched, From
<1>5. ASSUME NEW q \in Tasks, VerifiedWrite(q) PROVE status'[o] = status[o]
  <2>1. PICK updated \in BOOLEAN :
          updateStatus(tasks[q].order, From(OpOf[q]), To(OpOf[q]), updated)
    BY <1>5 DEF VerifiedWrite
  <2>2. CASE tasks[q].order # o
    BY <2>1, <2>2 DEF updateStatus, Matched, Unmatched
  <2>3. CASE tasks[q].order = o
    <3>1. OpOf[q] = "confirmArrival"
      BY <1>5, <2>3 DEF VerifiedWrite, At, Verifying, DeadEnd
    <3>2. From(OpOf[q]) = "CONFIRMED"
      BY <3>1 DEF From
    <3> QED
      BY <1>1, <2>1, <2>3, <3>2 DEF updateStatus, Matched, Unmatched
  <2> QED
    BY <2>2, <2>3
<1>6. ASSUME NEW p \in Orders, PaymentStep(p) PROVE status'[o] = status[o]
  BY <1>1, <1>6 DEF PaymentStep, Takes, PaymentSteps, Cancellable
<1>7. \/ UNCHANGED status
      \/ \E q \in Tasks : AssignWrite(q) \/ MarkCompleteWrite(q) \/ VerifiedWrite(q)
      \/ \E p \in Orders : PaymentStep(p)
  BY DEF JobsNext, FulfilmentNext, TaskNext, AssignRead, MarkCompleteRead, VerifyCode,
         ReviewRead, Issue, UseCode, ReviewWrite, TaskDies, OtpExpires
<1> QED
  BY <1>1, <1>2, <1>3, <1>4, <1>5, <1>6, <1>7

\* The requests at a dead end: none enters a code, and none is to send one.
LEMMA DeadTasks ==
    ASSUME FulInv, JobsNext, NEW o \in Orders, DeadEnd(o), NEW q \in Tasks, tasks'[q].order = o
    PROVE  /\ ~(OpOf[q] = "markComplete" /\ tasks'[q].pc = "issue")
           /\ OpOf[q] = "verifyCompletion" => tasks'[q].pc \notin {"use", "write"}
<1> DEFINE Harmless == /\ ~(OpOf[q] = "markComplete" /\ tasks'[q].pc = "issue")
                       /\ OpOf[q] = "verifyCompletion" => tasks'[q].pc \notin {"use", "write"}
<1>1. CASE tasks'[q] = tasks[q]
  BY <1>1 DEF DeadEnd, At
<1>2. tasks \in [Tasks -> Task]
  BY DEF FulInv, JobsTypeOK
<1>3. ASSUME NEW p \in Orders, NEW i \in 0..MaxCodes, VerifyCode(q, p, i) PROVE Harmless
  <2>1. tasks'[q] = [pc |-> IF IsNewestActive(p, TypeOf(OpOf[q]), i) THEN "use" ELSE "refused",
                     order |-> p, person |-> Nobody, code |-> i]
    BY <1>2, <1>3 DEF VerifyCode, Begin
  <2>2. p = o
    BY <2>1
  <2>3. OpOf[q] = "verifyCompletion" => ~IsNewestActive(o, TypeOf(OpOf[q]), i)
    BY DEF TypeOf, IsNewestActive, DeadEnd
  <2> QED
    BY <2>1, <2>2, <2>3
<1>4. CASE OpOf[q] = "markComplete" /\ MarkCompleteWrite(q)
  <2>1. PICK updated \in BOOLEAN :
          /\ updateStatus(tasks[q].order, From("markComplete"), To("markComplete"), updated)
          /\ Advance(q, IF updated THEN "issue" ELSE "refused")
    BY <1>4 DEF MarkCompleteWrite
  <2>2. tasks[q].order = o
    BY <1>2, <2>1 DEF Advance, Task
  <2>3. ~updated
    BY <2>1, <2>2 DEF updateStatus, Matched, Unmatched, From, DeadEnd
  <2> QED
    BY <1>2, <1>4, <2>1, <2>3 DEF Advance, Task
<1>5. CASE UseCode(q)
  <2>1. tasks[q].order = o /\ tasks[q].pc = "use" /\ tasks'[q].pc = "write"
    BY <1>2, <1>5 DEF UseCode, Advance, Task
  <2> QED
    BY <2>1 DEF DeadEnd
<1>6. CASE \E p \in Orders : MarkCompleteRead(q, p) \/ ReviewRead(q, p)
                             \/ \E n \in Persons : AssignRead(q, p, n)
  BY <1>2, <1>6 DEF MarkCompleteRead, ReviewRead, AssignRead, Begin, At
<1>7. CASE AssignWrite(q) \/ VerifiedWrite(q) \/ ReviewWrite(q) \/ Issue(q) \/ TaskDies(q)
  <2>1. CASE AssignWrite(q)
    BY <2>1 DEF AssignWrite, At
  <2>2. CASE VerifiedWrite(q) \/ ReviewWrite(q) \/ Issue(q) \/ TaskDies(q)
    <3>1. tasks'[q].pc \in {"done", "refused", "failed"}
      BY <1>2, <2>2 DEF VerifiedWrite, ReviewWrite, Issue, TaskDies, Advance, Task
    <3> QED
      BY <3>1
  <2> QED
    BY <1>7, <2>1, <2>2
<1>8. ASSUME NEW r \in Tasks, TaskNext(r), r # q PROVE tasks'[q] = tasks[q]
  BY <1>2, <1>8 DEF TaskNext, AssignRead, MarkCompleteRead, VerifyCode, ReviewRead,
     AssignWrite, MarkCompleteWrite, Issue, UseCode, VerifiedWrite, ReviewWrite, TaskDies,
     Begin, Advance
<1>9. CASE TaskNext(q)
  <2>1. MarkCompleteWrite(q) => OpOf[q] = "markComplete"
    BY DEF MarkCompleteWrite, At
  <2> QED
    BY <1>3, <1>4, <1>5, <1>6, <1>7, <1>9, <2>1 DEF TaskNext
<1>10. (\E r \in Tasks : TaskNext(r)) \/ tasks' = tasks
  BY DEF JobsNext, FulfilmentNext, OtpExpires, PaymentStep, jobRows
<1> QED
  BY <1>1, <1>8, <1>9, <1>10

\* A booking marked complete whose last code is gone stays as it is: no request
\* completes it and none gets it another code.
THEOREM DeadEndsStay == JobsSpec => DeadEndStays
<1> DEFINE Stays == \A o \in Orders : DeadEnd(o) => DeadEnd(o)'
<1>1. FulInv /\ [JobsNext]_jobsVars => [Stays]_jobsVars
  <2> SUFFICES ASSUME FulInv, JobsNext, NEW o \in Orders, DeadEnd(o) PROVE DeadEnd(o)'
    OBVIOUS
  <2> QED
    BY DeadCodes, DeadStatus, DeadTasks DEF DeadEnd, At
<1> QED
  BY <1>1, FulInvHolds, PTL DEF DeadEndStays, JobsSpec
=============================================================================
