-------------------------- MODULE SubmitGateProofs --------------------------
(***************************************************************************)
(* Theorems about SubmitGate, for any number of requests, users, courses   *)
(* and workers and any limit.                                              *)
(***************************************************************************)
EXTENDS SubmitGate, FiniteSetTheorems, TLAPS

Inside3 == {"count", "stamp", "insert"}

(* What a request has read is not from the future, and its row comes with  *)
(* its answer.                                                             *)
Past(r) ==
    /\ pc[r] \in Inside3 => now[r] <= clock
    /\ pc[r] = "insert" \/ r \in rows => stamp[r] <= clock
    /\ r \in rows => pc[r] = "202"

(* The requests that have passed the limit and are or may still get rows   *)
(* in the minute from t on.                                                *)
Passed(u, c, t) ==
    {r \in Reqs :
        /\ UserOf[r] = u
        /\ CourseOf[r] = c
        /\ seen[r].olimpiad
        /\ \/ pc[r] = "stamp" /\ now[r] <= t + Minute
           \/ /\ pc[r] = "insert" \/ r \in rows
              /\ t <= stamp[r] /\ stamp[r] <= t + Minute}

(* The requests that have passed the window of an olympiad that ends at e  *)
(* and are or may still get rows from after its end.                       *)
LetIn(e) ==
    {r \in Reqs :
        /\ seen[r].olimpiad
        /\ seen[r].end = e
        /\ \/ pc[r] \in {"count", "stamp"}
           \/ (pc[r] = "insert" \/ r \in rows) /\ stamp[r] > e}

Slots == Cardinality(Busy) <= Workers
RateBound == \A u \in Users, c \in Courses, t \in Times :
    Cardinality(Passed(u, c, t)) <= Limit + Workers - 1
LateBound == \A e \in Int : Cardinality(LetIn(e)) <= Workers

IInv ==
    /\ TypeOK
    /\ \A r \in Reqs : Past(r)
    /\ Slots
    /\ RateBound
    /\ LateBound

-----------------------------------------------------------------------------
(* A part of a set of requests is no larger than the set.                  *)
LEMMA Part ==
    ASSUME NEW S \in SUBSET Reqs, NEW T \in SUBSET S, NEW n \in Int, Cardinality(S) <= n
    PROVE  Cardinality(T) <= n
<1>1. IsFiniteSet(S)
    BY RequestAssumption, FS_Subset
<1>2. IsFiniteSet(T) /\ Cardinality(T) <= Cardinality(S)
    BY <1>1, FS_Subset
<1>3. Cardinality(S) \in Nat /\ Cardinality(T) \in Nat
    BY <1>1, <1>2, FS_CardinalityType
<1>4. QED
    BY <1>2, <1>3

(* And what two sets hold together is no more than their sizes together.   *)
LEMMA Together ==
    ASSUME NEW S \in SUBSET Reqs, NEW T \in SUBSET Reqs, NEW U \in SUBSET (S \union T),
           NEW m \in Int, NEW n \in Int, Cardinality(S) <= m, Cardinality(T) <= n
    PROVE  Cardinality(U) <= m + n
<1>1. IsFiniteSet(S) /\ IsFiniteSet(T) /\ IsFiniteSet(S \intersect T)
  <2>1. S \intersect T \in SUBSET Reqs
      OBVIOUS
  <2>2. QED
      BY <2>1, RequestAssumption, FS_Subset
<1>2. Cardinality(S \union T) = Cardinality(S) + Cardinality(T) - Cardinality(S \intersect T)
    BY <1>1, FS_Union
<1>3. Cardinality(S) \in Nat /\ Cardinality(T) \in Nat /\ Cardinality(S \intersect T) \in Nat
    BY <1>1, FS_CardinalityType
<1>4. Cardinality(S \union T) <= m + n
    BY <1>2, <1>3
<1>5. S \union T \in SUBSET Reqs
    OBVIOUS
<1>6. QED
    BY <1>4, <1>5, Part

LEMMA Initial == Init => IInv
<1> SUFFICES ASSUME Init PROVE IInv
    OBVIOUS
<1> USE NumberAssumption
<1>1. TypeOK
    BY RequestAssumption, OfferingAssumption DEF Init, TypeOK, Times
<1>2. \A r \in Reqs : Past(r)
    BY DEF Init, Past, Inside3
<1>3. Busy = {} /\ (\A e \in Int : LetIn(e) = {})
      /\ \A u \in Users, c \in Courses, t \in Times : Passed(u, c, t) = {}
    BY DEF Init, Busy, InFlight, LetIn, Passed
<1>4. Cardinality({}) = 0
    BY FS_EmptySet
<1>5. 0 <= Workers /\ 0 <= Limit + Workers - 1
    OBVIOUS
<1>6. Slots /\ LateBound
    BY <1>3, <1>4, <1>5 DEF Slots, LateBound
<1>7. RateBound
    BY <1>3, <1>4, <1>5, Zenon DEF RateBound
<1>8. QED
    BY <1>1, <1>2, <1>6, <1>7 DEF IInv

(* Types, one action at a time.                                            *)
LEMMA TypesPreserved == TypeOK /\ [Next]_vars => TypeOK'
<1> SUFFICES ASSUME TypeOK, [Next]_vars PROVE TypeOK'
    OBVIOUS
<1> USE RequestAssumption, NumberAssumption, OfferingAssumption
    DEF TypeOK, Times, Goto, InFlight, Ended, Answers
<1>1. ASSUME NEW r \in Reqs, Step(r) \/ Kill(r) PROVE TypeOK'
  <2>1. CASE Reject(r) \/ CheckEnrollment(r) \/ Count(r) \/ Kill(r)
      BY <2>1 DEF Reject, CheckEnrollment, Count, Kill
  <2>2. CASE LoadTask(r)
      BY <2>2 DEF LoadTask
  <2>3. CASE CheckWindow(r) \/ Stamp(r)
    <3>1. now' \in [Reqs -> 0..MaxClock] /\ stamp' \in [Reqs -> 0..MaxClock]
        BY <2>3 DEF CheckWindow, Stamp
    <3>2. \E place \in InFlight \union Ended : pc' = [pc EXCEPT ![r] = place]
        BY <2>3 DEF CheckWindow, Stamp
    <3>3. UNCHANGED <<clock, course, enrolled, seen, rows>>
        BY <2>3 DEF CheckWindow, Stamp
    <3>4. QED
        BY <3>1, <3>2, <3>3
  <2>4. CASE Insert(r)
      BY <2>4 DEF Insert
  <2>5. QED
      BY <1>1, <2>1, <2>2, <2>3, <2>4 DEF Step
<1>2. CASE Surroundings
  <2>1. CASE Tick
      BY <2>1 DEF Tick
  <2>2. ASSUME NEW c \in Editable, NEW o \in Offerings, EditCourse(c, o) PROVE TypeOK'
      BY <2>2 DEF EditCourse
  <2>3. ASSUME NEW c \in Editable, DeleteCourse(c) PROVE TypeOK'
      BY <2>3 DEF DeleteCourse
  <2>4. ASSUME NEW e \in Movable, ToggleEnrollment(e) PROVE TypeOK'
      BY <2>4 DEF ToggleEnrollment
  <2>5. QED
      BY <1>2, <2>1, <2>2, <2>3, <2>4 DEF Surroundings
<1>3. CASE UNCHANGED vars
    BY <1>3 DEF vars
<1>4. QED
    BY <1>1, <1>2, <1>3 DEF Next

LEMMA PastPreserved == TypeOK /\ (\A r \in Reqs : Past(r)) /\ [Next]_vars => (\A r \in Reqs : Past(r))'
<1> SUFFICES ASSUME TypeOK, \A r \in Reqs : Past(r), [Next]_vars, NEW q \in Reqs
             PROVE  Past(q)'
    OBVIOUS
<1> USE NumberAssumption DEF TypeOK, Times, Goto, InFlight, Ended, Answers, Past, Inside3
<1>1. ASSUME NEW r \in Reqs, Step(r) \/ Kill(r) PROVE Past(q)'
  <2>1. CASE Reject(r) \/ CheckEnrollment(r) \/ Count(r) \/ Kill(r)
      BY <2>1 DEF Reject, CheckEnrollment, Count, Kill
  <2>2. CASE LoadTask(r)
      BY <2>2 DEF LoadTask
  <2>3. CASE CheckWindow(r)
    <3>1. q # r => UNCHANGED <<pc[q], now[q], stamp[q], clock, rows>>
        BY <2>3 DEF CheckWindow
    <3>2. now'[r] = clock /\ pc'[r] # "insert" /\ pc[r] = "window"
          /\ UNCHANGED <<clock, stamp, rows>>
        BY <2>3 DEF CheckWindow
    <3>3. QED
        BY <3>1, <3>2
  <2>4. CASE Stamp(r)
      BY <2>4 DEF Stamp
  <2>5. CASE Insert(r)
      BY <2>5 DEF Insert
  <2>6. QED
      BY <1>1, <2>1, <2>2, <2>3, <2>4, <2>5 DEF Step
<1>2. CASE Surroundings
  <2>1. UNCHANGED <<pc, now, stamp>> /\ rows' \subseteq rows /\ clock' \in Nat /\ clock' >= clock
      BY <1>2 DEF Surroundings, Tick, EditCourse, DeleteCourse, ToggleEnrollment
  <2>2. QED
      BY <2>1
<1>3. CASE UNCHANGED vars
    BY <1>3 DEF vars
<1>4. QED
    BY <1>1, <1>2, <1>3 DEF Next

(* A step that lets nobody in and nobody past the limit.                   *)
LEMMA Narrowing ==
    ASSUME IInv, Busy' \subseteq Busy,
           \A u \in Users, c \in Courses, t \in Times : Passed(u, c, t)' \subseteq Passed(u, c, t),
           \A e \in Int : LetIn(e)' \subseteq LetIn(e)
    PROVE  Slots' /\ RateBound' /\ LateBound'
<1> USE NumberAssumption DEF IInv
<1>1. Slots'
  <2>1. Busy \in SUBSET Reqs /\ Workers \in Int
      BY DEF Busy
  <2>2. Cardinality(Busy') <= Workers
      BY <2>1, Part DEF Slots
  <2>3. QED
      BY <2>2 DEF Slots
<1>2. RateBound'
  <2> SUFFICES ASSUME NEW u \in Users, NEW c \in Courses, NEW t \in Times
               PROVE  Cardinality(Passed(u, c, t)') <= Limit + Workers - 1
      BY DEF RateBound
  <2>1. Passed(u, c, t) \in SUBSET Reqs /\ Limit + Workers - 1 \in Int
      BY DEF Passed
  <2>2. Cardinality(Passed(u, c, t)) <= Limit + Workers - 1
      BY DEF RateBound
  <2>3. QED
      BY <2>1, <2>2, Part
<1>3. LateBound'
  <2> SUFFICES ASSUME NEW e \in Int
               PROVE  Cardinality(LetIn(e)') <= Workers
      BY DEF LateBound
  <2>1. LetIn(e) \in SUBSET Reqs /\ Workers \in Int
      BY DEF LetIn
  <2>2. Cardinality(LetIn(e)) <= Workers
      BY DEF LateBound
  <2>3. QED
      BY <2>1, <2>2, Part
<1>4. QED
    BY <1>1, <1>2, <1>3

(* A request begins only in a free worker.                                 *)
LEMMA BusyBound ==
    ASSUME IInv, NEW r \in Reqs, Step(r) \/ Kill(r)
    PROVE  Slots'
<1> USE NumberAssumption DEF IInv, TypeOK, Goto, InFlight
<1>1. Busy \in SUBSET Reqs /\ IsFiniteSet(Busy) /\ Cardinality(Busy) \in Nat
  <2>1. Busy \in SUBSET Reqs
      BY DEF Busy
  <2>2. QED
      BY <2>1, RequestAssumption, FS_Subset, FS_CardinalityType
<1>2. CASE LoadTask(r)
  <2>0. Cardinality(Busy) < Workers
      BY <1>2 DEF LoadTask
  <2>1. Busy' \in SUBSET (Busy \union {r})
    <3>1. \A q \in Reqs \ {r} : pc'[q] = pc[q]
        BY <1>2 DEF LoadTask
    <3>2. QED
        BY <3>1 DEF Busy
  <2>2. Cardinality(Busy \union {r}) <= Workers /\ Busy \union {r} \in SUBSET Reqs
    <3>1. Cardinality(Busy \union {r}) = IF r \in Busy THEN Cardinality(Busy) ELSE Cardinality(Busy) + 1
        BY <1>1, FS_AddElement
    <3>2. QED
        BY <1>1, <2>0, <3>1
  <2>3. Workers \in Int
      OBVIOUS
  <2>4. Cardinality(Busy') <= Workers
      BY <2>1, <2>2, <2>3, Part
  <2>5. QED
      BY <2>4 DEF Slots
<1>3. CASE ~LoadTask(r)
  <2>1. Busy' \in SUBSET Busy
      BY <1>3 DEF Step, Reject, CheckEnrollment, CheckWindow, Count, Stamp, Insert, Kill, Busy
  <2>2. Workers \in Int /\ Cardinality(Busy) <= Workers
      BY DEF Slots
  <2>3. Cardinality(Busy') <= Workers
      BY <1>1, <2>1, <2>2, Part
  <2>4. QED
      BY <2>3 DEF Slots
<1>4. QED
    BY <1>2, <1>3

(* Who counts has fewer rows in the minute than the limit allows, and the  *)
(* others that have passed are in flight with him.                         *)
LEMMA RatePreserved ==
    ASSUME IInv, TypeOK', \A q \in Reqs : Past(q)', NEW r \in Reqs, Step(r) \/ Kill(r), Slots'
    PROVE  RateBound'
<1> SUFFICES ASSUME NEW u \in Users, NEW c \in Courses, NEW t \in Times
             PROVE  Cardinality(Passed(u, c, t)') <= Limit + Workers - 1
    BY DEF RateBound
<1> USE NumberAssumption DEF IInv, TypeOK, Goto, Times
<1>1. CASE Count(r) /\ now[r] <= t + Minute /\ UserOf[r] = u /\ CourseOf[r] = c /\ pc'[r] = "stamp"
  <2>1. Cardinality(Recent(r)) <= Limit - 1 /\ Recent(r) \in SUBSET Reqs
    <3>1. Recent(r) \in SUBSET Reqs
        BY DEF Recent
    <3>2. Cardinality(Recent(r)) \in Nat
        BY <3>1, RequestAssumption, FS_Subset, FS_CardinalityType
    <3>3. ~(Cardinality(Recent(r)) >= Limit)
        BY <1>1 DEF Count
    <3>4. QED
        BY <3>1, <3>2, <3>3
  <2>2. Passed(u, c, t)' \in SUBSET (Recent(r) \union Busy')
    <3>1. UNCHANGED <<rows, stamp, now, seen>>
        BY <1>1 DEF Count
    <3> SUFFICES ASSUME NEW q \in Passed(u, c, t)', q \notin Busy' PROVE q \in Recent(r)
        OBVIOUS
    <3>2. q \in rows /\ q \in Reqs /\ UserOf[q] = u /\ CourseOf[q] = c /\ t <= stamp[q]
        BY <3>1 DEF Passed, Busy, InFlight
    <3>3. QED
        BY <1>1, <3>2 DEF Recent
  <2>3. Busy' \in SUBSET Reqs /\ Cardinality(Busy') <= Workers
      BY DEF Busy, Slots
  <2>4. Limit - 1 \in Int /\ Workers \in Int
      OBVIOUS
  <2>5. Cardinality(Passed(u, c, t)') <= (Limit - 1) + Workers
      BY <2>1, <2>2, <2>3, <2>4, Together, Zenon
  <2>6. (Limit - 1) + Workers = Limit + Workers - 1
      OBVIOUS
  <2>7. QED
      BY <2>5, <2>6
<1>2. CASE ~(Count(r) /\ now[r] <= t + Minute /\ UserOf[r] = u /\ CourseOf[r] = c /\ pc'[r] = "stamp")
  <2>1. Passed(u, c, t)' \in SUBSET Passed(u, c, t)
    <3> SUFFICES ASSUME NEW q \in Passed(u, c, t)' PROVE q \in Passed(u, c, t)
        OBVIOUS
    <3>1. CASE Stamp(r)
        BY <3>1 DEF Stamp, Passed, Past, Inside3
    <3>2. CASE Insert(r)
        BY <3>2 DEF Insert, Passed
    <3>3. CASE Count(r)
        BY <1>2, <3>3 DEF Count, Passed
    <3>4. CASE Reject(r) \/ CheckEnrollment(r) \/ Kill(r)
        BY <3>4 DEF Reject, CheckEnrollment, Kill, Passed
    <3>5. CASE LoadTask(r)
        BY <3>5 DEF LoadTask, Passed, Past
    <3>6. CASE CheckWindow(r)
      <4>1. q # r \/ ~seen[r].olimpiad \/ pc'[r] # "stamp"
          BY <3>6 DEF CheckWindow
      <4>2. r \notin rows /\ pc'[r] # "insert" /\ UNCHANGED <<seen, stamp, rows>>
          BY <3>6 DEF CheckWindow, Past
      <4>3. q # r => UNCHANGED <<pc[q], now[q]>>
          BY <3>6 DEF CheckWindow, Passed
      <4>4. QED
          BY <4>1, <4>2, <4>3 DEF Passed
    <3>7. QED
        BY <3>1, <3>2, <3>3, <3>4, <3>5, <3>6 DEF Step
  <2>2. Passed(u, c, t) \in SUBSET Reqs /\ Cardinality(Passed(u, c, t)) <= Limit + Workers - 1
      BY DEF Passed, RateBound
  <2>3. Limit + Workers - 1 \in Int
      OBVIOUS
  <2>4. QED
      BY <2>1, <2>2, <2>3, Part
<1>3. QED
    BY <1>1, <1>2

(* Who is let in is let in before the end, when nothing is stamped after   *)
(* it: all who are let in by then are in flight.                           *)
LEMMA LatePreserved ==
    ASSUME IInv, TypeOK', \A q \in Reqs : Past(q)', NEW r \in Reqs, Step(r) \/ Kill(r), Slots'
    PROVE  LateBound'
<1> SUFFICES ASSUME NEW e \in Int
             PROVE  Cardinality(LetIn(e)') <= Workers
    BY DEF LateBound
<1> USE NumberAssumption DEF IInv, TypeOK, Goto, Times
<1>1. CASE CheckWindow(r) /\ clock <= e
  <2>1. LetIn(e)' \in SUBSET Busy'
    <3> SUFFICES ASSUME NEW q \in LetIn(e)' PROVE q \in Busy'
        OBVIOUS
    <3>1. clock' = clock
        BY <1>1 DEF CheckWindow
    <3>2. ~(stamp'[q] > e /\ (pc'[q] = "insert" \/ q \in rows'))
        BY <1>1, <3>1 DEF LetIn, Past
    <3>3. QED
        BY <3>2 DEF LetIn, Busy, InFlight
  <2>2. Busy' \in SUBSET Reqs /\ Cardinality(Busy') <= Workers /\ Workers \in Int
      BY DEF Busy, Slots
  <2>3. QED
      BY <2>1, <2>2, Part
<1>2. CASE ~(CheckWindow(r) /\ clock <= e)
  <2>1. LetIn(e)' \in SUBSET LetIn(e)
    <3> SUFFICES ASSUME NEW q \in LetIn(e)' PROVE q \in LetIn(e)
        OBVIOUS
    <3>1. CASE Stamp(r)
        BY <3>1 DEF Stamp, LetIn
    <3>2. CASE Insert(r)
        BY <3>2 DEF Insert, LetIn
    <3>3. CASE Count(r)
        BY <3>3 DEF Count, LetIn
    <3>4. CASE Reject(r) \/ CheckEnrollment(r) \/ Kill(r)
        BY <3>4 DEF Reject, CheckEnrollment, Kill, LetIn
    <3>5. CASE LoadTask(r)
        BY <3>5 DEF LoadTask, LetIn, Past
    <3>6. CASE CheckWindow(r)
      <4>1. pc'[r] \in {"count", "stamp"} /\ seen[r].olimpiad => clock <= seen[r].end
          BY <3>6 DEF CheckWindow, Inside
      <4>2. r \notin rows /\ pc'[r] # "insert" /\ UNCHANGED <<seen, stamp, rows>>
          BY <3>6 DEF CheckWindow, Past
      <4>3. q # r => UNCHANGED pc[q]
          BY <3>6 DEF CheckWindow, LetIn
      <4>4. QED
          BY <1>2, <3>6, <4>1, <4>2, <4>3 DEF LetIn
    <3>7. QED
        BY <3>1, <3>2, <3>3, <3>4, <3>5, <3>6 DEF Step
  <2>2. LetIn(e) \in SUBSET Reqs /\ Cardinality(LetIn(e)) <= Workers /\ Workers \in Int
      BY DEF LetIn, LateBound
  <2>3. QED
      BY <2>1, <2>2, Part
<1>3. QED
    BY <1>1, <1>2

LEMMA Preserved == IInv /\ [Next]_vars => IInv'
<1> SUFFICES ASSUME IInv, [Next]_vars PROVE IInv'
    OBVIOUS
<1>1. TypeOK' /\ \A r \in Reqs : Past(r)'
    BY TypesPreserved, PastPreserved DEF IInv
<1>2. ASSUME NEW r \in Reqs, Step(r) \/ Kill(r) PROVE Slots' /\ RateBound' /\ LateBound'
    BY <1>1, <1>2, BusyBound, RatePreserved, LatePreserved
<1>3. ASSUME Surroundings \/ UNCHANGED vars PROVE Slots' /\ RateBound' /\ LateBound'
  <2>1. UNCHANGED <<pc, seen, now, stamp>> /\ rows' \subseteq rows
      BY <1>3 DEF Surroundings, Tick, EditCourse, DeleteCourse, ToggleEnrollment, vars
  <2>2. Busy' \subseteq Busy
      BY <2>1 DEF Busy
  <2>3. \A u \in Users, c \in Courses, t \in Times : Passed(u, c, t)' \subseteq Passed(u, c, t)
      BY <2>1 DEF Passed
  <2>4. \A e \in Int : LetIn(e)' \subseteq LetIn(e)
      BY <2>1 DEF LetIn
  <2>5. QED
      BY <2>2, <2>3, <2>4, Narrowing
<1>4. Slots' /\ RateBound' /\ LateBound'
    BY <1>2, <1>3 DEF Next
<1>5. QED
    BY <1>1, <1>4 DEF IInv

THEOREM Invariance == Spec => []IInv
BY Initial, Preserved, PTL DEF Spec

(* Every variable has its type.                                            *)
THEOREM TypeCorrect == Spec => []TypeOK
<1>1. IInv => TypeOK
    BY DEF IInv
<1>2. QED
    BY <1>1, Invariance, PTL

(* No minute holds more rows of a user than the limit and the workers      *)
(* beyond the first.                                                       *)
THEOREM Rate == Spec => []RateSlack
<1>1. ASSUME IInv PROVE RateSlack
  <2> SUFFICES ASSUME NEW u \in Users, NEW c \in Courses, NEW t \in Times
               PROVE  Cardinality(InMinute(u, c, t)) <= Limit + Workers - 1
      BY DEF RateSlack
  <2>1. InMinute(u, c, t) \in SUBSET Passed(u, c, t)
      BY <1>1 DEF InMinute, Passed, IInv, TypeOK
  <2>2. Passed(u, c, t) \in SUBSET Reqs /\ Limit + Workers - 1 \in Int
        /\ Cardinality(Passed(u, c, t)) <= Limit + Workers - 1
      BY <1>1, NumberAssumption DEF Passed, IInv, RateBound
  <2>3. QED
      BY <2>1, <2>2, Part
<1>2. QED
    BY <1>1, Invariance, PTL

(* No more rows than workers are stamped after the end of an olympiad.     *)
THEOREM Late == Spec => []LateSlack
<1>1. ASSUME IInv PROVE LateSlack
  <2> SUFFICES ASSUME NEW o \in Offerings, o.olimpiad
               PROVE  Cardinality({r \in rows : /\ seen[r].olimpiad
                                                /\ seen[r].end = o.end
                                                /\ stamp[r] > o.end}) <= Workers
      BY DEF LateSlack
  <2>1. o.end \in Int
      BY OfferingAssumption
  <2>2. {r \in rows : /\ seen[r].olimpiad /\ seen[r].end = o.end /\ stamp[r] > o.end}
            \in SUBSET LetIn(o.end)
      BY <1>1 DEF LetIn, IInv, TypeOK
  <2>3. LetIn(o.end) \in SUBSET Reqs /\ Workers \in Int /\ Cardinality(LetIn(o.end)) <= Workers
      BY <1>1, <2>1, NumberAssumption DEF LetIn, IInv, LateBound
  <2>4. QED
      BY <2>2, <2>3, Part
<1>2. QED
    BY <1>1, Invariance, PTL

=============================================================================
