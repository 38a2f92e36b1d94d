-------------------------- MODULE StandingsProofs --------------------------
(***************************************************************************)
(* Theorems about Standings, for any users, tasks, submissions and         *)
(* courses, any freeze and any lag.                                        *)
(***************************************************************************)
EXTENDS Standings, FiniteSetTheorems, TLAPS

Shape ==
    /\ reader \in [pc : {"idle", "clock", "list", "rank"}, course : Courses,
                   cutoff : Int, known : SUBSET Users, late : BOOLEAN]
    /\ board \in [place : [Users -> 0..Cardinality(Users)],
                  solved : [Users -> 0..Cardinality(Subs)]]

(* The board that the visitor has was computed at some cutoff k, not later *)
(* than the one of a request under way, and that not later than the one a  *)
(* new request would get; who is on it was counted at k.                   *)
Computed(k) ==
    /\ k <= Cutoff(course, now)
    /\ reader.pc # "idle" => reader.course = course
    /\ reader.pc \in {"list", "rank"} =>
         k <= reader.cutoff /\ reader.cutoff <= Cutoff(course, now)
    /\ \A u \in Users :
         /\ board.solved[u] <= Cardinality(Solved(u, course, k))
         /\ IF board.place[u] = 0 THEN board.solved[u] = 0
            ELSE u \in Listed(course, k) /\ (reader.pc = "rank" => u \in reader.known)

Memory == edits = 0 => \E k \in Int : Computed(k)

IInv == TypeOK /\ Shape /\ Memory

-----------------------------------------------------------------------------
(* Lemmas about the operators.                                             *)

LEMMA CutoffType ==
    ASSUME NEW c \in Courses, NEW t \in Nat
    PROVE  Cutoff(c, t) \in Int /\ Cutoff(c, t) <= t
BY CourseAssumption, BoundAssumption DEF Cutoff

(* The cutoff moves forward only: the freeze and the end switch it once.   *)
LEMMA CutoffGrows ==
    ASSUME NEW c \in Courses, NEW t \in Nat
    PROVE  Cutoff(c, t) <= Cutoff(c, t + 1)
<1>1. c.end = NoEnd \/ c.end \in Int
    BY CourseAssumption
<1>2. QED
    BY <1>1, BoundAssumption DEF Cutoff

(* There are as many tasks of some submissions as submissions at most.     *)
LEMMA TasksOf ==
    ASSUME NEW S \in SUBSET Subs
    PROVE  /\ IsFiniteSet({TaskOf[s] : s \in S})
           /\ Cardinality({TaskOf[s] : s \in S}) \in 0..Cardinality(Subs)
<1> DEFINE T == {TaskOf[s] : s \in S}
<1> DEFINE f == [s \in S |-> TaskOf[s]]
<1>1. IsFiniteSet(S) /\ Cardinality(S) <= Cardinality(Subs)
    BY SubmissionAssumption, FS_Subset
<1>2. f \in Surjection(S, T)
    BY DEF Surjection
<1>3. IsFiniteSet(T) /\ Cardinality(T) <= Cardinality(S)
    BY <1>1, <1>2, FS_Surjection
<1>4. Cardinality(T) \in Nat /\ Cardinality(S) \in Nat /\ Cardinality(Subs) \in Nat
    BY <1>1, <1>3, SubmissionAssumption, FS_CardinalityType
<1>5. QED
    BY <1>1, <1>3, <1>4

LEMMA SolvedBound ==
    ASSUME NEW u, NEW c, NEW k
    PROVE  /\ IsFiniteSet(Solved(u, c, k))
           /\ Cardinality(Solved(u, c, k)) \in 0..Cardinality(Subs)
<1> DEFINE S == {s \in Counted(c, k) \intersect Accepted : row[s].user = u}
<1>1. S \in SUBSET Subs
    BY DEF Accepted
<1>2. QED
    BY <1>1, TasksOf DEF Solved

LEMMA Larger ==
    ASSUME NEW S, NEW T \in SUBSET S, IsFiniteSet(S)
    PROVE  Cardinality(T) \in Nat /\ Cardinality(S) \in Nat /\ Cardinality(T) <= Cardinality(S)
BY FS_Subset, FS_CardinalityType

(* A later cutoff counts no less.                                          *)
LEMMA LaterCounts ==
    ASSUME TypeOK, NEW c, NEW k \in Int, NEW m \in Int, k <= m
    PROVE  /\ Listed(c, k) \subseteq Listed(c, m)
           /\ \A u : Cardinality(Solved(u, c, k)) <= Cardinality(Solved(u, c, m))
<1>1. Counted(c, k) \subseteq Counted(c, m)
    BY DEF Counted, Stored, TypeOK
<1>2. \A u : Solved(u, c, k) \subseteq Solved(u, c, m)
    BY <1>1 DEF Solved
<1>3. ASSUME NEW u PROVE Cardinality(Solved(u, c, k)) <= Cardinality(Solved(u, c, m))
    BY <1>2, SolvedBound, Larger
<1>4. QED
    BY <1>1, <1>3 DEF Listed

-----------------------------------------------------------------------------
LEMMA Initial == Init => IInv
<1> SUFFICES ASSUME Init PROVE IInv
    OBVIOUS
<1> USE BoundAssumption
<1>1. course \in Courses /\ (CHOOSE c \in Courses : TRUE) \in Courses
    BY DEF Init
<1>2. (CHOOSE u \in Users : TRUE) \in Users
    BY SubmissionAssumption
<1>3. Cardinality(Users) \in Nat /\ Cardinality(Subs) \in Nat
    BY SubmissionAssumption, FS_CardinalityType
<1>4. Shape
    BY <1>1, <1>3 DEF Init, Shape, Idle
<1>5. TypeOK
  <2>1. NoRow \in [status : Statuses, user : Users, at : 0..MaxTime]
      BY <1>2 DEF NoRow, Statuses
  <2>2. row \in [Subs -> [status : Statuses, user : Users, at : 0..MaxTime]]
        /\ \A s \in Subs : row[s].at <= now
      BY <2>1 DEF Init, NoRow
  <2>3. enrollment \in [Users -> Enrollments]
      BY DEF Init, Enrollments
  <2>4. QED
      BY <1>1, <1>3, <2>2, <2>3 DEF Init, TypeOK, Idle
<1>6. Memory
  <2>1. Cutoff(course, now) \in Int
      BY <1>1, CutoffType DEF Init
  <2>2. \A u \in Users : 0 <= Cardinality(Solved(u, course, Cutoff(course, now)))
      BY <1>3, SolvedBound
  <2>3. Computed(Cutoff(course, now))
      BY <2>1, <2>2 DEF Init, Computed, Idle
  <2>4. QED
      BY <2>1, <2>3 DEF Memory
<1>7. QED
    BY <1>4, <1>5, <1>6 DEF IInv

LEMMA SubmitTyped ==
    ASSUME TypeOK, Shape, NEW s \in Subs, NEW u \in Authors[s], Submit(s, u)
    PROVE  TypeOK' /\ Shape'
<1> USE BoundAssumption DEF TypeOK, Shape
<1>1. u \in Users
    BY SubmissionAssumption
<1>2. PICK at \in now - Lag..now :
          /\ \E checked \in at - Lag..at : checked >= 0
          /\ row' = [row EXCEPT ![s] = [status |-> "pending", user |-> u, at |-> at]]
          /\ reader' = [reader EXCEPT !.late = @ \/ (reader.pc = "rank" /\ at <= reader.cutoff)]
    BY DEF Submit
<1>3. at \in 0..MaxTime /\ at <= now
    BY <1>2
<1>4. [status |-> "pending", user |-> u, at |-> at] \in [status : Statuses, user : Users, at : 0..MaxTime]
    BY <1>1, <1>3 DEF Statuses
<1>5. row' \in [Subs -> [status : Statuses, user : Users, at : 0..MaxTime]]
    BY <1>2, <1>4
<1>6. \A x \in Subs : row'[x].at <= now
    BY <1>2, <1>3
<1>7. reader' \in [pc : {"idle", "clock", "list", "rank"}, course : Courses,
                   cutoff : Int, known : SUBSET Users, late : BOOLEAN]
      /\ reader'.cutoff = reader.cutoff
  <2>1. (reader.late \/ (reader.pc = "rank" /\ at <= reader.cutoff)) \in BOOLEAN
      BY Zenon
  <2>2. QED
      BY <1>2, <2>1
<1>8. UNCHANGED <<now, course, edits, enrollment, board>>
    BY DEF Submit
<1>9. QED
    BY <1>5, <1>6, <1>7, <1>8

LEMMA RankTyped ==
    ASSUME TypeOK, Shape, RankRows
    PROVE  TypeOK' /\ Shape'
<1> USE BoundAssumption DEF TypeOK, Shape
<1> DEFINE listed == Listed(reader.course, reader.cutoff)
           shown == listed \intersect reader.known
<1>1. UNCHANGED <<now, course, edits, enrollment, row>> /\ reader' = Idle
    BY DEF RankRows
<1>2. PICK rank \in [listed -> 1..Cardinality(listed)] :
          board' = [place |-> [u \in Users |-> IF u \in shown THEN rank[u] ELSE 0],
                    solved |-> [u \in Users |->
                        IF u \in shown THEN Standing(u, reader.course, reader.cutoff).solved ELSE 0]]
    BY DEF RankRows
<1>3. listed \in SUBSET Users
    BY DEF Listed, Counted, Stored
<1>4. Cardinality(listed) \in Nat /\ Cardinality(Users) \in Nat /\ Cardinality(listed) <= Cardinality(Users)
      /\ Cardinality(Subs) \in Nat
    BY <1>3, SubmissionAssumption, FS_Subset, FS_CardinalityType
<1>5. board'.place \in [Users -> 0..Cardinality(Users)]
  <2>1. \A u \in listed : rank[u] \in 0..Cardinality(Users)
      BY <1>4
  <2>2. \A u \in Users : (IF u \in shown THEN rank[u] ELSE 0) \in 0..Cardinality(Users)
      BY <1>4, <2>1
  <2>3. board'.place = [u \in Users |-> IF u \in shown THEN rank[u] ELSE 0]
      BY <1>2
  <2> HIDE DEF shown, listed
  <2>4. QED
      BY <2>2, <2>3
<1>6. board'.solved \in [Users -> 0..Cardinality(Subs)]
  <2>1. \A u : Standing(u, reader.course, reader.cutoff).solved \in 0..Cardinality(Subs)
      BY SolvedBound DEF Standing
  <2>2. board'.solved = [u \in Users |->
            IF u \in shown THEN Standing(u, reader.course, reader.cutoff).solved ELSE 0]
      BY <1>2
  <2> HIDE DEF shown
  <2>3. QED
      BY <1>4, <2>1, <2>2
<1>7. board' = [place |-> board'.place, solved |-> board'.solved]
    BY <1>2
<1>8. (CHOOSE c \in Courses : TRUE) \in Courses
    OBVIOUS
<1>9. Shape'
  <2>1. board' \in [place : [Users -> 0..Cardinality(Users)], solved : [Users -> 0..Cardinality(Subs)]]
      BY <1>5, <1>6, <1>7
  <2>2. reader' \in [pc : {"idle", "clock", "list", "rank"}, course : Courses,
                     cutoff : Int, known : SUBSET Users, late : BOOLEAN]
      BY <1>1, <1>8 DEF Idle
  <2>3. QED
      BY <2>1, <2>2
<1>10. reader'.cutoff <= now /\ reader'.pc = "idle"
    BY <1>1 DEF Idle
<1>11. QED
    BY <1>1, <1>9, <1>10

LEMMA TypesPreserved == TypeOK /\ Shape /\ [Next]_vars => TypeOK' /\ Shape'
<1> SUFFICES ASSUME TypeOK, Shape, [Next]_vars PROVE TypeOK' /\ Shape'
    OBVIOUS
<1> USE BoundAssumption DEF TypeOK, Shape
<1>1. ASSUME NEW s \in Subs, Verdict(s) PROVE TypeOK' /\ Shape'
  <2>1. PICK v \in {"accepted", "refused"} : row' = [row EXCEPT ![s].status = v]
      BY <1>1 DEF Verdict
  <2>2. [row[s] EXCEPT !.status = v] \in [status : Statuses, user : Users, at : 0..MaxTime]
        /\ [row[s] EXCEPT !.status = v].at = row[s].at
      BY DEF Statuses
  <2>3. row' = [row EXCEPT ![s] = [row[s] EXCEPT !.status = v]]
      BY <2>1
  <2>4. row' \in [Subs -> [status : Statuses, user : Users, at : 0..MaxTime]]
        /\ \A x \in Subs : row'[x].at <= now
      BY <2>2, <2>3
  <2>5. QED
      BY <1>1, <2>4 DEF Verdict
<1>2. ASSUME NEW s \in Subs, NEW u \in Authors[s], Submit(s, u) PROVE TypeOK' /\ Shape'
    BY <1>2, SubmitTyped
<1>3. CASE EditCourse
    BY <1>3 DEF EditCourse
<1>4. CASE Tick
    BY <1>4 DEF Tick
<1>5. CASE LoadCourse
  <2>1. reader' = [pc |-> "clock", course |-> course, cutoff |-> 0, known |-> {}, late |-> FALSE]
      BY <1>5 DEF LoadCourse, Idle
  <2>2. UNCHANGED <<now, course, edits, enrollment, row, board>>
      BY <1>5 DEF LoadCourse
  <2>3. reader' \in [pc : {"idle", "clock", "list", "rank"}, course : Courses,
                     cutoff : Int, known : SUBSET Users, late : BOOLEAN]
      BY <2>1
  <2>4. reader'.cutoff = 0 /\ now \in Nat
      BY <2>1
  <2>5. QED
      BY <2>2, <2>3, <2>4
<1>6. CASE ReadClock
  <2>1. Cutoff(reader.course, now) \in Int /\ Cutoff(reader.course, now) <= now
      BY CutoffType
  <2>2. QED
      BY <1>6, <2>1 DEF ReadClock
<1>7. CASE ListUsers
  <2>1. Listed(reader.course, reader.cutoff) \in SUBSET Users
      BY DEF Listed, Counted, Stored
  <2>2. QED
      BY <1>7, <2>1 DEF ListUsers
<1>8. CASE RankRows
    BY <1>8, RankTyped
<1>9. CASE UNCHANGED vars
    BY <1>9 DEF vars
<1>10. ASSUME NEW u \in Movable, ChangeEnrollment(u) PROVE TypeOK' /\ Shape'
  <2>1. PICK st \in Enrollments : enrollment' = [enrollment EXCEPT ![u] = st]
      BY <1>10 DEF ChangeEnrollment
  <2>2. enrollment' \in [Users -> Enrollments]
      BY <2>1
  <2>3. UNCHANGED <<now, course, edits, row, reader, board>>
      BY <1>10 DEF ChangeEnrollment
  <2>4. QED
      BY <2>2, <2>3
<1>11. QED
    BY <1>1, <1>2, <1>3, <1>4, <1>5, <1>6, <1>7, <1>8, <1>9, <1>10 DEF Next, Read

(* A new row or a verdict takes nothing away from what is counted.         *)
LEMMA RowsGrow ==
    ASSUME TypeOK, UNCHANGED course,
           \A s \in Stored : /\ s \in Stored'
                             /\ row'[s].user = row[s].user /\ row'[s].at = row[s].at
                             /\ s \in Accepted => s \in Accepted'
    PROVE  \A k \in Int :
               /\ Listed(course, k) \subseteq Listed(course, k)'
               /\ \A u \in Users : Cardinality(Solved(u, course, k)) <= Cardinality(Solved(u, course, k)')
<1> SUFFICES ASSUME NEW k \in Int
             PROVE  /\ Listed(course, k) \subseteq Listed(course, k)'
                    /\ \A u \in Users : Cardinality(Solved(u, course, k)) <= Cardinality(Solved(u, course, k)')
    OBVIOUS
<1>1. Counted(course, k) \subseteq Counted(course, k)' /\ Counted(course, k) \subseteq Stored
  <2>1. Counted(course, k)' = {s \in Stored' : (course.olimpiad => row'[s].at >= course.start)
                                              /\ row'[s].at <= k}
      BY DEF Counted
  <2>2. QED
      BY <2>1 DEF Counted
<1>2. Listed(course, k) \subseteq Listed(course, k)'
  <2>1. Listed(course, k)' = {row'[s].user : s \in Counted(course, k)'}
      BY DEF Listed
  <2>2. QED
      BY <1>1, <2>1 DEF Listed
<1>3. ASSUME NEW u \in Users PROVE Cardinality(Solved(u, course, k)) <= Cardinality(Solved(u, course, k)')
  <2>1. Solved(u, course, k)' = {TaskOf[s] : s \in {s \in Counted(course, k)' \intersect Accepted' :
                                                        row'[s].user = u}}
      BY DEF Solved
  <2>2. IsFiniteSet(Solved(u, course, k)')
    <3>1. {s \in Counted(course, k)' \intersect Accepted' : row'[s].user = u} \in SUBSET Subs
        BY DEF Accepted
    <3>2. QED
        BY <2>1, <3>1, TasksOf
  <2>3. Solved(u, course, k) \subseteq Solved(u, course, k)'
      BY <1>1, <2>1 DEF Solved
  <2>4. QED
      BY <2>2, <2>3, Larger
<1>4. QED
    BY <1>2, <1>3

(* The leaderboard that a request ends with was computed at the request's  *)
(* cutoff, and takes nothing from the one before.                          *)
LEMMA Reranked ==
    ASSUME TypeOK, Shape, RankRows, NEW k \in Int, Computed(k), NEW m \in Int, m = reader.cutoff
    PROVE  /\ Computed(m)'
           /\ \A u \in Users : /\ board'.solved[u] >= board.solved[u]
                               /\ board.place[u] > 0 => board'.place[u] > 0
<1> DEFINE listed == Listed(course, m)
           shown == listed \intersect reader.known
<1>1. /\ reader.pc = "rank" /\ reader.course = course /\ k <= m /\ m <= Cutoff(course, now)
      /\ UNCHANGED <<now, course, edits, enrollment, row>> /\ reader'.pc = "idle"
    BY DEF RankRows, Computed, Idle
<1>2. PICK rank \in [listed -> 1..Cardinality(listed)] :
          board' = [place |-> [u \in Users |-> IF u \in shown THEN rank[u] ELSE 0],
                    solved |-> [u \in Users |->
                        IF u \in shown THEN Cardinality(Solved(u, course, m)) ELSE 0]]
    BY <1>1 DEF RankRows, Standing
<1>3. Listed(course, k) \subseteq listed
      /\ \A u : Cardinality(Solved(u, course, k)) <= Cardinality(Solved(u, course, m))
    BY <1>1, LaterCounts
<1>4. Cardinality(listed) \in Nat /\ Cardinality(Subs) \in Nat
  <2>1. listed \subseteq Users
      BY DEF Listed, Counted, Stored, TypeOK
  <2>2. QED
      BY <2>1, SubmissionAssumption, FS_Subset, FS_CardinalityType
<1>5. Cutoff(course, now)' = Cutoff(course, now)
    BY <1>1 DEF Cutoff
<1>6. ASSUME NEW u \in Users
      PROVE  /\ Solved(u, course, m)' = Solved(u, course, m)
             /\ Listed(course, m)' = listed
    BY <1>1 DEF Solved, Listed, Counted, Stored, Accepted
<1>7. ASSUME NEW u \in Users
      PROVE  /\ board'.place[u] = IF u \in shown THEN rank[u] ELSE 0
             /\ board'.solved[u] = IF u \in shown THEN Cardinality(Solved(u, course, m)) ELSE 0
             /\ u \in shown => rank[u] >= 1 /\ u \in listed
             /\ Cardinality(Solved(u, course, m)) \in Nat
             /\ Cardinality(Solved(u, course, k)) \in Nat
             /\ board.solved[u] \in Nat /\ board.place[u] \in Nat
             /\ board.place[u] # 0 => u \in shown
  <2>1. /\ board'.place[u] = IF u \in shown THEN rank[u] ELSE 0
        /\ board'.solved[u] = IF u \in shown THEN Cardinality(Solved(u, course, m)) ELSE 0
      BY <1>2
  <2>2. u \in shown => rank[u] >= 1 /\ u \in listed
      BY <1>2, <1>4
  <2>3. Cardinality(Solved(u, course, m)) \in Nat /\ Cardinality(Solved(u, course, k)) \in Nat
      BY <1>4, SolvedBound
  <2>4. Cardinality(Users) \in Nat
      BY SubmissionAssumption, FS_CardinalityType
  <2>5. board.solved[u] \in Nat /\ board.place[u] \in Nat
      BY <1>4, <2>4 DEF Shape
  <2>6. board.place[u] # 0 => u \in shown
      BY <1>1, <1>3 DEF Computed
  <2>7. QED
      BY <2>1, <2>2, <2>3, <2>5, <2>6
<1> HIDE DEF listed, shown
<1>8. \A u \in Users : board'.solved[u] >= board.solved[u]
  <2>1. \A u \in Users : /\ board.solved[u] <= Cardinality(Solved(u, course, k))
                         /\ board.place[u] = 0 => board.solved[u] = 0
      BY DEF Computed
  <2>2. QED
      BY <1>3, <1>7, <2>1
<1>9. \A u \in Users : board.place[u] > 0 => board'.place[u] > 0
    BY <1>7
<1>10. \A u \in Users :
           /\ board'.solved[u] <= Cardinality(Solved(u, course, m)')
           /\ IF board'.place[u] = 0 THEN board'.solved[u] = 0
              ELSE u \in Listed(course, m)'
    BY <1>6, <1>7
<1>11. Computed(m)'
    BY <1>1, <1>5, <1>10 DEF Computed
<1>12. QED
    BY <1>8, <1>9, <1>11

LEMMA MemoryPreserved == IInv /\ [Next]_vars => Memory'
<1> SUFFICES ASSUME IInv, [Next]_vars, edits' = 0 PROVE (\E k \in Int : Computed(k))'
    BY DEF Memory
<1> USE BoundAssumption
<1>1. edits = 0 /\ UNCHANGED course /\ ~EditCourse
  <2>1. edits \in Nat
      BY DEF IInv, TypeOK
  <2>2. ~EditCourse
      BY <2>1 DEF EditCourse
  <2>3. QED
      BY <2>2 DEF Next, Verdict, Submit, ChangeEnrollment, Tick, Read, LoadCourse, ReadClock, ListUsers, RankRows, vars
<1>2. PICK k \in Int : Computed(k)
    BY <1>1 DEF IInv, Memory
<1>3. TypeOK /\ Shape /\ course \in Courses /\ now \in Nat
    BY DEF IInv, TypeOK
<1>4. Cutoff(course, now) \in Int /\ Cutoff(course, now) <= Cutoff(course, now + 1)
      /\ Cutoff(course, now + 1) \in Int
    BY <1>3, CutoffType, CutoffGrows
<1>5. ASSUME UNCHANGED <<now, board, course>>,
             reader'.pc = reader.pc, reader'.course = reader.course,
             reader'.cutoff = reader.cutoff, reader'.known = reader.known,
             \A s \in Stored : /\ s \in Stored'
                               /\ row'[s].user = row[s].user /\ row'[s].at = row[s].at
                               /\ s \in Accepted => s \in Accepted'
      PROVE  Computed(k)'
  <2>1. Listed(course, k) \subseteq Listed(course, k)'
        /\ \A u \in Users : Cardinality(Solved(u, course, k)) <= Cardinality(Solved(u, course, k)')
      BY <1>3, <1>5, RowsGrow
  <2>2. \A u \in Users : /\ Cardinality(Solved(u, course, k)) \in Nat
                         /\ Cardinality(Solved(u, course, k)') \in Nat
                         /\ board.solved[u] \in Nat
    <3>1. Cardinality(Subs) \in Nat
        BY SubmissionAssumption, FS_CardinalityType
    <3>2. ASSUME NEW u \in Users PROVE Cardinality(Solved(u, course, k)') \in Nat
      <4>1. {s \in Counted(course, k)' \intersect Accepted' : row'[s].user = u} \in SUBSET Subs
          BY DEF Accepted
      <4>2. Solved(u, course, k)' = {TaskOf[s] : s \in {s \in Counted(course, k)' \intersect Accepted' :
                                                            row'[s].user = u}}
          BY DEF Solved
      <4>3. Cardinality(Solved(u, course, k)') \in 0..Cardinality(Subs)
          BY <4>1, <4>2, TasksOf
      <4>4. QED
          BY <3>1, <4>3
    <3>3. QED
        BY <1>3, <3>1, <3>2, SolvedBound DEF Shape
  <2>3. Cutoff(course, now)' = Cutoff(course, now)
      BY <1>5 DEF Cutoff
  <2>4. \A u \in Users : board.solved[u] <= Cardinality(Solved(u, course, k)')
      BY <1>2, <2>1, <2>2 DEF Computed
  <2>5. \A u \in Users : IF board'.place[u] = 0 THEN board'.solved[u] = 0
            ELSE u \in Listed(course, k)' /\ (reader'.pc = "rank" => u \in reader'.known)
      BY <1>2, <1>5, <2>1 DEF Computed
  <2>6. QED
      BY <1>2, <1>5, <2>3, <2>4, <2>5 DEF Computed
<1>6. ASSUME NEW s \in Subs, Verdict(s) PROVE Computed(k)'
  <2>1. PICK v \in {"accepted", "refused"} : row' = [row EXCEPT ![s].status = v]
      BY <1>6 DEF Verdict
  <2>2. \A x \in Stored : /\ x \in Stored'
                          /\ row'[x].user = row[x].user /\ row'[x].at = row[x].at
                          /\ x \in Accepted => x \in Accepted'
      BY <1>3, <1>6, <2>1 DEF Verdict, Stored, Accepted, TypeOK
  <2>3. QED
      BY <1>5, <1>6, <2>2 DEF Verdict
<1>7. ASSUME NEW s \in Subs, NEW u \in Authors[s], Submit(s, u) PROVE Computed(k)'
  <2>1. PICK at \in now - Lag..now :
            /\ row' = [row EXCEPT ![s] = [status |-> "pending", user |-> u, at |-> at]]
            /\ reader' = [reader EXCEPT !.late = @ \/ (reader.pc = "rank" /\ at <= reader.cutoff)]
      BY <1>7 DEF Submit
  <2>2. s \notin Stored /\ s \notin Accepted
      BY <1>7 DEF Submit, Stored, Accepted
  <2>3. \A x \in Stored : row'[x] = row[x]
      BY <1>3, <2>1, <2>2 DEF TypeOK, Stored
  <2>4. \A x \in Stored : /\ x \in Stored'
                          /\ row'[x].user = row[x].user /\ row'[x].at = row[x].at
                          /\ x \in Accepted => x \in Accepted'
      BY <2>3 DEF Stored, Accepted
  <2>5. reader'.pc = reader.pc /\ reader'.course = reader.course
        /\ reader'.cutoff = reader.cutoff /\ reader'.known = reader.known
      BY <1>3, <2>1 DEF Shape
  <2>6. QED
      BY <1>5, <1>7, <2>4, <2>5 DEF Submit
<1>8. CASE Tick
  <2>1. UNCHANGED <<course, edits, enrollment, row, reader, board>> /\ now' = now + 1
      BY <1>8 DEF Tick
  <2>2. \A u \in Users : Solved(u, course, k)' = Solved(u, course, k) /\ Listed(course, k)' = Listed(course, k)
      BY <2>1 DEF Solved, Listed, Counted, Stored, Accepted
  <2>3. Cutoff(course, now)' = Cutoff(course, now + 1)
      BY <2>1 DEF Cutoff
  <2>4. reader.cutoff \in Int
      BY <1>3 DEF Shape
  <2>5. Computed(k)'
      BY <1>2, <1>4, <2>1, <2>2, <2>3, <2>4 DEF Computed
  <2>6. QED
      BY <2>5
<1>9. CASE LoadCourse
  <2>1. reader'.pc = "clock" /\ reader'.course = course /\ UNCHANGED <<now, course, edits, enrollment, row, board>>
      BY <1>9 DEF LoadCourse, Idle
  <2>2. \A u \in Users : Solved(u, course, k)' = Solved(u, course, k) /\ Listed(course, k)' = Listed(course, k)
      BY <2>1 DEF Solved, Listed, Counted, Stored, Accepted
  <2>3. Computed(k)'
      BY <1>2, <2>1, <2>2 DEF Computed, Cutoff
  <2>4. QED
      BY <2>3
<1>10. CASE ReadClock
  <2>1. reader'.pc = "list" /\ reader'.course = course /\ reader'.cutoff = Cutoff(course, now)
        /\ UNCHANGED <<now, course, edits, enrollment, row, board>>
      BY <1>2, <1>3, <1>10 DEF ReadClock, Shape, Computed
  <2>2. \A u \in Users : Solved(u, course, k)' = Solved(u, course, k) /\ Listed(course, k)' = Listed(course, k)
      BY <2>1 DEF Solved, Listed, Counted, Stored, Accepted
  <2>3. Cutoff(course, now)' = Cutoff(course, now)
      BY <2>1 DEF Cutoff
  <2>4. Computed(k)'
      BY <1>2, <1>4, <2>1, <2>2, <2>3 DEF Computed
  <2>5. QED
      BY <2>4
<1>11. CASE ListUsers
  <2>1. reader'.pc = "rank" /\ reader'.course = course /\ reader'.cutoff = reader.cutoff
        /\ reader'.known = Listed(course, reader.cutoff) /\ k <= reader.cutoff
        /\ reader.cutoff <= Cutoff(course, now)
        /\ UNCHANGED <<now, course, edits, enrollment, row, board>>
      BY <1>2, <1>3, <1>11 DEF ListUsers, Shape, Computed
  <2>2. Listed(course, k) \subseteq Listed(course, reader.cutoff)
      BY <1>3, <2>1, LaterCounts DEF Shape
  <2>3. \A u \in Users : Solved(u, course, k)' = Solved(u, course, k) /\ Listed(course, k)' = Listed(course, k)
      BY <2>1 DEF Solved, Listed, Counted, Stored, Accepted
  <2>4. Cutoff(course, now)' = Cutoff(course, now)
      BY <2>1 DEF Cutoff
  <2>5. \A u \in Users : IF board'.place[u] = 0 THEN board'.solved[u] = 0
            ELSE u \in Listed(course, k)' /\ (reader'.pc = "rank" => u \in reader'.known)
      BY <1>2, <2>1, <2>2, <2>3 DEF Computed
  <2>6. \A u \in Users : board'.solved[u] <= Cardinality(Solved(u, course, k)')
      BY <1>2, <2>1, <2>3 DEF Computed
  <2>7. Computed(k)'
      BY <1>2, <2>1, <2>4, <2>5, <2>6 DEF Computed
  <2>8. QED
      BY <2>7
<1>12. CASE UNCHANGED vars
  <2>1. Computed(k)'
      BY <1>2, <1>12 DEF vars, Computed, Cutoff, Solved, Listed, Counted, Stored, Accepted
  <2>2. QED
      BY <2>1
<1>13. CASE RankRows
  <2>1. PICK m \in Int : m = reader.cutoff
      BY <1>3 DEF Shape
  <2>2. Computed(m)'
      BY <1>2, <1>3, <1>13, <2>1, Reranked
  <2>3. QED
      BY <2>2
<1>14. ASSUME NEW u \in Movable, ChangeEnrollment(u) PROVE Computed(k)'
  <2>1. UNCHANGED <<now, course, row, reader, board>>
      BY <1>14 DEF ChangeEnrollment
  <2>2. QED
      BY <1>2, <2>1 DEF Computed, Cutoff, Solved, Listed, Counted, Stored, Accepted
<1>15. QED
    BY <1>2, <1>6, <1>7, <1>8, <1>9, <1>10, <1>11, <1>12, <1>13, <1>14, <1>1 DEF Next, Read

-----------------------------------------------------------------------------
(* The inductive invariant.                                                *)
THEOREM Invariance == Spec => []IInv
<1>1. IInv /\ [Next]_vars => IInv'
    BY TypesPreserved, MemoryPreserved DEF IInv
<1>2. QED
    BY Initial, <1>1, PTL DEF Spec

(* Type correctness: no leaderboard counts more tasks than there are       *)
(* submissions, places more users than there are, or is read at a later    *)
(* time than it is.                                                        *)
THEOREM TypeCorrect == Spec => []TypeOK
<1>1. IInv => TypeOK
    BY DEF IInv
<1>2. QED
    BY Invariance, <1>1, PTL

(* While the course can be seen, its page agrees with the leaderboard for  *)
(* a user who may see the tasks, and for one who is enrolled the profile   *)
(* shows no less than the page.                                            *)
THEOREM Agreement == Spec => []CountsAgree
<1>1. IInv => CountsAgree
  <2> SUFFICES ASSUME TypeOK, PageAnswer(course, now) = "open", NEW u \in Users
               PROVE  /\ ExamAccess(u, course) =>
                             /\ Solved(u, course, Cutoff(course, now)) \subseteq PageSolved(u, course)
                             /\ ~Frozen(course, now) =>
                                    Solved(u, course, Cutoff(course, now)) = PageSolved(u, course)
                      /\ enrollment[u] # "none" => PageSolved(u, course) \subseteq ProfileSolved(u)
      BY DEF IInv, CountsAgree
  <2> DEFINE cutoff == Cutoff(course, now)
             onBoard == {s \in Counted(course, cutoff) \intersect Accepted : row[s].user = u}
             onPage == {s \in SubmissionsMap(u, course) \intersect Accepted : InWindow(course, s)}
  <2>1. /\ course.end = NoEnd \/ course.end \in Int
        /\ now \in Int /\ Freeze \in Nat
        /\ course.olimpiad /\ course.end # NoEnd => now <= course.end
        /\ \A s \in Subs : row[s].at \in Int /\ row[s].at <= now
      BY CourseAssumption, BoundAssumption DEF PageAnswer, TypeOK
  <2>2. ExamAccess(u, course) => onBoard \subseteq onPage
      BY <2>1, BoundAssumption DEF Counted, Stored, SubmissionsMap, InWindow, Cutoff
  <2>3. ~Frozen(course, now) => onPage \subseteq onBoard
      BY <2>1, BoundAssumption DEF Counted, Stored, SubmissionsMap, InWindow, Cutoff, Frozen
  <2>4. ExamAccess(u, course) => Solved(u, course, cutoff) \subseteq PageSolved(u, course)
      BY <2>2 DEF Solved, PageSolved
  <2>5. ~Frozen(course, now) => PageSolved(u, course) \subseteq Solved(u, course, cutoff)
      BY <2>3 DEF Solved, PageSolved
  <2>6. enrollment[u] # "none" => PageSolved(u, course) \subseteq ProfileSolved(u)
      BY DEF PageSolved, ProfileSolved, SubmissionsMap
  <2>7. QED
      BY <2>4, <2>5, <2>6
<1>2. QED
    BY Invariance, <1>1, PTL

(* On the leaderboard of a course that is not edited nobody loses a solved *)
(* task or disappears.                                                     *)
THEOREM NeverBack == Spec => NobodyFallsBack
<1>1. ASSUME IInv, [Next]_vars, edits' = 0, NEW u \in Users
      PROVE  /\ board'.solved[u] >= board.solved[u]
             /\ board.place[u] > 0 => board'.place[u] > 0
  <2>1. board.solved[u] \in Int /\ TypeOK /\ Shape
    <3>1. Cardinality(Subs) \in Nat
        BY SubmissionAssumption, FS_CardinalityType
    <3>2. QED
        BY <1>1, <3>1 DEF IInv, Shape
  <2>2. CASE RankRows
    <3>1. edits = 0
        BY <2>2, <1>1 DEF RankRows
    <3>2. PICK k \in Int : Computed(k)
        BY <1>1, <3>1 DEF IInv, Memory
    <3>3. PICK m \in Int : m = reader.cutoff
        BY <2>1 DEF Shape
    <3>4. \A v \in Users : /\ board'.solved[v] >= board.solved[v]
                           /\ board.place[v] > 0 => board'.place[v] > 0
        BY <2>1, <2>2, <3>2, <3>3, Reranked
    <3>5. QED
        BY <3>4
  <2>3. CASE ~RankRows
    <3>1. board' = board
        BY <1>1, <2>3 DEF Next, Verdict, Submit, ChangeEnrollment, EditCourse, Tick, Read, LoadCourse, ReadClock,
                          ListUsers, vars
    <3>2. QED
        BY <2>1, <3>1
  <2>4. QED
      BY <2>2, <2>3
<1>2. IInv /\ [Next]_vars =>
          (edits' = 0 =>
             \A u \in Users :
                /\ board'.solved[u] >= board.solved[u]
                /\ board.place[u] > 0 => board'.place[u] > 0)
    BY <1>1
<1>3. QED
    BY Invariance, <1>2, PTL DEF Spec, NobodyFallsBack

(* A step that changes only rows stamped after k changes nothing of what a *)
(* leaderboard computed at k says.                                         *)
LEMMA LateRowsHidden ==
    ASSUME TypeOK, TypeOK', [Next]_vars, UNCHANGED course, NEW k \in Int, NEW u \in Users,
           \A s \in Subs : row'[s] # row[s] => row'[s].at > k
    PROVE  Standing(u, course, k)' = Standing(u, course, k)
<1>1. \A s \in Stored : s \in Stored' /\ row'[s].at = row[s].at
  <2>1. ASSUME NEW s \in Subs, Verdict(s)
        PROVE  \A x \in Stored : x \in Stored' /\ row'[x].at = row[x].at
      BY <2>1 DEF Verdict, Stored, TypeOK
  <2>2. ASSUME NEW s \in Subs, NEW v \in Authors[s], Submit(s, v)
        PROVE  \A x \in Stored : x \in Stored' /\ row'[x].at = row[x].at
    <3>1. PICK at \in now - Lag..now :
              row' = [row EXCEPT ![s] = [status |-> "pending", user |-> v, at |-> at]]
        BY <2>2 DEF Submit
    <3>2. \A x \in Stored : row'[x] = row[x]
        BY <2>2, <3>1 DEF Submit, Stored, TypeOK
    <3>3. QED
        BY <3>2 DEF Stored
  <2>3. CASE UNCHANGED row
      BY <2>3 DEF Stored
  <2>4. QED
      BY <2>1, <2>2, <2>3 DEF Next, ChangeEnrollment, EditCourse, Tick, Read, LoadCourse,
                              ReadClock, ListUsers, RankRows, vars
<1>2. \A s \in Subs : row[s].at \in Int /\ (row'[s] = row[s] \/ row'[s].at > k)
    BY BoundAssumption DEF TypeOK
<1>3. Counted(course, k)' = {s \in Stored' : (course.olimpiad => row'[s].at >= course.start)
                                            /\ row'[s].at <= k}
    BY DEF Counted
<1>4. \A s \in Counted(course, k) : row'[s] = row[s] /\ s \in Stored /\ s \in Subs
    BY <1>1, <1>2, BoundAssumption DEF Counted, Stored, TypeOK
<1>5. ASSUME NEW s \in Counted(course, k)' PROVE s \in Counted(course, k)
  <2>1. s \in Subs /\ row'[s] = row[s]
      BY <1>2, <1>3, BoundAssumption DEF Stored, TypeOK
  <2>2. QED
      BY <1>3, <2>1 DEF Counted, Stored
<1>6. Counted(course, k)' = Counted(course, k)
  <2>1. \A s \in Counted(course, k) : s \in Counted(course, k)'
      BY <1>1, <1>3, <1>4 DEF Counted
  <2>2. QED
      BY <1>5, <2>1
<1>7. Counted(course, k)' \intersect Accepted' = Counted(course, k) \intersect Accepted
    BY <1>4, <1>6 DEF Accepted
<1> DEFINE mine == {s \in Counted(course, k) \intersect Accepted : row[s].user = u}
<1>8. {s \in Counted(course, k)' \intersect Accepted' : row'[s].user = u} = mine
    BY <1>4, <1>7
<1>9. Solved(u, course, k)' = Solved(u, course, k)
  <2>1. Solved(u, course, k)' = {TaskOf[s] : s \in {s \in Counted(course, k)' \intersect Accepted' :
                                                        row'[s].user = u}}
      BY DEF Solved
  <2>2. QED
      BY <1>8, <2>1 DEF Solved
<1>10. Tries(u, course, k)' = Tries(u, course, k)
  <2>1. \A s \in Counted(course, k) : SolvedExists(s, course, k)' <=> SolvedExists(s, course, k)
      BY <1>4, <1>7 DEF SolvedExists
  <2>2. {s \in Counted(course, k)' : row'[s].user = u /\ SolvedExists(s, course, k)'}
        = {s \in Counted(course, k) : row[s].user = u /\ SolvedExists(s, course, k)}
      BY <1>4, <1>6, <2>1
  <2>3. QED
      BY <2>2 DEF Tries
<1>11. LastAccepted(u, course, k)' = LastAccepted(u, course, k)
  <2>1. {row'[s].at : s \in {s \in Counted(course, k)' \intersect Accepted' : row'[s].user = u}}
        = {row[s].at : s \in mine}
      BY <1>4, <1>8
  <2>2. QED
      BY <2>1 DEF LastAccepted
<1>12. QED
    BY <1>9, <1>10, <1>11 DEF Standing

(* During the freeze nothing that was submitted in it moves the            *)
(* leaderboard.                                                            *)
THEOREM Freezing == Spec => FreezeHides
<1>1. ASSUME TypeOK, TypeOK', [Next]_vars, Frozen(course, now), Frozen(course', now'), course' = course,
             \A s \in Subs : row'[s] # row[s] => row'[s].at > course.end - Freeze,
             NEW u \in Users
      PROVE  Standing(u, course, Cutoff(course, now))' = Standing(u, course, Cutoff(course, now))
  <2>1. course \in Courses /\ course.end \in Int /\ Freeze \in Int
        /\ now \in Int /\ now' \in Int
      BY <1>1, CourseAssumption, BoundAssumption DEF Frozen, TypeOK
  <2>2. PICK k \in Int : k = course.end - Freeze
      BY <2>1
  <2>3. Cutoff(course, now) = k
      BY <1>1, <2>1, <2>2 DEF Cutoff, Frozen
  <2>4. Cutoff(course, now)' = k
      BY <1>1, <2>1, <2>2 DEF Cutoff, Frozen
  <2>5. Standing(u, course, k)' = Standing(u, course, k)
      BY <1>1, <2>2, LateRowsHidden
  <2>6. Standing(u, course, Cutoff(course, now))' = Standing(u, course, k)'
    <3>1. Counted(course, Cutoff(course, now))' = Counted(course, k)'
        BY <2>4 DEF Counted
    <3>2. Solved(u, course, Cutoff(course, now))' = Solved(u, course, k)'
        BY <3>1 DEF Solved
    <3>3. \A s : SolvedExists(s, course, Cutoff(course, now))' <=> SolvedExists(s, course, k)'
        BY <3>1 DEF SolvedExists
    <3>4. Tries(u, course, Cutoff(course, now))' = Tries(u, course, k)'
        BY <3>1, <3>3 DEF Tries
    <3>5. LastAccepted(u, course, Cutoff(course, now))' = LastAccepted(u, course, k)'
        BY <3>1 DEF LastAccepted
    <3>6. QED
        BY <3>2, <3>4, <3>5 DEF Standing
  <2>7. QED
      BY <2>3, <2>5, <2>6
<1>2. TypeOK /\ TypeOK' /\ [Next]_vars =>
          (/\ Frozen(course, now) /\ Frozen(course', now') /\ course' = course
           /\ (\A s \in Subs : row'[s] # row[s] => row'[s].at > course.end - Freeze)
           => \A u \in Users : Standing(u, course, Cutoff(course, now))'
                                = Standing(u, course, Cutoff(course, now)))
    BY <1>1
<1>3. QED
    BY TypeCorrect, <1>2, PTL DEF Spec, FreezeHides

-----------------------------------------------------------------------------
(* Until a row comes late, the users that a request has loaded are those   *)
(* of the rows it is going to rank.                                        *)
LoadedAll ==
    reader.pc = "rank" /\ ~reader.late =>
        Listed(reader.course, reader.cutoff) = reader.known

(* Who is listed depends on the rows' stamps and users alone.              *)
LEMMA SameListed ==
    ASSUME Stored' = Stored,
           \A s \in Stored : row'[s].user = row[s].user /\ row'[s].at = row[s].at,
           UNCHANGED reader, LoadedAll
    PROVE  LoadedAll'
<1>1. Counted(reader.course, reader.cutoff)' = Counted(reader.course, reader.cutoff)
    BY DEF Counted
<1>2. Listed(reader.course, reader.cutoff)' =
          {row'[s].user : s \in Counted(reader.course, reader.cutoff)}
    BY <1>1 DEF Listed
<1>3. \A s \in Counted(reader.course, reader.cutoff) : row'[s].user = row[s].user
    BY DEF Counted
<1>4. Listed(reader.course, reader.cutoff)' = Listed(reader.course, reader.cutoff)
    BY <1>2, <1>3 DEF Listed
<1>5. QED
    BY <1>4 DEF LoadedAll

LEMMA LoadedAllPreserved ==
    ASSUME TypeOK, Shape, LoadedAll, [Next]_vars
    PROVE  LoadedAll'
<1> USE BoundAssumption
<1>1. ASSUME NEW s \in Subs, Verdict(s) PROVE LoadedAll'
  <2>1. PICK v \in {"accepted", "refused"} : row' = [row EXCEPT ![s].status = v]
      BY <1>1 DEF Verdict
  <2>2. \A x \in Subs : /\ row'[x].user = row[x].user /\ row'[x].at = row[x].at
                        /\ x \in Stored' <=> x \in Stored
      BY <1>1, <2>1 DEF Verdict, Stored, TypeOK
  <2>3. Stored' = Stored /\ Stored \subseteq Subs
      BY <2>2 DEF Stored
  <2>4. QED
      BY <1>1, <2>2, <2>3, SameListed DEF Verdict
<1>2. ASSUME NEW s \in Subs, NEW u \in Authors[s], Submit(s, u), reader'.pc = "rank", ~reader'.late
      PROVE  Listed(reader.course, reader.cutoff)' = reader'.known
  <2>1. PICK at \in now - Lag..now :
            /\ row' = [row EXCEPT ![s] = [status |-> "pending", user |-> u, at |-> at]]
            /\ reader' = [reader EXCEPT !.late = @ \/ (reader.pc = "rank" /\ at <= reader.cutoff)]
      BY <1>2 DEF Submit
  <2>2. /\ reader'.pc = reader.pc /\ reader'.course = reader.course
        /\ reader'.cutoff = reader.cutoff /\ reader'.known = reader.known
        /\ reader'.late = (reader.late \/ (reader.pc = "rank" /\ at <= reader.cutoff))
      BY <2>1 DEF Shape
  <2>3. reader.pc = "rank" /\ ~reader.late /\ ~(at <= reader.cutoff)
      BY <1>2, <2>2
  <2>4. s \notin Stored /\ \A x \in Subs : x # s => row'[x] = row[x]
      BY <1>2, <2>1 DEF Submit, Stored, TypeOK
  <2>5. row'[s].at = at
      BY <2>1 DEF TypeOK
  <2>6. Counted(reader.course, reader.cutoff)' =
            {x \in Stored' : (reader.course.olimpiad => row'[x].at >= reader.course.start)
                             /\ row'[x].at <= reader.cutoff}
      BY <2>2 DEF Counted
  <2>7. \A x : x \in Counted(reader.course, reader.cutoff)' <=>
               x \in Counted(reader.course, reader.cutoff)
      BY <2>3, <2>4, <2>5, <2>6 DEF Counted, Stored
  <2>8. Counted(reader.course, reader.cutoff)' = Counted(reader.course, reader.cutoff)
      BY <2>7
  <2>9. Listed(reader.course, reader.cutoff)' =
            {row'[x].user : x \in Counted(reader.course, reader.cutoff)}
      BY <2>8 DEF Listed
  <2>10. \A x \in Counted(reader.course, reader.cutoff) : row'[x].user = row[x].user
      BY <2>4 DEF Counted, Stored
  <2>11. Listed(reader.course, reader.cutoff)' = Listed(reader.course, reader.cutoff)
      BY <2>9, <2>10 DEF Listed
  <2>12. QED
      BY <2>2, <2>3, <2>11 DEF LoadedAll
<1>3. CASE (\E u \in Movable : ChangeEnrollment(u)) \/ EditCourse \/ Tick \/ UNCHANGED vars
  <2>1. UNCHANGED <<row, reader>>
      BY <1>3 DEF ChangeEnrollment, EditCourse, Tick, vars
  <2>2. QED
      BY <2>1, SameListed DEF Stored
<1>4. CASE LoadCourse \/ ReadClock \/ RankRows
  <2>1. reader'.pc \in {"clock", "list", "idle"}
    <3>1. CASE LoadCourse
        BY <3>1 DEF LoadCourse, Idle
    <3>2. CASE ReadClock
        BY <3>2 DEF ReadClock, Shape
    <3>3. CASE RankRows
        BY <3>3 DEF RankRows, Idle
    <3>4. QED
        BY <1>4, <3>1, <3>2, <3>3
  <2>2. QED
      BY <2>1 DEF LoadedAll
<1>5. CASE ListUsers
  <2>1. /\ reader'.known = Listed(reader.course, reader.cutoff)
        /\ reader'.course = reader.course /\ reader'.cutoff = reader.cutoff
        /\ UNCHANGED row
      BY <1>5 DEF ListUsers, Shape
  <2>2. Listed(reader.course, reader.cutoff)' = Listed(reader.course, reader.cutoff)
      BY <2>1 DEF Listed, Counted, Stored
  <2>3. QED
      BY <2>1, <2>2 DEF LoadedAll
<1>6. QED
    BY <1>1, <1>2, <1>3, <1>4, <1>5 DEF Next, Read, LoadedAll

(* Ranks of so many users, no two alike, are all the numbers up to it.     *)
LEMMA RanksWithoutGap ==
    ASSUME NEW S, IsFiniteSet(S), NEW rank \in [S -> 1..Cardinality(S)],
           \A u, v \in S : u # v => rank[u] # rank[v]
    PROVE  {rank[u] : u \in S} = 1..Cardinality(S)
<1> DEFINE n == Cardinality(S)
<1>1. n \in Nat
    BY FS_CardinalityType
<1>2. IsFiniteSet(1..n) /\ Cardinality(1..n) = n
    BY <1>1, FS_Interval
<1>3. rank \in Injection(S, 1..n)
    BY DEF Injection, IsInjective
<1>4. rank \in Surjection(S, 1..n)
    BY <1>2, <1>3, FS_Injection
<1>5. QED
    BY <1>4 DEF Surjection

(* A rank is missing from a leaderboard only when a submission was stored  *)
(* between its two queries with a stamp from before its cutoff.            *)
THEOREM Gapless == Spec => GapIsLateRow
<1>1. Init => LoadedAll
    BY DEF Init, LoadedAll, Idle
<1>2. TypeOK /\ Shape /\ LoadedAll /\ [Next]_vars => LoadedAll'
    BY LoadedAllPreserved
<1>3. ASSUME TypeOK, Shape, LoadedAll, [Next]_vars, reader.pc = "rank", reader'.pc = "idle", ~reader.late
      PROVE  ~Gap(board')
  <2> DEFINE listed == Listed(reader.course, reader.cutoff)
  <2>1. RankRows
      BY <1>3 DEF Next, Read, Verdict, Submit, ChangeEnrollment, EditCourse, Tick, LoadCourse, ReadClock, ListUsers,
                  vars, Shape
  <2>2. listed = reader.known /\ listed \subseteq Users
      BY <1>3 DEF LoadedAll, Shape
  <2>3. PICK rank \in [listed -> 1..Cardinality(listed)] :
            /\ \A u, v \in listed : u # v => rank[u] # rank[v]
            /\ board'.place = [u \in Users |->
                   IF u \in listed \intersect reader.known THEN rank[u] ELSE 0]
      BY <2>1 DEF RankRows
  <2>4. IsFiniteSet(listed) /\ Cardinality(listed) \in Nat
      BY <2>2, SubmissionAssumption, FS_Subset, FS_CardinalityType
  <2> HIDE DEF listed
  <2>5. {rank[u] : u \in listed} = 1..Cardinality(listed)
      BY <2>3, <2>4, RanksWithoutGap
  <2>6. \A u \in Users : board'.place[u] = IF u \in listed THEN rank[u] ELSE 0
      BY <2>2, <2>3
  <2>7. \A u \in listed : rank[u] # 0
      BY <2>3, <2>4
  <2>8. {board'.place[u] : u \in Users} \ {0} = {rank[u] : u \in listed}
      BY <2>2, <2>6, <2>7
  <2>9. Cardinality(1..Cardinality(listed)) = Cardinality(listed)
      BY <2>4, FS_Interval
  <2>10. QED
      BY <2>5, <2>8, <2>9 DEF Gap
<1>4. TypeOK /\ Shape /\ LoadedAll /\ [Next]_vars =>
          (reader.pc = "rank" /\ reader'.pc = "idle" /\ Gap(board') => reader.late)
    BY <1>3
<1>5. IInv => TypeOK /\ Shape
    BY DEF IInv
<1>6. QED
    BY Invariance, <1>1, <1>2, <1>4, <1>5, PTL DEF Spec, GapIsLateRow

=============================================================================
