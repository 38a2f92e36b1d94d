----------------------------- MODULE SubmitGate -----------------------------
(***************************************************************************)
(* The way of a POST through submit_code to the row it inserts: the task,  *)
(* the enrollment, the window of an olympiad and its limit of submissions  *)
(* per minute are read in statements of their own, and the row is inserted *)
(* in one more. Requests are served by synchronous worker processes, one   *)
(* request each, so that at most Workers of them are between two of these  *)
(* statements. What happens to the row is SubmissionCheck.                 *)
(***************************************************************************)
EXTENDS Integers, FiniteSets

CONSTANTS
    Reqs,           \* POST requests
    Users,
    Courses,
    UserOf,         \* UserOf[r]: the user who sends r
    CourseOf,       \* CourseOf[r]: the course of the task r is for
    Offerings,      \* what a course may be edited to
    Gone,           \* in place of a deleted course
    Workers,        \* worker processes
    Limit,          \* MAX_SUBMISSIONS_PER_MINUTE
    Minute,         \* the length of a minute, in ticks of the clock
    MaxClock,       \* bound: the clock stops here
    Editable,       \* courses the staff edits or deletes
    Movable,        \* <<user, course>> pairs that are enrolled and removed
    Mortal          \* requests whose worker process may be killed

Times == 0..MaxClock

ASSUME RequestAssumption ==
    /\ UserOf \in [Reqs -> Users]
    /\ CourseOf \in [Reqs -> Courses]
    /\ Mortal \subseteq Reqs
    /\ Editable \subseteq Courses
    /\ Movable \subseteq Users \X Courses
    /\ IsFiniteSet(Reqs)

ASSUME NumberAssumption ==
    /\ Workers \in Nat \ {0}
    /\ Limit \in Nat \ {0}
    /\ Minute \in Nat \ {0}
    /\ MaxClock \in Nat

(* An end after MaxClock stands for an olympiad without an end.            *)
ASSUME OfferingAssumption ==
    /\ Offerings \subseteq [olimpiad : BOOLEAN, start : Int, end : Int]
    /\ Gone \notin Offerings

VARIABLES
    clock,
    course,         \* course[c]: the columns of c that submit_code reads
    enrolled,       \* <<user, course>> pairs with an enrollment
    pc,             \* pc[r]: the next statement of r, or how r ended
    seen,           \* seen[r]: the course as r has loaded it
    now,            \* now[r]: the clock as r has read it
    stamp,          \* stamp[r]: created_at of the row of r
    rows            \* the requests whose row is in the table

vars == <<clock, course, enrolled, pc, seen, now, stamp, rows>>

InFlight == {"enrollment", "window", "count", "stamp", "insert"}
Answers == {"202", "400", "403", "404", "429", "500"}
Ended == Answers \union {"lost"}

Busy == {r \in Reqs : pc[r] \in InFlight}

TypeOK ==
    /\ clock \in Times
    /\ course \in [Courses -> Offerings \union {Gone}]
    /\ enrolled \subseteq Users \X Courses
    /\ pc \in [Reqs -> {"new"} \union InFlight \union Ended]
    /\ seen \in [Reqs -> Offerings]
    /\ now \in [Reqs -> Times]
    /\ stamp \in [Reqs -> Times]
    /\ rows \subseteq Reqs

(* seen, now and stamp of a request mean nothing before it has read them.  *)
Init ==
    /\ clock = 0
    /\ course \in [Courses -> Offerings]
    /\ enrolled = Users \X Courses
    /\ pc = [r \in Reqs |-> "new"]
    /\ seen = [r \in Reqs |-> course[CourseOf[r]]]
    /\ now = [r \in Reqs |-> 0]
    /\ stamp = [r \in Reqs |-> 0]
    /\ rows = {}

-----------------------------------------------------------------------------
(* The statements of submit_code.                                          *)

Goto(r, place) == pc' = [pc EXCEPT ![r] = place]

(* A free worker takes the request and refuses a malformed body.           *)
Reject(r) ==
    /\ pc[r] = "new"
    /\ Cardinality(Busy) < Workers
    /\ Goto(r, "400")
    /\ UNCHANGED <<clock, course, enrolled, seen, now, stamp, rows>>

(* Mutant: a missing task is not noticed.                                  *)
LoadTaskBlind(r) ==
    /\ pc[r] = "new"
    /\ Cardinality(Busy) < Workers
    /\ seen' = [seen EXCEPT ![r] = course[CourseOf[r]]]
    /\ Goto(r, "enrollment")
    /\ UNCHANGED <<clock, course, enrolled, now, stamp, rows>>

(* select_related loads the course together with its task.                 *)
LoadTask(r) ==
    /\ pc[r] = "new"
    /\ Cardinality(Busy) < Workers
    /\ \/ /\ course[CourseOf[r]] = Gone
          /\ Goto(r, "404")
          /\ UNCHANGED seen
       \/ /\ course[CourseOf[r]] # Gone
          /\ seen' = [seen EXCEPT ![r] = course[CourseOf[r]]]
          /\ Goto(r, "enrollment")
    /\ UNCHANGED <<clock, course, enrolled, now, stamp, rows>>

CheckEnrollment(r) ==
    /\ pc[r] = "enrollment"
    /\ Goto(r, IF <<UserOf[r], CourseOf[r]>> \in enrolled THEN "window" ELSE "403")
    /\ UNCHANGED <<clock, course, enrolled, seen, now, stamp, rows>>

(* Mutant: the end of the olympiad is not looked at.                       *)
InsideStarted(o, t) == o.start <= t

Inside(o, t) == o.start <= t /\ t <= o.end

(* The clock is read here, once, for the window and for the limit.         *)
CheckWindow(r) ==
    /\ pc[r] = "window"
    /\ now' = [now EXCEPT ![r] = clock]
    /\ Goto(r, IF ~seen[r].olimpiad THEN "stamp"
               ELSE IF Inside(seen[r], clock) THEN "count" ELSE "403")
    /\ UNCHANGED <<clock, course, enrolled, seen, stamp, rows>>

(* The rows of the same user in the same course since a minute before the  *)
(* request read the clock.                                                 *)
Recent(r) ==
    {q \in rows :
        /\ UserOf[q] = UserOf[r]
        /\ CourseOf[q] = CourseOf[r]
        /\ stamp[q] >= now[r] - Minute}

(* Mutant: > in place of >=.                                               *)
CountOneMore(r) ==
    /\ pc[r] = "count"
    /\ Goto(r, IF Cardinality(Recent(r)) > Limit THEN "429" ELSE "stamp")
    /\ UNCHANGED <<clock, course, enrolled, seen, now, stamp, rows>>

Count(r) ==
    /\ pc[r] = "count"
    /\ Goto(r, IF Cardinality(Recent(r)) >= Limit THEN "429" ELSE "stamp")
    /\ UNCHANGED <<clock, course, enrolled, seen, now, stamp, rows>>

(* auto_now_add stamps the object before the INSERT is sent.               *)
Stamp(r) ==
    /\ pc[r] = "stamp"
    /\ stamp' = [stamp EXCEPT ![r] = clock]
    /\ Goto(r, "insert")
    /\ UNCHANGED <<clock, course, enrolled, seen, now, rows>>

(* The INSERT fails on its foreign key when the task is deleted by now.    *)
Insert(r) ==
    /\ pc[r] = "insert"
    /\ \/ /\ course[CourseOf[r]] # Gone
          /\ rows' = rows \union {r}
          /\ Goto(r, "202")
       \/ /\ course[CourseOf[r]] = Gone
          /\ Goto(r, "500")
          /\ UNCHANGED rows
    /\ UNCHANGED <<clock, course, enrolled, seen, now, stamp>>

(* The worker is killed in the middle of the request; another replaces it. *)
Kill(r) ==
    /\ r \in Mortal
    /\ pc[r] \in InFlight
    /\ Goto(r, "lost")
    /\ UNCHANGED <<clock, course, enrolled, seen, now, stamp, rows>>

-----------------------------------------------------------------------------
(* The world around the requests.                                          *)

Tick ==
    /\ clock < MaxClock
    /\ clock' = clock + 1
    /\ UNCHANGED <<course, enrolled, pc, seen, now, stamp, rows>>

(* The course form may move the start and the end at any time.             *)
EditCourse(c, o) ==
    /\ course[c] # Gone
    /\ course' = [course EXCEPT ![c] = o]
    /\ UNCHANGED <<clock, enrolled, pc, seen, now, stamp, rows>>

(* Deleting a course cascades to its enrollments and submissions.          *)
DeleteCourse(c) ==
    /\ course' = [course EXCEPT ![c] = Gone]
    /\ enrolled' = {e \in enrolled : e[2] # c}
    /\ rows' = {r \in rows : CourseOf[r] # c}
    /\ UNCHANGED <<clock, pc, seen, now, stamp>>

ToggleEnrollment(e) ==
    /\ course[e[2]] # Gone
    /\ enrolled' = IF e \in enrolled THEN enrolled \ {e} ELSE enrolled \union {e}
    /\ UNCHANGED <<clock, course, pc, seen, now, stamp, rows>>

-----------------------------------------------------------------------------
Step(r) ==
    \/ Reject(r) \/ LoadTask(r) \/ CheckEnrollment(r) \/ CheckWindow(r)
    \/ Count(r) \/ Stamp(r) \/ Insert(r)

Surroundings ==
    \/ Tick
    \/ \E c \in Editable : (\E o \in Offerings : EditCourse(c, o)) \/ DeleteCourse(c)
    \/ \E e \in Movable : ToggleEnrollment(e)

Next ==
    \/ \E r \in Reqs : Step(r) \/ Kill(r)
    \/ Surroundings

Spec == Init /\ [][Next]_vars

-----------------------------------------------------------------------------
(* Correctness. TypeOK above is the type invariant.                        *)

(* The rows of user u in course c, let in as olympiad submissions, that    *)
(* are stamped in the minute from t on.                                    *)
InMinute(u, c, t) ==
    {r \in rows :
        /\ UserOf[r] = u
        /\ CourseOf[r] = c
        /\ seen[r].olimpiad
        /\ t <= stamp[r] /\ stamp[r] <= t + Minute}

(* What the code keeps of the limit: the requests that count before any of *)
(* them inserts are in flight together, so that no minute holds more than  *)
(* Limit - 1 rows beside those of one request per worker.                  *)
RateSlack ==
    \A u \in Users, c \in Courses, t \in Times :
        Cardinality(InMinute(u, c, t)) <= Limit + Workers - 1

(* A row stamped after the end of the olympiad belongs to a request that   *)
(* was let in before it and was still in flight when the end came: there   *)
(* are at most as many as workers, whatever end the staff has set.         *)
LateSlack ==
    \A o \in Offerings :
        o.olimpiad =>
            Cardinality({r \in rows :
                /\ seen[r].olimpiad
                /\ seen[r].end = o.end
                /\ stamp[r] > o.end}) <= Workers

=============================================================================
