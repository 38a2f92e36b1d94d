----------------------------- MODULE Standings -----------------------------
(***************************************************************************)
(* Who has solved what: the leaderboard of a course with its freeze, the   *)
(* page of the course and the profile of a user count the same rows of     *)
(* Submission in three ways, two of which depend on his enrollment too.    *)
(* Nothing is stored: every request counts anew, and the leaderboard does  *)
(* it in several statements between which rows are inserted, verdicts      *)
(* stored and the course edited.                                           *)
(***************************************************************************)
EXTENDS Integers, FiniteSets, FiniteSetsExt

CONSTANTS
    Users, Tasks,
    Owner,          \* the owner of the course, one of the users or not
    Movable,        \* users whose enrollment is decided, deleted, made again
    Subs,           \* submissions, the rows there may be
    Authors,        \* for every submission the users who may make it
    TaskOf,         \* and the task it is for
    Courses,        \* what an administrator may make of the course
    NoEnd,          \* the end of a course that has none
    Freeze,         \* how long before the end the leaderboard freezes
    Lag,            \* how old a clock may be when it is used
    MaxTime,        \* the clock stops here
    MaxEdits        \* edits of the course

ASSUME SubmissionAssumption ==
    /\ IsFiniteSet(Users) /\ Users # {} /\ IsFiniteSet(Subs)
    /\ Movable \subseteq Users
    /\ Authors \in [Subs -> SUBSET Users]
    /\ TaskOf \in [Subs -> Tasks]
ASSUME CourseAssumption ==
    \A c \in Courses :
        /\ c.olimpiad \in BOOLEAN /\ c.exam \in BOOLEAN
        /\ c.start \in Nat
        /\ c.end = NoEnd \/ c.end \in c.start..MaxTime
ASSUME BoundAssumption ==
    /\ NoEnd \notin Nat /\ Freeze \in Nat /\ Lag \in Nat
    /\ MaxTime \in Nat /\ MaxEdits \in Nat

VARIABLES
    now,        \* the clock, in ticks
    course,     \* the row of the course
    edits,      \* how often it has been edited
    enrollment, \* for every user the status of his enrollment, if any
    row,        \* for every submission its status, user and created_at
    reader,     \* a visitor's request for the leaderboard
    board       \* the last leaderboard the visitor has got

vars == <<now, course, edits, enrollment, row, reader, board>>

Statuses == {"none", "pending", "accepted", "refused"}
Enrollments == {"none", "pending", "approved"}
NoRow == [status |-> "none", user |-> CHOOSE u \in Users : TRUE, at |-> 0]
Idle == [pc |-> "idle", course |-> CHOOSE c \in Courses : TRUE,
         cutoff |-> 0, known |-> {}, late |-> FALSE]

TypeOK ==
    /\ now \in 0..MaxTime
    /\ course \in Courses
    /\ edits \in 0..MaxEdits
    /\ enrollment \in [Users -> Enrollments]
    /\ row \in [Subs -> [status : Statuses, user : Users, at : 0..MaxTime]]
    /\ \A s \in Subs : row[s].at <= now
    /\ reader.pc \in {"idle", "clock", "list", "rank"}
    /\ reader.course \in Courses
    /\ reader.cutoff <= now
    /\ reader.known \subseteq Users
    /\ reader.late \in BOOLEAN
    /\ board.place \in [Users -> 0..Cardinality(Users)]
    /\ board.solved \in [Users -> 0..Cardinality(Subs)]

-----------------------------------------------------------------------------
(* The three ways to count.                                                *)

Stored == {s \in Subs : row[s].status # "none"}
Accepted == {s \in Subs : row[s].status = "accepted"}

(* Mutant: the freeze shows the board of half an hour ago.                 *)
CutoffSliding(c, t) ==
    IF ~c.olimpiad \/ c.end = NoEnd \/ t < c.end - Freeze THEN t
    ELSE IF t >= c.end THEN c.end
    ELSE t - Freeze

(* Mutant: the freeze shows everything up to the end.                      *)
CutoffEnd(c, t) ==
    IF ~c.olimpiad \/ c.end = NoEnd \/ t < c.end - Freeze THEN t
    ELSE c.end

(* Mutant: the freeze is not lifted at the end.                            *)
CutoffKept(c, t) ==
    IF ~c.olimpiad \/ c.end = NoEnd \/ t < c.end - Freeze THEN t
    ELSE c.end - Freeze

Cutoff(c, t) ==
    IF ~c.olimpiad \/ c.end = NoEnd THEN t
    ELSE IF t >= c.end THEN c.end
    ELSE IF t >= c.end - Freeze THEN c.end - Freeze
    ELSE t

(* base_filter                                                             *)
Counted(c, cutoff) ==
    {s \in Stored : (c.olimpiad => row[s].at >= c.start) /\ row[s].at <= cutoff}

Solved(u, c, cutoff) ==
    {TaskOf[s] : s \in {s \in Counted(c, cutoff) \intersect Accepted : row[s].user = u}}

(* Mutant: the subquery without base_filter.                               *)
SolvedAnyTime(s, c, cutoff) ==
    \E other \in Accepted :
        row[other].user = row[s].user /\ TaskOf[other] = TaskOf[s]

SolvedExists(s, c, cutoff) ==
    \E other \in Counted(c, cutoff) \intersect Accepted :
        row[other].user = row[s].user /\ TaskOf[other] = TaskOf[s]

(* submission_count: all submissions for the tasks that are solved, those  *)
(* made after solving them too.                                            *)
Tries(u, c, cutoff) ==
    Cardinality({s \in Counted(c, cutoff) :
                    row[s].user = u /\ SolvedExists(s, c, cutoff)})

(* last_accepted_at. A user without one comes last: among users who have   *)
(* solved nothing there is none who has one.                               *)
LastAccepted(u, c, cutoff) ==
    LET times == {row[s].at : s \in {s \in Counted(c, cutoff) \intersect Accepted : row[s].user = u}}
    IN IF times = {} THEN 0 ELSE Max(times)

Listed(c, cutoff) == {row[s].user : s \in Counted(c, cutoff)}

(* What the leaderboard says of a user.                                    *)
Standing(u, c, cutoff) ==
    [solved |-> Cardinality(Solved(u, c, cutoff)),
     tries |-> Tries(u, c, cutoff),
     last |-> LastAccepted(u, c, cutoff)]

(* The sort order: most tasks, then fewest tries, then earliest.           *)
Before(a, b) ==
    \/ a.solved > b.solved
    \/ a.solved = b.solved /\ a.tries < b.tries
    \/ a.solved = b.solved /\ a.tries = b.tries /\ a.last < b.last

(* What the page of the course answers to a user.                          *)
PageAnswer(c, t) ==
    IF c.start > t THEN "not started"
    ELSE IF c.olimpiad /\ c.end # NoEnd /\ c.end < t THEN "finished"
    ELSE "open"

(* exam_access: who sees the tasks of an exam.                             *)
ExamAccess(u, c) == c.exam => u = Owner \/ enrollment[u] = "approved"

(* user_submissions_by_task: rows of the user the page knows of.           *)
SubmissionsMap(u, c) ==
    {s \in Stored :
        /\ ExamAccess(u, c)
        /\ row[s].user = u
        /\ c.olimpiad => row[s].at >= c.start /\ (c.end # NoEnd => row[s].at <= c.end)}

(* Mutant: submissions of the last tick are not counted.                   *)
InWindowShort(c, s) ==
    c.olimpiad => row[s].at >= c.start /\ (c.end # NoEnd => row[s].at < c.end)

InWindow(c, s) ==
    c.olimpiad => row[s].at >= c.start /\ (c.end # NoEnd => row[s].at <= c.end)

(* solved_tasks_count; is_solved marks the same tasks.                     *)
PageSolved(u, c) ==
    {TaskOf[s] : s \in {s \in SubmissionsMap(u, c) \intersect Accepted : InWindow(c, s)}}

(* The profile goes through the courses the user is enrolled in, whatever  *)
(* the status of the enrollment.                                           *)
ProfileSolved(u) ==
    {TaskOf[s] : s \in {s \in Accepted : row[s].user = u /\ enrollment[u] # "none"}}

-----------------------------------------------------------------------------
Init ==
    /\ now = 0
    /\ course \in Courses
    /\ edits = 0
    /\ enrollment = [u \in Users |-> "pending"]
    /\ row = [s \in Subs |-> NoRow]
    /\ reader = Idle
    /\ board = [place |-> [u \in Users |-> 0], solved |-> [u \in Users |-> 0]]

(* A submission is stored. Its stamp is older than the statement that      *)
(* inserts it, and the clock compared with the end of the olympiad is      *)
(* older than the stamp (SubmitGate). Its user had an enrollment, pending  *)
(* or approved, in a statement still earlier, which says nothing of now.   *)
Submit(s, u) ==
    /\ row[s].status = "none"
    /\ \E at \in now - Lag..now : \E checked \in at - Lag..at :
        /\ checked >= 0
        /\ course.olimpiad =>
             course.start <= checked /\ (course.end # NoEnd => checked <= course.end)
        /\ row' = [row EXCEPT ![s] = [status |-> "pending", user |-> u, at |-> at]]
        /\ reader' = [reader EXCEPT !.late =
               @ \/ (reader.pc = "rank" /\ at <= reader.cutoff)]
    /\ UNCHANGED <<now, course, edits, enrollment, board>>

(* The check stores its verdict, and never another one (SubmissionCheck).  *)
Verdict(s) ==
    /\ row[s].status = "pending"
    /\ \E v \in {"accepted", "refused"} : row' = [row EXCEPT ![s].status = v]
    /\ UNCHANGED <<now, course, edits, enrollment, reader, board>>

(* The user enrolls, the staff decides, or somebody deletes the enrollment *)
(* (Enrollment says how); any order of these may happen.                   *)
ChangeEnrollment(u) ==
    /\ \E st \in Enrollments : enrollment' = [enrollment EXCEPT ![u] = st]
    /\ UNCHANGED <<now, course, edits, row, reader, board>>

EditCourse ==
    /\ edits < MaxEdits
    /\ \E c \in Courses \ {course} : course' = c
    /\ edits' = edits + 1
    /\ UNCHANGED <<now, enrollment, row, reader, board>>

Tick ==
    /\ now < MaxTime
    /\ now' = now + 1
    /\ UNCHANGED <<course, edits, enrollment, row, reader, board>>

(* A request for the leaderboard: the course, the clock, the users with    *)
(* rows in the filter, then the rows in their order.                       *)
LoadCourse ==
    /\ reader.pc = "idle"
    /\ reader' = [Idle EXCEPT !.pc = "clock", !.course = course]
    /\ UNCHANGED <<now, course, edits, enrollment, row, board>>

ReadClock ==
    /\ reader.pc = "clock"
    /\ reader' = [reader EXCEPT !.pc = "list",
                                !.cutoff = Cutoff(reader.course, now)]
    /\ UNCHANGED <<now, course, edits, enrollment, row, board>>

(* Mutant: only users who have solved something are loaded.                *)
ListUsersSolved ==
    /\ reader.pc = "list"
    /\ reader' = [reader EXCEPT !.pc = "rank",
           !.known = {row[s].user : s \in Counted(reader.course, reader.cutoff) \intersect Accepted}]
    /\ UNCHANGED <<now, course, edits, enrollment, row, board>>

ListUsers ==
    /\ reader.pc = "list"
    /\ reader' = [reader EXCEPT !.pc = "rank",
                                !.known = Listed(reader.course, reader.cutoff)]
    /\ UNCHANGED <<now, course, edits, enrollment, row, board>>

(* Rows that compare equal come in any order. A row of a user who was not  *)
(* loaded takes a rank and is left out.                                    *)
RankRows ==
    LET listed == Listed(reader.course, reader.cutoff)
        shown == listed \intersect reader.known
        standing(u) == Standing(u, reader.course, reader.cutoff)
    IN
    /\ reader.pc = "rank"
    /\ reader' = Idle
    /\ UNCHANGED <<now, course, edits, enrollment, row>>
    /\ \E rank \in [listed -> 1..Cardinality(listed)] :
        /\ \A u, v \in listed :
             u # v => /\ rank[u] # rank[v]
                      /\ Before(standing(u), standing(v)) => rank[u] < rank[v]
        /\ board' = [place |-> [u \in Users |-> IF u \in shown THEN rank[u] ELSE 0],
                     solved |-> [u \in Users |->
                                    IF u \in shown THEN standing(u).solved ELSE 0]]

-----------------------------------------------------------------------------
Read == LoadCourse \/ ReadClock \/ ListUsers \/ RankRows

Next ==
    \/ \E s \in Subs : Verdict(s) \/ \E u \in Authors[s] : Submit(s, u)
    \/ \E u \in Movable : ChangeEnrollment(u)
    \/ EditCourse
    \/ Tick
    \/ Read

Spec == Init /\ [][Next]_vars

(* The clock runs, checks end (SubmissionCheck), and the visitor reloads   *)
(* the leaderboard for ever: as a step of Read is always enabled, its weak *)
(* fairness says that the request goes on infinitely often.                *)
Fairness ==
    /\ WF_vars(Tick)
    /\ WF_vars(\E s \in Subs : Verdict(s))
    /\ []<><<reader'.pc # reader.pc>>_vars

FairSpec == Spec /\ Fairness

-----------------------------------------------------------------------------
(* Correctness. TypeOK above is the type invariant; part of it is that the *)
(* leaderboard counts nothing later than the clock it was read at.         *)

Frozen(c, t) ==
    c.olimpiad /\ c.end # NoEnd /\ t < c.end /\ t >= c.end - Freeze

(* What leaderboard, page and profile say of one course agrees while the   *)
(* page can be seen: to a user who may see the tasks it shows what the     *)
(* leaderboard shows, in the freeze perhaps more, and the profile shows    *)
(* an enrolled user no less than the page (get_solved_tasks_count,         *)
(* base_filter and ProfileEducationView are three separate definitions).   *)
(* An exam hides from a student who is not approved what the leaderboard   *)
(* counts for him, and the profile forgets a course that he is removed     *)
(* from: there the three do disagree.                                      *)
CountsAgree ==
    PageAnswer(course, now) = "open" =>
        \A u \in Users :
            LET shown == Solved(u, course, Cutoff(course, now))
            IN /\ ExamAccess(u, course) =>
                     /\ shown \subseteq PageSolved(u, course)
                     /\ ~Frozen(course, now) => shown = PageSolved(u, course)
               /\ enrollment[u] # "none" =>
                     PageSolved(u, course) \subseteq ProfileSolved(u)

Gap(b) ==
    LET places == {b.place[u] : u \in Users} \ {0}
    IN places # 1..Cardinality(places)

(* A rank is missing from a leaderboard only when a submission was stored  *)
(* between its two queries with a stamp from before its cutoff.            *)
GapIsLateRow ==
    [][reader.pc = "rank" /\ reader'.pc = "idle" /\ Gap(board') => reader.late]_vars

(* On the leaderboard of a course that is not edited nobody loses a solved *)
(* task or disappears, into the freeze, within it and out of it.           *)
NobodyFallsBack ==
    [][edits' = 0 =>
         \A u \in Users :
            /\ board'.solved[u] >= board.solved[u]
            /\ board.place[u] > 0 => board'.place[u] > 0]_vars

(* During the freeze nothing that was submitted in it moves the            *)
(* leaderboard: neither solved tasks nor tries nor times (views.py:345).   *)
FreezeHides ==
    [][Frozen(course, now) /\ Frozen(course', now') /\ course' = course
       /\ (\A s \in Subs : row'[s] # row[s] => row'[s].at > course.end - Freeze)
       => \A u \in Users :
            Standing(u, course, Cutoff(course, now))' = Standing(u, course, Cutoff(course, now))]_vars

(* The tasks a user has solved in the window of a course, enrolled or not. *)
SolvedInWindow(u, c) ==
    {TaskOf[s] : s \in {s \in Accepted : row[s].user = u /\ InWindow(c, s)}}

(* When all is over a visitor who goes on reloading sees, for good, every  *)
(* task that was solved within the window: the freeze is lifted and late   *)
(* verdicts arrive on the leaderboard.                                     *)
FinalBoardSettles ==
    <>[](\A u \in Users : board.solved[u] = Cardinality(SolvedInWindow(u, course)))

=============================================================================
