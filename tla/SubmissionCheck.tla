-------------------------- MODULE SubmissionCheck --------------------------
(***************************************************************************)
(* A submission from the POST that creates it to the verdict in its row:   *)
(* submit_code creates the row and hands a closure to the thread pool, the *)
(* closure runs execute_submission_check, and its except block reports a   *)
(* check that raised. Every statement the job sends to the database is a   *)
(* step of its own, because the connection is in autocommit mode, and the  *)
(* administrator's writes interleave with them.                            *)
(***************************************************************************)
EXTENDS Naturals

CONSTANTS
    Subs,           \* submissions
    Tests,          \* test cases the submitted task may have
    Users,
    Owner,          \* Owner[s]: the user who submits s
    Faulty,         \* submissions whose database statements may fail
    Mortal,         \* submissions whose process may die under them
    Administered,   \* rows the administrator works on
    Editable,       \* test cases an author switches on and off
    Movable,        \* users who are enrolled and removed
    TaskDeletable   \* whether the task itself may be deleted

ASSUME OwnerAssumption == Owner \in [Subs -> Users]
ASSUME BoundsAssumption ==
    /\ Faulty \subseteq Subs
    /\ Mortal \subseteq Subs
    /\ Administered \subseteq Subs
    /\ Editable \subseteq Tests
    /\ Movable \subseteq Users
    /\ TaskDeletable \in BOOLEAN

VARIABLES
    row,        \* row[s]: the verdict columns of the submission's row
    obj,        \* obj[s]: the instance that submit_code and its closure share
    job,        \* job[s]: where the closure of s is
    broken,     \* broken[s]: the connection of the thread running s is lost
    snapshot,   \* snapshot[s]: the test cases the check of s has loaded
    passed,     \* passed[s]: those that the program has passed
    result,     \* result[s]: status_result, feedback and errors of the check
    reply,      \* reply[s]: the status in the 202 response
    form,       \* form[s]: the columns shown in an open change form
    posted,     \* the change forms whose POST has loaded the row
    active,     \* the active test cases of the task
    enrolled,   \* the users with an enrollment in its course
    taskAlive,  \* the task still exists
    marked      \* history: the last write to row[s] was the administrator's

rowVars == <<row, marked, form, posted>>
formVars == <<form, posted>>
checkVars == <<snapshot, passed, result>>
worldVars == <<active, enrolled, taskAlive>>
vars == <<row, obj, job, broken, snapshot, passed, result, reply, form, posted,
          active, enrolled, taskAlive, marked>>

-----------------------------------------------------------------------------
(* The columns a verdict is made of. The texts are named, not spelled.     *)

Verdicts == {"accepted", "rejected", "error"}
Statuses == {"pending"} \union Verdicts

Report(st, fb, er) == [status |-> st, feedback |-> fb, errors |-> er]

Absent          == Report("absent", "none", "none")
InProgress      == Report("pending", "in_progress", "none")
NotEnrolled     == Report("error", "not_enrolled", "none")
NoTests         == Report("error", "no_tests", "none")
AllPassed       == Report("accepted", "all_passed", "none")
Timeout         == Report("error", "timeout", "timeout")
CompileError    == Report("rejected", "compile_error", "compile_error")
RuntimeError    == Report("error", "stderr", "runtime_error")
WrongAnswer     == Report("rejected", "failed_test", "expected_output")
CheckError      == Report("error", "check_failed", "exception")
BackgroundError == Report("error", "execution_failed", "traceback")

TestFailures == {Timeout, CompileError, RuntimeError, WrongAnswer}

(* Verdicts that quote what the program or its compiler printed.           *)
QuotesProgram == {CompileError, RuntimeError, WrongAnswer}

FinalReports ==
    TestFailures \union {NotEnrolled, NoTests, AllPassed, CheckError, BackgroundError}
Reports == FinalReports \union {InProgress}

Feedbacks == {r.feedback : r \in Reports} \union {"none"}
Errors == {r.errors : r \in Reports}

Rows == [status : Statuses, feedback : Feedbacks, errors : Errors] \union {Absent}

Present(s) == row[s] # Absent

-----------------------------------------------------------------------------
(* Where a job may be. In "queued" ... "report" the next thing it does is  *)
(* the statement of that name; the last four are where a job ends, or, if  *)
(* it is "orphaned", where the request ended before there was a job.       *)

InTry == {"load", "run"}
OutsideTry == {"queued", "enroll", "exists", "early", "refresh", "save"}
InHandler == {"handler", "mark", "report"}

Grading == InTry \union OutsideTry \union InHandler
Ended == {"done", "gave_up", "lost", "orphaned"}
Places == {"idle", "created"} \union Grading \union Ended

DbSteps == {"queued", "enroll", "exists", "early", "load", "refresh", "save",
            "handler", "report"}
Writes == {"early", "save", "report"}

Live(s) == job[s] \in Grading \union {"created"}

TypeOK ==
    /\ row \in [Subs -> Rows]
    /\ obj \in [Subs -> Rows]
    /\ job \in [Subs -> Places]
    /\ broken \in [Subs -> BOOLEAN]
    /\ snapshot \in [Subs -> SUBSET Tests]
    /\ passed \in [Subs -> SUBSET Tests]
    /\ result \in [Subs -> Reports]
    /\ reply \in [Subs -> Statuses \union {"none"}]
    /\ form \in [Subs -> Rows]
    /\ posted \subseteq Subs
    /\ active \subseteq Tests
    /\ enrolled \subseteq Users
    /\ taskAlive \in BOOLEAN
    /\ marked \in [Subs -> BOOLEAN]

Init ==
    /\ row = [s \in Subs |-> Absent]
    /\ obj = [s \in Subs |-> Absent]
    /\ job = [s \in Subs |-> "idle"]
    /\ broken = [s \in Subs |-> FALSE]
    /\ snapshot = [s \in Subs |-> {}]
    /\ passed = [s \in Subs |-> {}]
    /\ result = [s \in Subs |-> InProgress]
    /\ reply = [s \in Subs |-> "none"]
    /\ form = [s \in Subs |-> Absent]
    /\ posted = {}
    /\ active \in {Tests \ Editable, Tests}
    /\ enrolled = Users
    /\ taskAlive = TRUE
    /\ marked = [s \in Subs |-> FALSE]

-----------------------------------------------------------------------------
(* The request. It has found the enrollment in an earlier statement        *)
(* (SubmitGate), which need not be there any more.                         *)

Create(s) ==
    /\ job[s] = "idle"
    /\ taskAlive
    /\ row' = [row EXCEPT ![s] = InProgress]
    /\ obj' = [obj EXCEPT ![s] = InProgress]
    /\ job' = [job EXCEPT ![s] = "created"]
    /\ UNCHANGED <<broken, checkVars, reply, formVars, worldVars, marked>>

(* The row is inserted but the connection goes before the answer comes:    *)
(* the request fails, and nobody hands the submission to the pool.         *)
CreateUnanswered(s) ==
    /\ job[s] = "idle"
    /\ taskAlive
    /\ s \in Faulty
    /\ row' = [row EXCEPT ![s] = InProgress]
    /\ job' = [job EXCEPT ![s] = "orphaned"]
    /\ UNCHANGED <<obj, broken, checkVars, reply, formVars, worldVars, marked>>

Enqueue(s) ==
    /\ job[s] = "created"
    /\ job' = [job EXCEPT ![s] = "queued"]
    /\ UNCHANGED <<rowVars, obj, broken, checkVars, reply, worldVars>>

(* The response reads the shared instance, which the closure may already   *)
(* have refreshed and changed in its except block.                         *)
Respond(s) ==
    /\ job[s] \in Grading \union {"done", "gave_up"}
    /\ reply[s] = "none"
    /\ reply' = [reply EXCEPT ![s] = obj[s].status]
    /\ UNCHANGED <<rowVars, obj, job, broken, checkVars, worldVars>>

-----------------------------------------------------------------------------
(* The check, up to the test cases.                                        *)

At(s, place) == job[s] = place /\ ~broken[s]
Goto(s, place) == job' = [job EXCEPT ![s] = place]

Start(s) ==
    /\ At(s, "queued")
    /\ Goto(s, IF Present(s) THEN "enroll" ELSE "done")
    /\ UNCHANGED <<rowVars, obj, broken, checkVars, reply, worldVars>>

CheckEnrolled(s) ==
    /\ At(s, "enroll")
    /\ \/ /\ Owner[s] \in enrolled
          /\ Goto(s, "exists")
          /\ UNCHANGED result
       \/ /\ Owner[s] \notin enrolled
          /\ Goto(s, "early")
          /\ result' = [result EXCEPT ![s] = NotEnrolled]
    /\ UNCHANGED <<rowVars, obj, broken, snapshot, passed, reply, worldVars>>

(* task.module.course is fetched lazily: once the course is being deleted  *)
(* the two queries behind it raise DoesNotExist.                           *)
CourseGone(s) ==
    /\ At(s, "enroll")
    /\ ~taskAlive
    /\ Goto(s, "handler")
    /\ UNCHANGED <<rowVars, obj, broken, checkVars, reply, worldVars>>

CheckTestsExist(s) ==
    /\ At(s, "exists")
    /\ \/ /\ active # {}
          /\ Goto(s, "load")
          /\ UNCHANGED result
       \/ /\ active = {}
          /\ Goto(s, "early")
          /\ result' = [result EXCEPT ![s] = NoTests]
    /\ UNCHANGED <<rowVars, obj, broken, snapshot, passed, reply, worldVars>>

(* Iterating the queryset sends a second query: the test cases it returns  *)
(* need not be those that exists() saw.                                    *)
LoadTests(s) ==
    /\ At(s, "load")
    /\ snapshot' = [snapshot EXCEPT ![s] = active]
    /\ result' = [result EXCEPT ![s] = AllPassed]
    /\ Goto(s, "run")
    /\ UNCHANGED <<rowVars, obj, broken, passed, reply, worldVars>>

-----------------------------------------------------------------------------
(* The loop over the test cases. Equal values of the order column leave    *)
(* the order open, so any test case not yet run may come next.             *)

PassTest(s) ==
    /\ job[s] = "run"
    /\ \E t \in snapshot[s] \ passed[s] :
          passed' = [passed EXCEPT ![s] = @ \union {t}]
    /\ UNCHANGED <<rowVars, obj, job, broken, snapshot, result, reply, worldVars>>

(* Mutant: the loop is left without noting why.                            *)
FailTestUnnoted(s) ==
    /\ job[s] = "run"
    /\ snapshot[s] # passed[s]
    /\ Goto(s, "refresh")
    /\ UNCHANGED <<rowVars, obj, broken, checkVars, reply, worldVars>>

FailTest(s) ==
    /\ job[s] = "run"
    /\ snapshot[s] # passed[s]
    /\ \E failure \in TestFailures : result' = [result EXCEPT ![s] = failure]
    /\ Goto(s, "refresh")
    /\ UNCHANGED <<rowVars, obj, broken, snapshot, passed, reply, worldVars>>

FinishTests(s) ==
    /\ job[s] = "run"
    /\ snapshot[s] = passed[s]
    /\ Goto(s, "refresh")
    /\ UNCHANGED <<rowVars, obj, broken, checkVars, reply, worldVars>>

(* The runner itself raises, for instance from tempfile.mkdtemp.           *)
RunnerRaises(s) ==
    /\ job[s] = "run"
    /\ snapshot[s] # passed[s]
    /\ result' = [result EXCEPT ![s] = CheckError]
    /\ Goto(s, "refresh")
    /\ UNCHANGED <<rowVars, obj, broken, snapshot, passed, reply, worldVars>>

-----------------------------------------------------------------------------
(* Writing the verdict.                                                    *)

WriteRow(s, r) ==
    /\ row' = [row EXCEPT ![s] = r]
    /\ marked' = [marked EXCEPT ![s] = FALSE]
    /\ UNCHANGED formVars

(* Mutant: "errors" is missing from update_fields.                         *)
SaveTwoColumns(s) ==
    \/ /\ Present(s)
       /\ WriteRow(s, [result[s] EXCEPT !.errors = row[s].errors])
       /\ Goto(s, "done")
    \/ /\ ~Present(s)
       /\ Goto(s, "handler")
       /\ UNCHANGED rowVars

(* Mutant: a full save, which inserts the row when it is gone.             *)
SaveAllColumns(s) ==
    /\ Present(s) \/ taskAlive
    /\ WriteRow(s, result[s])
    /\ Goto(s, "done")

(* Mutant: something after the save raises.                                *)
SaveThenRaise(s) ==
    \/ /\ Present(s)
       /\ WriteRow(s, result[s])
       /\ Goto(s, "handler")
    \/ /\ ~Present(s)
       /\ Goto(s, "handler")
       /\ UNCHANGED rowVars

(* save(update_fields=...) raises DatabaseError when it updates no row.    *)
SaveColumns(s) ==
    \/ /\ Present(s)
       /\ WriteRow(s, result[s])
       /\ Goto(s, "done")
    \/ /\ ~Present(s)
       /\ Goto(s, "handler")
       /\ UNCHANGED rowVars

EarlySave(s) ==
    /\ At(s, "early")
    /\ SaveColumns(s)
    /\ UNCHANGED <<obj, broken, checkVars, reply, worldVars>>

Refresh(s) ==
    /\ At(s, "refresh")
    /\ Goto(s, IF Present(s) THEN "save" ELSE "handler")
    /\ UNCHANGED <<rowVars, obj, broken, checkVars, reply, worldVars>>

(* Mutant: the check works on the instance it shares with the request.     *)
SaveShared(s) ==
    /\ At(s, "save")
    /\ SaveColumns(s)
    /\ obj' = [obj EXCEPT ![s] = row'[s]]
    /\ UNCHANGED <<broken, checkVars, reply, worldVars>>

Save(s) ==
    /\ At(s, "save")
    /\ SaveColumns(s)
    /\ UNCHANGED <<obj, broken, checkVars, reply, worldVars>>

(* Mutant: the closure has no except block.                                *)
SaveRefusedSilently(s) ==
    /\ At(s, "save")
    /\ result[s] \in QuotesProgram
    /\ Goto(s, "gave_up")
    /\ UNCHANGED <<rowVars, obj, broken, checkVars, reply, worldVars>>

(* A NUL character in what the program printed is refused by the text and  *)
(* jsonb columns; the connection survives.                                 *)
SaveRefused(s) ==
    /\ At(s, "save")
    /\ result[s] \in QuotesProgram
    /\ Goto(s, "handler")
    /\ UNCHANGED <<rowVars, obj, broken, checkVars, reply, worldVars>>

-----------------------------------------------------------------------------
(* The except block of the closure.                                        *)

HandlerRefresh(s) ==
    /\ At(s, "handler")
    /\ \/ /\ Present(s)
          /\ obj' = [obj EXCEPT ![s] = row[s]]
          /\ Goto(s, "mark")
       \/ /\ ~Present(s)
          /\ Goto(s, "gave_up")
          /\ UNCHANGED obj
    /\ UNCHANGED <<rowVars, broken, checkVars, reply, worldVars>>

HandlerMark(s) ==
    /\ job[s] = "mark"
    /\ obj' = [obj EXCEPT ![s] = BackgroundError]
    /\ Goto(s, "report")
    /\ UNCHANGED <<rowVars, broken, checkVars, reply, worldVars>>

(* A full save inserts the row when its UPDATE finds none; the insert      *)
(* fails on the foreign key when the task is gone too.                     *)
HandlerSave(s) ==
    /\ At(s, "report")
    /\ \/ /\ Present(s) \/ taskAlive
          /\ WriteRow(s, obj[s])
          /\ Goto(s, "done")
       \/ /\ ~Present(s) /\ ~taskAlive
          /\ Goto(s, "gave_up")
          /\ UNCHANGED rowVars
    /\ UNCHANGED <<obj, broken, checkVars, reply, worldVars>>

-----------------------------------------------------------------------------
(* Failures. Nothing in a pool thread replaces a lost connection, so once  *)
(* it is lost every later statement of the job fails as well.              *)

(* Mutant: the except block tries again when it fails itself.              *)
CaughtAgain(s) ==
    /\ Goto(s, "handler")
    /\ UNCHANGED result

(* Where the exception of a failing statement is caught.                   *)
Caught(s) ==
    \/ /\ job[s] \in InTry
       /\ result' = [result EXCEPT ![s] = CheckError]
       /\ Goto(s, "refresh")
    \/ /\ job[s] \in OutsideTry
       /\ Goto(s, "handler")
       /\ UNCHANGED result
    \/ /\ job[s] \in InHandler
       /\ Goto(s, "gave_up")
       /\ UNCHANGED result

StatementFails(s) ==
    /\ job[s] \in DbSteps
    /\ broken[s] \/ s \in Faulty
    /\ \E lost \in {TRUE, broken[s]} : broken' = [broken EXCEPT ![s] = lost]
    /\ Caught(s)
    /\ UNCHANGED <<rowVars, obj, snapshot, passed, reply, worldVars>>

(* Mutant: the connection is replaced before the except block runs.        *)
SaveUnansweredReconnects(s) ==
    /\ job[s] \in Writes
    /\ ~broken[s]
    /\ s \in Faulty
    /\ Present(s) \/ (job[s] = "report" /\ taskAlive)
    /\ WriteRow(s, IF job[s] = "report" THEN obj[s] ELSE result[s])
    /\ Caught(s)
    /\ UNCHANGED <<obj, broken, snapshot, passed, reply, worldVars>>

(* The write is applied but the connection goes before the answer comes.   *)
(* Only the full save of the except block inserts a row that is gone.      *)
SaveUnanswered(s) ==
    /\ job[s] \in Writes
    /\ ~broken[s]
    /\ s \in Faulty
    /\ Present(s) \/ (job[s] = "report" /\ taskAlive)
    /\ WriteRow(s, IF job[s] = "report" THEN obj[s] ELSE result[s])
    /\ broken' = [broken EXCEPT ![s] = TRUE]
    /\ Caught(s)
    /\ UNCHANGED <<obj, snapshot, passed, reply, worldVars>>

Lose(s) ==
    /\ s \in Mortal
    /\ Live(s)
    /\ Goto(s, "lost")
    /\ UNCHANGED <<rowVars, obj, broken, checkVars, reply, worldVars>>

-----------------------------------------------------------------------------
(* The administrator, the authors and the teachers.                        *)

AdminWrite(S, columns) ==
    /\ S # {}
    /\ \A s \in S : Present(s)
    /\ row' = [s \in Subs |-> IF s \in S THEN columns[s] ELSE row[s]]
    /\ marked' = [s \in Subs |-> s \in S \/ marked[s]]
    /\ UNCHANGED <<formVars, obj, job, broken, checkVars, reply, worldVars>>

AdminMark(S, st) == AdminWrite(S, [s \in S |-> [row[s] EXCEPT !.status = st]])

ClearErrors(S) == AdminWrite(S, [s \in S |-> [row[s] EXCEPT !.errors = "none"]])

OpenForm(s) ==
    /\ Present(s)
    /\ s \notin posted
    /\ form' = [form EXCEPT ![s] = row[s]]
    /\ UNCHANGED <<row, marked, posted, obj, job, broken, checkVars, reply, worldVars>>

(* The POST loads the row first, and answers that there is none if it is   *)
(* gone.                                                                   *)
PostForm(s) ==
    /\ form[s] # Absent
    /\ s \notin posted
    /\ \/ /\ Present(s)
          /\ posted' = posted \union {s}
          /\ UNCHANGED form
       \/ /\ ~Present(s)
          /\ form' = [form EXCEPT ![s] = Absent]
          /\ UNCHANGED posted
    /\ UNCHANGED <<row, marked, obj, job, broken, checkVars, reply, worldVars>>

(* It posts every editable column, those nobody changed included, and      *)
(* saves the whole row: one that was deleted after the POST loaded it is   *)
(* inserted again, unless its task is gone too.                            *)
SaveForm(s) ==
    /\ s \in posted
    /\ \/ /\ Present(s) \/ taskAlive
          /\ \E st \in Statuses : row' = [row EXCEPT ![s] = [form[s] EXCEPT !.status = st]]
          /\ marked' = [marked EXCEPT ![s] = TRUE]
       \/ /\ ~Present(s) /\ ~taskAlive
          /\ UNCHANGED <<row, marked>>
    /\ form' = [form EXCEPT ![s] = Absent]
    /\ posted' = posted \ {s}
    /\ UNCHANGED <<obj, job, broken, checkVars, reply, worldVars>>

DeleteRow(s) ==
    /\ Present(s)
    /\ row' = [row EXCEPT ![s] = Absent]
    /\ marked' = [marked EXCEPT ![s] = FALSE]
    /\ UNCHANGED <<formVars, obj, job, broken, checkVars, reply, worldVars>>

ToggleTest(t) ==
    /\ taskAlive
    /\ active' = IF t \in active THEN active \ {t} ELSE active \union {t}
    /\ UNCHANGED <<rowVars, obj, job, broken, checkVars, reply, enrolled, taskAlive>>

ToggleEnrollment(u) ==
    /\ enrolled' = IF u \in enrolled THEN enrolled \ {u} ELSE enrolled \union {u}
    /\ UNCHANGED <<rowVars, obj, job, broken, checkVars, reply, active, taskAlive>>

(* Deleting the task, its module or its course cascades to the test cases  *)
(* and the submissions.                                                    *)
DeleteTask ==
    /\ TaskDeletable
    /\ taskAlive
    /\ taskAlive' = FALSE
    /\ active' = {}
    /\ row' = [s \in Subs |-> Absent]
    /\ marked' = [s \in Subs |-> FALSE]
    /\ UNCHANGED <<formVars, obj, job, broken, checkVars, reply, enrolled>>

-----------------------------------------------------------------------------
Request(s) == Create(s) \/ CreateUnanswered(s) \/ Enqueue(s) \/ Respond(s)

Check(s) ==
    \/ Start(s) \/ CheckEnrolled(s) \/ CourseGone(s) \/ CheckTestsExist(s)
    \/ LoadTests(s) \/ PassTest(s) \/ FailTest(s) \/ FinishTests(s) \/ RunnerRaises(s)
    \/ EarlySave(s) \/ Refresh(s) \/ Save(s) \/ SaveRefused(s)

Handler(s) == HandlerRefresh(s) \/ HandlerMark(s) \/ HandlerSave(s)

Failure(s) == StatementFails(s) \/ SaveUnanswered(s) \/ Lose(s)

Administration ==
    \/ \E S \in SUBSET Administered :
          \/ \E st \in {"pending", "accepted", "rejected"} : AdminMark(S, st)
          \/ ClearErrors(S)
    \/ \E s \in Administered : OpenForm(s) \/ PostForm(s) \/ SaveForm(s) \/ DeleteRow(s)
    \/ \E t \in Editable : ToggleTest(t)
    \/ \E u \in Movable : ToggleEnrollment(u)
    \/ DeleteTask

Next ==
    \/ \E s \in Subs : Request(s) \/ Check(s) \/ Handler(s) \/ Failure(s)
    \/ Administration

Spec == Init /\ [][Next]_vars

(* The pool hands every queued closure to a thread, and a thread that has  *)
(* one works on it until it ends: executor.submit and the closure's own    *)
(* code never wait for anything but the database and the program under     *)
(* test, which the runner kills after its timeout.                         *)
Fairness ==
    \A s \in Subs :
        WF_vars(Enqueue(s) \/ Check(s) \/ Handler(s) \/ StatementFails(s))

FairSpec == Spec /\ Fairness

-----------------------------------------------------------------------------
(* Correctness. TypeOK above is the type invariant.                        *)

(* A verdict nobody edited says "accepted" only when the program passed    *)
(* every test case the check loaded (execute_submission_check breaks out   *)
(* of its loop at the first one it does not pass).                         *)
AcceptedMeansPassed ==
    \A s \in Subs :
        (row[s].status = "accepted" /\ ~marked[s]) => passed[s] = snapshot[s]

(* "All tests passed" is said of a program that passed at least one. The   *)
(* code does not keep this: exists() and the loop are two queries.         *)
AcceptedMeansTested ==
    \A s \in Subs :
        (row[s].status = "accepted" /\ ~marked[s]) => passed[s] # {}

(* The three columns of a row the administrator has not written belong to  *)
(* one report: a verdict written over an administrator's half-edited row   *)
(* leaves none of the old columns behind.                                  *)
CoherentRow ==
    \A s \in Subs :
        (Present(s) /\ ~marked[s]) => row[s] \in Reports

(* A row stays pending without a job only for a reason: its process died,  *)
(* its statements failed, or the administrator set it back.                *)
PendingHasReason ==
    \A s \in Subs :
        row[s].status = "pending" =>
            \/ Live(s)
            \/ marked[s]
            \/ job[s] = "lost" /\ s \in Mortal
            \/ job[s] \in {"gave_up", "orphaned"} /\ s \in Faulty

(* The 202 response never names a verdict of the check: the check works on *)
(* an instance of its own, and only the except block of the closure writes *)
(* the shared one.                                                         *)
ReplyIsNoVerdict ==
    \A s \in Subs :
        reply[s] \in {"accepted", "rejected"} => s \in Administered

(* Whatever fails after a verdict is stored, the grader does not store a   *)
(* second one: a stored verdict changes only by the administrator's hand.  *)
VerdictStandsStep ==
    \A s \in Subs :
        (row[s] \in FinalReports /\ ~marked[s] /\ row'[s] # Absent /\ ~marked'[s])
            => row'[s] = row[s]

VerdictStands == [][VerdictStandsStep]_vars

(* A row that was deleted is never brought back by a verdict about the     *)
(* program. Two full saves do bring it back, both only while its task      *)
(* exists: the report of a check that raised, and a change form whose POST *)
(* had loaded the row before it was deleted.                               *)
ReturnsAsReportStep ==
    \A s \in Subs :
        (row[s] = Absent /\ row'[s] # Absent /\ job[s] # "idle") =>
            /\ taskAlive
            /\ \/ row'[s] = BackgroundError /\ ~marked'[s]
               \/ s \in posted /\ s \notin posted' /\ marked'[s]

ReturnsAsReport == [][ReturnsAsReportStep]_vars

(* How many statements of a job are left at most.                          *)
Remaining(place) ==
    CASE place = "idle"    -> 13
      [] place = "created" -> 12
      [] place = "queued"  -> 11
      [] place = "enroll"  -> 10
      [] place = "exists"  -> 9
      [] place = "load"    -> 8
      [] place = "run"     -> 7
      [] place = "refresh" -> 6
      [] place = "save"    -> 5
      [] place = "early"   -> 5
      [] place = "handler" -> 4
      [] place = "mark"    -> 3
      [] place = "report"  -> 2
      [] OTHER             -> 0

(* Nothing is tried twice: whatever fails, also in the except blocks, a    *)
(* job never goes back to an earlier statement, a test case is run at most *)
(* once, and the test cases do not change under the loop. So a job that    *)
(* goes on ends, which fairness alone would not give.                      *)
ForwardStep ==
    \A s \in Subs :
        \/ Remaining(job'[s]) < Remaining(job[s])
        \/ /\ job[s] = "run" /\ job'[s] = "run" /\ snapshot'[s] = snapshot[s]
           /\ \E t \in snapshot[s] \ passed[s] : passed'[s] = passed[s] \union {t}
        \/ UNCHANGED <<job[s], snapshot[s], passed[s]>>

ForwardOnly == [][ForwardStep]_vars

(* A check whose row is inserted ends, whatever fails, and without faults  *)
(* and edits it leaves a verdict.                                          *)
VerdictArrives ==
    /\ \A s \in Subs \ Mortal :
          job[s] = "created" ~> job[s] \in {"done", "gave_up"}
    /\ \A s \in Subs \ (Mortal \union Faulty) :
          row[s].status = "pending" ~> (row[s].status # "pending" \/ marked[s])

(* The detailed specification implements the abstract one. Once its        *)
(* connection is lost a job cannot write any more: it is closed there.     *)
phaseBar ==
    [s \in Subs |->
        IF job[s] = "idle" THEN "unborn"
        ELSE IF Live(s) /\ ~broken[s] THEN "open" ELSE "closed"]

Lifecycle == INSTANCE SubmissionLifecycle
    WITH status <- [s \in Subs |-> row[s].status], edited <- marked, held <- posted,
         phase <- phaseBar

ImplementsLifecycle == Lifecycle!Spec

=============================================================================
