# omuzon in TLA+

omuzon is a Django service for programming courses: students enroll, submit
code for tasks, and a background check runs the code against the task's test
cases and stores a verdict. This directory holds TLA+ models of its core, the
TLC configurations that check them, and proofs checked by TLAPS. Paths below
are relative to `src/`.

## 1. Inventory

| Part | State | Operations | Where |
|---|---|---|---|
| Submitting | one row per submission | `submit_code`: task, enrollment, olympiad window, limit, INSERT, hand-over to the pool, 202 | `submissions/views.py` |
| Grading | `status`, `feedback`, `errors` of the row; the Python instance shared by request and closure | `execute_submission_check`; the closure's except block; the admin's actions and change form | `submissions/tasks.py`, `views.py`, `admin.py` |
| Pool | a queue and up to ten threads per worker process, a database connection per thread | `get_executor`, `submit`, thread loop, recycling, kill | `submissions/views.py`, `gunicorn_config.py` |
| Runner | a work directory and a process group per run | `_run`, one function per language, dispatch | `submissions/docker_runner.py` |
| Comparison | none | `normalize_output`, `_clip`, the stripping of the form | `tasks.py`, `docker_runner.py`, `customadmin/forms.py` |
| Standings | none of its own: computed from submissions and the clock | leaderboard with freeze, solved tasks, progress, profile | `courses/views.py`, `courses/serializers.py`, `accounts/views.py` |
| Registration | pending verifications, users, profiles | register, verify, Google sign-in, two logins, resend (not routed) | `accounts/` |
| Enrollment | enrollments with a status | enroll, bulk decision, form of the admin, exam access | `courses/views.py`, `courses/admin.py`, `customadmin/views.py` |
| Authoring | tasks with an order, test cases | create, reorder, edit, delete | `customadmin/views.py`, `customadmin/forms.py` |
| Celery | none | two tasks nobody calls | `core/celery.py`, `tasks.py` |

How the parts interact. A POST is served by one of several synchronous gunicorn
processes. It reads the task, the enrollment and the recent submissions, inserts
a row with status `pending`, hands a closure to the thread pool of its own
process and answers 202. A pool thread runs the closure: it loads the row again,
reads the test cases, calls the runner once per test case and writes the
verdict. Everything else (the client's polling, the leaderboard, progress, the
admin) only meets the grading in the row. Students enroll and staff decide on
their applications, which opens exams and `submit_code` to them; authors change the
tasks and test cases that submissions and checks read. The database is PostgreSQL
in autocommit mode: two statements are two transactions, unless the code says
`transaction.atomic` (reordering, `save_task`).

Why this is hard. No step locks anything, so that every pair of statements can
be separated by another process, by a pool thread or by the staff. The queue of
checks lives in memory, and processes are recycled and killed. Pool threads never
renew a lost connection. The request and the closure share a Python object. The
verdict of a submission is not only its status: the board is computed from
whatever the rows say at the moment of asking.

What makes each part correct:

- grading: a verdict is stored once, belongs to the run that produced it, and a
  row stays `pending` only for a reason;
- pool: a check is in one place, and is lost only by a fault;
- comparison: a correct output passes as far as it fits into the limit, a wrong one does not;
- submitting: the limit and the window hold up to the requests in flight;
- runner: the result says what happened, and a call gives its thread back in time;
- standings: the views agree for whoever sees the course and is enrolled in it, and a frozen board shows nothing submitted in the freeze;
- registration: one account per address, with the password of the registration
  whose code was used, and no address locked out;
- enrollment: the page of an exam opens by the staff's last word, and requests
  that meet are all answered;
- authoring: the order of a module's tasks is a numbering, and reorderings that meet
  neither mix nor wait for ever.

The hazards behind these are listed with their lines in `PROJECT.json`.

## 2. Modules

| Module | Models | Kind |
|---|---|---|
| `SubmissionLifecycle` | what a submission promises | abstract specification |
| `SubmissionCheck` | a submission from its INSERT to its verdict | detailed specification, refines the former |
| `CheckPool` | queues, threads, connections, processes | specification |
| `OutputCheck` | the text of one test | pure algorithm with a reference definition |
| `SubmitGate` | the statements of a POST before and with the INSERT | specification |
| `Runner` | calls of the local runner and the processes they start | specification |
| `Standings` | leaderboard, page of a course, profile | specification |
| `Registration` | registrations, codes, accounts, logins | specification |
| `Enrollment` | applications for a course and who decides on them | specification |
| `Authoring` | the order of the tasks of a module | specification |
| `MC_*` | constants for TLC | |
| `*Proofs` | theorems about the module of that name; those about `OutputCheck` are in `RunnerProofs` | TLAPS |

### SubmissionCheck

`row[s]` holds the three verdict columns, `obj[s]` the instance that `submit_code`
and its closure share, `job[s]` the statement the closure executes next (or how it
ended), `result[s]` the local variables `status_result`, `feedback` and `errors`,
`snapshot[s]`/`passed[s]` the test cases loaded and passed, `broken[s]` that the
thread's connection is gone. `form[s]` is an open change form of the admin;
`posted` has the forms whose POST has loaded the row and not saved it yet.
`active`, `enrolled` and `taskAlive` are what teachers and authors change.
`marked[s]` is a history variable: the last write to the row was the
administrator's. Texts are named by what they say (`AllPassed`, `WrongAnswer`, ...).

Every database statement is an action. `Start` .. `Save` follow
`execute_submission_check`; `Handler*` the except block of `run_task_directly`;
`Caught` says which block catches the exception of a failing statement: the
`try` around the loop, the closure's `try`, or its inner `try`. A statement may
fail with or without the loss of the connection, and a write may be applied
although its answer is lost (`SaveUnanswered`), the INSERT of a full save included. `SaveRefused` is the refusal of a
NUL character by the text and jsonb columns, possible when the report quotes
what the program printed. `HandlerSave` is a full save, which inserts a row that
was deleted after `HandlerRefresh` (its foreign key permitting). The change form of the
admin does the same in two statements: `PostForm` loads the row, `SaveForm` writes all of
it, with any status and otherwise what the form showed, over whatever is there or over
nothing. `SubmissionLifecycle` therefore knows two ways back for a deleted row, `Revive`
and `PutBack`, and `ReturnsAsReport` says that there is no third. `DeleteTask` cascades.
The branch for an unknown status of the runner (tasks.py:134-144) is dead code:
the runner has no such result. The enrollment that `Create` relies on was read
earlier by the request and may be gone.

### CheckPool

One record of state per process: what it serves (`request`), its executor's
`queue`, what each thread works on and that thread's connection. `Spawn` is the
executor's decision to create a thread; its count of idle threads may be too high,
because a thread announces itself before it has looked at the queue again, and the
model allows both outcomes whenever the pool has a thread. `Finish` stands for a
check that stores something, `Fail` for one whose statements do not reach the
database, the except block's included. `Recycle` and `Exit` are `max_requests`: the
interpreter joins the pool's threads before it exits, the `shutdown(wait=False)`
registered with `atexit` runs after that. `Kill` may come at any time.

### OutputCheck

Texts are sequences over a blank, CR, LF and visible characters. `Enter` strips
the expected output as the form field does, `Run` reads the output in text mode,
cuts and strips it, `Compare` applies `normalize_output` to both. To replace CR LF is
to keep (`Kept`) the positions that are no CR before LF; to split is to cut
(`Cuts`) at every LF: the `n`-th line lies between two neighbouring cuts, found with
`Nth` and `Rank`. Without recursion all of it can be reasoned about. The reference
definition (`Content`, `Body`) does not strip or split: it is the set of
characters with their line and column that some visible character follows on
their line. `Fits` says that no visible
character stands beyond the cut. `ExactOutputPasses` needs it: the code cuts before it
strips, so that white space can carry the end of a correct output beyond `MAX_OUTPUT`, and
such an output is rejected (`docker_runner.py:137`). `PassedMeansSameBody` speaks of what
the cut has left.

### SubmitGate

One action per statement of `submit_code` up to the INSERT. The course is loaded
with the task (`seen[r]`), the clock is read once (`now[r]`) for window and limit, the
row is stamped (`stamp[r]`) before it is inserted. At most `Workers` requests are in
flight, because the gunicorn workers are synchronous. The staff edits and deletes
courses, enrollments come and go, a worker may be killed.

### Runner

`place` is what the thread in `run_code_in_docker` does next. `leader` is the process
that `Popen` started, `group` the kinds of other processes in its process group and
`escaped` of those that have made a session of their own: some hold the ends of the pipes
(`holding`), others do not (`quiet`). `communicate` returns when the leader has ended and
nobody holds a pipe (`Collect`), raises when the input or the output cannot be encoded or
decoded (`Refuse`), or gives up when the time is over (`Expire`). However a stage ends,
`_run` waits for nobody any more (`Leave`). Only `Expire` kills, and only the process
group: "so timeout kills child processes too" (`docker_runner.py:16`) holds for the group,
not for a program that has called `setsid`, and after `Refuse` even the leader runs on.
Such processes hold no pipe of a later stage and go on outside the model. What the model
keeps is what the grader depends on: that whoever holds a pipe, inside the group or
outside, keeps the call no longer than its timeout (`CallIsShort`, `CallReturns`;
`elapsed` is a history variable). `Decide` is what the callers of `_run` do with the result
of a compiler. `Cleanup` is the finally block; `rmtree` ignores errors, so that a directory
may stay behind once something has run in it. The numbers of the limits are not
modelled: `Exit` lets a program end at any time, at a limit or by itself.

### Standings

`row[s]` has what the queries read of a submission: status, user, `created_at`. The
leaderboard is read by one visitor in four steps, as `OlimpiadLeaderboardView` does:
course, clock and cutoff, users, rows in their order; users with equal rows come in
any order. The page and the profile are operators, each translated from its own
code. The page (`SubmissionsMap`) shows no submissions for an exam to a user who has no
access to it (`ExamAccess`), while `submit_code` takes submissions from a pending student
and the leaderboard counts them; the profile (`ProfileSolved`) goes through the courses a
user is enrolled in at the moment, and forgets one that he has been removed from.
`CountsAgree` says that nothing else makes the three differ. `ChangeEnrollment` moves the
enrollment of a user in `Movable` to any status, because `Enrollment` shows how that
comes about, and `Submit` needs none: it was read in an earlier statement. `Submit` takes from `SubmitGate` how late a row may be stamped and stored,
`Verdict` from `SubmissionCheck` that a verdict is stored once. Deleting users, tasks
or rows is left out; the administrator's writes to rows are in `SubmissionCheck`.
The page of an olympiad says "Результаты зафиксированы" after the end
(views.py:86); the leaderboard is fixed only once all checks have ended
(`FinalBoardSettles`). The documentation promises a 400 for the leaderboard of a course that
is no olympiad (`API_TZ_FOR_FRONTEND.md:551`); the code has no such branch and answers with
a board over all submissions, which the model follows: the exam of the run is such a course.

### Registration

`verification[r]` is the row that registration `r` inserted, so that its primary key, its
code and its password are all named by `r`; that two codes of one address coincide is
neglected. `place[r]` and `entry[v].place` are the next statements of a registration and
of a request that enters a code; `code` is the row in its memory, which may have been
replaced in the database since. `CreateUser` fails on the unique columns, `MarkUsed` is
a full save that inserts a deleted row again. Every statement may fail for the loss of a
connection: `CreateProfile` and `SetPassword` have a branch for it, the latter another
one between the two statements of `user.save()` (the row, and by the signal the profile);
all other places have `BreakRegister` and `BreakVerify`, which stand for a killed process too.
`lost` has the verifying requests that this has happened to. Staff deletes verifications
(`AdminDelete`), users with their profiles and profiles alone (`AdminDeleteUser`,
`AdminDeleteProfile`; `removed` is a history variable), and a verifying request whose user
is deleted between its statements inserts it again. `GoogleSignIn` is `get_or_create`, one
transaction, which gives the account its address as its name. Ten minutes pass at any
time (`Expire`).

Addresses are compared in three ways. The checks and the unique columns take them as they are
spelled. `create_user` puts the domain into small letters (`Normal`, `Address`), so that an
account may come about under another spelling than the one that was checked; there the unique
column refuses. The login of the API compares with `email__iexact` (`Fold`). `Found` and
`DashboardFound` are whom the two logins look up: the first by name or address in one query,
which raises when it finds two, the second by name and, if there is none, by address. Two
accounts whose addresses differ only in case are possible, and then the first login fails for either address;
`GoogleLoginFindsAddress` says that this is the only way in which it finds somebody else
besides one who came with Google.

### Enrollment

One course and the applications for it, numbered by their primary keys: `status[i]` is
the column, `None` without a row, and numbers never return. `place[e]` is the next
statement of a call of `EnrollView`: the course, then the three of `get_or_create`
(`Select`, `Insert`, `SelectAgain` after an `IntegrityError`). `page[p]` is what a page of
applications lists in a browser: `Decide` is the bulk UPDATE with any of its boxes ticked,
however old it is. `form[g]` is a change form of the Django admin, which loads the row on POST
and saves it as a whole; a row deleted in between is inserted again. Applications
and the course can be deleted, the course made an exam or a plain one.
`decision` and `deleted` are history variables: what the staff last said of an application, and
during which requests something was deleted. `ExamAccess` is translated from the page of
the course, and the claim about exams is about that page: `modules/<id>/` and `tasks/<id>/`
(`courses/urls.py:22-23`) serve tasks to anybody, and `submit_code` accepts the
submissions of a pending student.

### Authoring

`order[t]` is the committed column of a task. A reordering checks its list with one
query outside the transaction (`CheckList`), then writes the rows in the order of the
list: `todo[r]` is what is left to write, `draft[r]` the rows it has written and holds
locked until `Commit`. An `Update` of a row in another's draft waits; `Deadlock` is
PostgreSQL's choice of one of those that wait in a circle (`InCircle`), whose `atomic()` rolls back.
`ReadMax` and `Insert` are `TaskCreateView`: the greatest order is read in the transaction
that inserts, which keeps nobody else from reading it too. `SaveTask` saves every column
of the row that `LoadTask` has loaded, its order included, and inserts a row that was
deleted since. `outdated` and `last` are history variables: tasks whose order rests on
an outdated reading, and the list of the last reordering that committed. A
reordering takes the tasks its list did not know of as outdated, because what it
writes has nothing to do with theirs.

## 3. Runs

| Run | Bounds | Shows |
|---|---|---|
| `SubmissionCheck_one` | one submission, two test cases of which one is switched, every fault and edit on | accepted only after all loaded tests; rows are coherent; verdicts stand; deleted rows return only as reports of failed checks or from an open form; nothing is tried twice; refinement of `SubmissionLifecycle` |
| `SubmissionCheck_live` | two submissions, one with failing statements | checks end, verdicts arrive, a pending row has a reason, the reply is no verdict |
| `SubmissionCheck_vacuous` | as the first, without faults | violated: accepted without one test |
| `CheckPool` | two processes of two threads, three submissions, outages, one process that may be killed | no duplicate, no loss without a fault; a queue has a living process and a thread, and moves |
| `OutputCheck` | expected outputs up to 3, printed ones up to 5, cut at 4 characters | what fits passes just when the reference definition says so; nothing passes that differs from it after the cut |
| `SubmitGate` | four requests of two users, two workers, limit 1, three clock values | the limit and the end hold up to the requests in flight |
| `Runner` | one language of each sort, a timeout of two ticks | every call returns, within one timeout per stage; the status names the stage |
| `Standings` | two submissions of two users for one task, three courses (one an exam) and one edit, the owner and a student whose enrollment changes, clock 0 to 4, freeze of 2 | leaderboard, page and profile agree where they should; the freeze hides what is submitted in it and is lifted; nobody falls back |
| `Registration` | three registrations for two addresses, one of them in two spellings, under a name and one of the addresses, two verifying requests, one address whose account staff deletes | accounts are complete unless a process is killed, a statement fails or staff deletes the profile, and carry the data of the code that was entered; a login for one who came with Google finds him, and nobody by name |
| `Enrollment` | three requests of two students, one page, one form, three applications | the page of an exam opens just by the staff's last word; a request fails only by a deletion |
| `Authoring` | two tasks, two reorderings with six lists, two creations, one edit, one deletion, one process that may be killed | equal orders only by outdated readings; reorderings do not mix; of those that wait one can go on or is in a circle; nobody waits for ever |
| `Registration_mail` | the same | violated: "code already sent" is said after a mail that failed |

Why the bounds are enough. Submissions do not meet in `SubmissionCheck` except in the
bulk actions of the admin and the common test cases: one submission carries all
the interleavings of its own, two suffice for the reply and for progress. In
`CheckPool` three submissions fill two threads and leave one in the queue, and two
processes let one be recycled while the other serves. Five printed characters
hold two lines with blanks on either side of a visible character, with the cut
inside. In `SubmitGate` three requests of one user exceed what limit 1 and two
workers allow, the fourth is another user's; the clock passes start and end.
`Runner` makes calls without end, so that what one leaves behind meets the next. In
`Standings` two submissions are two tries of one user or one of each of two users;
the clock passes freeze, end and the tick after, and the courses have their freeze
inside the window, before its start, and none; the exam is seen by its owner, and by a student
in each status of his enrollment. In `Registration` two registrations
share an address and two a name, and one name is the address that the third spells with a capital
domain, so that an account, a sign-in and a name can each have one of the spellings; a verifying
request can be overtaken by another. Switching one of two test cases is enough for
`SubmissionCheck_one`, as the set may also begin without it; an empty set is the matter of
`SubmissionCheck_vacuous`. In `Enrollment` two requests of one student race
and a third number is left for the application that he makes after a deletion, which the
old page does not list. In `Authoring` two lists in opposite order make the circle, a
list may lack a task or name one twice, and two creations can read one greatest order.
`MaxOrder` 3 binds only a creation after a greatest order of 3, which in the model waits.

Fairness. `SubmissionCheck` assumes that a thread goes on with the job it has:
its statements return or raise, and the runner ends every program at its timeout.
Nothing is assumed about requests being answered, about faults, or about people.
`CheckPool` assumes that threads are scheduled and that the arbiter of gunicorn
replaces a process that is gone; it does not assume that the database returns.
`Runner` assumes that the thread goes on and that time passes, nothing about the
programs and nothing that raises. `Standings` assumes that the clock runs, that checks end (`CheckPool`: unless
their process is killed) and that a visitor goes on reloading, which is part of what
`FinalBoardSettles` says. `Authoring` assumes that a request which waits for no lock goes
on, and that PostgreSQL looks for circles (`deadlock_timeout`); nothing is assumed of
teachers, and a request of a killed process counts as ended, because the database
rolls it back. `SubmitGate`, `Registration` and `Enrollment` are checked for safety
only. Deadlock is not checked where the system may stop: when every submission or
request of the instance has been made and answered.

Some sentences of the documentation say more than the code does; the properties
state what is left of them, and the sections on `Runner` and `Standings` name two more. `README.md:63` speaks of a Celery queue, and
`core/settings.py:203` of sending a check again when its worker is lost, but checks are
queued in the memory of the process (`submissions/views.py:152`), and
`LostOnlyByFault` names the faults that lose them. `API_TZ_FOR_FRONTEND.md:819` promises
ten submissions a minute, but the count (`views.py:105`) and the INSERT (`views.py:118`)
are separate statements, and `RateSlack` says how far the limit holds.

## 4. Proofs

`SubmissionCheckProofs` proves for any sets of submissions, tests and users, any
faults and any edits: `TypeCorrect`, `Acceptance`, `Coherence`, `PendingExplained`,
`ReplyHonest`, `Finality`, `Resurrection`, `Forward` and `Refinement`, from the assumptions
on the constants alone. None of the invariants is inductive as it stands. `IInv` adds to `TypeOK`,
for every submission, what the place of its job implies: an unborn submission
has no row; a job that is about to write has a final report in hand, and one that
says "accepted" has passed its snapshot; a job in its except block has a shared
instance ready to save; a row that is still `pending` and unmarked belongs to a
live job or to one that ended for a reason; an open form is that of a
submission that has been made, and a posted one is open (`Opened`); while a job may still write, its row
is not a verdict of its own unless its connection is lost. The last part is what
makes a verdict final: `SaveUnanswered` stores a verdict and sends the job to the
except block, but on a connection that carries no further write. TLC checked
`IInv` before it was proved. The proof has one lemma per kind of step (`Elsewhere`
for the submissions a step does not touch, `Here` for the one it does,
`AdministrationGood` for the staff), and the refinement maps each step to `Submit`,
`Decide`, `Revive`, `Abandon`, `Edit`, `Hold`, `PutBack`, `Remove` or a stutter. `Forward` is the part of the
termination of a check that needs no fairness: `Remaining` falls with every step of a job but
the runs of its test cases, and these use up the ones that were loaded (`JobForward`, one case
per action; `JobElsewhere`). With it fairness is all that `VerdictArrives` takes from the run.

`RunnerProofs` proves `TypeCorrect`, `ShortCalls` (`CallIsShort`) and `StatusHonest` for any languages
and any timeout. `CallIsShort` becomes inductive with `Timed`: what a call has waited is the time of the stage
under way and at most one timeout for the compiler before it. `StatusNamesStage` speaks only of finished calls; the inductive
invariant says in addition what is known of a result before: while it waits for
`Decide` it is one of `_run`, which knows no compile errors, and it belongs to a stage.

The same module proves `TextsCorrect`, `ExactPasses` and `OnlySamePasses` about `OutputCheck`,
for texts of any length over any characters and any limit: where the run compares
with the reference over bounded texts, the theorems do for all. The argument is about
positions. `Rank` and `Nth` are inverse and monotone (`NthRank`, `NthOfRank`, `NthMonotone`);
keeping positions and cutting at them therefore relates every character of a line to one place
of the text and back (`InLine`, `FromLine`). From this a normalised text is described by its
`Content` (`NormalForm`, `ContentOfLines`, `SameTriples`, `EqualWhenSameContent`), and
stripping, reading and cutting leave the `Body` as it is (`StripKeepsBody`, `ReadIsClipped`), the cut only when what it takes away is white
(`FittingCut`).
`TextInv` says of every state of the run which column already holds a stripped text, and
`VerdictOfBodies` joins the two halves: the comparison says "passed" just when the bodies
agree.

`CheckPoolProofs` proves `TypeCorrect`, `Once`, `Staffing` (`QueueHasThread`) and the action
property `Losses` for any processes, threads and submissions. `OnePlace` alone is not inductive: a request could
hand over a submission that a pool already has. `IInv` adds that only stored rows are in a
pool or in a request (`Known`) and that no two processes serve the request of one
submission (`OneRequest`). `Staffing` needs to know besides (`Staffed`) that only a
serving process holds a request and that a process which is down has an empty queue: the
executor may take a busy thread for an idle one and create none, but never the first.

`SubmitGateProofs` proves `TypeCorrect`, `Rate` and `Late` for any requests, users, courses,
limit and number of workers. Both bounds count the rows that there are; the invariant
counts with them the requests that may still insert one. A request joins that count
when it passes the limit, having seen fewer than `Limit` rows of the minute; the others it
did not see are of requests in flight, at most `Workers - 1`. The steps of a request that
has passed only move it within the count or out of it.

`StandingsProofs` proves `TypeCorrect`, `Agreement` (`CountsAgree`), `NeverBack`
(`NobodyFallsBack`), `Freezing` (`FreezeHides`) and `Gapless` (`GapIsLateRow`) for any users, tasks, submissions,
courses, freeze and lag. The first two need no more than `TypeOK`. For `NeverBack` the invariant remembers
how the present board came about (`Memory`): as long as the course is not edited there is a
cutoff, not later than that of a request under way, at which everybody on the board was counted with no
fewer solved tasks. Cutoffs grow with the clock (`CutoffGrows`), a later cutoff counts no less
((`LaterCounts`), and rows and verdicts take nothing away (`RowsGrow`).
`Gapless` rests on `LoadedAll`: until a row comes late, the users a request has loaded are those of
the rows it is going to rank. Their ranks, no two alike, are then all the numbers from one on
(`RanksWithoutGap`).

`RegistrationProofs` proves `TypeCorrect`, `Complete`, `Used`, `OfItsCode` and `GoogleLogin` for any
registrations, addresses, names and requests. `IInv` says for every request
how far the account it creates has come (`Entry`), and for every account what its creator
has reached (`Owned`), unless one of them has failed or staff has deleted something; that a Google account is
named by its address. The cases share three lemmas: one for a statement that writes the row of a
user (`RowWritten`), one for the end of a request (`EntryEnds`), one for what staff deletes
(`AdminDeletePreserves`).

`EnrollmentProofs` proves `TypeCorrect`, `Access` and `Answers`. `IInv` says that a row has the status last said of it and that a number
that is still to be given is on no page and in no form (`Decided`); and that a request which misses the
course or the row that refused its own has met a deletion (`Expected`).

`AuthoringProofs` proves `TypeCorrect`, `Numbering`, `Reordering` and `DeadlockFree`
(`NobodyStuck`) for any tasks, lists and requests. `IInv` says that a transaction's list has no repetitions and that what it
has written exists until it ends (`Transaction`), and that a task is unknown to everybody before its INSERT
(`Unborn`). `DeadlockFree`: if every transaction under way waits, each waits for another; as they are
finitely many (`FinitelyMany`, because requests start one by one), a smallest set of them that is closed
under waiting exists and is a circle (`CircleExists`), which the database finds.

The type invariants of `SubmissionCheck`, `CheckPool`, `Enrollment`, `Authoring` and `OutputCheck` are proved
and not repeated in the runs.

Only model-checked: liveness, which is out of the prover's reach (`VerdictArrives`, `QueueMoves`,
`CleanProcessDecides`, `CallReturns`, `FinalBoardSettles`, `RequestsEnd`), and the two
properties that the code violates. Every other property of the runs is a theorem.

## 5. Not modelled, and the plan

Celery is configured but nothing is ever sent to it. `run_code` stores nothing.
`sandbox/` is not reached from the application. Templates, routes and deployment
have no state of their own. Of the parts that are modelled, these things are left out:

- `CheckPool`: two threads of the development server that find no executor and create
  one each;
- `Runner`: the numbers of the limits, and whether the limit of CPU time or the timeout of
  `communicate` (both two seconds) ends an endless loop first; `wrap_csharp_code`;
- `SubmissionCheck`: a submission that an administrator moves to another user or task in the form,
  or whose code he edits;
- `Standings`: days, percentages and lists of submissions in the responses; deletions of rows, tasks
  and users;
- `Registration`: avatars, tokens, users, profiles and verifications that staff edits or adds, two equal codes,
  `ResendCodeView`, which has no route;
- `Enrollment`: the deletion of a student; an administrator who moves an application to another user or course; a second
  course;
- `Authoring`: orders typed into the Django admin, tasks moved to another module, the deletion of a
  module, the formset of the test cases (switching them is a step of `SubmissionCheck`).

What could be added next, in this order: the creation of the executor as a step of
`CheckPool`, the formset of test cases against a running check, a second course in
`Enrollment`.

Seen while modelling, without a run of its own: the outputs are stripped at both
ends although the header of `tasks.py` names only line ends, blanks at the ends of
lines and empty lines at the end; callers pass a timeout of 2 to C#, whose own
default is 20; a registration whose name is taken before its code is entered blocks
its address; `TaskSerializer` without a map counts with a query of its own.
