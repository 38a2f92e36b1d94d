----------------------- MODULE SubmissionCheckProofs -----------------------
(***************************************************************************)
(* What SubmissionCheck promises for any submissions, tests and users.     *)
(***************************************************************************)
EXTENDS SubmissionCheck, TLAPS

-----------------------------------------------------------------------------
(* The inductive invariant, in parts, each about one submission.           *)

(* The row exists only once the request has created it.                    *)
Unborn(s) == job[s] = "idle" => row[s] = Absent

(* A job about to write its verdict has one, and "All tests passed" only   *)
(* after the loop has run out of test cases.                               *)
ResultReady(s) ==
    /\ job[s] = "early" => result[s] \in {NotEnrolled, NoTests}
    /\ job[s] = "run" => result[s] = AllPassed
    /\ job[s] \in {"refresh", "save"} =>
          /\ result[s] \in FinalReports
          /\ result[s] = AllPassed => passed[s] = snapshot[s]

ReportReady(s) == job[s] = "report" => obj[s] = BackgroundError

Coherent(s) == row[s] # Absent /\ ~marked[s] => row[s] \in Reports

Honest(s) == row[s] = AllPassed /\ ~marked[s] => passed[s] = snapshot[s]

(* Whoever has stored a verdict is finished, or has lost the connection    *)
(* with which it could store another. It never loads test cases again.     *)
Settled(s) ==
    row[s] \in FinalReports /\ ~marked[s] =>
        \/ job[s] \in Ended
        \/ job[s] = "handler" /\ broken[s]

(* The other direction: a job that ended without a fault left a verdict.   *)
Decided(s) ==
    (/\ job[s] = "done" \/ (job[s] = "gave_up" /\ s \notin Faulty)
     /\ row[s] # Absent
     /\ ~marked[s])
        => row[s] \in FinalReports

(* Faults and marks happen only where the constants allow them.            *)
Blame(s) ==
    /\ broken[s] => s \in Faulty
    /\ marked[s] => s \in Administered
    /\ job[s] = "lost" => s \in Mortal
    /\ job[s] = "orphaned" => s \in Faulty

(* What the shared instance may show to the request.                       *)
Shows(s) ==
    /\ job[s] \notin {"idle", "orphaned"} => obj[s] # Absent
    /\ obj[s].status \in {"accepted", "rejected"} => s \in Administered
    /\ reply[s] \in {"accepted", "rejected"} => s \in Administered

Good(s) ==
    /\ Unborn(s)
    /\ ResultReady(s)
    /\ ReportReady(s)
    /\ Coherent(s)
    /\ Honest(s)
    /\ Settled(s)
    /\ Decided(s)
    /\ Blame(s)
    /\ Shows(s)

(* A change form is opened on a row that exists, and stays open while its  *)
(* POST is under way.                                                      *)
Opened(s) ==
    /\ form[s] # Absent => job[s] # "idle"
    /\ s \in posted => form[s] # Absent

IInv ==
    /\ TypeOK
    /\ \A s \in Subs : Good(s)
    /\ \A s \in Subs : Opened(s)

-----------------------------------------------------------------------------
(* Lemmas about reports, so that the proofs below need not open them.      *)

LEMMA FinalReportFacts ==
    /\ FinalReports \subseteq Reports
    /\ TestFailures \subseteq FinalReports
    /\ {NotEnrolled, NoTests, AllPassed, CheckError, BackgroundError} \subseteq FinalReports
    /\ InProgress \in Reports
    /\ InProgress \notin FinalReports
BY DEF FinalReports, Reports, TestFailures, InProgress, NotEnrolled, NoTests,
       AllPassed, Timeout, CompileError, RuntimeError, WrongAnswer, CheckError,
       BackgroundError, Report

LEMMA ReportStatus ==
    /\ \A r \in FinalReports : r.status \in Verdicts
    /\ \A r \in Reports : r.status = "accepted" => r = AllPassed
    /\ \A r \in Reports : r.status = "pending" => r = InProgress
    /\ InProgress.status = "pending"
    /\ Absent.status = "absent"
    /\ BackgroundError.status = "error"
    /\ AllPassed.status = "accepted"
    /\ AllPassed \notin TestFailures \union {NotEnrolled, NoTests, CheckError, BackgroundError}
BY DEF FinalReports, Reports, TestFailures, InProgress, NotEnrolled, NoTests,
       AllPassed, Timeout, CompileError, RuntimeError, WrongAnswer, CheckError,
       BackgroundError, Report, Verdicts, Absent

LEMMA ReportsAreRows ==
    /\ Reports \subseteq Rows
    /\ Absent \in Rows
    /\ Absent \notin Reports
<1>1. \A r \in Reports : r = [status |-> r.status, feedback |-> r.feedback, errors |-> r.errors]
  BY DEF FinalReports, Reports, TestFailures, InProgress, NotEnrolled, NoTests,
       AllPassed, Timeout, CompileError, RuntimeError, WrongAnswer, CheckError,
       BackgroundError, Report
<1>2. \A r \in Reports : r.status \in Statuses
  BY FinalReportFacts, ReportStatus DEF Reports, Statuses
<1>3. \A r \in Reports : r.feedback \in Feedbacks /\ r.errors \in Errors
  BY DEF Feedbacks, Errors
<1>4. Absent \notin Reports
  BY <1>2, ReportStatus DEF Statuses, Verdicts
<1> QED BY <1>1, <1>2, <1>3, <1>4 DEF Rows

LEMMA RowEdits ==
    ASSUME NEW r \in Rows, r # Absent
    PROVE  /\ r.status \in Statuses
           /\ \A st \in Statuses : [r EXCEPT !.status = st] \in Rows \ {Absent}
           /\ [r EXCEPT !.errors = "none"] \in Rows \ {Absent}
           /\ [r EXCEPT !.errors = "none"].status = r.status
           /\ \A st \in Statuses : [r EXCEPT !.status = st].status = st
<1>1. "none" \in Errors
  <2>1. InProgress \in Reports /\ InProgress.errors = "none"
    BY FinalReportFacts DEF InProgress, Report
  <2> QED BY <2>1 DEF Errors
<1>2. r \in [status : Statuses, feedback : Feedbacks, errors : Errors]
  BY DEF Rows
<1>3. \A q \in [status : Statuses, feedback : Feedbacks, errors : Errors] : q # Absent
  BY ReportStatus DEF Statuses, Verdicts
<1> QED BY <1>1, <1>2, <1>3 DEF Rows

-----------------------------------------------------------------------------
(* Type correctness.                                                       *)

LEMMA InitTypeOK == Init => TypeOK
BY ReportsAreRows, FinalReportFacts
   DEF Init, TypeOK, Places

LEMMA StepTypeOK == IInv /\ [Next]_vars => TypeOK'
<1> SUFFICES ASSUME TypeOK, \A s \in Subs : Good(s), \A s \in Subs : Opened(s), [Next]_vars
             PROVE  TypeOK'
  BY DEF IInv
<1> USE ReportsAreRows, FinalReportFacts
<1>1. ASSUME NEW s \in Subs, Request(s) PROVE TypeOK'
  <2>1. CASE Create(s) BY <1>1, <2>1 DEF TypeOK, Create, formVars, rowVars, checkVars, worldVars, Places, Grading, Ended, InTry, OutsideTry, InHandler
  <2>2. CASE Enqueue(s) BY <1>1, <2>2 DEF TypeOK, Enqueue, rowVars, checkVars, worldVars, Places, Grading, Ended, InTry, OutsideTry, InHandler
  <2>3. CASE Respond(s)
    <3>1. obj[s].status \in Statuses
      BY <1>1, <2>3, RowEdits DEF TypeOK, Good, Shows, Respond, Grading, InTry, OutsideTry, InHandler
    <3> QED BY <1>1, <2>3, <3>1 DEF TypeOK, Respond, rowVars, checkVars, worldVars
  <2>4. CASE CreateUnanswered(s) BY <1>1, <2>4 DEF TypeOK, CreateUnanswered, formVars, rowVars, checkVars, worldVars, Places, Ended
  <2> QED BY <1>1, <2>1, <2>2, <2>3, <2>4 DEF Request
<1>2. ASSUME NEW s \in Subs, Check(s) PROVE TypeOK'
  <2>1. CASE Start(s) BY <1>2, <2>1 DEF TypeOK, Start, rowVars, checkVars, worldVars, At, Goto, Places, Grading, InTry, OutsideTry, InHandler, Ended
  <2>2. CASE CheckEnrolled(s) BY <1>2, <2>2 DEF TypeOK, CheckEnrolled, rowVars, checkVars, worldVars, At, Goto, Places, Grading, InTry, OutsideTry, InHandler, Ended
  <2>3. CASE CourseGone(s) BY <1>2, <2>3 DEF TypeOK, CourseGone, rowVars, checkVars, worldVars, At, Goto, Places, Grading, InTry, OutsideTry, InHandler, Ended
  <2>4. CASE CheckTestsExist(s) BY <1>2, <2>4 DEF TypeOK, CheckTestsExist, rowVars, checkVars, worldVars, At, Goto, Places, Grading, InTry, OutsideTry, InHandler, Ended
  <2>5. CASE LoadTests(s) BY <1>2, <2>5 DEF TypeOK, LoadTests, rowVars, checkVars, worldVars, At, Goto, Places, Grading, InTry, OutsideTry, InHandler, Ended
  <2>6. CASE PassTest(s) BY <1>2, <2>6 DEF TypeOK, PassTest, rowVars, checkVars, worldVars, Places, Grading, InTry, OutsideTry, InHandler, Ended
  <2>7. CASE FailTest(s) BY <1>2, <2>7 DEF TypeOK, FailTest, rowVars, checkVars, worldVars, Goto, Places, Grading, InTry, OutsideTry, InHandler, Ended
  <2>8. CASE FinishTests(s) BY <1>2, <2>8 DEF TypeOK, FinishTests, rowVars, checkVars, worldVars, Goto, Places, Grading, InTry, OutsideTry, InHandler, Ended
  <2>9. CASE RunnerRaises(s) BY <1>2, <2>9 DEF TypeOK, RunnerRaises, rowVars, checkVars, worldVars, Goto, Places, Grading, InTry, OutsideTry, InHandler, Ended
  <2>10. CASE EarlySave(s) BY <1>2, <2>10 DEF TypeOK, EarlySave, rowVars, checkVars, worldVars, At, Goto, SaveColumns, WriteRow, formVars, Places, Grading, InTry, OutsideTry, InHandler, Ended
  <2>11. CASE Refresh(s) BY <1>2, <2>11 DEF TypeOK, Refresh, rowVars, checkVars, worldVars, At, Goto, Places, Grading, InTry, OutsideTry, InHandler, Ended
  <2>12. CASE Save(s) BY <1>2, <2>12 DEF TypeOK, Save, rowVars, checkVars, worldVars, At, Goto, SaveColumns, WriteRow, formVars, Places, Grading, InTry, OutsideTry, InHandler, Ended
  <2>13. CASE SaveRefused(s) BY <1>2, <2>13 DEF TypeOK, SaveRefused, rowVars, checkVars, worldVars, At, Goto, Places, Grading, InTry, OutsideTry, InHandler, Ended
  <2> QED BY <1>2, <2>1, <2>2, <2>3, <2>4, <2>5, <2>6, <2>7, <2>8, <2>9, <2>10, <2>11, <2>12, <2>13 DEF Check
<1>3. ASSUME NEW s \in Subs, Handler(s) PROVE TypeOK'
  <2>1. CASE HandlerRefresh(s) BY <1>3, <2>1 DEF TypeOK, HandlerRefresh, rowVars, checkVars, worldVars, At, Goto, Places, Grading, InTry, OutsideTry, InHandler, Ended
  <2>2. CASE HandlerMark(s) BY <1>3, <2>2 DEF TypeOK, HandlerMark, rowVars, checkVars, worldVars, Goto, Places, Grading, InTry, OutsideTry, InHandler, Ended
  <2>3. CASE HandlerSave(s) BY <1>3, <2>3 DEF TypeOK, HandlerSave, rowVars, checkVars, worldVars, At, Goto, WriteRow, formVars, Places, Grading, InTry, OutsideTry, InHandler, Ended
  <2> QED BY <1>3, <2>1, <2>2, <2>3 DEF Handler
<1>4. ASSUME NEW s \in Subs, Failure(s) PROVE TypeOK'
  <2>1. CASE StatementFails(s) BY <1>4, <2>1 DEF TypeOK, StatementFails, rowVars, checkVars, worldVars, Caught, Goto, Places, Grading, InTry, OutsideTry, InHandler, Ended
  <2>2. CASE SaveUnanswered(s) BY <1>4, <2>2 DEF TypeOK, SaveUnanswered, rowVars, checkVars, worldVars, WriteRow, formVars, Caught, Goto, Places, Grading, InTry, OutsideTry, InHandler, Ended
  <2>3. CASE Lose(s) BY <1>4, <2>3 DEF TypeOK, Lose, rowVars, checkVars, worldVars, Goto, Places, Grading, Ended, InTry, OutsideTry, InHandler
  <2> QED BY <1>4, <2>1, <2>2, <2>3 DEF Failure
<1>5. CASE Administration
  <2>1. ASSUME NEW S \in SUBSET Administered, NEW st \in {"pending", "accepted", "rejected"},
               AdminMark(S, st)
        PROVE  TypeOK'
    BY <2>1, RowEdits DEF TypeOK, AdminMark, AdminWrite, Present, formVars, checkVars, worldVars, Statuses, Verdicts
  <2>2. ASSUME NEW S \in SUBSET Administered, ClearErrors(S) PROVE TypeOK'
    <3>1. \A s \in S : row[s] \in Rows /\ row[s] # Absent => [row[s] EXCEPT !.errors = "none"] \in Rows
      BY RowEdits
    <3>2. \A s \in S \cap Subs : row[s] \in Rows /\ row[s] # Absent
      BY <2>2 DEF TypeOK, ClearErrors, AdminWrite, Present
    <3>3. row' \in [Subs -> Rows]
      BY <2>2, <3>1, <3>2 DEF TypeOK, ClearErrors, AdminWrite
    <3> QED BY <2>2, <3>3 DEF TypeOK, ClearErrors, AdminWrite, formVars, checkVars, worldVars
  <2>3. ASSUME NEW s \in Administered,
               OpenForm(s) \/ PostForm(s) \/ SaveForm(s) \/ DeleteRow(s)
        PROVE  TypeOK'
    <3>1. s \in Subs
      BY <2>3, BoundsAssumption
    <3>2. CASE OpenForm(s) BY <3>1, <3>2 DEF TypeOK, OpenForm, checkVars, worldVars
    <3>3. CASE PostForm(s) BY <3>1, <3>3 DEF TypeOK, PostForm, checkVars, worldVars
    <3>4. CASE SaveForm(s)
      <4>1. \A st \in Statuses : [form[s] EXCEPT !.status = st] \in Rows
        BY <3>1, <3>4, RowEdits DEF TypeOK, SaveForm, Opened
      <4> QED BY <3>1, <3>4, <4>1 DEF TypeOK, SaveForm, checkVars, worldVars
    <3>5. CASE DeleteRow(s) BY <3>1, <3>5 DEF TypeOK, DeleteRow, formVars, checkVars, worldVars
    <3> QED BY <2>3, <3>2, <3>3, <3>4, <3>5
  <2>4. ASSUME NEW t \in Editable, ToggleTest(t) PROVE TypeOK'
    BY <2>4, BoundsAssumption DEF TypeOK, ToggleTest, rowVars, checkVars
  <2>5. ASSUME NEW u \in Movable, ToggleEnrollment(u) PROVE TypeOK'
    BY <2>5, BoundsAssumption DEF TypeOK, ToggleEnrollment, rowVars, checkVars
  <2>6. CASE DeleteTask
    BY <2>6 DEF TypeOK, DeleteTask, formVars, checkVars
  <2> QED BY <1>5, <2>1, <2>2, <2>3, <2>4, <2>5, <2>6 DEF Administration
<1>6. CASE UNCHANGED vars
  BY <1>6 DEF TypeOK, vars
<1> QED BY <1>1, <1>2, <1>3, <1>4, <1>5, <1>6 DEF Next

-----------------------------------------------------------------------------
(* The inductive invariant.                                                *)

LEMMA InitGood == Init => \A s \in Subs : Good(s) /\ Opened(s)
<1> SUFFICES ASSUME Init, NEW s \in Subs PROVE Good(s) /\ Opened(s)
  OBVIOUS
<1>1. /\ row[s] = Absent /\ obj[s] = Absent /\ job[s] = "idle"
      /\ ~broken[s] /\ ~marked[s] /\ reply[s] = "none"
  BY DEF Init
<1>2. row[s] \notin FinalReports /\ row[s] # AllPassed /\ obj[s].status = "absent"
  BY <1>1, ReportsAreRows, FinalReportFacts, ReportStatus
<1> QED
  BY <1>1, <1>2 DEF Good, Unborn, ResultReady, ReportReady, Coherent, Honest,
                    Settled, Decided, Blame, Shows, Init, Opened

(* What a step leaves alone stays good.                                    *)
LEMMA Frame ==
    ASSUME NEW s \in Subs, Good(s),
           row'[s] = row[s], obj'[s] = obj[s], job'[s] = job[s],
           broken'[s] = broken[s], snapshot'[s] = snapshot[s],
           passed'[s] = passed[s], result'[s] = result[s],
           reply'[s] = reply[s], marked'[s] = marked[s]
    PROVE  Good(s)'
BY DEF Good, Unborn, ResultReady, ReportReady, Coherent, Honest, Settled,
       Decided, Blame, Shows

(* A step of the job of s, or of the request behind it, touches nothing of *)
(* another submission.                                                     *)
LEMMA Elsewhere ==
    ASSUME TypeOK, NEW s \in Subs, NEW x \in Subs, x # s, Good(x),
           Request(s) \/ Check(s) \/ Handler(s) \/ Failure(s)
    PROVE  Good(x)'
<1>1. CASE Request(s)
  BY <1>1, Frame DEF TypeOK, Request, Create, CreateUnanswered, Enqueue, Respond, rowVars, checkVars, worldVars
<1>2. CASE Check(s)
  BY <1>2, Frame DEF TypeOK, Check, Start, At, Goto, CheckEnrolled, CourseGone, CheckTestsExist, LoadTests, PassTest, FailTest, FinishTests, RunnerRaises, EarlySave, SaveColumns, WriteRow, Refresh, Save, SaveRefused, rowVars, checkVars, worldVars
<1>3. CASE Handler(s)
  BY <1>3, Frame DEF TypeOK, Handler, HandlerRefresh, At, Goto, HandlerMark, HandlerSave, WriteRow, rowVars, checkVars, worldVars
<1>4. CASE Failure(s)
  BY <1>4, Frame DEF TypeOK, Failure, StatementFails, Caught, Goto, SaveUnanswered, WriteRow, Lose, rowVars, checkVars, worldVars
<1> QED BY <1>1, <1>2, <1>3, <1>4

(* And what it does to the submission itself.                              *)
LEMMA Here ==
    ASSUME TypeOK, NEW s \in Subs, Good(s),
           Request(s) \/ Check(s) \/ Handler(s) \/ Failure(s)
    PROVE  Good(s)'
<1> USE ReportsAreRows, FinalReportFacts, ReportStatus
<1>1. CASE Request(s)
  <2>1. CASE Create(s)
    BY <2>1 DEF TypeOK, Create, rowVars, checkVars, worldVars, Present, Grading, InTry, OutsideTry, InHandler, Ended,
        Good, Unborn, ResultReady, ReportReady, Coherent, Honest, Settled, Decided, Blame, Shows
  <2>2. CASE Enqueue(s)
    BY <2>2 DEF TypeOK, Enqueue, rowVars, checkVars, worldVars, Present, Grading, InTry, OutsideTry, InHandler, Ended,
        Good, Unborn, ResultReady, ReportReady, Coherent, Honest, Settled, Decided, Blame, Shows
  <2>3. CASE Respond(s)
    BY <2>3 DEF TypeOK, Respond, rowVars, checkVars, worldVars, Present, Grading, InTry, OutsideTry, InHandler, Ended,
        Good, Unborn, ResultReady, ReportReady, Coherent, Honest, Settled, Decided, Blame, Shows
  <2>4. CASE CreateUnanswered(s)
    BY <2>4 DEF TypeOK, CreateUnanswered, rowVars, checkVars, worldVars, Present, Ended,
        Good, Unborn, ResultReady, ReportReady, Coherent, Honest, Settled, Decided, Blame, Shows
  <2> QED BY <1>1, <2>1, <2>2, <2>3, <2>4 DEF Request
<1>2. CASE Check(s)
  <2>1. CASE Start(s)
    BY <2>1 DEF TypeOK, Start, At, Goto, rowVars, checkVars, worldVars, Present, Ended,
        Good, Unborn, ResultReady, ReportReady, Coherent, Honest, Settled, Decided, Blame, Shows
  <2>2. CASE CheckEnrolled(s)
    BY <2>2 DEF TypeOK, CheckEnrolled, At, Goto, rowVars, checkVars, worldVars, Present, Ended,
        Good, Unborn, ResultReady, ReportReady, Coherent, Honest, Settled, Decided, Blame, Shows
  <2>3. CASE CourseGone(s)
    BY <2>3 DEF TypeOK, CourseGone, At, Goto, rowVars, checkVars, worldVars, Present, Ended,
        Good, Unborn, ResultReady, ReportReady, Coherent, Honest, Settled, Decided, Blame, Shows
  <2>4. CASE CheckTestsExist(s)
    BY <2>4 DEF TypeOK, CheckTestsExist, At, Goto, rowVars, checkVars, worldVars, Present, Ended,
        Good, Unborn, ResultReady, ReportReady, Coherent, Honest, Settled, Decided, Blame, Shows
  <2>5. CASE LoadTests(s)
    BY <2>5 DEF TypeOK, LoadTests, At, Goto, rowVars, checkVars, worldVars, Present, Ended,
        Good, Unborn, ResultReady, ReportReady, Coherent, Honest, Settled, Decided, Blame, Shows
  <2>6. CASE PassTest(s)
    BY <2>6 DEF TypeOK, PassTest, rowVars, checkVars, worldVars, Present, Ended,
        Good, Unborn, ResultReady, ReportReady, Coherent, Honest, Settled, Decided, Blame, Shows
  <2>7. CASE FailTest(s)
    BY <2>7 DEF TypeOK, FailTest, Goto, rowVars, checkVars, worldVars, Present, Ended,
        Good, Unborn, ResultReady, ReportReady, Coherent, Honest, Settled, Decided, Blame, Shows
  <2>8. CASE FinishTests(s)
    BY <2>8 DEF TypeOK, FinishTests, Goto, rowVars, checkVars, worldVars, Present, Ended,
        Good, Unborn, ResultReady, ReportReady, Coherent, Honest, Settled, Decided, Blame, Shows
  <2>9. CASE RunnerRaises(s)
    BY <2>9 DEF TypeOK, RunnerRaises, Goto, rowVars, checkVars, worldVars, Present, Ended,
        Good, Unborn, ResultReady, ReportReady, Coherent, Honest, Settled, Decided, Blame, Shows
  <2>10. CASE EarlySave(s)
    BY <2>10 DEF TypeOK, EarlySave, At, Goto, SaveColumns, WriteRow, rowVars, checkVars, worldVars, Present, Ended,
        Good, Unborn, ResultReady, ReportReady, Coherent, Honest, Settled, Decided, Blame, Shows
  <2>11. CASE Refresh(s)
    BY <2>11 DEF TypeOK, Refresh, At, Goto, rowVars, checkVars, worldVars, Present, Ended,
        Good, Unborn, ResultReady, ReportReady, Coherent, Honest, Settled, Decided, Blame, Shows
  <2>12. CASE Save(s)
    BY <2>12 DEF TypeOK, Save, At, Goto, SaveColumns, WriteRow, rowVars, checkVars, worldVars, Present, Ended,
        Good, Unborn, ResultReady, ReportReady, Coherent, Honest, Settled, Decided, Blame, Shows
  <2>13. CASE SaveRefused(s)
    BY <2>13 DEF TypeOK, SaveRefused, At, Goto, rowVars, checkVars, worldVars, Present, Ended,
        Good, Unborn, ResultReady, ReportReady, Coherent, Honest, Settled, Decided, Blame, Shows
  <2> QED BY <1>2, <2>1, <2>2, <2>3, <2>4, <2>5, <2>6, <2>7, <2>8, <2>9, <2>10, <2>11, <2>12, <2>13 DEF Check
<1>3. CASE Handler(s)
  <2>1. CASE HandlerRefresh(s)
    <3>1. row[s] # Absent /\ ~marked[s] => row[s] = InProgress
      <4>1. row[s] \notin FinalReports \/ marked[s]
        BY <2>1 DEF HandlerRefresh, At, Good, Settled, Ended
      <4> QED BY <4>1 DEF Good, Coherent, Reports
    <3>2. row[s] # Absent /\ row[s].status \in {"accepted", "rejected"} => s \in Administered
      BY <3>1 DEF Good, Blame
    <3> QED
      BY <2>1, <3>2 DEF TypeOK, HandlerRefresh, At, Goto, rowVars, checkVars, worldVars,
          Present, Ended, Good, Unborn, ResultReady, ReportReady, Coherent, Honest,
          Settled, Decided, Blame, Shows
  <2>2. CASE HandlerMark(s)
    BY <2>2 DEF TypeOK, HandlerMark, Goto, rowVars, checkVars, worldVars, Present, Ended,
        Good, Unborn, ResultReady, ReportReady, Coherent, Honest, Settled, Decided, Blame, Shows
  <2>3. CASE HandlerSave(s)
    BY <2>3 DEF TypeOK, HandlerSave, At, Goto, WriteRow, rowVars, checkVars, worldVars, Present, Ended,
        Good, Unborn, ResultReady, ReportReady, Coherent, Honest, Settled, Decided, Blame, Shows
  <2> QED BY <1>3, <2>1, <2>2, <2>3 DEF Handler
<1>4. CASE Failure(s)
  <2>1. CASE StatementFails(s)
    BY <2>1 DEF TypeOK, StatementFails, Caught, Goto, rowVars, checkVars, worldVars, Present, DbSteps, InTry, OutsideTry, InHandler, Ended,
        Good, Unborn, ResultReady, ReportReady, Coherent, Honest, Settled, Decided, Blame, Shows
  <2>2. CASE SaveUnanswered(s)
    BY <2>2 DEF TypeOK, SaveUnanswered, WriteRow, Caught, Goto, rowVars, checkVars, worldVars, Present, Writes, InTry, OutsideTry, InHandler, Ended,
        Good, Unborn, ResultReady, ReportReady, Coherent, Honest, Settled, Decided, Blame, Shows
  <2>3. CASE Lose(s)
    BY <2>3 DEF TypeOK, Lose, Goto, rowVars, checkVars, worldVars, Present, Grading, InTry, OutsideTry, InHandler, Live, Ended,
        Good, Unborn, ResultReady, ReportReady, Coherent, Honest, Settled, Decided, Blame, Shows
  <2> QED BY <1>4, <2>1, <2>2, <2>3 DEF Failure
<1> QED BY <1>1, <1>2, <1>3, <1>4

(* Edits mark the rows they touch, or put back, and leave jobs alone.      *)
LEMMA Edited ==
    ASSUME NEW s \in Subs, Good(s), job[s] # "idle", s \in Administered,
           marked'[s],
           obj'[s] = obj[s], job'[s] = job[s], broken'[s] = broken[s],
           snapshot'[s] = snapshot[s], passed'[s] = passed[s],
           result'[s] = result[s], reply'[s] = reply[s]
    PROVE  Good(s)'
BY DEF Good, Unborn, ResultReady, ReportReady, Coherent, Honest, Settled,
       Decided, Blame, Shows

LEMMA Deleted ==
    ASSUME NEW s \in Subs, Good(s), row'[s] = Absent, ~marked'[s],
           obj'[s] = obj[s], job'[s] = job[s], broken'[s] = broken[s],
           snapshot'[s] = snapshot[s], passed'[s] = passed[s],
           result'[s] = result[s], reply'[s] = reply[s]
    PROVE  Good(s)'
<1>1. Absent \notin FinalReports /\ Absent # AllPassed
  BY ReportsAreRows, FinalReportFacts
<1> QED
  BY <1>1 DEF Good, Unborn, ResultReady, ReportReady, Coherent, Honest, Settled,
              Decided, Blame, Shows

LEMMA AdministrationGood ==
    ASSUME TypeOK, NEW x \in Subs, Good(x), Opened(x), Administration
    PROVE  Good(x)'
<1>1. ASSUME NEW S \in SUBSET Administered, NEW columns, AdminWrite(S, columns)
      PROVE  Good(x)'
  <2>1. CASE x \in S BY <1>1, <2>1, Edited DEF TypeOK, AdminWrite, Present, checkVars, Good, Unborn
  <2>2. CASE x \notin S BY <1>1, <2>2, Frame DEF TypeOK, AdminWrite, checkVars
  <2> QED BY <2>1, <2>2
<1>2. ASSUME NEW s \in Administered, OpenForm(s) PROVE Good(x)'
  BY <1>2, Frame DEF TypeOK, OpenForm, checkVars
<1>3. ASSUME NEW s \in Administered, SaveForm(s) PROVE Good(x)'
  <2>1. CASE x # s \/ UNCHANGED <<row, marked>>
    BY <1>3, <2>1, Frame DEF TypeOK, SaveForm, checkVars
  <2>2. CASE x = s /\ ~UNCHANGED <<row, marked>>
    BY <1>3, <2>2, Edited DEF TypeOK, SaveForm, checkVars, Opened
  <2> QED BY <2>1, <2>2
<1>4. ASSUME NEW s \in Administered, DeleteRow(s) PROVE Good(x)'
  <2>1. CASE x = s BY <1>4, <2>1, Deleted DEF TypeOK, DeleteRow, checkVars
  <2>2. CASE x # s BY <1>4, <2>2, Frame DEF TypeOK, DeleteRow, checkVars
  <2> QED BY <2>1, <2>2
<1>5. ASSUME NEW t \in Editable, ToggleTest(t) PROVE Good(x)'
  BY <1>5, Frame DEF ToggleTest, rowVars, checkVars
<1>6. ASSUME NEW u \in Movable, ToggleEnrollment(u) PROVE Good(x)'
  BY <1>6, Frame DEF ToggleEnrollment, rowVars, checkVars
<1>7. CASE DeleteTask
  BY <1>7, Deleted DEF DeleteTask, checkVars
<1>8. ASSUME NEW s \in Administered, PostForm(s) PROVE Good(x)'
  BY <1>8, Frame DEF PostForm, checkVars
<1> QED
  BY <1>1, <1>2, <1>3, <1>4, <1>5, <1>6, <1>7, <1>8
  DEF Administration, AdminMark, ClearErrors

LEMMA StepGood == IInv /\ [Next]_vars => \A x \in Subs : Good(x)'
<1> SUFFICES ASSUME IInv, [Next]_vars, NEW x \in Subs PROVE Good(x)'
  OBVIOUS
<1> USE DEF IInv
<1>1. ASSUME NEW s \in Subs, Request(s) \/ Check(s) \/ Handler(s) \/ Failure(s)
      PROVE  Good(x)'
  <2>1. CASE x = s BY <1>1, <2>1, Here
  <2>2. CASE x # s BY <1>1, <2>2, Elsewhere
  <2> QED BY <2>1, <2>2
<1>2. CASE Administration BY <1>2, AdministrationGood
<1>3. CASE UNCHANGED vars BY <1>3, Frame DEF vars
<1> QED BY <1>1, <1>2, <1>3 DEF Next

(* No job touches a form, and none goes back to where it was not created.  *)
LEMMA JobsLeaveForms ==
    ASSUME TypeOK, NEW s \in Subs,
           Request(s) \/ Check(s) \/ Handler(s) \/ Failure(s)
    PROVE  /\ UNCHANGED formVars
           /\ \A x \in Subs : job[x] # "idle" => job'[x] # "idle"
<1> USE DEF formVars, rowVars
<1>1. CASE Request(s)
  BY <1>1 DEF TypeOK, Request, Create, CreateUnanswered, Enqueue, Respond
<1>2. CASE Check(s)
  BY <1>2 DEF TypeOK, Check, Start, At, Goto, CheckEnrolled, CourseGone, CheckTestsExist,
     LoadTests, PassTest, FailTest, FinishTests, RunnerRaises, EarlySave, SaveColumns,
     WriteRow, Refresh, Save, SaveRefused
<1>3. CASE Handler(s)
  BY <1>3 DEF TypeOK, Handler, HandlerRefresh, At, Goto, HandlerMark, HandlerSave, WriteRow
<1>4. CASE Failure(s)
  BY <1>4 DEF TypeOK, Failure, StatementFails, Caught, Goto, SaveUnanswered, WriteRow, Lose
<1> QED BY <1>1, <1>2, <1>3, <1>4

LEMMA StepOpened == IInv /\ [Next]_vars => \A x \in Subs : Opened(x)'
<1> SUFFICES ASSUME IInv, [Next]_vars, NEW x \in Subs PROVE Opened(x)'
  OBVIOUS
<1> USE DEF IInv, Opened
<1>1. ASSUME NEW s \in Subs, Request(s) \/ Check(s) \/ Handler(s) \/ Failure(s)
      PROVE  Opened(x)'
  BY <1>1, JobsLeaveForms DEF formVars
<1>2. CASE Administration
  <2>1. job' = job
    BY <1>2 DEF Administration, AdminMark, ClearErrors, AdminWrite, OpenForm, PostForm, SaveForm,
       DeleteRow, ToggleTest, ToggleEnrollment, DeleteTask
  <2>2. ASSUME NEW s \in Administered, OpenForm(s) PROVE Opened(x)'
    BY <2>1, <2>2 DEF TypeOK, OpenForm, Present, Good, Unborn
  <2>3. ASSUME NEW s \in Administered, PostForm(s) PROVE Opened(x)'
    BY <2>1, <2>3 DEF TypeOK, PostForm
  <2>4. ASSUME NEW s \in Administered, SaveForm(s) PROVE Opened(x)'
    BY <2>1, <2>4 DEF TypeOK, SaveForm
  <2>5. CASE UNCHANGED formVars
    BY <2>1, <2>5 DEF formVars
  <2>6. CASE \A s \in Administered : ~OpenForm(s) /\ ~PostForm(s) /\ ~SaveForm(s)
    <3>1. UNCHANGED formVars
      BY <1>2, <2>6 DEF Administration, AdminMark, ClearErrors, AdminWrite, DeleteRow,
         ToggleTest, ToggleEnrollment, DeleteTask, rowVars, formVars
    <3> QED BY <3>1, <2>5
  <2> QED BY <2>2, <2>3, <2>4, <2>6
<1>3. CASE UNCHANGED vars
  BY <1>3 DEF vars
<1> QED BY <1>1, <1>2, <1>3 DEF Next

(* Every reachable state satisfies the inductive invariant.                *)
THEOREM Invariance == Spec => []IInv
<1>1. Init => IInv
  BY InitTypeOK, InitGood DEF IInv
<1>2. IInv /\ [Next]_vars => IInv'
  BY StepTypeOK, StepGood, StepOpened DEF IInv
<1> QED BY <1>1, <1>2, PTL DEF Spec

-----------------------------------------------------------------------------
(* The invariants the runs check.                                          *)

(* The variables keep their types, for any constants.                      *)
THEOREM TypeCorrect == Spec => []TypeOK
<1>1. IInv => TypeOK BY DEF IInv
<1> QED BY <1>1, Invariance, PTL

(* An unedited "accepted" means the loop of execute_submission_check went  *)
(* through every test case it had loaded.                                  *)
THEOREM Acceptance == Spec => []AcceptedMeansPassed
<1>1. IInv => AcceptedMeansPassed
  <2> SUFFICES ASSUME IInv, NEW s \in Subs, row[s].status = "accepted", ~marked[s]
               PROVE  passed[s] = snapshot[s]
    BY DEF AcceptedMeansPassed
  <2>1. row[s] # Absent
    BY ReportStatus
  <2>2. row[s] = AllPassed
    BY <2>1, ReportStatus DEF IInv, Good, Coherent
  <2> QED BY <2>2 DEF IInv, Good, Honest
<1> QED BY <1>1, Invariance, PTL

(* The columns of an unedited row were written by one save.                *)
THEOREM Coherence == Spec => []CoherentRow
<1>1. IInv => CoherentRow
  BY DEF IInv, Good, Coherent, CoherentRow, Present
<1> QED BY <1>1, Invariance, PTL

(* Every pending row has a job or somebody to answer for it.               *)
THEOREM PendingExplained == Spec => []PendingHasReason
<1>1. IInv => PendingHasReason
  <2> SUFFICES ASSUME IInv, NEW s \in Subs, row[s].status = "pending", ~Live(s), ~marked[s]
               PROVE  \/ job[s] = "lost" /\ s \in Mortal
                      \/ job[s] \in {"gave_up", "orphaned"} /\ s \in Faulty
    BY DEF PendingHasReason
  <2>1. row[s] # Absent
    BY ReportStatus
  <2>2. row[s] \notin FinalReports
    BY ReportStatus DEF Verdicts
  <2>3. job[s] \in Ended
    BY <2>1 DEF IInv, TypeOK, Places, Live, Good, Unborn
  <2> QED BY <2>1, <2>2, <2>3 DEF IInv, Good, Decided, Blame, Ended, Present
<1> QED BY <1>1, Invariance, PTL

(* The shared instance never carries a verdict of the check to the client. *)
THEOREM ReplyHonest == Spec => []ReplyIsNoVerdict
<1>1. IInv => ReplyIsNoVerdict
  BY DEF IInv, Good, Shows, ReplyIsNoVerdict
<1> QED BY <1>1, Invariance, PTL

-----------------------------------------------------------------------------
(* What a step may not do.                                                 *)

(* The only writes to a row that are not the administrator's: the request  *)
(* creates it, the check saves its result, the except block its report.    *)
LEMMA GraderWrites ==
    ASSUME TypeOK, NEW s \in Subs, NEW x \in Subs,
           Request(s) \/ Check(s) \/ Handler(s) \/ Failure(s)
    PROVE  \/ row'[x] = row[x] /\ marked'[x] = marked[x]
           \/ /\ x = s
              /\ job[s] = "idle" /\ row'[s] = InProgress /\ marked'[s] = marked[s]
           \/ /\ x = s
              /\ job[s] \in {"early", "save"} /\ ~broken[s] /\ row[s] # Absent
              /\ row'[s] = result[s] /\ ~marked'[s]
           \/ /\ x = s
              /\ job[s] = "report" /\ ~broken[s] /\ (row[s] # Absent \/ taskAlive)
              /\ row'[s] = obj[s] /\ ~marked'[s]
<1>1. CASE Request(s)
  BY <1>1 DEF TypeOK, Request, Create, CreateUnanswered, Enqueue, Respond, rowVars
<1>2. CASE Check(s)
  <2>1. CASE EarlySave(s)
    BY <2>1 DEF TypeOK, EarlySave, At, SaveColumns, WriteRow, Present, rowVars
  <2>2. CASE Save(s)
    BY <2>2 DEF TypeOK, Save, At, SaveColumns, WriteRow, Present, rowVars
  <2>3. CASE ~EarlySave(s) /\ ~Save(s)
    BY <1>2, <2>3 DEF Check, Start, CheckEnrolled, CourseGone, CheckTestsExist,
       LoadTests, PassTest, FailTest, FinishTests, RunnerRaises, Refresh, SaveRefused, rowVars
  <2> QED BY <2>1, <2>2, <2>3
<1>3. CASE Handler(s)
  BY <1>3 DEF TypeOK, Handler, HandlerRefresh, HandlerMark, HandlerSave, At, WriteRow,
     Present, rowVars
<1>4. CASE Failure(s)
  BY <1>4 DEF TypeOK, Failure, StatementFails, SaveUnanswered, Lose, Writes, WriteRow,
     Present, rowVars
<1> QED BY <1>1, <1>2, <1>3, <1>4

(* The administrator's writes mark the row, or delete it. Only a form that *)
(* was posted before puts back a row that is gone.                         *)
LEMMA AdministratorWrites ==
    ASSUME IInv, NEW x \in Subs, Administration
    PROVE  \/ row'[x] = row[x] /\ marked'[x] = marked[x]
           \/ row[x] # Absent /\ row'[x] # Absent /\ marked'[x]
           \/ row'[x] = Absent /\ ~marked'[x]
           \/ /\ taskAlive /\ x \in posted /\ x \notin posted'
              /\ row'[x] # Absent /\ marked'[x]
<1> USE DEF IInv
<1>1. ASSUME NEW S \in SUBSET Administered, NEW st \in {"pending", "accepted", "rejected"},
             AdminMark(S, st)
      PROVE  \/ row'[x] = row[x] /\ marked'[x] = marked[x]
             \/ row[x] # Absent /\ row'[x] # Absent /\ marked'[x]
  <2>1. CASE x \in S
    <3>1. row[x] \in Rows /\ row[x] # Absent /\ st \in Statuses
      BY <1>1, <2>1 DEF TypeOK, AdminMark, AdminWrite, Present, Statuses, Verdicts
    <3>2. [row[x] EXCEPT !.status = st] # Absent
      BY <3>1, RowEdits
    <3> QED BY <1>1, <2>1, <3>1, <3>2 DEF TypeOK, AdminMark, AdminWrite
  <2>2. CASE x \notin S
    BY <1>1, <2>2 DEF TypeOK, AdminMark, AdminWrite
  <2> QED BY <2>1, <2>2
<1>2. ASSUME NEW S \in SUBSET Administered, ClearErrors(S)
      PROVE  \/ row'[x] = row[x] /\ marked'[x] = marked[x]
             \/ row[x] # Absent /\ row'[x] # Absent /\ marked'[x]
  <2>1. CASE x \in S
    <3>1. row[x] \in Rows /\ row[x] # Absent
      BY <1>2, <2>1 DEF TypeOK, ClearErrors, AdminWrite, Present
    <3>2. [row[x] EXCEPT !.errors = "none"] # Absent
      BY <3>1, RowEdits
    <3> QED BY <1>2, <2>1, <3>1, <3>2 DEF TypeOK, ClearErrors, AdminWrite
  <2>2. CASE x \notin S
    BY <1>2, <2>2 DEF TypeOK, ClearErrors, AdminWrite
  <2> QED BY <2>1, <2>2
<1>3. ASSUME NEW s \in Administered, OpenForm(s) \/ PostForm(s) \/ DeleteRow(s)
      PROVE  \/ row'[x] = row[x] /\ marked'[x] = marked[x]
             \/ row'[x] = Absent /\ ~marked'[x]
  BY <1>3 DEF TypeOK, OpenForm, PostForm, DeleteRow, Present
<1>4. ASSUME NEW s \in Administered, SaveForm(s)
      PROVE  \/ row'[x] = row[x] /\ marked'[x] = marked[x]
             \/ row[x] # Absent /\ row'[x] # Absent /\ marked'[x]
             \/ /\ taskAlive /\ x \in posted /\ x \notin posted'
                /\ row'[x] # Absent /\ marked'[x]
  <2>1. CASE x # s \/ UNCHANGED <<row, marked>>
    BY <1>4, <2>1 DEF TypeOK, SaveForm
  <2>2. CASE x = s /\ ~UNCHANGED <<row, marked>>
    <3>1. \A st \in Statuses : [form[s] EXCEPT !.status = st] # Absent
      BY <1>4, <2>2, RowEdits DEF TypeOK, SaveForm, Opened
    <3> QED BY <1>4, <2>2, <3>1 DEF TypeOK, SaveForm, Present
  <2> QED BY <2>1, <2>2
<1>5. CASE DeleteTask
  BY <1>5 DEF DeleteTask
<1>6. ASSUME NEW t \in Editable, ToggleTest(t) PROVE row'[x] = row[x] /\ marked'[x] = marked[x]
  BY <1>6 DEF ToggleTest, rowVars
<1>7. ASSUME NEW u \in Movable, ToggleEnrollment(u) PROVE row'[x] = row[x] /\ marked'[x] = marked[x]
  BY <1>7 DEF ToggleEnrollment, rowVars
<1> QED BY <1>1, <1>2, <1>3, <1>4, <1>5, <1>6, <1>7 DEF Administration

(* A stored verdict is final for the grader: neither a failure after the   *)
(* save nor the except block that it leads to replaces it.                 *)
THEOREM Finality == Spec => VerdictStands
<1>1. IInv /\ [Next]_vars => [VerdictStandsStep]_vars
  <2> SUFFICES ASSUME IInv, Next, NEW x \in Subs, row[x] \in FinalReports, ~marked[x],
                      row'[x] # Absent, ~marked'[x]
               PROVE  row'[x] = row[x]
    BY DEF VerdictStandsStep
  <2>1. row[x] # Absent /\ (job[x] \in Ended \/ (job[x] = "handler" /\ broken[x]))
    BY ReportsAreRows, FinalReportFacts DEF IInv, Good, Settled
  <2>2. ASSUME NEW s \in Subs, Request(s) \/ Check(s) \/ Handler(s) \/ Failure(s)
        PROVE  row'[x] = row[x]
    <3>1. ~(x = s /\ job[s] \in {"idle", "early", "save", "report"})
      BY <2>1 DEF Ended
    <3> QED BY <2>2, <3>1, GraderWrites DEF IInv
  <2>3. CASE Administration
    BY <2>3, AdministratorWrites DEF IInv
  <2> QED BY <2>2, <2>3 DEF Next
<1> QED BY <1>1, Invariance, PTL DEF Spec, VerdictStands

(* A deleted row is back only by a full save, while the task exists: the   *)
(* report of the except block, or a change form posted before the deletion.*)
THEOREM Resurrection == Spec => ReturnsAsReport
<1>1. IInv /\ [Next]_vars => [ReturnsAsReportStep]_vars
  <2> SUFFICES ASSUME IInv, Next, NEW x \in Subs, row[x] = Absent, row'[x] # Absent,
                      job[x] # "idle"
               PROVE  /\ taskAlive
                      /\ \/ row'[x] = BackgroundError /\ ~marked'[x]
                         \/ x \in posted /\ x \notin posted' /\ marked'[x]
    BY DEF ReturnsAsReportStep
  <2>1. ASSUME NEW s \in Subs, Request(s) \/ Check(s) \/ Handler(s) \/ Failure(s)
        PROVE  row'[x] = BackgroundError /\ taskAlive /\ ~marked'[x]
    BY <2>1, GraderWrites DEF IInv, Good, ReportReady
  <2>2. CASE Administration
    BY <2>2, AdministratorWrites
  <2> QED BY <2>1, <2>2 DEF Next
<1> QED BY <1>1, Invariance, PTL DEF Spec, ReturnsAsReport

(* A job step leaves the jobs of other submissions where they are.         *)
LEMMA JobElsewhere ==
    ASSUME TypeOK, NEW s \in Subs, NEW x \in Subs, x # s,
           Request(s) \/ Check(s) \/ Handler(s) \/ Failure(s)
    PROVE  job'[x] = job[x] /\ snapshot'[x] = snapshot[x] /\ passed'[x] = passed[x]
<1>1. CASE Request(s)
  BY <1>1 DEF TypeOK, Request, Create, CreateUnanswered, Enqueue, Respond, checkVars
<1>2. CASE Check(s)
  BY <1>2 DEF TypeOK, Check, Start, CheckEnrolled, CourseGone, CheckTestsExist, LoadTests,
     PassTest, FailTest, FinishTests, RunnerRaises, EarlySave, Refresh, Save,
     SaveRefused, SaveColumns, At, Goto, checkVars
<1>3. CASE Handler(s)
  BY <1>3 DEF TypeOK, Handler, HandlerRefresh, HandlerMark, HandlerSave, At, Goto, checkVars
<1>4. CASE Failure(s)
  BY <1>4 DEF TypeOK, Failure, StatementFails, SaveUnanswered, Lose, Caught, Goto, checkVars
<1> QED BY <1>1, <1>2, <1>3, <1>4

(* And takes its own forward.                                              *)
LEMMA JobForward ==
    ASSUME TypeOK, NEW s \in Subs,
           Request(s) \/ Check(s) \/ Handler(s) \/ Failure(s)
    PROVE  \/ Remaining(job'[s]) < Remaining(job[s])
           \/ /\ job[s] = "run" /\ job'[s] = "run" /\ snapshot'[s] = snapshot[s]
              /\ \E t \in snapshot[s] \ passed[s] : passed'[s] = passed[s] \union {t}
           \/ UNCHANGED <<job[s], snapshot[s], passed[s]>>
<1> DEFINE Onward == Remaining(job'[s]) < Remaining(job[s])
<1> USE DEF Remaining
<1>1. CASE Request(s)
  <2>1. CASE Respond(s)
    BY <2>1 DEF Respond, checkVars
  <2>2. CASE ~Respond(s)
    BY <1>1, <2>2 DEF TypeOK, Request, Create, CreateUnanswered, Enqueue
  <2> QED BY <2>1, <2>2
<1>2. CASE Check(s)
  <2>1. CASE PassTest(s)
    BY <2>1 DEF TypeOK, PassTest
  <2>2. CASE Start(s) \/ CheckEnrolled(s) \/ CourseGone(s) \/ CheckTestsExist(s) \/ LoadTests(s)
    <3>1. Onward
      BY <2>2 DEF TypeOK, Start, CheckEnrolled, CourseGone, CheckTestsExist, LoadTests, At, Goto
    <3> QED BY <3>1
  <2>3. CASE FailTest(s) \/ FinishTests(s) \/ RunnerRaises(s) \/ Refresh(s)
    <3>1. Onward
      BY <2>3 DEF TypeOK, FailTest, FinishTests, RunnerRaises, Refresh, At, Goto
    <3> QED BY <3>1
  <2>4. CASE EarlySave(s) \/ Save(s) \/ SaveRefused(s)
    <3>1. Onward
      BY <2>4 DEF TypeOK, EarlySave, Save, SaveRefused, SaveColumns, At, Goto
    <3> QED BY <3>1
  <2> QED BY <1>2, <2>1, <2>2, <2>3, <2>4 DEF Check
<1>3. CASE Handler(s)
  <2>1. Onward
    BY <1>3 DEF TypeOK, Handler, HandlerRefresh, HandlerMark, HandlerSave, At, Goto
  <2> QED BY <2>1
<1>4. CASE Failure(s)
  <2>1. ASSUME Caught(s), job[s] \in DbSteps PROVE Onward
    BY <2>1 DEF TypeOK, Caught, Goto, DbSteps, InTry, OutsideTry, InHandler
  <2>2. CASE StatementFails(s)
    BY <2>1, <2>2 DEF StatementFails
  <2>3. CASE SaveUnanswered(s)
    BY <2>1, <2>3 DEF SaveUnanswered, Writes, DbSteps
  <2>4. CASE Lose(s)
    <3>1. Onward
      BY <2>4 DEF TypeOK, Lose, Goto, Live, Grading, InTry, OutsideTry, InHandler
    <3> QED BY <3>1
  <2> QED BY <1>4, <2>2, <2>3, <2>4 DEF Failure
<1> QED BY <1>1, <1>2, <1>3, <1>4

(* Every step of the system takes a job forward or leaves it where it is:  *)
(* no failure and no except block sends it back to an earlier statement.   *)
THEOREM Forward == Spec => ForwardOnly
<1>1. TypeOK /\ [Next]_vars => [ForwardStep]_vars
  <2> SUFFICES ASSUME TypeOK, Next PROVE ForwardStep
    OBVIOUS
  <2>1. ASSUME NEW s \in Subs, Request(s) \/ Check(s) \/ Handler(s) \/ Failure(s)
        PROVE  ForwardStep
    BY <2>1, JobElsewhere, JobForward DEF ForwardStep
  <2>2. CASE Administration
    <3>1. UNCHANGED <<job, snapshot, passed>>
      BY <2>2 DEF Administration, AdminMark, ClearErrors, AdminWrite, OpenForm, PostForm, SaveForm,
         DeleteRow, ToggleTest, ToggleEnrollment, DeleteTask, checkVars
    <3> QED BY <3>1 DEF ForwardStep
  <2> QED BY <2>1, <2>2 DEF Next
<1> QED BY <1>1, TypeCorrect, PTL DEF Spec, ForwardOnly

-----------------------------------------------------------------------------
(* SubmissionCheck implements SubmissionLifecycle.                         *)

statusBar == [s \in Subs |-> row[s].status]

(* A job step changes what the lifecycle sees of its own submission only.  *)
LEMMA PhaseElsewhere ==
    ASSUME TypeOK, NEW s \in Subs, NEW x \in Subs, x # s,
           Request(s) \/ Check(s) \/ Handler(s) \/ Failure(s)
    PROVE  phaseBar'[x] = phaseBar[x]
<1>1. job'[x] = job[x] /\ broken'[x] = broken[x]
  <2>1. CASE Request(s)
    BY <2>1 DEF TypeOK, Request, Create, CreateUnanswered, Enqueue, Respond
  <2>2. CASE Check(s)
    BY <2>2 DEF TypeOK, Check, Start, CheckEnrolled, CourseGone, CheckTestsExist, LoadTests,
       PassTest, FailTest, FinishTests, RunnerRaises, EarlySave, Refresh, Save,
       SaveRefused, SaveColumns, At, Goto
  <2>3. CASE Handler(s)
    BY <2>3 DEF TypeOK, Handler, HandlerRefresh, HandlerMark, HandlerSave, At, Goto
  <2>4. CASE Failure(s)
    BY <2>4 DEF TypeOK, Failure, StatementFails, SaveUnanswered, Lose, Caught, Goto
  <2> QED BY <2>1, <2>2, <2>3, <2>4
<1> QED BY <1>1 DEF phaseBar, Live

(* What a job step does to the phase of its own submission: it stays, or   *)
(* it goes from unborn to open, or from open to closed. A step that writes *)
(* the row closes it.                                                      *)
LEMMA PhaseHere ==
    ASSUME TypeOK, NEW s \in Subs,
           Request(s) \/ Check(s) \/ Handler(s) \/ Failure(s)
    PROVE  \/ /\ row'[s] = row[s] /\ marked'[s] = marked[s]
              /\ \/ phaseBar'[s] = phaseBar[s]
                 \/ phaseBar[s] = "open" /\ phaseBar'[s] = "closed"
           \/ /\ job[s] = "idle" /\ row'[s] = InProgress /\ marked'[s] = marked[s]
              /\ phaseBar[s] = "unborn"
              /\ phaseBar'[s] \in {"open", "closed"}
           \/ /\ job[s] \in {"early", "save"} /\ row[s] # Absent
              /\ row'[s] = result[s] /\ ~marked'[s]
              /\ phaseBar[s] = "open" /\ phaseBar'[s] = "closed"
           \/ /\ job[s] = "report" /\ row'[s] = obj[s] /\ ~marked'[s]
              /\ phaseBar[s] = "open" /\ phaseBar'[s] = "closed"
<1> USE DEF phaseBar, Live, Grading, InTry, OutsideTry, InHandler
<1>1. CASE Request(s)
  BY <1>1 DEF TypeOK, Request, Create, CreateUnanswered, Enqueue, Respond, rowVars
<1>2. CASE Check(s)
  <2>1. CASE EarlySave(s)
    BY <2>1 DEF TypeOK, EarlySave, At, Goto, SaveColumns, WriteRow, Present, rowVars
  <2>2. CASE Save(s)
    BY <2>2 DEF TypeOK, Save, At, Goto, SaveColumns, WriteRow, Present, rowVars
  <2>3. CASE ~EarlySave(s) /\ ~Save(s)
    BY <1>2, <2>3 DEF TypeOK, Check, Start, CheckEnrolled, CourseGone, CheckTestsExist,
       LoadTests, PassTest, FailTest, FinishTests, RunnerRaises, Refresh, SaveRefused,
       At, Goto, rowVars
  <2> QED BY <2>1, <2>2, <2>3
<1>3. CASE Handler(s)
  BY <1>3 DEF TypeOK, Handler, HandlerRefresh, HandlerMark, HandlerSave, At, Goto, WriteRow,
     Present, rowVars
<1>4. CASE Failure(s)
  <2>1. CASE StatementFails(s)
    BY <2>1 DEF TypeOK, StatementFails, Caught, Goto, rowVars
  <2>2. CASE SaveUnanswered(s)
    BY <2>2 DEF TypeOK, SaveUnanswered, Caught, Goto, Writes, WriteRow, Present
  <2>3. CASE Lose(s)
    BY <2>3 DEF TypeOK, Lose, Goto, rowVars
  <2> QED BY <1>4, <2>1, <2>2, <2>3 DEF Failure
<1> QED BY <1>1, <1>2, <1>3, <1>4

LEMMA InitRefines == Init => Lifecycle!Init
<1> SUFFICES ASSUME Init PROVE Lifecycle!Init
  OBVIOUS
<1>1. statusBar = [s \in Subs |-> "absent"]
  BY ReportStatus DEF Init, statusBar
<1>2. phaseBar = [s \in Subs |-> "unborn"]
  BY DEF Init, phaseBar
<1> QED BY <1>1, <1>2 DEF Init, Lifecycle!Init, statusBar

LEMMA JobStepRefines ==
    ASSUME IInv, NEW s \in Subs,
           Request(s) \/ Check(s) \/ Handler(s) \/ Failure(s)
    PROVE  Lifecycle!Next \/ UNCHANGED Lifecycle!vars
<1> USE DEF IInv
<1>1. /\ statusBar' = [statusBar EXCEPT ![s] = row'[s].status]
      /\ marked' = [marked EXCEPT ![s] = marked'[s]]
      /\ phaseBar' = [phaseBar EXCEPT ![s] = phaseBar'[s]]
  <2>1. \A x \in Subs : x # s => row'[x] = row[x] /\ marked'[x] = marked[x]
    BY GraderWrites
  <2>2. \A x \in Subs : x # s => phaseBar'[x] = phaseBar[x]
    BY PhaseElsewhere
  <2>3. marked' \in [Subs -> BOOLEAN] /\ marked \in [Subs -> BOOLEAN]
    BY StepTypeOK DEF Next, TypeOK
  <2>4. phaseBar' = [x \in Subs |-> phaseBar'[x]] /\ phaseBar = [x \in Subs |-> phaseBar[x]]
    BY DEF phaseBar
  <2> QED BY <2>1, <2>2, <2>3, <2>4 DEF statusBar
<1>2. statusBar[s] = row[s].status
  BY DEF statusBar
<1>3. /\ [statusBar EXCEPT ![s] = row[s].status] = statusBar
      /\ [phaseBar EXCEPT ![s] = phaseBar[s]] = phaseBar
  BY DEF statusBar, phaseBar
<1>4. posted' = posted
  BY JobsLeaveForms DEF formVars
<1>5. CASE /\ row'[s] = row[s] /\ marked'[s] = marked[s]
           /\ phaseBar'[s] = phaseBar[s]
  <2>1. statusBar' = statusBar /\ marked' = marked
    BY <1>1, <1>3, <1>5 DEF TypeOK
  <2>2. phaseBar' = phaseBar
    BY <1>1, <1>3, <1>5
  <2> QED BY <2>1, <2>2, <1>4 DEF Lifecycle!vars, statusBar
<1>6. CASE /\ row'[s] = row[s] /\ marked'[s] = marked[s]
           /\ phaseBar[s] = "open" /\ phaseBar'[s] = "closed"
  <2>1. statusBar' = statusBar /\ marked' = marked
    BY <1>1, <1>3, <1>6 DEF TypeOK
  <2>2. Lifecycle!Abandon(s)
    BY <1>1, <1>6, <2>1, <1>4 DEF Lifecycle!Abandon, statusBar
  <2> QED BY <2>2 DEF Lifecycle!Next
<1>7. CASE /\ job[s] = "idle" /\ row'[s] = InProgress /\ marked'[s] = marked[s]
           /\ phaseBar[s] = "unborn"
           /\ phaseBar'[s] \in {"open", "closed"}
  <2>1. row'[s].status = "pending"
    BY <1>7, ReportStatus
  <2>2. marked' = marked
    BY <1>1, <1>7 DEF TypeOK
  <2>3. Lifecycle!Submit(s)
    BY <1>1, <1>7, <2>1, <2>2, <1>4 DEF Lifecycle!Submit, statusBar
  <2> QED BY <2>3 DEF Lifecycle!Next
<1>8. CASE /\ job[s] \in {"early", "save"} /\ row[s] # Absent
           /\ row'[s] = result[s] /\ ~marked'[s]
           /\ phaseBar[s] = "open" /\ phaseBar'[s] = "closed"
  <2>1. row'[s].status \in Verdicts
    BY <1>8, FinalReportFacts, ReportStatus DEF Good, ResultReady
  <2>2. marked'[s] = FALSE
    BY <1>8, StepTypeOK DEF Next, TypeOK
  <2>3. row[s].status # "absent"
    BY <1>8, RowEdits DEF TypeOK, Statuses, Verdicts
  <2>4. PICK v \in Verdicts : v = row'[s].status
    BY <2>1
  <2>5. Lifecycle!Write(s, v)
    BY <1>1, <1>8, <2>2, <2>4, <1>4 DEF Lifecycle!Write, statusBar
  <2>6. Lifecycle!Decide(s)
    BY <1>2, <2>3, <2>4, <2>5 DEF Lifecycle!Decide, Lifecycle!Verdicts, Verdicts, statusBar
  <2> QED BY <2>6 DEF Lifecycle!Next
<1>9. CASE /\ job[s] = "report" /\ row'[s] = obj[s] /\ ~marked'[s]
           /\ phaseBar[s] = "open" /\ phaseBar'[s] = "closed"
  <2>1. row'[s].status = "error"
    BY <1>9, ReportStatus DEF Good, ReportReady
  <2>2. marked'[s] = FALSE
    BY <1>9, StepTypeOK DEF Next, TypeOK
  <2>3. Lifecycle!Write(s, "error")
    BY <1>1, <1>9, <2>1, <2>2, <1>4 DEF Lifecycle!Write, statusBar
  <2>4. CASE row[s].status = "absent"
    BY <1>2, <2>3, <2>4 DEF Lifecycle!Next, Lifecycle!Revive, statusBar
  <2>5. CASE row[s].status # "absent"
    BY <1>2, <2>3, <2>5 DEF Lifecycle!Next, Lifecycle!Decide, Lifecycle!Verdicts, statusBar
  <2> QED BY <2>4, <2>5
<1> QED BY <1>5, <1>6, <1>7, <1>8, <1>9, PhaseHere

LEMMA EditRefines ==
    ASSUME IInv, NEW S \in SUBSET Subs,
           \A x \in S : row[x] # Absent /\ row'[x] \in Rows /\ row'[x] # Absent,
           \A x \in Subs \ S : row'[x] = row[x],
           marked' = [x \in Subs |-> x \in S \/ marked[x]],
           posted' = posted,
           phaseBar' = phaseBar
    PROVE  Lifecycle!Next
<1>1. \A x \in S : row[x].status # "absent" /\ row'[x].status \in Statuses
  BY RowEdits DEF IInv, TypeOK, Statuses, Verdicts
<1> DEFINE st == [x \in S |-> row'[x].status]
<1>2. st \in [S -> Lifecycle!Statuses]
  BY <1>1 DEF Lifecycle!Statuses, Lifecycle!Verdicts, Statuses, Verdicts
<1>3. statusBar' = [x \in Subs |-> IF x \in S THEN st[x] ELSE statusBar[x]]
  BY DEF statusBar
<1>4. Lifecycle!Edit(S)
  <2>1. \A x \in S : statusBar[x] # "absent"
    BY <1>1 DEF statusBar
  <2> HIDE DEF st
  <2> QED BY <1>2, <1>3, <2>1 DEF Lifecycle!Edit, statusBar
<1> QED BY <1>4 DEF Lifecycle!Next

LEMMA RemoveRefines ==
    ASSUME NEW S \in SUBSET Subs,
           \A x \in S : row'[x] = Absent,
           \A x \in Subs \ S : row'[x] = row[x],
           marked' = [x \in Subs |-> x \notin S /\ marked[x]],
           posted' = posted,
           phaseBar' = phaseBar
    PROVE  Lifecycle!Next
<1>1. statusBar' = [x \in Subs |-> IF x \in S THEN "absent" ELSE statusBar[x]]
  BY ReportStatus DEF statusBar
<1>2. Lifecycle!Remove(S)
  BY <1>1 DEF Lifecycle!Remove, statusBar
<1> QED BY <1>2 DEF Lifecycle!Next

LEMMA AdministrationRefines ==
    ASSUME IInv, Administration
    PROVE  Lifecycle!Next \/ UNCHANGED Lifecycle!vars
<1> USE BoundsAssumption DEF IInv
<1>1. phaseBar' = phaseBar
  <2>1. job' = job /\ broken' = broken
    BY DEF Administration, AdminMark, ClearErrors, AdminWrite, OpenForm, PostForm, SaveForm, DeleteRow,
       ToggleTest, ToggleEnrollment, DeleteTask
  <2> QED BY <2>1 DEF phaseBar, Live
<1>2. ASSUME NEW S \in SUBSET Administered, NEW columns, AdminWrite(S, columns)
      PROVE  Lifecycle!Next
  <2>1. row' \in [Subs -> Rows]
    BY StepTypeOK DEF Next, TypeOK
  <2>2. \A x \in S : row'[x] # Absent
    BY <1>2, AdministratorWrites DEF AdminWrite, Present
  <2> QED
    BY <1>1, <1>2, <2>1, <2>2, EditRefines DEF TypeOK, AdminWrite, Present, formVars
<1>3. ASSUME NEW s \in Administered, OpenForm(s) PROVE UNCHANGED Lifecycle!vars
  BY <1>1, <1>3 DEF OpenForm, Lifecycle!vars
<1>4. ASSUME NEW s \in Administered, PostForm(s)
      PROVE  Lifecycle!Next \/ UNCHANGED Lifecycle!vars
  <2>1. CASE Present(s)
    <3>1. row[s].status # "absent"
      BY <1>4, <2>1, RowEdits DEF TypeOK, PostForm, Present, Statuses, Verdicts
    <3>2. Lifecycle!Hold(s)
      BY <1>1, <1>4, <2>1, <3>1 DEF PostForm, Lifecycle!Hold
    <3> QED BY <1>4, <3>2 DEF Lifecycle!Next
  <2>2. CASE ~Present(s)
    BY <1>1, <1>4, <2>2 DEF PostForm, Lifecycle!vars
  <2> QED BY <2>1, <2>2
<1>5. ASSUME NEW s \in Administered, SaveForm(s) PROVE Lifecycle!Next
  <2>1. s \in Subs
    BY <1>5
  <2>2. CASE UNCHANGED <<row, marked>>
    <3>1. Lifecycle!PutBack(s)
      BY <1>1, <1>5, <2>2 DEF SaveForm, Lifecycle!PutBack
    <3> QED BY <2>1, <3>1 DEF Lifecycle!Next
  <2>3. CASE ~UNCHANGED <<row, marked>>
    <3>1. PICK st \in Statuses : row' = [row EXCEPT ![s] = [form[s] EXCEPT !.status = st]]
      BY <1>5, <2>3 DEF SaveForm
    <3>2. [form[s] EXCEPT !.status = st].status = st
      BY <1>5, <2>1, RowEdits DEF TypeOK, SaveForm, Opened
    <3>3. statusBar' = [statusBar EXCEPT ![s] = st]
      BY <2>1, <3>1, <3>2 DEF TypeOK, statusBar
    <3>4. st \in Lifecycle!Statuses
      BY DEF Statuses, Verdicts, Lifecycle!Statuses, Lifecycle!Verdicts
    <3>5. Lifecycle!PutBack(s)
      BY <1>1, <1>5, <2>3, <3>3, <3>4 DEF SaveForm, Lifecycle!PutBack, statusBar
    <3> QED BY <2>1, <3>5 DEF Lifecycle!Next
  <2> QED BY <2>2, <2>3
<1>6. ASSUME NEW s \in Administered, DeleteRow(s) PROVE Lifecycle!Next
  <2>1. marked' = [x \in Subs |-> x \notin {s} /\ marked[x]]
    BY <1>6 DEF DeleteRow, TypeOK
  <2>2. /\ \A x \in {s} : row'[x] = Absent
        /\ \A x \in Subs \ {s} : row'[x] = row[x]
    BY <1>6 DEF DeleteRow, TypeOK
  <2>3. {s} \in SUBSET Subs
    BY <1>6
  <2> QED BY <1>1, <1>6, <2>1, <2>2, <2>3, RemoveRefines DEF DeleteRow, formVars
<1>7. ASSUME NEW t \in Editable, ToggleTest(t) PROVE UNCHANGED Lifecycle!vars
  BY <1>1, <1>7 DEF ToggleTest, rowVars, Lifecycle!vars
<1>8. ASSUME NEW u \in Movable, ToggleEnrollment(u) PROVE UNCHANGED Lifecycle!vars
  BY <1>1, <1>8 DEF ToggleEnrollment, rowVars, Lifecycle!vars
<1>9. CASE DeleteTask
  <2>1. marked' = [x \in Subs |-> x \notin Subs /\ marked[x]]
    BY <1>9 DEF DeleteTask
  <2>2. \A x \in Subs : row'[x] = Absent
    BY <1>9 DEF DeleteTask
  <2> QED BY <1>1, <1>9, <2>1, <2>2, RemoveRefines DEF DeleteTask, formVars
<1> QED
  BY <1>2, <1>3, <1>4, <1>5, <1>6, <1>7, <1>8, <1>9 DEF Administration, AdminMark, ClearErrors

(* The code does what the lifecycle promises: a row is created pending,    *)
(* graded at most once, and otherwise changed by administrators only.      *)
THEOREM Refinement == Spec => ImplementsLifecycle
<1>1. IInv /\ [Next]_vars => [Lifecycle!Next]_(Lifecycle!vars)
  <2>1. CASE UNCHANGED vars
    BY <2>1 DEF vars, Lifecycle!vars, phaseBar, Live
  <2>2. ASSUME IInv, Next PROVE Lifecycle!Next \/ UNCHANGED Lifecycle!vars
    BY <2>2, JobStepRefines, AdministrationRefines DEF Next
  <2> QED BY <2>1, <2>2
<1> QED BY <1>1, InitRefines, Invariance, PTL DEF Spec, ImplementsLifecycle, Lifecycle!Spec
=============================================================================
