----------------------------- MODULE Enrollment -----------------------------
(***************************************************************************)
(* Applications for a course: students enroll, staff decide on many        *)
(* applications at once from a page that may be old, or on one in a form   *)
(* of the admin, applications and the course are deleted meanwhile. The    *)
(* page of an exam shows its tasks only to who has been approved.          *)
(***************************************************************************)
EXTENDS Naturals

CONSTANTS
    Users,
    Owner,          \* the owner of the course
    Requests,       \* calls of EnrollView
    Requester,      \* who makes each of them
    Pages,          \* lists of applications open in browsers of the staff
    Forms,          \* change forms of the admin
    MaxId,          \* bound: applications are numbered up to it
    None            \* no user, no row, no page

Statuses == {"pending", "approved", "rejected"}
Ids == 1..MaxId

ASSUME EnrollmentAssumption ==
    /\ MaxId \in Nat
    /\ Requester \in [Requests -> Users]
    /\ None \notin Users \union Statuses

VARIABLES
    course,     \* "plain", "exam" or "gone"
    last,       \* the number of the last application; numbers never return
    applicant,  \* who made an application
    status,     \* the column of its row; None without a row
    place,      \* the next statement of a request
    exam,       \* is_exam of the course that it has loaded
    reply,      \* what it has answered
    page,       \* the applications that a page lists
    form,       \* the application a form is about, and whether its POST has loaded it
    deleted,    \* history: requests during which their row or the course was deleted
    decision    \* history: what the staff last said of an application

requestVars == <<place, exam, reply>>
staffVars == <<page, form>>
rowVars == <<last, applicant, status>>
vars == <<course, rowVars, requestVars, staffVars, deleted, decision>>

TypeOK ==
    /\ course \in {"plain", "exam", "gone"}
    /\ last \in 0..MaxId
    /\ applicant \in [Ids -> Users \union {None}]
    /\ status \in [Ids -> Statuses \union {None}]
    /\ place \in [Requests -> {"load", "select", "insert", "again", "done"}]
    /\ exam \in [Requests -> BOOLEAN]
    /\ reply \in [Requests -> {"none", "created", "already", "approved", "rejected",
                               "missing", "error"}]
    /\ page \in [Pages -> SUBSET Ids]
    /\ form \in [Forms -> [id : Ids \union {0}, posted : BOOLEAN]]
    /\ deleted \subseteq Requests
    /\ decision \in [Ids -> Statuses]

Closed == [id |-> 0, posted |-> FALSE]

Init ==
    /\ course \in {"plain", "exam"}
    /\ last = 0
    /\ applicant = [i \in Ids |-> None]
    /\ status = [i \in Ids |-> None]
    /\ place = [e \in Requests |-> "load"]
    /\ exam = [e \in Requests |-> FALSE]
    /\ reply = [e \in Requests |-> "none"]
    /\ page = [p \in Pages |-> {}]
    /\ form = [g \in Forms |-> Closed]
    /\ deleted = {}
    /\ decision = [i \in Ids |-> "pending"]

Rows == {i \in Ids : status[i] # None}
RowsOf(u) == {i \in Rows : applicant[i] = u}

Goto(e, next) == place' = [place EXCEPT ![e] = next]

-----------------------------------------------------------------------------
(* EnrollView. *)

End(e, answer) ==
    /\ Goto(e, "done")
    /\ reply' = [reply EXCEPT ![e] = answer]

LoadCourse(e) ==
    /\ place[e] = "load"
    /\ IF course = "gone"
       THEN End(e, "missing") /\ UNCHANGED exam
       ELSE Goto(e, "select") /\ exam' = [exam EXCEPT ![e] = course = "exam"] /\ UNCHANGED reply
    /\ UNCHANGED <<course, rowVars, staffVars, deleted, decision>>

AnswerFor(e, s, created) ==
    IF exam[e] /\ s # "pending" THEN s
    ELSE IF created THEN "created" ELSE "already"

(* get_or_create first looks for the row ...                               *)
Select(e) ==
    /\ place[e] = "select"
    /\ \/ \E i \in RowsOf(Requester[e]) : End(e, AnswerFor(e, status[i], FALSE))
       \/ RowsOf(Requester[e]) = {} /\ Goto(e, "insert") /\ UNCHANGED reply
    /\ UNCHANGED <<course, rowVars, exam, staffVars, deleted, decision>>

(* Mutant: a request that loses the race is not caught.                    *)
InsertUncaught(e) ==
    /\ place[e] = "insert"
    /\ IF course = "gone" \/ RowsOf(Requester[e]) # {}
       THEN End(e, "error") /\ UNCHANGED rowVars
       ELSE /\ last < MaxId
            /\ last' = last + 1
            /\ applicant' = [applicant EXCEPT ![last + 1] = Requester[e]]
            /\ status' = [status EXCEPT ![last + 1] = "pending"]
            /\ End(e, AnswerFor(e, "pending", TRUE))
    /\ UNCHANGED <<course, exam, staffVars, deleted, decision>>

(* ... then inserts it, which the unique columns and the foreign key may   *)
(* refuse ...                                                              *)
Insert(e) ==
    /\ place[e] = "insert"
    /\ IF course = "gone" \/ RowsOf(Requester[e]) # {}
       THEN Goto(e, "again") /\ UNCHANGED <<rowVars, reply>>
       ELSE /\ last < MaxId
            /\ last' = last + 1
            /\ applicant' = [applicant EXCEPT ![last + 1] = Requester[e]]
            /\ status' = [status EXCEPT ![last + 1] = "pending"]
            /\ End(e, AnswerFor(e, "pending", TRUE))
    /\ UNCHANGED <<course, exam, staffVars, deleted, decision>>

(* ... and then looks again; without a row the IntegrityError is raised.   *)
SelectAgain(e) ==
    /\ place[e] = "again"
    /\ \/ \E i \in RowsOf(Requester[e]) : End(e, AnswerFor(e, status[i], FALSE))
       \/ RowsOf(Requester[e]) = {} /\ End(e, "error")
    /\ UNCHANGED <<course, rowVars, exam, staffVars, deleted, decision>>

-----------------------------------------------------------------------------
(* CourseEnrollmentsView: the page, and the bulk action with what has been *)
(* ticked on it, one UPDATE that takes the rows that are left.             *)

OpenPage(p) ==
    /\ course # "gone"
    /\ page' = [page EXCEPT ![p] = Rows]
    /\ UNCHANGED <<course, rowVars, requestVars, form, deleted, decision>>

(* Mutant: the boxes name students instead of applications.                *)
DecideByStudent(p) ==
    /\ course # "gone"
    /\ \E ticked \in SUBSET page[p] \ {{}}, said \in Statuses :
         /\ status' = [i \in Ids |->
                IF i \in Rows /\ \E j \in ticked : applicant[j] = applicant[i]
                THEN said ELSE status[i]]
         /\ decision' = [i \in Ids |-> IF i \in ticked THEN said ELSE decision[i]]
    /\ page' = [page EXCEPT ![p] = {}]
    /\ UNCHANGED <<course, last, applicant, requestVars, form, deleted>>

Decide(p) ==
    /\ course # "gone"
    /\ \E ticked \in SUBSET page[p] \ {{}}, said \in Statuses :
         /\ status' = [i \in Ids |-> IF i \in ticked \intersect Rows THEN said ELSE status[i]]
         /\ decision' = [i \in Ids |-> IF i \in ticked THEN said ELSE decision[i]]
    /\ page' = [page EXCEPT ![p] = {}]
    /\ UNCHANGED <<course, last, applicant, requestVars, form, deleted>>

(* EnrollmentAdmin: a form that is opened, posted and saved with all its   *)
(* columns. A row that was deleted after the POST had loaded it is         *)
(* inserted again if the unique columns and the foreign key allow it.      *)
OpenForm(g) ==
    /\ \E i \in Rows : form' = [form EXCEPT ![g] = [id |-> i, posted |-> FALSE]]
    /\ UNCHANGED <<course, rowVars, requestVars, page, deleted, decision>>

PostForm(g) ==
    /\ form[g].id # 0 /\ ~form[g].posted
    /\ form' = [form EXCEPT ![g] =
           IF form[g].id \in Rows THEN [id |-> form[g].id, posted |-> TRUE] ELSE Closed]
    /\ UNCHANGED <<course, rowVars, requestVars, page, deleted, decision>>

SaveForm(g) ==
    LET i == form[g].id IN
    /\ form[g].posted
    /\ IF course # "gone" /\ RowsOf(applicant[i]) \subseteq {i}
       THEN \E said \in Statuses :
              /\ status' = [status EXCEPT ![i] = said]
              /\ decision' = [decision EXCEPT ![i] = said]
       ELSE UNCHANGED <<status, decision>>
    /\ form' = [form EXCEPT ![g] = Closed]
    /\ UNCHANGED <<course, last, applicant, requestVars, page, deleted>>

InFlight == {e \in Requests : place[e] \notin {"load", "done"}}

Delete(i) ==
    /\ i \in Rows
    /\ status' = [status EXCEPT ![i] = None]
    /\ deleted' = deleted \union {e \in InFlight : Requester[e] = applicant[i]}
    /\ UNCHANGED <<course, last, applicant, requestVars, staffVars, decision>>

EditCourse ==
    /\ course # "gone"
    /\ course' = IF course = "exam" THEN "plain" ELSE "exam"
    /\ UNCHANGED <<rowVars, requestVars, staffVars, deleted, decision>>

DeleteCourse ==
    /\ course # "gone"
    /\ course' = "gone"
    /\ status' = [i \in Ids |-> None]
    /\ deleted' = deleted \union InFlight
    /\ UNCHANGED <<last, applicant, requestVars, staffVars, decision>>

-----------------------------------------------------------------------------
Next ==
    \/ \E e \in Requests : LoadCourse(e) \/ Select(e) \/ Insert(e) \/ SelectAgain(e)
    \/ \E p \in Pages : OpenPage(p) \/ Decide(p)
    \/ \E g \in Forms : OpenForm(g) \/ PostForm(g) \/ SaveForm(g)
    \/ \E i \in Ids : Delete(i)
    \/ EditCourse \/ DeleteCourse

Spec == Init /\ [][Next]_vars

-----------------------------------------------------------------------------
(* CourseDetailView: exam_access, for a visitor who is logged in.          *)
ExamAccess(u) ==
    \/ course = "plain"
    \/ u = Owner
    \/ \E i \in RowsOf(u) : status[i] = "approved"

(* Correctness. TypeOK above is the type invariant.                        *)

(* The page of an exam opens to a student exactly while the staff's last   *)
(* word on the application that he has now is its approval. An old page    *)
(* decides on what it lists, never on the application that a student made  *)
(* after a listed one was deleted, and enrolling again leaves a decision   *)
(* as it is.                                                               *)
AccessFollowsDecision ==
    \A u \in Users :
        ExamAccess(u) <=>
            \/ course = "plain"
            \/ u = Owner
            \/ \E i \in RowsOf(u) : decision[i] = "approved"

(* Requests of the same student that meet are all answered: one fails only *)
(* when his application or the course was deleted meanwhile.               *)
ErrorOnlyByDeletion ==
    \A e \in Requests : reply[e] = "error" => e \in deleted

=============================================================================
