-------------------------- MODULE EnrollmentProofs --------------------------
(***************************************************************************)
(* Theorems about Enrollment, for any students, requests, pages and forms. *)
(***************************************************************************)
EXTENDS Enrollment, TLAPS

(* What is known of every number: a row has the status that was last said  *)
(* of it, and a number that is still to be given is on no page.            *)
Decided ==
    /\ \A i \in Rows : status[i] = decision[i]
    /\ \A i \in Ids : i > last =>
         /\ status[i] = None /\ decision[i] = "pending"
         /\ \A p \in Pages : i \notin page[p]
         /\ \A g \in Forms : form[g].id # i
    /\ \A i \in Ids : i <= last => applicant[i] \in Users
    /\ \A g \in Forms : form[g].posted => form[g].id \in Ids

(* A request that is past a statement has seen the course, and the row     *)
(* that refused its own: what it misses now was deleted meanwhile.         *)
Expected(e) ==
    /\ reply[e] = "error" => e \in deleted
    /\ place[e] \in {"select", "insert", "again"} /\ course = "gone" => e \in deleted
    /\ place[e] = "again" /\ RowsOf(Requester[e]) = {} => e \in deleted

IInv ==
    /\ TypeOK
    /\ Decided
    /\ course = "gone" => Rows = {}
    /\ \A e \in Requests : Expected(e)

LEMMA Initial == Init => IInv
BY EnrollmentAssumption DEF Init, IInv, TypeOK, Decided, Expected, Closed, Rows, RowsOf, Ids, Statuses

(* A step that moves one request and leaves rows, pages and course alone.  *)
LEMMA OneRequest ==
  ASSUME IInv, NEW e \in Requests, Expected(e)',
         UNCHANGED <<course, rowVars, staffVars, deleted, decision>>,
         \E p : place' = [place EXCEPT ![e] = p],
         reply' = reply \/ \E a : reply' = [reply EXCEPT ![e] = a],
         TypeOK'
  PROVE  IInv'
<1>1. Decided' /\ (course' = "gone" => Rows' = {})
    BY DEF IInv, Decided, rowVars, staffVars, Rows, RowsOf
<1>2. ASSUME NEW f \in Requests, f # e PROVE Expected(f)'
  <2>1. place'[f] = place[f] /\ reply'[f] = reply[f]
      BY <1>2 DEF IInv, TypeOK
  <2>2. RowsOf(Requester[f])' = RowsOf(Requester[f])
      BY DEF RowsOf, Rows, rowVars
  <2>3. QED
      BY <2>1, <2>2 DEF IInv, Expected
<1>3. QED
    BY <1>1, <1>2 DEF IInv

LEMMA LoadCoursePreserves ==
  ASSUME IInv, NEW e \in Requests, LoadCourse(e)
  PROVE  IInv'
<1>1. TypeOK'
    BY DEF IInv, TypeOK, LoadCourse, End, Goto, rowVars, staffVars
<1>2. Expected(e)'
    BY DEF IInv, TypeOK, Expected, LoadCourse, End, Goto, rowVars
<1>3. QED
    BY <1>1, <1>2, OneRequest DEF LoadCourse, End, Goto

LEMMA AnswerType ==
  ASSUME NEW e \in Requests, NEW s \in Statuses, NEW b \in BOOLEAN
  PROVE  AnswerFor(e, s, b) \in {"created", "already", "approved", "rejected"}
BY DEF AnswerFor, Statuses

LEMMA SelectPreserves ==
  ASSUME IInv, NEW e \in Requests, Select(e) \/ SelectAgain(e)
  PROVE  IInv'
<1>1. /\ UNCHANGED <<course, rowVars, exam, staffVars, deleted, decision>>
      /\ place[e] \in {"select", "again"}
      /\ \/ \E a \in {"created", "already", "approved", "rejected"} : End(e, a)
         \/ RowsOf(Requester[e]) = {} /\ place[e] = "select" /\ Goto(e, "insert") /\ reply' = reply
         \/ RowsOf(Requester[e]) = {} /\ place[e] = "again" /\ End(e, "error")
  <2>1. \A i \in RowsOf(Requester[e]) :
           AnswerFor(e, status[i], FALSE) \in {"created", "already", "approved", "rejected"}
      BY AnswerType DEF IInv, TypeOK, RowsOf, Rows
  <2>2. QED
      BY <2>1 DEF Select, SelectAgain
<1>2. TypeOK'
    BY <1>1 DEF IInv, TypeOK, End, Goto, rowVars, staffVars
<1>3. Expected(e)'
    BY <1>1 DEF IInv, TypeOK, Expected, End, Goto, rowVars
<1>4. QED
    BY <1>1, <1>2, <1>3, OneRequest DEF End, Goto

LEMMA InsertPreserves ==
  ASSUME IInv, NEW e \in Requests, Insert(e)
  PROVE  IInv'
<1> USE EnrollmentAssumption
<1>1. CASE course = "gone" \/ RowsOf(Requester[e]) # {}
  <2>1. /\ UNCHANGED <<course, rowVars, exam, reply, staffVars, deleted, decision>>
        /\ place[e] = "insert" /\ Goto(e, "again")
      BY <1>1 DEF Insert
  <2>2. TypeOK'
      BY <2>1 DEF IInv, TypeOK, Goto, rowVars, staffVars
  <2>3. Expected(e)'
      BY <1>1, <2>1 DEF IInv, TypeOK, Expected, Goto, rowVars, RowsOf, Rows
  <2>4. QED
      BY <2>1, <2>2, <2>3, OneRequest DEF Goto
<1>2. CASE ~(course = "gone" \/ RowsOf(Requester[e]) # {})
  <2> DEFINE i == last + 1
             u == Requester[e]
  <2>0. AnswerFor(e, "pending", TRUE) \in {"created", "already", "approved", "rejected"}
      BY AnswerType DEF Statuses
  <2>1. /\ i \in Ids /\ u \in Users /\ i # 0
        /\ last' = i
        /\ applicant' = [applicant EXCEPT ![i] = u]
        /\ status' = [status EXCEPT ![i] = "pending"]
        /\ place' = [place EXCEPT ![e] = "done"]
        /\ \E a \in {"created", "already", "approved", "rejected"} : reply' = [reply EXCEPT ![e] = a]
        /\ UNCHANGED <<course, exam, page, form, deleted, decision>>
        /\ course # "gone"
    <3>1. last < MaxId /\ last \in 0..MaxId
        BY <1>2 DEF Insert, IInv, TypeOK
    <3>2. i \in Ids /\ i # 0
        BY <3>1 DEF Ids
    <3>3. QED
        BY <1>2, <2>0, <3>2 DEF Insert, End, Goto, staffVars
  <2>2. TypeOK'
      BY <2>1 DEF IInv, TypeOK, Ids, Statuses
  <2>3. Rows' = Rows \union {i} /\ i \notin Rows
      BY <2>1 DEF IInv, TypeOK, Decided, Rows, Ids, Statuses
  <2>4. Decided'
    <3>1. \A j \in Rows' : status'[j] = decision'[j]
        BY <2>1, <2>3 DEF IInv, TypeOK, Decided, Rows, Ids
    <3>2. \A j \in Ids : j > last' => status'[j] = status[j] /\ j > last
        BY <2>1 DEF IInv, TypeOK, Ids
    <3>3. \A j \in Ids : j <= last' => applicant'[j] \in Users
        BY <2>1 DEF IInv, TypeOK, Decided, Ids
    <3>4. QED
        BY <2>1, <3>1, <3>2, <3>3 DEF IInv, Decided
  <2>5. ASSUME NEW f \in Requests PROVE Expected(f)'
    <3>1. RowsOf(Requester[f]) \subseteq RowsOf(Requester[f])'
        BY <2>1, <2>3 DEF RowsOf, IInv, TypeOK, Rows
    <3>2. f # e => place'[f] = place[f] /\ reply'[f] = reply[f]
        BY <2>1 DEF IInv, TypeOK
    <3>3. place'[e] = "done" /\ reply'[e] # "error"
        BY <2>1 DEF IInv, TypeOK
    <3>4. QED
        BY <2>1, <3>1, <3>2, <3>3 DEF IInv, Expected
  <2>6. QED
      BY <2>1, <2>2, <2>4, <2>5 DEF IInv
<1>3. QED
    BY <1>1, <1>2

(* A step of the staff leaves the requests alone and deletes nothing.      *)
LEMMA StaffStep ==
  ASSUME IInv, UNCHANGED <<course, requestVars, deleted, applicant>>,
         Rows \subseteq Rows', course = "gone" => Rows' = {},
         TypeOK', Decided'
  PROVE  IInv'
<1>1. ASSUME NEW e \in Requests PROVE Expected(e)'
  <2>1. RowsOf(Requester[e]) \subseteq RowsOf(Requester[e])'
      BY DEF RowsOf
  <2>2. QED
      BY <2>1 DEF IInv, Expected, requestVars
<1>2. QED
    BY <1>1 DEF IInv

LEMMA PagePreserves ==
  ASSUME IInv, NEW p \in Pages, OpenPage(p) \/ Decide(p)
  PROVE  IInv'
<1> USE EnrollmentAssumption
<1>1. CASE OpenPage(p)
  <2>1. /\ page' = [page EXCEPT ![p] = Rows]
        /\ UNCHANGED <<course, rowVars, requestVars, form, deleted, decision>>
      BY <1>1 DEF OpenPage
  <2>2. TypeOK'
      BY <2>1 DEF IInv, TypeOK, rowVars, requestVars, Rows
  <2>3. Rows' = Rows
      BY <2>1 DEF Rows, rowVars
  <2>4. Decided'
      BY <2>1, <2>3 DEF IInv, TypeOK, Decided, rowVars, Rows
  <2>5. QED
      BY <2>1, <2>2, <2>3, <2>4, StaffStep DEF IInv, rowVars
<1>2. CASE Decide(p)
  <2>1. PICK ticked \in SUBSET page[p] \ {{}}, said \in Statuses :
          /\ status' = [i \in Ids |-> IF i \in ticked \intersect Rows THEN said ELSE status[i]]
          /\ decision' = [i \in Ids |-> IF i \in ticked THEN said ELSE decision[i]]
      BY <1>2 DEF Decide
  <2>2. /\ page' = [page EXCEPT ![p] = {}]
        /\ UNCHANGED <<course, last, applicant, requestVars, form, deleted>>
      BY <1>2 DEF Decide
  <2>3. TypeOK'
      BY <2>1, <2>2 DEF IInv, TypeOK, requestVars
  <2>4. Rows' = Rows
      BY <2>1 DEF Rows, Statuses
  <2>5. \A i \in ticked : ~(i > last)
      BY <2>1 DEF IInv, TypeOK, Decided
  <2>6. Decided'
      BY <2>1, <2>2, <2>4, <2>5 DEF IInv, TypeOK, Decided, Rows
  <2>7. QED
      BY <2>2, <2>3, <2>4, <2>6, StaffStep DEF IInv
<1>3. QED
    BY <1>1, <1>2

LEMMA FormPreserves ==
  ASSUME IInv, NEW g \in Forms, OpenForm(g) \/ PostForm(g) \/ SaveForm(g)
  PROVE  IInv'
<1> USE EnrollmentAssumption
<1>1. CASE OpenForm(g) \/ PostForm(g)
  <2>1. UNCHANGED <<course, rowVars, requestVars, page, deleted, decision>>
      BY <1>1 DEF OpenForm, PostForm
  <2>2. \E i \in Ids \union {0}, b \in BOOLEAN :
          /\ form' = [form EXCEPT ![g] = [id |-> i, posted |-> b]]
          /\ i \in Rows \union {0} /\ (b => i \in Rows)
    <3>1. CASE OpenForm(g)
        BY <3>1 DEF OpenForm, Rows
    <3>2. CASE PostForm(g)
      <4>1. CASE form[g].id \in Rows
        <5>1. form' = [form EXCEPT ![g] = [id |-> form[g].id, posted |-> TRUE]]
            BY <3>2, <4>1 DEF PostForm
        <5>2. form[g].id \in Ids \union {0}
            BY <4>1 DEF Rows
        <5>3. QED
            BY <4>1, <5>1, <5>2, Zenon
      <4>2. CASE form[g].id \notin Rows
          BY <3>2, <4>2 DEF PostForm, Closed
      <4>3. QED
          BY <4>1, <4>2
    <3>3. QED
        BY <1>1, <3>1, <3>2
  <2>3. TypeOK'
      BY <2>1, <2>2 DEF IInv, TypeOK, rowVars, requestVars
  <2>4. Rows' = Rows
      BY <2>1 DEF Rows, rowVars
  <2>5. Decided'
      BY <2>1, <2>2, <2>4 DEF IInv, TypeOK, Decided, rowVars, Rows, Ids
  <2>6. QED
      BY <2>1, <2>3, <2>4, <2>5, StaffStep DEF IInv, rowVars
<1>2. CASE SaveForm(g)
  <2> DEFINE i == form[g].id
  <2>1. /\ form[g].posted /\ i \in Ids /\ ~(i > last)
        /\ form' = [form EXCEPT ![g] = Closed]
        /\ UNCHANGED <<course, last, applicant, requestVars, page, deleted>>
      BY <1>2 DEF SaveForm, IInv, TypeOK, Decided
  <2>2. CASE course # "gone" /\ RowsOf(applicant[i]) \subseteq {i}
    <3>1. PICK said \in Statuses : /\ status' = [status EXCEPT ![i] = said]
                                   /\ decision' = [decision EXCEPT ![i] = said]
        BY <1>2, <2>2 DEF SaveForm
    <3>2. TypeOK'
        BY <2>1, <3>1 DEF IInv, TypeOK, requestVars, Closed
    <3>3. Rows' = Rows \union {i}
        BY <2>1, <3>1 DEF IInv, TypeOK, Rows, Statuses
    <3>4. Decided'
        BY <2>1, <3>1, <3>3 DEF IInv, TypeOK, Decided, Rows, Closed, Ids
    <3>5. QED
        BY <2>1, <2>2, <3>2, <3>3, <3>4, StaffStep
  <2>3. CASE ~(course # "gone" /\ RowsOf(applicant[i]) \subseteq {i})
    <3>1. UNCHANGED <<status, decision>>
        BY <1>2, <2>3 DEF SaveForm
    <3>2. TypeOK'
        BY <2>1, <3>1 DEF IInv, TypeOK, requestVars, Closed
    <3>3. Rows' = Rows
        BY <3>1 DEF Rows
    <3>4. Decided'
        BY <2>1, <3>1, <3>3 DEF IInv, TypeOK, Decided, Closed, Ids
    <3>5. QED
        BY <2>1, <3>2, <3>3, <3>4, StaffStep DEF IInv
  <2>4. QED
      BY <2>2, <2>3
<1>3. QED
    BY <1>1, <1>2

LEMMA DeletionPreserves ==
  ASSUME IInv, (\E i \in Ids : Delete(i)) \/ DeleteCourse \/ EditCourse
  PROVE  IInv'
<1> USE EnrollmentAssumption
<1>1. ASSUME NEW i \in Ids, Delete(i) PROVE IInv'
  <2>1. /\ i \in Rows
        /\ status' = [status EXCEPT ![i] = None]
        /\ deleted' = deleted \union {e \in InFlight : Requester[e] = applicant[i]}
        /\ UNCHANGED <<course, last, applicant, place, exam, reply, page, form, decision>>
      BY <1>1 DEF Delete, requestVars, staffVars
  <2>2. TypeOK'
      BY <2>1 DEF IInv, TypeOK, InFlight
  <2>3. Rows' = Rows \ {i}
      BY <2>1 DEF IInv, TypeOK, Rows
  <2>4. Decided'
      BY <2>1, <2>3 DEF IInv, TypeOK, Decided, Rows, Ids
  <2>5. ASSUME NEW e \in Requests PROVE Expected(e)'
    <3>1. CASE Requester[e] = applicant[i]
        BY <2>1, <3>1 DEF IInv, TypeOK, Expected, InFlight
    <3>2. CASE Requester[e] # applicant[i]
      <4>1. RowsOf(Requester[e])' = RowsOf(Requester[e])
          BY <2>1, <2>3, <3>2 DEF RowsOf
      <4>2. QED
          BY <2>1, <4>1 DEF IInv, Expected
    <3>3. QED
        BY <3>1, <3>2
  <2>6. QED
      BY <2>1, <2>2, <2>3, <2>4, <2>5 DEF IInv
<1>2. CASE DeleteCourse
  <2>1. /\ course' = "gone"
        /\ status' = [i \in Ids |-> None]
        /\ deleted' = deleted \union InFlight
        /\ UNCHANGED <<last, applicant, place, exam, reply, page, form, decision>>
      BY <1>2 DEF DeleteCourse, requestVars, staffVars
  <2>2. TypeOK'
      BY <2>1 DEF IInv, TypeOK, InFlight
  <2>3. Rows' = {}
      BY <2>1 DEF Rows
  <2>4. Decided'
      BY <2>1, <2>3 DEF IInv, TypeOK, Decided
  <2>5. ASSUME NEW e \in Requests PROVE Expected(e)'
      BY <2>1 DEF IInv, TypeOK, Expected, InFlight
  <2>6. QED
      BY <2>1, <2>2, <2>3, <2>4, <2>5 DEF IInv
<1>3. CASE EditCourse
  <2>1. /\ course # "gone" /\ course' \in {"plain", "exam"}
        /\ UNCHANGED <<last, applicant, status, place, exam, reply, page, form, deleted, decision>>
      BY <1>3 DEF EditCourse, rowVars, requestVars, staffVars
  <2>2. TypeOK'
      BY <2>1 DEF IInv, TypeOK
  <2>3. QED
      BY <2>1, <2>2 DEF IInv, Decided, Expected, Rows, RowsOf
<1>4. QED
    BY <1>1, <1>2, <1>3

LEMMA Preserved == IInv /\ [Next]_vars => IInv'
<1> SUFFICES ASSUME IInv, [Next]_vars PROVE IInv'
    OBVIOUS
<1>1. CASE Next
    BY <1>1, LoadCoursePreserves, SelectPreserves, InsertPreserves, PagePreserves,
       FormPreserves, DeletionPreserves DEF Next
<1>2. CASE UNCHANGED vars
  <2>1. UNCHANGED <<course, last, applicant, status, place, exam, reply, page, form, deleted, decision>>
      BY <1>2 DEF vars, rowVars, requestVars, staffVars
  <2>2. QED
      BY <2>1 DEF IInv, TypeOK, Decided, Expected, Rows, RowsOf
<1>3. QED
    BY <1>1, <1>2

LEMMA Invariance == Spec => []IInv
<1>1. QED
    BY Initial, Preserved, PTL DEF Spec

(* Every column and every variable keeps its type.                         *)
THEOREM TypeCorrect == Spec => []TypeOK
<1>1. IInv => TypeOK
    BY DEF IInv
<1>2. QED
    BY <1>1, Invariance, PTL

(* The tasks of an exam open to whom the staff has approved, whichever     *)
(* pages, forms and requests meet.                                         *)
THEOREM Access == Spec => []AccessFollowsDecision
<1>1. IInv => AccessFollowsDecision
    BY DEF IInv, Decided, AccessFollowsDecision, ExamAccess, RowsOf
<1>2. QED
    BY <1>1, Invariance, PTL

(* Only a deletion makes a request to enroll fail.                         *)
THEOREM Answers == Spec => []ErrorOnlyByDeletion
<1>1. IInv => ErrorOnlyByDeletion
    BY DEF IInv, Expected, ErrorOnlyByDeletion
<1>2. QED
    BY <1>1, Invariance, PTL
=============================================================================
