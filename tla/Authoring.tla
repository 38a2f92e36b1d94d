------------------------------ MODULE Authoring ------------------------------
(***************************************************************************)
(* The order of the tasks of a module while teachers work on it at the     *)
(* same time: a reordering writes all orders in one transaction, a new     *)
(* task is numbered after the greatest order, and the form of a task saves *)
(* every column of the row as it was loaded, its order included.           *)
(* PostgreSQL locks a row from the UPDATE that writes it to the end of the *)
(* transaction, and others see the new value only then.                    *)
(***************************************************************************)
EXTENDS Naturals, FiniteSets, Sequences, SequencesExt

CONSTANTS
    Tasks,          \* tasks of the module, the ones still to be created too
    Existing,       \* those that exist at the beginning
    Reorders, Creates, Edits,   \* requests of the three kinds
    NewTask,        \* the task that a request to create one inserts
    Lists,          \* lists of tasks a reordering may ask for
    Deletable,      \* tasks that may be deleted
    Mortal,         \* requests whose process may be killed
    MaxOrder,       \* bound: orders go no further
    None            \* no task

ASSUME RequestAssumption ==
    /\ Existing \subseteq Tasks /\ None \notin Tasks \union Reorders
    /\ NewTask \in [Creates -> Tasks \ Existing]
    /\ IsInjective(NewTask)
    /\ Reorders \intersect Creates = {}
    /\ Edits \intersect (Reorders \union Creates) = {}
    /\ Deletable \subseteq Tasks
    /\ Mortal \subseteq Reorders \union Creates \union Edits
ASSUME ListAssumption ==
    /\ MaxOrder \in Nat
    /\ Lists \subseteq Seq(Tasks)
    /\ \A l \in Lists : l # <<>> /\ Len(l) <= MaxOrder

VARIABLES
    order,      \* the column of every task as committed; 0 without a row
    place,      \* the next statement of every request
    list,       \* the list of a reordering between its checks and its end
    todo,       \* the part of it that is still to be written
    draft,      \* the rows it has written and not yet committed
    max,        \* the greatest order that a creating request has read
    seen,       \* the task that an edit has loaded, and its order
    outdated,   \* history: tasks whose order rests on an outdated reading
    last        \* history: the list of the last reordering that committed

reorderVars == <<list, todo, draft, last>>
vars == <<order, place, reorderVars, max, seen, outdated>>

Requests == Reorders \union Creates \union Edits
InFlight == {"update", "insert", "save"}
Nothing == [task |-> None, order |-> 0]
Present == {t \in Tasks : order[t] # 0}

TypeOK ==
    /\ order \in [Tasks -> 0..MaxOrder]
    /\ place \in [Requests -> {"new", "done"} \union InFlight]
    /\ list \in [Reorders -> Seq(Tasks)]
    /\ todo \in [Reorders -> Seq(Tasks)]
    /\ draft \in [Reorders -> SUBSET Tasks]
    /\ max \in [Creates -> 0..MaxOrder]
    /\ seen \in [Edits -> [task : Tasks \union {None}, order : 0..MaxOrder]]
    /\ outdated \subseteq Tasks
    /\ last \in Seq(Tasks)

Init ==
    /\ order \in [Tasks -> 0..MaxOrder]
    /\ Present = Existing
    /\ \A t, u \in Existing : order[t] = order[u] => t = u
    /\ place = [x \in Requests |-> "new"]
    /\ list = [r \in Reorders |-> <<>>]
    /\ todo = [r \in Reorders |-> <<>>]
    /\ draft = [r \in Reorders |-> {}]
    /\ max = [c \in Creates |-> 0]
    /\ seen = [e \in Edits |-> Nothing]
    /\ outdated = {}
    /\ last = <<>>

Goto(x, next) == place' = [place EXCEPT ![x] = next]

-----------------------------------------------------------------------------
(* ModuleTasksReorderView. One query before the transaction compares the   *)
(* list with the tasks of the module.                                      *)
CheckList(r) ==
    /\ place[r] = "new"
    /\ \E l \in Lists :
         IF IsInjective(l) /\ Range(l) = Present
         THEN /\ list' = [list EXCEPT ![r] = l]
              /\ todo' = [todo EXCEPT ![r] = l]
              /\ Goto(r, "update")
         ELSE Goto(r, "done") /\ UNCHANGED <<list, todo>>
    /\ UNCHANGED <<order, draft, last, max, seen, outdated>>

(* An UPDATE waits while another transaction has written the row.          *)
LockedFor(x, t) == \E r \in Reorders \ {x} : t \in draft[r]

(* Mutant: without transaction.atomic every UPDATE is committed at once.   *)
UpdateAutocommit(r) ==
    LET t == Head(todo[r])
        i == Len(list[r]) - Len(todo[r]) + 1
    IN /\ place[r] = "update" /\ todo[r] # <<>>
       /\ order' = [order EXCEPT ![t] = IF @ = 0 THEN 0 ELSE i]
       /\ todo' = [todo EXCEPT ![r] = Tail(@)]
       /\ IF Len(todo[r]) = 1
          THEN /\ last' = list[r] /\ outdated' = Present \ Range(list[r])
               /\ Goto(r, "done")
          ELSE UNCHANGED <<last, outdated, place>>
       /\ UNCHANGED <<list, draft, max, seen>>

(* It finds no row when the task has been deleted.                         *)
Update(r) ==
    /\ place[r] = "update" /\ todo[r] # <<>>
    /\ ~LockedFor(r, Head(todo[r]))
    /\ draft' = [draft EXCEPT ![r] = @ \union ({Head(todo[r])} \intersect Present)]
    /\ todo' = [todo EXCEPT ![r] = Tail(@)]
    /\ UNCHANGED <<order, place, list, last, max, seen, outdated>>

Position(l, t) == CHOOSE i \in DOMAIN l : l[i] = t

Close(r) ==
    /\ Goto(r, "done")
    /\ list' = [list EXCEPT ![r] = <<>>]
    /\ todo' = [todo EXCEPT ![r] = <<>>]
    /\ draft' = [draft EXCEPT ![r] = {}]

(* Tasks the transaction has not written keep an order that has nothing to *)
(* do with the new one.                                                    *)
Commit(r) ==
    /\ place[r] = "update" /\ todo[r] = <<>>
    /\ order' = [t \in Tasks |->
           IF t \in draft[r] THEN Position(list[r], t) ELSE order[t]]
    /\ outdated' = Present \ draft[r]
    /\ last' = list[r]
    /\ Close(r)
    /\ UNCHANGED <<max, seen>>

Rollback(r) ==
    /\ Close(r)
    /\ UNCHANGED <<order, last, max, seen, outdated>>

WaitsFor(r, q) ==
    /\ place[r] = "update" /\ todo[r] # <<>>
    /\ q # r /\ Head(todo[r]) \in draft[q]

(* Mutant: the exception is caught and the transaction left open.          *)
DeadlockKeepsLocks(r) ==
    /\ \E q \in Reorders : WaitsFor(r, q) /\ WaitsFor(q, r)
    /\ Goto(r, "done")
    /\ todo' = [todo EXCEPT ![r] = <<>>]
    /\ UNCHANGED <<order, list, draft, last, max, seen, outdated>>

InCircle(r) ==
    \E S \in SUBSET Reorders :
        /\ r \in S
        /\ \A q \in S : (\E x \in S : WaitsFor(q, x)) /\ (\E x \in S : WaitsFor(x, q))

(* PostgreSQL ends one of the transactions that wait for each other in a   *)
(* circle; atomic() rolls it back and the exception ends the request.      *)
Deadlock(r) == InCircle(r) /\ Rollback(r)

-----------------------------------------------------------------------------
(* TaskCreateView: the greatest order and the INSERT of the task with its  *)
(* test cases in one transaction, which locks nothing that others read.    *)

(* Mutant: the number of the tasks instead of their greatest order.        *)
HighestCount(m) == m = Cardinality(Present)

Highest(m) == (\A t \in Tasks : order[t] <= m) /\ (m = 0 \/ \E t \in Tasks : order[t] = m)

ReadMax(c) ==
    /\ place[c] = "new"
    /\ \/ \E m \in 0..MaxOrder :
            Highest(m) /\ max' = [max EXCEPT ![c] = m] /\ Goto(c, "insert")
       \/ Goto(c, "done") /\ UNCHANGED max
    /\ UNCHANGED <<order, reorderVars, seen, outdated>>

Insert(c) ==
    LET t == NewTask[c] IN
    /\ place[c] = "insert"
    /\ max[c] < MaxOrder
    /\ order' = [order EXCEPT ![t] = max[c] + 1]
    /\ outdated' = IF Highest(max[c]) THEN outdated ELSE outdated \union {t}
    /\ max' = [max EXCEPT ![c] = 0]
    /\ Goto(c, "done")
    /\ UNCHANGED <<reorderVars, seen>>

-----------------------------------------------------------------------------
(* TaskDetailView with save_task: the row is loaded, and saved as a whole. *)

LoadTask(e) ==
    /\ place[e] = "new"
    /\ \/ \E t \in Present :
            /\ seen' = [seen EXCEPT ![e] = [task |-> t, order |-> order[t]]]
            /\ Goto(e, "save")
       \/ Goto(e, "done") /\ UNCHANGED seen
    /\ UNCHANGED <<order, reorderVars, max, outdated>>

(* A row that has been deleted since is inserted again.                    *)
SaveTask(e) ==
    LET t == seen[e].task IN
    /\ place[e] = "save"
    /\ ~LockedFor(e, t)
    /\ order' = [order EXCEPT ![t] = seen[e].order]
    /\ outdated' = IF order[t] = seen[e].order THEN outdated ELSE outdated \union {t}
    /\ seen' = [seen EXCEPT ![e] = Nothing]
    /\ Goto(e, "done")
    /\ UNCHANGED <<reorderVars, max>>

(* TaskDeleteView; the deletion waits for the row like any UPDATE.         *)
Delete(t) ==
    /\ t \in Present
    /\ ~LockedFor(None, t)
    /\ order' = [order EXCEPT ![t] = 0]
    /\ outdated' = outdated \ {t}
    /\ UNCHANGED <<place, reorderVars, max, seen>>

(* The process that serves a request is killed: the database rolls back.   *)
Kill(x) ==
    /\ place[x] \in InFlight
    /\ IF x \in Reorders THEN Rollback(x)
       ELSE Goto(x, "done") /\ UNCHANGED <<order, reorderVars, max, seen, outdated>>

-----------------------------------------------------------------------------
Reorder(r) == Update(r) \/ Commit(r) \/ Deadlock(r)

Next ==
    \/ \E r \in Reorders : CheckList(r) \/ Reorder(r)
    \/ \E c \in Creates : ReadMax(c) \/ Insert(c)
    \/ \E e \in Edits : LoadTask(e) \/ SaveTask(e)
    \/ \E t \in Deletable : Delete(t)
    \/ \E x \in Mortal : Kill(x)

Spec == Init /\ [][Next]_vars

(* Requests go on while they are not waiting, and PostgreSQL looks for     *)
(* circles (deadlock_timeout).                                             *)
Fairness ==
    /\ \A r \in Reorders : WF_vars(Reorder(r))
    /\ \A e \in Edits : WF_vars(SaveTask(e))

FairSpec == Spec /\ Fairness

-----------------------------------------------------------------------------
(* Correctness. TypeOK above is the type invariant.                        *)

(* Two tasks have the same order only when one of them was written from an *)
(* outdated reading: the greatest order of before another creation, the    *)
(* row of before a reordering, the list of before a creation. Deletions,   *)
(* waits and rollbacks cause none, and a reordering that knows all tasks   *)
(* removes what others have caused.                                        *)
ClashOnlyByOutdated ==
    \A t, u \in Present \ outdated : order[t] = order[u] => t = u

(* What the last reordering has said stands, for all its tasks together,   *)
(* until a row is saved from an outdated reading: reorderings of different *)
(* teachers never mix, whichever rows each of them waits for.              *)
LastReorderStands ==
    \A i \in DOMAIN last :
        last[i] \in Present \ outdated => order[last[i]] = i

(* Rows are locked by transactions under way, and of these one can go on   *)
(* at any time, or waits in a circle that PostgreSQL finds: however many   *)
(* teachers reorder at once, they never all wait.                          *)
NobodyStuck ==
    /\ \A r \in Reorders : draft[r] # {} => place[r] = "update"
    /\ (\E r \in Reorders : place[r] = "update") =>
          \E r \in Reorders :
             /\ place[r] = "update"
             /\ todo[r] # <<>> /\ LockedFor(r, Head(todo[r])) => InCircle(r)

(* Two reorderings that wait for each other do not wait for ever, and      *)
(* nobody else waits for ever behind them.                                 *)
RequestsEnd ==
    \A x \in Reorders \union Edits : place[x] \in InFlight ~> place[x] = "done"

=============================================================================
