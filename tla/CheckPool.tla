----------------------------- MODULE CheckPool -----------------------------
(***************************************************************************)
(* Where the checks of submissions run: every gunicorn worker process has  *)
(* a thread pool of its own, created by get_executor, with a queue that    *)
(* lives in the memory of the process. A pool thread keeps one connection  *)
(* to the database for as long as it lives; Django renews connections only *)
(* around requests, and no request ever runs in a pool thread.             *)
(*                                                                         *)
(* What happens inside one check is the subject of SubmissionCheck.        *)
(***************************************************************************)
EXTENDS Naturals, Sequences, SequencesExt

CONSTANTS
    Procs,      \* worker processes of gunicorn
    Threads,    \* threads each pool may have (max_workers)
    Subs,       \* submissions
    None,       \* no submission
    Unstarted,  \* a thread the executor has not created
    Outages,    \* whether the database may go away
    Mortal      \* processes that may be killed

ASSUME DistinctAssumption ==
    /\ None \notin Subs
    /\ Unstarted \notin Subs \union {None}
ASSUME FaultAssumption == Outages \in BOOLEAN /\ Mortal \subseteq Procs

VARIABLES
    state,      \* state[p]: "serving", "draining" its pool before exit, or "down"
    request,    \* request[p]: the submission whose POST the process handles
    queue,      \* queue[p]: the executor's queue
    worker,     \* worker[p][t]: what thread t of the pool of p works on
    conn,       \* conn[p][t]: its connection: "none", "open" or "broken"
    row,        \* row[s]: "absent", "pending" or "decided"
    dbUp        \* the database answers

poolVars == <<queue, worker, conn>>
vars == <<state, request, queue, worker, conn, row, dbUp>>

TypeOK ==
    /\ state \in [Procs -> {"serving", "draining", "down"}]
    /\ request \in [Procs -> Subs \union {None}]
    /\ queue \in [Procs -> Seq(Subs)]
    /\ worker \in [Procs -> [Threads -> Subs \union {None, Unstarted}]]
    /\ conn \in [Procs -> [Threads -> {"none", "open", "broken"}]]
    /\ row \in [Subs -> {"absent", "pending", "decided"}]
    /\ dbUp \in BOOLEAN

NoThreads == [t \in Threads |-> Unstarted]
NoConnections == [t \in Threads |-> "none"]

Init ==
    /\ state = [p \in Procs |-> "serving"]
    /\ request = [p \in Procs |-> None]
    /\ queue = [p \in Procs |-> <<>>]
    /\ worker = [p \in Procs |-> NoThreads]
    /\ conn = [p \in Procs |-> NoConnections]
    /\ row = [s \in Subs |-> "absent"]
    /\ dbUp = TRUE

Alive(p) == state[p] \in {"serving", "draining"}
Started(p) == {t \in Threads : worker[p][t] # Unstarted}
Working(p) == {t \in Threads : worker[p][t] \in Subs}

-----------------------------------------------------------------------------
(* The request. A sync worker handles one at a time, on a connection that  *)
(* is opened for the request.                                              *)

Accept(p, s) ==
    /\ state[p] = "serving"
    /\ request[p] = None
    /\ dbUp
    /\ row[s] = "absent"
    /\ row' = [row EXCEPT ![s] = "pending"]
    /\ request' = [request EXCEPT ![p] = s]
    /\ UNCHANGED <<state, poolVars, dbUp>>

(* Mutant: the count of idle threads is believed before there is a thread. *)
SpawnMaybe(p) ==
    \/ \E t \in Threads \ Started(p) : worker' = [worker EXCEPT ![p][t] = None]
    \/ worker' = worker

(* executor.submit adds a thread until the pool is full, unless its count  *)
(* of idle threads says one is free. That count may be too high, never so  *)
(* while the pool has no thread at all.                                    *)
Spawn(p) ==
    \/ \E t \in Threads \ Started(p) : worker' = [worker EXCEPT ![p][t] = None]
    \/ Started(p) # {} /\ worker' = worker

(* Mutant: the closure is submitted once more before the response.         *)
EnqueueTwice(p) ==
    /\ request[p] # None
    /\ queue' = [queue EXCEPT ![p] = @ \o <<request[p], request[p]>>]
    /\ Spawn(p)
    /\ request' = [request EXCEPT ![p] = None]
    /\ UNCHANGED <<state, conn, row, dbUp>>

Enqueue(p) ==
    /\ request[p] # None
    /\ queue' = [queue EXCEPT ![p] = Append(@, request[p])]
    /\ Spawn(p)
    /\ request' = [request EXCEPT ![p] = None]
    /\ UNCHANGED <<state, conn, row, dbUp>>

-----------------------------------------------------------------------------
(* A thread of the pool.                                                   *)

Take(p, t) ==
    /\ Alive(p)
    /\ worker[p][t] = None
    /\ queue[p] # <<>>
    /\ worker' = [worker EXCEPT ![p][t] = Head(queue[p])]
    /\ queue' = [queue EXCEPT ![p] = Tail(@)]
    /\ UNCHANGED <<state, request, conn, row, dbUp>>

Connect(p, t) ==
    /\ worker[p][t] \in Subs
    /\ conn[p][t] = "none"
    /\ dbUp
    /\ conn' = [conn EXCEPT ![p][t] = "open"]
    /\ UNCHANGED <<state, request, queue, worker, row, dbUp>>

(* The job stores a verdict: the check's, or the report that it raised.    *)
Finish(p, t) ==
    /\ worker[p][t] \in Subs
    /\ conn[p][t] = "open"
    /\ row' = [row EXCEPT ![worker[p][t]] = "decided"]
    /\ worker' = [worker EXCEPT ![p][t] = None]
    /\ UNCHANGED <<state, request, queue, conn, dbUp>>

(* Mutant: a job whose connection is lost waits for it to come back.       *)
FailNever(p, t) ==
    /\ worker[p][t] \in Subs
    /\ conn[p][t] = "none" /\ ~dbUp
    /\ worker' = [worker EXCEPT ![p][t] = None]
    /\ UNCHANGED <<state, request, queue, conn, row, dbUp>>

(* Mutant: the job may end without storing anything on a good connection.  *)
FailAnyway(p, t) ==
    /\ worker[p][t] \in Subs
    /\ worker' = [worker EXCEPT ![p][t] = None]
    /\ UNCHANGED <<state, request, queue, conn, row, dbUp>>

(* Neither the check nor its except block reaches the database. The thread *)
(* and its connection stay as they are.                                    *)
Fail(p, t) ==
    /\ worker[p][t] \in Subs
    /\ conn[p][t] = "broken" \/ (conn[p][t] = "none" /\ ~dbUp)
    /\ worker' = [worker EXCEPT ![p][t] = None]
    /\ UNCHANGED <<state, request, queue, conn, row, dbUp>>

-----------------------------------------------------------------------------
(* The life of a process.                                                  *)

(* max_requests is reached: the process serves no more, and the            *)
(* interpreter waits for the pool before it exits.                         *)
Recycle(p) ==
    /\ state[p] = "serving"
    /\ request[p] = None
    /\ state' = [state EXCEPT ![p] = "draining"]
    /\ UNCHANGED <<request, poolVars, row, dbUp>>

Stop(p) ==
    /\ state' = [state EXCEPT ![p] = "down"]
    /\ request' = [request EXCEPT ![p] = None]
    /\ queue' = [queue EXCEPT ![p] = <<>>]
    /\ worker' = [worker EXCEPT ![p] = NoThreads]
    /\ conn' = [conn EXCEPT ![p] = NoConnections]
    /\ UNCHANGED <<row, dbUp>>

(* Mutant: the interpreter exits without waiting for the pool.             *)
ExitAtOnce(p) ==
    /\ state[p] = "draining"
    /\ Stop(p)

Exit(p) ==
    /\ state[p] = "draining"
    /\ queue[p] = <<>>
    /\ Working(p) = {}
    /\ Stop(p)

(* A timeout of gunicorn, the kernel or an operator kills the process.     *)
Kill(p) ==
    /\ p \in Mortal
    /\ Alive(p)
    /\ Stop(p)

Restart(p) ==
    /\ state[p] = "down"
    /\ state' = [state EXCEPT ![p] = "serving"]
    /\ UNCHANGED <<request, poolVars, row, dbUp>>

DatabaseGoes ==
    /\ Outages
    /\ dbUp
    /\ dbUp' = FALSE
    /\ conn' = [p \in Procs |-> [t \in Threads |->
                   IF conn[p][t] = "open" THEN "broken" ELSE conn[p][t]]]
    /\ UNCHANGED <<state, request, queue, worker, row>>

DatabaseReturns ==
    /\ ~dbUp
    /\ dbUp' = TRUE
    /\ UNCHANGED <<state, request, poolVars, row>>

-----------------------------------------------------------------------------
Work(p, t) == Connect(p, t) \/ Finish(p, t) \/ Fail(p, t)

Next ==
    \/ \E p \in Procs :
          \/ \E s \in Subs : Accept(p, s)
          \/ \E t \in Threads : Take(p, t) \/ Work(p, t)
          \/ Enqueue(p) \/ Recycle(p) \/ Exit(p) \/ Kill(p) \/ Restart(p)
    \/ DatabaseGoes \/ DatabaseReturns

Spec == Init /\ [][Next]_vars

(* Threads are scheduled by the operating system, and the arbiter of       *)
(* gunicorn replaces a process that is gone. Nothing makes the database    *)
(* come back.                                                              *)
Fairness ==
    \A p \in Procs :
        /\ WF_vars(Enqueue(p))
        /\ WF_vars(Restart(p))
        /\ WF_vars(\E t \in Threads : Take(p, t))
        /\ \A t \in Threads : WF_vars(Work(p, t))

FairSpec == Spec /\ Fairness

-----------------------------------------------------------------------------
(* Correctness. TypeOK above is the type invariant.                        *)

Queued(p, s) == \E i \in DOMAIN queue[p] : queue[p][i] = s
Running(p, s) == \E t \in Threads : worker[p][t] = s

(* The closure of a submission is in one place at a time, in one process:  *)
(* no submission is checked twice, and none is both queued and running.    *)
OnePlace ==
    \A p, q \in Procs, s \in Subs :
        /\ IsInjective(queue[p])
        /\ Queued(p, s) => ~Running(q, s) /\ request[q] # s /\ (p # q => ~Queued(q, s))
        /\ Running(p, s) => request[q] # s /\ (p # q => ~Running(q, s))
        /\ \A t, u \in Threads : worker[p][t] = s /\ worker[p][u] = s => t = u

(* A submission leaves the pool without a verdict only when its process    *)
(* is killed, or when the thread that has it cannot reach the database;    *)
(* the recycling of processes loses none.                                  *)
LostOnlyByFault ==
    [][\A p \in Procs, s \in Subs :
        (Queued(p, s) \/ Running(p, s)) /\ ~(Queued(p, s)' \/ Running(p, s)') =>
            \/ row'[s] = "decided"
            \/ p \in Mortal
            \/ \E t \in Threads : worker[p][t] = s /\ conn[p][t] # "open"]_vars

(* Whatever the executor believes of its idle threads, and whenever its    *)
(* process is recycled, a queue has a process that is alive and a thread.  *)
QueueHasThread ==
    \A p \in Procs : queue[p] # <<>> => Alive(p) /\ Started(p) # {}

(* Outages delay nobody: a queued submission is taken or dies with its     *)
(* process, because a job that cannot reach the database ends at once.     *)
QueueMoves ==
    \A p \in Procs, s \in Subs : Queued(p, s) ~> ~Queued(p, s)

(* In a process none of whose threads has lost its connection, a queued    *)
(* submission is decided unless the database or the process goes away.     *)
CleanProcessDecides ==
    \A p \in Procs, s \in Subs :
        (Queued(p, s) /\ \A t \in Threads : conn[p][t] # "broken") ~>
            (row[s] = "decided" \/ ~dbUp \/ state[p] = "down")

=============================================================================
