-------------------------- MODULE CheckPoolProofs --------------------------
(***************************************************************************)
(* Theorems about CheckPool, for any processes, threads and submissions.   *)
(***************************************************************************)
EXTENDS CheckPool, TLAPS

(* A process has a submission only after its row is stored, and no two     *)
(* processes handle the request of one.                                    *)
Known ==
    \A p \in Procs, s \in Subs :
        Queued(p, s) \/ Running(p, s) \/ request[p] = s => row[s] # "absent"
OneRequest ==
    \A p, q \in Procs, s \in Subs : request[p] = s /\ request[q] = s => p = q

IInv == TypeOK /\ OnePlace /\ Known /\ OneRequest

Holds(q, s) == \E i \in DOMAIN q : q[i] = s

(* What an appended element and a removed head do to a queue.              *)
LEMMA Appending ==
    ASSUME NEW q \in Seq(Subs), NEW s \in Subs
    PROVE  /\ Append(q, s) \in Seq(Subs)
           /\ \A x \in Subs : Holds(Append(q, s), x) => x = s \/ Holds(q, x)
           /\ IsInjective(q) /\ ~Holds(q, s) => IsInjective(Append(q, s))
<1>1. Len(q) \in Nat /\ DOMAIN q = 1..Len(q)
    OBVIOUS
<1>2. Append(q, s) \in Seq(Subs) /\ DOMAIN Append(q, s) = 1..(Len(q) + 1)
    OBVIOUS
<1>3. \A i \in 1..(Len(q) + 1) : Append(q, s)[i] = IF i = Len(q) + 1 THEN s ELSE q[i]
    BY <1>1
<1>4. \A i \in 1..(Len(q) + 1) : i = Len(q) + 1 \/ i \in DOMAIN q
    BY <1>1
<1>5. \A x \in Subs : Holds(Append(q, s), x) => x = s \/ Holds(q, x)
    BY <1>2, <1>3, <1>4 DEF Holds
<1>6. ASSUME IsInjective(q), ~Holds(q, s) PROVE IsInjective(Append(q, s))
    BY <1>2, <1>3, <1>4, <1>6 DEF Holds, IsInjective
<1>7. QED
    BY <1>2, <1>5, <1>6

LEMMA Removing ==
    ASSUME NEW q \in Seq(Subs), q # <<>>
    PROVE  /\ Head(q) \in Subs /\ Tail(q) \in Seq(Subs)
           /\ Holds(q, Head(q))
           /\ \A x \in Subs : Holds(Tail(q), x) => Holds(q, x)
           /\ \A x \in Subs : Holds(q, x) => x = Head(q) \/ Holds(Tail(q), x)
           /\ IsInjective(q) => IsInjective(Tail(q)) /\ ~Holds(Tail(q), Head(q))
<1>1. Len(q) \in Nat \ {0} /\ DOMAIN q = 1..Len(q) /\ Head(q) = q[1] /\ Head(q) \in Subs
    OBVIOUS
<1>2. Tail(q) \in Seq(Subs) /\ DOMAIN Tail(q) = 1..(Len(q) - 1)
    BY <1>1
<1>3. \A i \in 1..(Len(q) - 1) : Tail(q)[i] = q[i + 1] /\ i + 1 \in DOMAIN q /\ i + 1 # 1
    BY <1>1
<1>4. 1 \in DOMAIN q
    BY <1>1
<1>5. Holds(q, Head(q)) /\ \A x \in Subs : Holds(Tail(q), x) => Holds(q, x)
    BY <1>1, <1>2, <1>3, <1>4 DEF Holds
<1>6. ASSUME NEW x \in Subs, Holds(q, x), x # Head(q) PROVE Holds(Tail(q), x)
  <2>1. PICK i \in DOMAIN q : q[i] = x
      BY <1>6 DEF Holds
  <2>2. i - 1 \in 1..(Len(q) - 1) /\ (i - 1) + 1 = i
      BY <1>1, <1>6, <2>1
  <2>3. Tail(q)[i - 1] = x
      BY <1>3, <2>1, <2>2
  <2>4. QED
      BY <1>2, <2>2, <2>3 DEF Holds
<1>7. ASSUME IsInjective(q) PROVE IsInjective(Tail(q)) /\ ~Holds(Tail(q), Head(q))
  <2>1. \A i, j \in 1..(Len(q) - 1) : i + 1 = j + 1 => i = j
      OBVIOUS
  <2>2. \A i, j \in DOMAIN q : q[i] = q[j] => i = j
      BY <1>7 DEF IsInjective
  <2>3. QED
      BY <1>1, <1>2, <1>3, <1>4, <2>1, <2>2 DEF IsInjective, Holds
<1>8. QED
    BY <1>1, <1>2, <1>5, <1>6, <1>7

(* A thread of a process is given something else to do, or a connection.   *)
LEMMA Update ==
    ASSUME NEW A, NEW f \in [Procs -> [Threads -> A]], NEW p \in Procs, NEW t \in Threads,
           NEW a \in A
    PROVE  /\ [f EXCEPT ![p][t] = a] \in [Procs -> [Threads -> A]]
           /\ \A q \in Procs, u \in Threads :
                 [f EXCEPT ![p][t] = a][q][u] = IF q = p /\ u = t THEN a ELSE f[q][u]
<1>1. [f[p] EXCEPT ![t] = a] \in [Threads -> A]
    OBVIOUS
<1>2. [f EXCEPT ![p][t] = a] = [f EXCEPT ![p] = [f[p] EXCEPT ![t] = a]]
    OBVIOUS
<1>3. QED
    BY <1>1, <1>2

LEMMA UpdateWorker ==
    ASSUME TypeOK, NEW p \in Procs, NEW t \in Threads, NEW a \in Subs \union {None, Unstarted}
    PROVE  /\ [worker EXCEPT ![p][t] = a] \in [Procs -> [Threads -> Subs \union {None, Unstarted}]]
           /\ \A q \in Procs, u \in Threads :
                 [worker EXCEPT ![p][t] = a][q][u] = IF q = p /\ u = t THEN a ELSE worker[q][u]
<1> DEFINE A == Subs \union {None, Unstarted}
<1>1. worker \in [Procs -> [Threads -> A]] /\ a \in A
    BY DEF TypeOK
<1> HIDE DEF A
<1>2. /\ [worker EXCEPT ![p][t] = a] \in [Procs -> [Threads -> A]]
      /\ \A q \in Procs, u \in Threads :
            [worker EXCEPT ![p][t] = a][q][u] = IF q = p /\ u = t THEN a ELSE worker[q][u]
    BY <1>1, Update
<1>3. QED
    BY <1>2 DEF A

LEMMA UpdateConn ==
    ASSUME TypeOK, NEW p \in Procs, NEW t \in Threads
    PROVE  [conn EXCEPT ![p][t] = "open"] \in [Procs -> [Threads -> {"none", "open", "broken"}]]
<1> DEFINE A == {"none", "open", "broken"}
<1>1. conn \in [Procs -> [Threads -> A]] /\ "open" \in A
    BY DEF TypeOK
<1> HIDE DEF A
<1>2. [conn EXCEPT ![p][t] = "open"] \in [Procs -> [Threads -> A]]
    BY <1>1, Update
<1>3. QED
    BY <1>2 DEF A

(* The parts of OnePlace.                                                  *)
LEMMA Apart ==
    ASSUME OnePlace, NEW p \in Procs, NEW q \in Procs, NEW s \in Subs
    PROVE  /\ IsInjective(queue[p])
           /\ Queued(p, s) => ~Running(q, s) /\ request[q] # s /\ (p # q => ~Queued(q, s))
           /\ Running(p, s) => request[q] # s /\ (p # q => ~Running(q, s))
           /\ \A t, u \in Threads : worker[p][t] = s /\ worker[p][u] = s => t = u
BY Zenon DEF OnePlace

LEMMA Initial == Init => IInv
<1> SUFFICES ASSUME Init PROVE IInv
    OBVIOUS
<1> USE DistinctAssumption
<1>1. TypeOK
    BY DEF Init, TypeOK, NoThreads, NoConnections
<1>2. \A p \in Procs, s \in Subs : ~Queued(p, s) /\ ~Running(p, s) /\ request[p] # s
    BY DEF Init, Queued, Running, NoThreads
<1>3. \A p \in Procs : IsInjective(queue[p])
    BY DEF Init, IsInjective
<1>4. \A p \in Procs, t \in Threads, s \in Subs : worker[p][t] # s
    BY DEF Init, NoThreads
<1>5. QED
    BY <1>1, <1>2, <1>3, <1>4 DEF IInv, OnePlace, Known, OneRequest

LEMMA TypesPreserved == TypeOK /\ [Next]_vars => TypeOK'
<1> SUFFICES ASSUME TypeOK, [Next]_vars PROVE TypeOK'
    OBVIOUS
<1> USE DistinctAssumption, FaultAssumption DEF TypeOK, poolVars, NoThreads, NoConnections
<1>1. ASSUME NEW p \in Procs, NEW s \in Subs, Accept(p, s) PROVE TypeOK'
    BY <1>1 DEF Accept
<1>2. ASSUME NEW p \in Procs, Enqueue(p) PROVE TypeOK'
  <2>1. worker' \in [Procs -> [Threads -> Subs \union {None, Unstarted}]]
    <3>1. CASE worker' = worker
        BY <3>1
    <3>2. ASSUME NEW t \in Threads, worker' = [worker EXCEPT ![p][t] = None] PROVE worker' \in [Procs -> [Threads -> Subs \union {None, Unstarted}]]
        BY <3>2, UpdateWorker
    <3>3. QED
        BY <1>2, <3>1, <3>2 DEF Enqueue, Spawn, Started
  <2>2. request[p] \in Subs /\ queue[p] \in Seq(Subs)
      BY <1>2 DEF Enqueue
  <2>3. Append(queue[p], request[p]) \in Seq(Subs)
      BY <2>2, Appending
  <2>4. queue' \in [Procs -> Seq(Subs)]
      BY <1>2, <2>3 DEF Enqueue
  <2>5. QED
      BY <1>2, <2>1, <2>4 DEF Enqueue
<1>3. ASSUME NEW p \in Procs, NEW t \in Threads, Take(p, t) PROVE TypeOK'
  <2>1. queue[p] \in Seq(Subs) /\ queue[p] # <<>>
      BY <1>3 DEF Take
  <2>2. Head(queue[p]) \in Subs /\ Tail(queue[p]) \in Seq(Subs)
      BY <2>1, Removing
  <2>3. worker' \in [Procs -> [Threads -> Subs \union {None, Unstarted}]]
      BY <1>3, <2>2, UpdateWorker DEF Take
  <2>4. queue' \in [Procs -> Seq(Subs)]
      BY <1>3, <2>2 DEF Take
  <2>5. QED
      BY <1>3, <2>3, <2>4 DEF Take
<1>4. ASSUME NEW p \in Procs, NEW t \in Threads, Work(p, t) PROVE TypeOK'
  <2>1. worker' \in [Procs -> [Threads -> Subs \union {None, Unstarted}]]
    <3>1. CASE worker' = worker
        BY <3>1
    <3>2. CASE worker' = [worker EXCEPT ![p][t] = None]
        BY <3>2, UpdateWorker
    <3>3. QED
        BY <1>4, <3>1, <3>2 DEF Work, Connect, Finish, Fail
  <2>2. conn' \in [Procs -> [Threads -> {"none", "open", "broken"}]]
    <3>1. CASE conn' = conn
        BY <3>1
    <3>2. CASE conn' = [conn EXCEPT ![p][t] = "open"]
        BY <3>2, UpdateConn
    <3>3. QED
        BY <1>4, <3>1, <3>2 DEF Work, Connect, Finish, Fail
  <2>3. row' \in [Subs -> {"absent", "pending", "decided"}]
      BY <1>4 DEF Work, Connect, Finish, Fail
  <2>4. UNCHANGED <<state, request, queue, dbUp>>
      BY <1>4 DEF Work, Connect, Finish, Fail
  <2>5. QED
      BY <2>1, <2>2, <2>3, <2>4
<1>5. ASSUME NEW p \in Procs, Exit(p) \/ Kill(p) PROVE TypeOK'
  <2>1. Stop(p)
      BY <1>5 DEF Exit, Kill
  <2>2. <<>> \in Seq(Subs) /\ NoThreads \in [Threads -> Subs \union {None, Unstarted}]
        /\ NoConnections \in [Threads -> {"none", "open", "broken"}]
      OBVIOUS
  <2>3. queue' \in [Procs -> Seq(Subs)]
      BY <2>1, <2>2 DEF Stop
  <2>4. worker' \in [Procs -> [Threads -> Subs \union {None, Unstarted}]]
      BY <2>1, <2>2, Zenon DEF Stop
  <2>5. conn' \in [Procs -> [Threads -> {"none", "open", "broken"}]]
      BY <2>1, <2>2, Zenon DEF Stop
  <2>6. QED
      BY <2>1, <2>3, <2>4, <2>5 DEF Stop
<1>6. ASSUME NEW p \in Procs, Recycle(p) \/ Restart(p) PROVE TypeOK'
    BY <1>6 DEF Recycle, Restart
<1>7. CASE DatabaseGoes
    BY <1>7 DEF DatabaseGoes
<1>8. CASE DatabaseReturns
    BY <1>8 DEF DatabaseReturns
<1>9. CASE UNCHANGED vars
    BY <1>9 DEF vars
<1>10. QED
    BY <1>1, <1>2, <1>3, <1>4, <1>5, <1>6, <1>7, <1>8, <1>9 DEF Next

(* A step that hands no submission to anybody.                             *)
LEMMA Dropping ==
    ASSUME IInv,
           \A p \in Procs : queue'[p] \in {queue[p], <<>>},
           \A p \in Procs, t \in Threads : worker'[p][t] \in {worker[p][t], None, Unstarted},
           \A p \in Procs : request'[p] \in {request[p], None},
           \A s \in Subs : row[s] # "absent" => row'[s] # "absent"
    PROVE  OnePlace' /\ Known' /\ OneRequest'
<1> USE DistinctAssumption DEF IInv
<1>1. \A p \in Procs, s \in Subs :
          /\ Queued(p, s)' => Queued(p, s)
          /\ Running(p, s)' => Running(p, s)
          /\ request'[p] = s => request[p] = s
    BY DEF Queued, Running
<1>2. \A p \in Procs, s \in Subs : IsInjective(queue'[p])
  <2>1. IsInjective(<<>>)
    <3>1. DOMAIN <<>> = {}
        OBVIOUS
    <3>2. QED
        BY <3>1, Zenon DEF IsInjective
  <2>2. \A p \in Procs, s \in Subs : IsInjective(queue[p])
      BY Apart
  <2>3. QED
      BY <2>1, <2>2
<1>3. \A p \in Procs, t \in Threads, s \in Subs : worker'[p][t] = s => worker[p][t] = s
    OBVIOUS
<1>4. Known' /\ OneRequest'
    BY <1>1 DEF Known, OneRequest
<1>5. OnePlace'
  <2>1. \A p, q \in Procs, s \in Subs : Queued(p, s)' =>
            ~Running(q, s)' /\ request'[q] # s /\ (p # q => ~Queued(q, s)')
      BY <1>1, Apart
  <2>2. \A p, q \in Procs, s \in Subs : Running(p, s)' => request'[q] # s /\ (p # q => ~Running(q, s)')
      BY <1>1, Apart
  <2>3. \A p \in Procs, s \in Subs, t, u \in Threads : worker'[p][t] = s /\ worker'[p][u] = s => t = u
      BY <1>3, Apart
  <2>4. QED
      BY <1>2, <2>1, <2>2, <2>3, Zenon DEF OnePlace
<1>6. QED
    BY <1>4, <1>5

(* A row that was absent was nowhere in a pool.                            *)
LEMMA AcceptPreserves ==
    ASSUME IInv, NEW p \in Procs, NEW s \in Subs, Accept(p, s)
    PROVE  OnePlace' /\ Known' /\ OneRequest'
<1> USE DistinctAssumption DEF IInv, TypeOK
<1>1. UNCHANGED <<queue, worker>> /\ row[s] = "absent" /\ row' = [row EXCEPT ![s] = "pending"]
      /\ request' = [request EXCEPT ![p] = s]
    BY DEF Accept, poolVars
<1>2. \A q \in Procs : ~Queued(q, s) /\ ~Running(q, s) /\ request[q] # s
    BY <1>1 DEF Known
<1>3. \A q \in Procs, x \in Subs : (Queued(q, x)' <=> Queued(q, x)) /\ (Running(q, x)' <=> Running(q, x))
    BY <1>1 DEF Queued, Running
<1>4. \A q \in Procs, x \in Subs : request'[q] = x => request[q] = x \/ (q = p /\ x = s)
    BY <1>1
<1>5. OnePlace'
    BY <1>1, <1>2, <1>3, <1>4 DEF OnePlace
<1>6. Known'
    BY <1>1, <1>3, <1>4 DEF Known
<1>7. OneRequest'
    BY <1>2, <1>4 DEF OneRequest
<1>8. QED
    BY <1>5, <1>6, <1>7

LEMMA EnqueuePreserves ==
    ASSUME IInv, NEW p \in Procs, Enqueue(p)
    PROVE  OnePlace' /\ Known' /\ OneRequest'
<1> USE DistinctAssumption DEF IInv, TypeOK
<1>0. PICK s \in Subs : s = request[p]
    BY DEF Enqueue
<1>1. request[p] = s /\ row' = row
      /\ queue' = [queue EXCEPT ![p] = Append(@, s)] /\ request' = [request EXCEPT ![p] = None]
    BY <1>0 DEF Enqueue
<1>2. \A q \in Procs : ~Queued(q, s) /\ ~Running(q, s) /\ (q # p => request[q] # s)
    BY <1>1 DEF OnePlace, OneRequest
<1>3. \A q \in Procs, t \in Threads, x \in Subs : worker'[q][t] = x <=> worker[q][t] = x
  <2>1. CASE worker' = worker
      BY <2>1
  <2>2. CASE worker' # worker
    <3>1. PICK u \in Threads : worker[p][u] = Unstarted /\ worker' = [worker EXCEPT ![p][u] = None]
        BY <2>2 DEF Enqueue, Spawn, Started
    <3>2. \A q \in Procs, t \in Threads :
              worker'[q][t] = IF q = p /\ t = u THEN None ELSE worker[q][t]
        BY <3>1, UpdateWorker
    <3>3. QED
        BY <3>1, <3>2
  <2>3. QED
      BY <2>1, <2>2
<1>4. \A q \in Procs, x \in Subs : Running(q, x)' <=> Running(q, x)
    BY <1>3 DEF Running
<1>5. queue[p] \in Seq(Subs) /\ queue'[p] = Append(queue[p], s) /\ \A q \in Procs \ {p} : queue'[q] = queue[q]
    BY <1>1
<1>6. \A q \in Procs, x \in Subs : Queued(q, x)' => Queued(q, x) \/ (q = p /\ x = s)
  <2> SUFFICES ASSUME NEW q \in Procs, NEW x \in Subs, Queued(q, x)', ~(q = p /\ x = s)
               PROVE  Queued(q, x)
      OBVIOUS
  <2>1. CASE q # p
      BY <1>5, <2>1 DEF Queued
  <2>2. CASE q = p
      BY <1>1, <1>5, <2>2, Appending DEF Queued, Holds
  <2>3. QED
      BY <2>1, <2>2
<1>7. \A q \in Procs : IsInjective(queue'[q])
  <2>1. IsInjective(queue'[p])
    <3>1. IsInjective(queue[p]) /\ ~Queued(p, s)
        BY <1>2, Apart
    <3>2. QED
        BY <1>1, <1>5, <3>1, Appending DEF Queued, Holds
  <2>2. QED
      BY <1>5, <2>1, Apart
<1>8. \A q \in Procs, x \in Subs : request'[q] = x => request[q] = x /\ x # s
    BY <1>1, <1>2
<1>9. OnePlace'
  <2>1. \A q, r \in Procs, x \in Subs : Queued(q, x)' =>
            ~Running(r, x)' /\ request'[r] # x /\ (q # r => ~Queued(r, x)')
    <3> SUFFICES ASSUME NEW q \in Procs, NEW r \in Procs, NEW x \in Subs, Queued(q, x)'
                 PROVE  ~Running(r, x)' /\ request'[r] # x /\ (q # r => ~Queued(r, x)')
        OBVIOUS
    <3>1. Queued(q, x) => ~Running(r, x) /\ request[r] # x /\ (q # r => ~Queued(r, x))
        BY Apart
    <3>2. QED
        BY <1>2, <1>4, <1>6, <1>8, <3>1
  <2>2. \A q, r \in Procs, x \in Subs : Running(q, x)' => request'[r] # x /\ (q # r => ~Running(r, x)')
    <3> SUFFICES ASSUME NEW q \in Procs, NEW r \in Procs, NEW x \in Subs, Running(q, x)'
                 PROVE  request'[r] # x /\ (q # r => ~Running(r, x)')
        OBVIOUS
    <3>1. Running(q, x) => request[r] # x /\ (q # r => ~Running(r, x))
        BY Apart
    <3>2. QED
        BY <1>4, <1>8, <3>1
  <2>3. \A q \in Procs, x \in Subs, u, v \in Threads : worker'[q][u] = x /\ worker'[q][v] = x => u = v
      BY <1>3, Apart
  <2>4. QED
      BY <1>7, <2>1, <2>2, <2>3, Zenon DEF OnePlace
<1>10. Known'
    BY <1>1, <1>4, <1>6, <1>8 DEF Known
<1>11. OneRequest'
    BY <1>8 DEF OneRequest
<1>12. QED
    BY <1>9, <1>10, <1>11

LEMMA TakePreserves ==
    ASSUME IInv, NEW p \in Procs, NEW t \in Threads, Take(p, t)
    PROVE  OnePlace' /\ Known' /\ OneRequest'
<1> USE DistinctAssumption DEF IInv, TypeOK
<1>0. PICK s \in Subs : s = Head(queue[p])
    BY Removing DEF Take
<1>1. UNCHANGED <<row, request>> /\ worker[p][t] = None
      /\ queue' = [queue EXCEPT ![p] = Tail(@)] /\ worker' = [worker EXCEPT ![p][t] = s]
    BY <1>0 DEF Take
<1>2. queue[p] \in Seq(Subs) /\ queue[p] # <<>>
      /\ queue'[p] = Tail(queue[p]) /\ \A q \in Procs \ {p} : queue'[q] = queue[q]
    BY <1>1 DEF Take
<1>3. Queued(p, s)
    BY <1>0, <1>2, Removing DEF Queued, Holds
<1>4. IsInjective(queue[p])
    BY Apart
<1>5. ~Queued(p, s)' /\ IsInjective(queue'[p])
    BY <1>0, <1>2, <1>4, Removing DEF Queued, Holds
<1>6. \A q \in Procs, x \in Subs : Queued(q, x)' => Queued(q, x) /\ ~(q = p /\ x = s)
  <2> SUFFICES ASSUME NEW q \in Procs, NEW x \in Subs, Queued(q, x)' PROVE Queued(q, x)
      BY <1>5
  <2>1. CASE q # p
      BY <1>2, <2>1 DEF Queued
  <2>2. CASE q = p
    <3>1. Holds(Tail(queue[p]), x)
        BY <1>2, <2>2 DEF Queued, Holds
    <3>2. Holds(queue[p], x)
        BY <1>2, <3>1, Removing
    <3>3. QED
        BY <2>2, <3>2 DEF Queued, Holds
  <2>3. QED
      BY <2>1, <2>2
<1>7. \A q \in Procs, u \in Threads, x \in Subs :
          worker'[q][u] = x => worker[q][u] = x \/ (q = p /\ u = t /\ x = s)
  <2>1. \A q \in Procs, u \in Threads :
            worker'[q][u] = IF q = p /\ u = t THEN s ELSE worker[q][u]
      BY <1>1, <1>3, UpdateWorker
  <2>2. QED
      BY <2>1
<1>8. \A q \in Procs, x \in Subs : Running(q, x)' => Running(q, x) \/ (q = p /\ x = s)
  <2> SUFFICES ASSUME NEW q \in Procs, NEW x \in Subs, NEW u \in Threads, worker'[q][u] = x
               PROVE  Running(q, x) \/ (q = p /\ x = s)
      BY DEF Running
  <2>1. QED
      BY <1>7 DEF Running
<1>9. \A q \in Procs : ~Running(q, s) /\ request[q] # s /\ (q # p => ~Queued(q, s))
    BY <1>2, <1>3, Apart
<1>10. OnePlace'
  <2>1. \A q, r \in Procs, x \in Subs : Queued(q, x)' =>
            ~Running(r, x)' /\ request'[r] # x /\ (q # r => ~Queued(r, x)')
    <3> SUFFICES ASSUME NEW q \in Procs, NEW r \in Procs, NEW x \in Subs, Queued(q, x)'
                 PROVE  ~Running(r, x)' /\ request'[r] # x /\ (q # r => ~Queued(r, x)')
        OBVIOUS
    <3>1. Queued(q, x) => ~Running(r, x) /\ request[r] # x /\ (q # r => ~Queued(r, x))
        BY Apart
    <3>2. QED
        BY <1>1, <1>6, <1>8, <1>9, <3>1
  <2>2. \A q, r \in Procs, x \in Subs : Running(q, x)' => request'[r] # x /\ (q # r => ~Running(r, x)')
    <3> SUFFICES ASSUME NEW q \in Procs, NEW r \in Procs, NEW x \in Subs, Running(q, x)'
                 PROVE  request'[r] # x /\ (q # r => ~Running(r, x)')
        OBVIOUS
    <3>1. Running(q, x) => request[r] # x /\ (q # r => ~Running(r, x))
        BY Apart
    <3>2. QED
        BY <1>1, <1>8, <1>9, <3>1
  <2>3. \A q \in Procs, x \in Subs, u, v \in Threads : worker'[q][u] = x /\ worker'[q][v] = x => u = v
    <3> SUFFICES ASSUME NEW q \in Procs, NEW x \in Subs, NEW u \in Threads, NEW v \in Threads,
                        worker'[q][u] = x, worker'[q][v] = x
                 PROVE  u = v
        OBVIOUS
    <3>0. (worker[q][u] = x \/ (q = p /\ u = t /\ x = s)) /\ (worker[q][v] = x \/ (q = p /\ v = t /\ x = s))
        BY <1>7, Zenon
    <3>1. CASE x = s
      <4>1. \A w \in Threads : worker[q][w] # x
          BY <1>9, <3>1 DEF Running
      <4>2. QED
          BY <3>0, <4>1
    <3>2. CASE x # s
      <4>1. worker[q][u] = x /\ worker[q][v] = x
          BY <3>0, <3>2
      <4>2. QED
          BY <4>1, Apart
    <3>3. QED
        BY <3>1, <3>2
  <2>4. \A q \in Procs : IsInjective(queue'[q])
      BY <1>2, <1>5, Apart
  <2>5. QED
      BY <2>1, <2>2, <2>3, <2>4, Zenon DEF OnePlace
<1>11. Known'
    BY <1>1, <1>2, <1>3, <1>6, <1>8 DEF Known
<1>12. OneRequest'
    BY <1>1 DEF OneRequest
<1>13. QED
    BY <1>10, <1>11, <1>12

LEMMA Preserved == IInv /\ [Next]_vars => IInv'
<1> SUFFICES ASSUME IInv, [Next]_vars PROVE IInv'
    OBVIOUS
<1>1. TypeOK'
    BY TypesPreserved DEF IInv
<1> SUFFICES OnePlace' /\ Known' /\ OneRequest'
    BY <1>1 DEF IInv
<1>2. ASSUME NEW p \in Procs, NEW s \in Subs, Accept(p, s) PROVE OnePlace' /\ Known' /\ OneRequest'
    BY <1>2, AcceptPreserves
<1>3. ASSUME NEW p \in Procs, Enqueue(p) PROVE OnePlace' /\ Known' /\ OneRequest'
    BY <1>3, EnqueuePreserves
<1>4. ASSUME NEW p \in Procs, NEW t \in Threads, Take(p, t) PROVE OnePlace' /\ Known' /\ OneRequest'
    BY <1>4, TakePreserves
<1>5. ASSUME NEW p \in Procs, NEW t \in Threads, Work(p, t) PROVE OnePlace' /\ Known' /\ OneRequest'
  <2>1. UNCHANGED <<queue, request>> /\ \A s \in Subs : row[s] # "absent" => row'[s] # "absent"
      BY <1>5 DEF Work, Connect, Finish, Fail, IInv, TypeOK
  <2>2. \A q \in Procs, u \in Threads : worker'[q][u] \in {worker[q][u], None, Unstarted}
      BY <1>5, UpdateWorker DEF Work, Connect, Finish, Fail, IInv, TypeOK
  <2>3. QED
      BY <2>1, <2>2, Dropping
<1>6. ASSUME NEW p \in Procs, Exit(p) \/ Kill(p) PROVE OnePlace' /\ Known' /\ OneRequest'
  <2>1. Stop(p)
      BY <1>6 DEF Exit, Kill
  <2>2. \A q \in Procs : queue'[q] \in {queue[q], <<>>} /\ request'[q] \in {request[q], None}
      BY <2>1 DEF Stop, IInv, TypeOK
  <2>3. \A q \in Procs, u \in Threads : worker'[q][u] \in {worker[q][u], None, Unstarted}
      BY <2>1 DEF Stop, NoThreads, IInv, TypeOK
  <2>4. row' = row
      BY <2>1 DEF Stop
  <2>5. QED
      BY <2>2, <2>3, <2>4, Dropping
<1>7. CASE DatabaseGoes \/ DatabaseReturns \/ (\E p \in Procs : Recycle(p) \/ Restart(p)) \/ UNCHANGED vars
  <2>1. UNCHANGED <<queue, worker, request, row>>
      BY <1>7 DEF DatabaseGoes, DatabaseReturns, Recycle, Restart, poolVars, vars
  <2>2. QED
      BY <2>1, Dropping
<1>8. QED
    BY <1>2, <1>3, <1>4, <1>5, <1>6, <1>7 DEF Next

THEOREM Invariance == Spec => []IInv
BY Initial, Preserved, PTL DEF Spec

(* Every variable has its type.                                            *)
THEOREM TypeCorrect == Spec => []TypeOK
<1>1. IInv => TypeOK
    BY DEF IInv
<1>2. QED
    BY <1>1, Invariance, PTL

(* A submission is in one place at a time, in one process.                 *)
THEOREM Once == Spec => []OnePlace
<1>1. IInv => OnePlace
    BY DEF IInv
<1>2. QED
    BY <1>1, Invariance, PTL

(* A submission leaves the pool without a verdict only by a fault: every   *)
(* other step leaves it in the queue, moves it from the queue to a thread, *)
(* or decides it.                                                          *)
THEOREM Losses == Spec => LostOnlyByFault
<1> DEFINE Lost(p, s) ==
        (Queued(p, s) \/ Running(p, s)) /\ ~(Queued(p, s)' \/ Running(p, s)') =>
            \/ row'[s] = "decided"
            \/ p \in Mortal
            \/ \E t \in Threads : worker[p][t] = s /\ conn[p][t] # "open"
<1>1. ASSUME IInv, [Next]_vars, NEW p \in Procs, NEW s \in Subs PROVE Lost(p, s)
  <2> SUFFICES ASSUME Queued(p, s) \/ Running(p, s), ~(Queued(p, s)' \/ Running(p, s)')
               PROVE  \/ row'[s] = "decided"
                      \/ p \in Mortal
                      \/ \E t \in Threads : worker[p][t] = s /\ conn[p][t] # "open"
      OBVIOUS
  <2>1. queue[p] \in Seq(Subs) /\ (Queued(p, s) <=> Holds(queue[p], s))
        /\ ~Holds(queue'[p], s) /\ (\A t \in Threads : worker'[p][t] # s)
      BY <1>1 DEF IInv, TypeOK, Queued, Running, Holds
  <2>2. CASE \E q \in Procs : \E x \in Subs : Accept(q, x)
    <3>1. UNCHANGED <<queue, worker>>
        BY <2>2 DEF Accept, poolVars
    <3>2. QED
        BY <2>1, <3>1 DEF Running
  <2>3. ASSUME NEW q \in Procs, Enqueue(q) PROVE FALSE
    <3>1. Holds(queue[p], s) => Holds(queue'[p], s)
      <4>1. request[q] \in Subs /\ queue' = [queue EXCEPT ![q] = Append(@, request[q])]
          BY <1>1, <2>3 DEF Enqueue, IInv, TypeOK
      <4>2. \A i \in DOMAIN queue[p] : i \in DOMAIN queue'[p] /\ queue'[p][i] = queue[p][i]
        <5>1. CASE p # q
            BY <1>1, <4>1, <5>1 DEF IInv, TypeOK
        <5>2. CASE p = q
          <6>1. queue'[p] = Append(queue[p], request[q])
              BY <1>1, <4>1, <5>2 DEF IInv, TypeOK
          <6>2. QED
              BY <2>1, <4>1, <6>1
        <5>3. QED
            BY <5>1, <5>2
      <4>3. QED
          BY <4>2 DEF Holds
    <3>2. \A t \in Threads : worker[p][t] = s => worker'[p][t] = s
      <4>1. CASE worker' = worker
          BY <4>1
      <4>2. ASSUME NEW u \in Threads, worker[q][u] = Unstarted, worker' = [worker EXCEPT ![q][u] = None]
            PROVE  \A t \in Threads : worker[p][t] = s => worker'[p][t] = s
        <5>1. \A t \in Threads : worker'[p][t] = IF p = q /\ t = u THEN None ELSE worker[p][t]
            BY <1>1, <4>2, UpdateWorker DEF IInv
        <5>2. s # Unstarted
            BY DistinctAssumption
        <5>3. QED
            BY <4>2, <5>1, <5>2
      <4>3. QED
          BY <2>3, <4>1, <4>2 DEF Enqueue, Spawn, Started
    <3>3. QED
        BY <2>1, <3>1, <3>2 DEF Running
  <2>4. ASSUME NEW q \in Procs, NEW u \in Threads, Take(q, u) PROVE FALSE
    <3>1. worker[q][u] = None /\ queue[q] # <<>> /\ queue[q] \in Seq(Subs)
          /\ queue' = [queue EXCEPT ![q] = Tail(@)]
          /\ worker' = [worker EXCEPT ![q][u] = Head(queue[q])]
        BY <1>1, <2>4 DEF Take, IInv, TypeOK
    <3>2. Head(queue[q]) \in Subs
        BY <3>1, Removing
    <3>3. \A t \in Threads : worker'[p][t] = IF p = q /\ t = u THEN Head(queue[q]) ELSE worker[p][t]
        BY <1>1, <3>1, <3>2, UpdateWorker DEF IInv
    <3>4. ~Running(p, s)
        BY <2>1, <3>1, <3>3, DistinctAssumption DEF Running
    <3>5. p = q /\ Holds(queue[p], s) /\ queue'[p] = Tail(queue[p])
        BY <1>1, <2>1, <3>1, <3>4 DEF IInv, TypeOK
    <3>6. s = Head(queue[q])
        BY <2>1, <3>1, <3>5, Removing
    <3>7. QED
        BY <2>1, <3>3, <3>5, <3>6
  <2>5. ASSUME NEW q \in Procs, NEW u \in Threads, Work(q, u)
        PROVE  row'[s] = "decided" \/ \E t \in Threads : worker[p][t] = s /\ conn[p][t] # "open"
    <3>1. CASE Connect(q, u)
        BY <2>1, <3>1 DEF Connect, Running
    <3>2. CASE Finish(q, u) \/ Fail(q, u)
      <4>1. queue' = queue /\ worker' = [worker EXCEPT ![q][u] = None]
          BY <3>2 DEF Finish, Fail
      <4>2. \A t \in Threads : worker'[p][t] = IF p = q /\ t = u THEN None ELSE worker[p][t]
          BY <1>1, <4>1, UpdateWorker DEF IInv
      <4>3. p = q /\ worker[p][u] = s
          BY <2>1, <4>1, <4>2 DEF Running
      <4>4. CASE Finish(q, u)
          BY <1>1, <4>3, <4>4 DEF Finish, IInv, TypeOK
      <4>5. CASE Fail(q, u)
          BY <4>3, <4>5 DEF Fail
      <4>6. QED
          BY <3>2, <4>4, <4>5
    <3>3. QED
        BY <2>5, <3>1, <3>2 DEF Work
  <2>6. ASSUME NEW q \in Procs, Exit(q) \/ Kill(q) PROVE p \in Mortal
    <3>1. Stop(q)
        BY <2>6 DEF Exit, Kill
    <3>2. p = q
      <4>1. p # q => queue'[p] = queue[p] /\ worker'[p] = worker[p]
          BY <1>1, <3>1 DEF Stop, IInv, TypeOK
      <4>2. QED
          BY <2>1, <4>1 DEF Running
    <3>3. CASE Exit(q)
      <4>1. queue[p] = <<>> /\ Working(p) = {}
          BY <3>2, <3>3 DEF Exit
      <4>2. ~Holds(queue[p], s) /\ ~Running(p, s)
        <5>1. DOMAIN <<>> = {}
            OBVIOUS
        <5>2. ~Holds(queue[p], s)
            BY <4>1, <5>1, Zenon DEF Holds
        <5>3. QED
            BY <4>1, <5>2 DEF Running, Working
      <4>3. QED
          BY <2>1, <4>2
    <3>4. QED
        BY <2>6, <3>2, <3>3 DEF Kill
  <2>7. CASE DatabaseGoes \/ DatabaseReturns \/ (\E q \in Procs : Recycle(q) \/ Restart(q)) \/ UNCHANGED vars
    <3>1. UNCHANGED <<queue, worker>>
        BY <2>7 DEF DatabaseGoes, DatabaseReturns, Recycle, Restart, poolVars, vars
    <3>2. QED
        BY <2>1, <3>1 DEF Running
  <2>8. QED
      BY <1>1, <2>2, <2>3, <2>4, <2>5, <2>6, <2>7 DEF Next
<1>2. IInv /\ [Next]_vars => [\A p \in Procs, s \in Subs : Lost(p, s)]_vars
    BY <1>1
<1>3. QED
    BY <1>2, Invariance, PTL DEF Spec, LostOnlyByFault

-----------------------------------------------------------------------------
(* What a process holds: a queue has a thread, a request is one of a       *)
(* process that serves, and a process that is down holds nothing.          *)
Staffed(p) ==
    /\ queue[p] # <<>> => Started(p) # {}
    /\ request[p] # None => state[p] = "serving"
    /\ state[p] = "down" => queue[p] = <<>>

LEMMA StaffedInitially == Init => \A p \in Procs : Staffed(p)
BY DEF Init, Staffed

(* What a process keeps when another one moves, and when a thread of its   *)
(* own turns to something else.                                            *)
LEMMA StaffedElsewhere ==
    ASSUME NEW p \in Procs, Staffed(p),
           queue'[p] = queue[p], request'[p] = request[p], state'[p] = state[p],
           \A t \in Threads : worker[p][t] # Unstarted => worker'[p][t] # Unstarted
    PROVE  Staffed(p)'
BY DEF Staffed, Started

LEMMA StaffedPreserved ==
    ASSUME TypeOK, [Next]_vars, NEW p \in Procs, Staffed(p)
    PROVE  Staffed(p)'
<1>1. ASSUME NEW q \in Procs, NEW s \in Subs, Accept(q, s) PROVE Staffed(p)'
  <2>1. UNCHANGED <<state, queue, worker>> /\ state[q] = "serving"
      BY <1>1 DEF Accept, poolVars
  <2>2. request'[p] # request[p] => p = q
      BY <1>1 DEF Accept, TypeOK
  <2>3. QED
      BY <2>1, <2>2 DEF Staffed, Started
<1>2. ASSUME NEW q \in Procs, Enqueue(q) PROVE Staffed(p)'
  <2>1. /\ state' = state /\ request[q] # None /\ Spawn(q)
        /\ request' = [request EXCEPT ![q] = None]
        /\ queue' = [queue EXCEPT ![q] = Append(@, request[q])]
      BY <1>2 DEF Enqueue
  <2>2. \A u \in Threads : worker[p][u] # Unstarted => worker'[p][u] # Unstarted
    <3>1. CASE worker' = worker
        BY <3>1
    <3>2. ASSUME NEW t \in Threads, worker' = [worker EXCEPT ![q][t] = None]
          PROVE  \A u \in Threads : worker[p][u] # Unstarted => worker'[p][u] # Unstarted
        BY <3>2, UpdateWorker, DistinctAssumption DEF TypeOK
    <3>3. QED
        BY <2>1, <3>1, <3>2 DEF Spawn
  <2>3. CASE p # q
    <3>1. queue'[p] = queue[p] /\ request'[p] = request[p]
        BY <2>1, <2>3 DEF TypeOK
    <3>2. QED
        BY <2>1, <2>2, <3>1, StaffedElsewhere
  <2>4. CASE p = q
    <3>1. Started(p)' # {}
      <4>1. CASE Started(p) # {} /\ worker' = worker
          BY <4>1 DEF Started
      <4>2. ASSUME NEW t \in Threads, worker' = [worker EXCEPT ![q][t] = None]
            PROVE  Started(p)' # {}
        <5>1. worker'[p][t] = None
            BY <2>4, <4>2, UpdateWorker DEF TypeOK
        <5>2. QED
            BY <5>1, DistinctAssumption DEF Started
      <4>3. QED
          BY <2>1, <2>4, <4>1, <4>2 DEF Spawn
    <3>2. request'[p] = None
        BY <2>1, <2>4 DEF TypeOK
    <3>3. state'[p] # "down"
        BY <2>1, <2>4 DEF Staffed
    <3>4. QED
        BY <3>1, <3>2, <3>3 DEF Staffed
  <2>5. QED
      BY <2>3, <2>4
<1>3. ASSUME NEW q \in Procs, NEW t \in Threads, Take(q, t) PROVE Staffed(p)'
  <2>1. /\ UNCHANGED <<state, request>> /\ queue[q] # <<>> /\ worker[q][t] = None
        /\ worker' = [worker EXCEPT ![q][t] = Head(queue[q])]
        /\ queue' = [queue EXCEPT ![q] = Tail(@)]
      BY <1>3 DEF Take
  <2>2. Head(queue[q]) \in Subs
      BY <2>1 DEF TypeOK
  <2>3. \A u \in Threads : worker[p][u] # Unstarted => worker'[p][u] # Unstarted
      BY <2>1, <2>2, UpdateWorker, DistinctAssumption DEF TypeOK
  <2>4. queue[p] = <<>> => queue'[p] = <<>>
      BY <2>1 DEF TypeOK
  <2>5. QED
      BY <2>1, <2>3, <2>4 DEF Staffed, Started
<1>4. ASSUME NEW q \in Procs, NEW t \in Threads, Work(q, t) PROVE Staffed(p)'
  <2>1. UNCHANGED <<state, request, queue>>
      BY <1>4 DEF Work, Connect, Finish, Fail
  <2>2. worker' = worker \/ worker' = [worker EXCEPT ![q][t] = None]
      BY <1>4 DEF Work, Connect, Finish, Fail
  <2>3. \A u \in Threads : worker[p][u] # Unstarted => worker'[p][u] # Unstarted
      BY <2>2, UpdateWorker, DistinctAssumption DEF TypeOK
  <2>4. QED
      BY <2>1, <2>3, StaffedElsewhere
<1>5. ASSUME NEW q \in Procs, Exit(q) \/ Kill(q) PROVE Staffed(p)'
  <2>1. Stop(q)
      BY <1>5 DEF Exit, Kill
  <2>2. CASE p = q
      BY <2>1, <2>2 DEF Stop, Staffed, TypeOK
  <2>3. CASE p # q
    <3>1. /\ queue'[p] = queue[p] /\ request'[p] = request[p] /\ state'[p] = state[p]
          /\ worker'[p] = worker[p]
        BY <2>1, <2>3 DEF Stop, TypeOK
    <3>2. QED
        BY <3>1, StaffedElsewhere
  <2>4. QED
      BY <2>2, <2>3
<1>6. ASSUME NEW q \in Procs, Recycle(q) \/ Restart(q) PROVE Staffed(p)'
  <2>1. UNCHANGED <<request, queue, worker>>
      BY <1>6 DEF Recycle, Restart, poolVars
  <2>2. \/ state'[p] = state[p]
        \/ state'[p] = "draining" /\ request[p] = None
        \/ state'[p] = "serving"
      BY <1>6 DEF Recycle, Restart, TypeOK
  <2>3. QED
      BY <2>1, <2>2 DEF Staffed, Started
<1>7. CASE DatabaseGoes \/ DatabaseReturns \/ UNCHANGED vars
  <2>1. UNCHANGED <<state, request, queue, worker>>
      BY <1>7 DEF DatabaseGoes, DatabaseReturns, poolVars, vars
  <2>2. QED
      BY <2>1, StaffedElsewhere
<1>8. QED
    BY <1>1, <1>2, <1>3, <1>4, <1>5, <1>6, <1>7 DEF Next

(* A queue that is not empty belongs to a process that is alive and has a  *)
(* thread, through recycling, kills and outages.                           *)
THEOREM Staffing == Spec => []QueueHasThread
<1> DEFINE I == TypeOK /\ \A p \in Procs : Staffed(p)
<1>1. Init => I
    BY Initial, StaffedInitially DEF IInv
<1>2. I /\ [Next]_vars => I'
    BY TypesPreserved, StaffedPreserved
<1>3. I => QueueHasThread
    BY DEF Staffed, QueueHasThread, Alive, TypeOK
<1>4. QED
    BY <1>1, <1>2, <1>3, PTL DEF Spec

=============================================================================
