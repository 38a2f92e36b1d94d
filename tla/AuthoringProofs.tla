-------------------------- MODULE AuthoringProofs --------------------------
(***************************************************************************)
(* Theorems about Authoring, for any tasks, lists and requests.            *)
(***************************************************************************)
EXTENDS Authoring, FiniteSetTheorems, TLAPS

(* A reordering has a list without repetitions while it is in its          *)
(* transaction, and what it has written are rows of that list which nobody *)
(* can delete before it ends.                                              *)
Transaction(r) ==
    /\ list[r] \in Lists \union {<<>>}
    /\ IsInjective(list[r])
    /\ Range(todo[r]) \subseteq Range(list[r])
    /\ draft[r] \subseteq Range(list[r]) \intersect Present
    /\ place[r] # "update" => list[r] = <<>>

(* A task that is still to be inserted is unknown to everybody.            *)
Unborn(c) ==
    place[c] # "done" =>
        /\ order[NewTask[c]] = 0
        /\ \A r \in Reorders : NewTask[c] \notin Range(list[r])
        /\ NewTask[c] \notin Range(last)
        /\ \A e \in Edits : seen[e].task # NewTask[c]

IInv ==
    /\ TypeOK
    /\ \A r \in Reorders : Transaction(r)
    /\ \A c \in Creates : Unborn(c)
    /\ \A e \in Edits : place[e] = "save" => seen[e].task \in Tasks
    /\ ClashOnlyByOutdated
    /\ LastReorderStands

LEMMA EmptySequence ==
    /\ <<>> \in Seq(Tasks) /\ DOMAIN <<>> = {}
    /\ IsInjective(<<>>) /\ Range(<<>>) = {}
  BY DEF IsInjective, Range

LEMMA TailRange ==
  ASSUME NEW s \in Seq(Tasks), s # <<>>
  PROVE  Head(s) \in Range(s) /\ Range(Tail(s)) \subseteq Range(s)
<1>1. Len(s) \in Nat \ {0} /\ DOMAIN s = 1..Len(s) /\ Head(s) = s[1]
    OBVIOUS
<1>2. DOMAIN Tail(s) = 1..(Len(s) - 1) /\ \A i \in 1..(Len(s) - 1) : Tail(s)[i] = s[i + 1]
    OBVIOUS
<1>3. \A i \in 1..(Len(s) - 1) : i + 1 \in 1..Len(s)
    BY <1>1
<1>4. QED
    BY <1>1, <1>2, <1>3 DEF Range

(* The position of a task in a list without repetitions.                   *)
LEMMA PositionOf ==
  ASSUME NEW l \in Lists \union {<<>>}, IsInjective(l), NEW t \in Range(l)
  PROVE  /\ Position(l, t) \in 1..MaxOrder
         /\ l[Position(l, t)] = t
         /\ \A i \in DOMAIN l : l[i] = t => i = Position(l, t)
<1>1. \E i \in DOMAIN l : l[i] = t
    BY DEF Range
<1>2. Position(l, t) \in DOMAIN l /\ l[Position(l, t)] = t
    BY <1>1 DEF Position
<1>3. DOMAIN l \subseteq 1..MaxOrder
  <2>1. CASE l \in Lists
    <3>1. l \in Seq(Tasks) /\ Len(l) \in Nat /\ DOMAIN l = 1..Len(l) /\ Len(l) <= MaxOrder
        BY <2>1, ListAssumption
    <3>2. QED
        BY <3>1, ListAssumption
  <2>2. QED
      BY <2>1, EmptySequence
<1>4. QED
    BY <1>2, <1>3 DEF IsInjective

LEMMA Initial == Init => IInv
<1> SUFFICES ASSUME Init PROVE IInv
    OBVIOUS
<1> USE RequestAssumption, ListAssumption, EmptySequence DEF Init
<1>1. TypeOK
    BY DEF TypeOK, Requests, InFlight, Nothing
<1>2. \A r \in Reorders : Transaction(r)
    BY DEF Transaction, Requests
<1>3. \A c \in Creates : Unborn(c)
    BY DEF Unborn, Present, Nothing
<1>4. \A e \in Edits : place[e] # "save"
    BY DEF Requests
<1>5. ClashOnlyByOutdated /\ LastReorderStands
    BY DEF ClashOnlyByOutdated, LastReorderStands
<1>6. QED
    BY <1>1, <1>2, <1>3, <1>4, <1>5 DEF IInv

(* What a step keeps by leaving the rows and the histories alone.          *)
LEMMA RowsUnchanged ==
  ASSUME IInv, UNCHANGED <<order, outdated, last>>
  PROVE  Present' = Present /\ ClashOnlyByOutdated' /\ LastReorderStands'
BY DEF IInv, Present, ClashOnlyByOutdated, LastReorderStands

LEMMA TransactionUnchanged ==
  ASSUME NEW r \in Reorders, Transaction(r), Present \subseteq Present',
         list'[r] = list[r], todo'[r] = todo[r], draft'[r] = draft[r], place'[r] = place[r]
  PROVE  Transaction(r)'
BY DEF Transaction

(* A step that inserts nothing, and after which only tasks with a row are  *)
(* known that were not, keeps what is still to be inserted unknown.        *)
LEMMA UnbornUnchanged ==
  ASSUME NEW c \in Creates, Unborn(c), TypeOK,
         place'[c] # "done" => place[c] # "done",
         order[NewTask[c]] = 0 => order'[NewTask[c]] = 0,
         \A r \in Reorders : Range(list'[r]) \subseteq Range(list[r]) \union Present,
         Range(last') \subseteq Range(last) \union UNION {Range(list[r]) : r \in Reorders},
         \A e \in Edits : seen'[e].task \in {seen[e].task, None} \union Present
  PROVE  Unborn(c)'
<1>1. NewTask[c] \in Tasks /\ NewTask[c] # None
    BY RequestAssumption
<1>2. SUFFICES ASSUME place'[c] # "done"
      PROVE  /\ order'[NewTask[c]] = 0
             /\ \A r \in Reorders : NewTask[c] \notin Range(list'[r])
             /\ NewTask[c] \notin Range(last')
             /\ \A e \in Edits : seen'[e].task # NewTask[c]
    BY DEF Unborn
<1>3. order[NewTask[c]] = 0 /\ NewTask[c] \notin Present
    BY <1>2 DEF Unborn, Present
<1>4. QED
    BY <1>1, <1>2, <1>3 DEF Unborn

(* The steps of a reordering, its end by a kill included.                  *)
LEMMA CheckListPreserves ==
  ASSUME IInv, NEW r \in Reorders, CheckList(r)
  PROVE  IInv'
<1> USE RequestAssumption, ListAssumption, EmptySequence
<1>1. TypeOK /\ Transaction(r) /\ r \in Requests /\ place[r] = "new"
    BY DEF IInv, Requests, CheckList
<1>2. UNCHANGED <<order, draft, last, max, seen, outdated>>
    BY DEF CheckList
<1>3. \E l \in Lists :
         \/ /\ IsInjective(l) /\ Range(l) = Present
            /\ list' = [list EXCEPT ![r] = l] /\ todo' = [todo EXCEPT ![r] = l]
            /\ place' = [place EXCEPT ![r] = "update"]
         \/ list' = list /\ todo' = todo /\ place' = [place EXCEPT ![r] = "done"]
    BY DEF CheckList, Goto
<1>4. TypeOK'
    BY <1>1, <1>2, <1>3 DEF TypeOK, InFlight
<1>5. list[r] = <<>> /\ draft[r] = {}
    BY <1>1 DEF Transaction
<1>6. ASSUME NEW q \in Reorders PROVE Transaction(q)'
  <2>1. Present' = Present
      BY <1>2 DEF Present
  <2>2. CASE q = r
      BY <1>1, <1>2, <1>3, <1>5, <2>1, <2>2 DEF Transaction, TypeOK
  <2>3. CASE q # r
    <3>1. list'[q] = list[q] /\ todo'[q] = todo[q] /\ draft'[q] = draft[q] /\ place'[q] = place[q]
        BY <1>1, <1>2, <1>3, <2>3 DEF TypeOK, Requests
    <3>2. QED
        BY <2>1, <3>1, TransactionUnchanged DEF IInv
  <2>4. QED
      BY <2>2, <2>3
<1>7. ASSUME NEW c \in Creates PROVE Unborn(c)'
  <2>1. place'[c] = place[c]
      BY <1>1, <1>3 DEF TypeOK, Requests
  <2>2. \A q \in Reorders : Range(list'[q]) \subseteq Range(list[q]) \union Present
      BY <1>1, <1>3 DEF TypeOK
  <2>3. QED
      BY <1>1, <1>2, <2>1, <2>2, UnbornUnchanged DEF IInv
<1>8. \A e \in Edits : place'[e] = "save" => seen'[e].task \in Tasks
    BY <1>1, <1>2, <1>3 DEF IInv, TypeOK, Requests
<1>9. QED
    BY <1>2, <1>4, <1>6, <1>7, <1>8, RowsUnchanged DEF IInv

LEMMA UpdatePreserves ==
  ASSUME IInv, NEW r \in Reorders, Update(r)
  PROVE  IInv'
<1> USE RequestAssumption, ListAssumption, EmptySequence
<1>1. TypeOK /\ Transaction(r) /\ r \in Requests /\ place[r] = "update" /\ todo[r] # <<>>
    BY DEF IInv, Requests, Update
<1>2. UNCHANGED <<order, place, list, last, max, seen, outdated>>
    BY DEF Update
<1>3. /\ draft' = [draft EXCEPT ![r] = @ \union ({Head(todo[r])} \intersect Present)]
      /\ todo' = [todo EXCEPT ![r] = Tail(@)]
    BY DEF Update
<1>4. TypeOK'
    BY <1>1, <1>2, <1>3 DEF TypeOK, Present
<1>5. Head(todo[r]) \in Range(list[r]) /\ Range(Tail(todo[r])) \subseteq Range(list[r])
  <2>1. todo[r] \in Seq(Tasks)
      BY <1>1 DEF TypeOK
  <2>2. Head(todo[r]) \in Range(todo[r]) /\ Range(Tail(todo[r])) \subseteq Range(todo[r])
      BY <1>1, <2>1, TailRange
  <2>3. QED
      BY <1>1, <2>2 DEF Transaction
<1>6. ASSUME NEW q \in Reorders PROVE Transaction(q)'
  <2>1. Present' = Present
      BY <1>2 DEF Present
  <2>2. CASE q = r
      BY <1>1, <1>2, <1>3, <1>5, <2>1, <2>2 DEF Transaction, TypeOK
  <2>3. CASE q # r
    <3>1. draft'[q] = draft[q] /\ todo'[q] = todo[q]
        BY <1>1, <1>3, <2>3 DEF TypeOK
    <3>2. QED
        BY <1>2, <2>1, <3>1, TransactionUnchanged DEF IInv
  <2>4. QED
      BY <2>2, <2>3
<1>7. QED
    BY <1>1, <1>2, <1>4, <1>6, RowsUnchanged DEF IInv, Unborn

LEMMA CommitPreserves ==
  ASSUME IInv, NEW r \in Reorders, Commit(r)
  PROVE  IInv'
<1> USE RequestAssumption, ListAssumption, EmptySequence
<1>1. TypeOK /\ Transaction(r) /\ r \in Requests /\ place[r] = "update"
    BY DEF IInv, Requests, Commit
<1>2. UNCHANGED <<max, seen>>
    BY DEF Commit
<1>3. /\ order' = [t \in Tasks |->
                     IF t \in draft[r] THEN Position(list[r], t) ELSE order[t]]
      /\ outdated' = Present \ draft[r]
      /\ last' = list[r]
    BY DEF Commit
<1>4. /\ place' = [place EXCEPT ![r] = "done"]
      /\ list' = [list EXCEPT ![r] = <<>>]
      /\ todo' = [todo EXCEPT ![r] = <<>>]
      /\ draft' = [draft EXCEPT ![r] = {}]
    BY DEF Commit, Close, Goto
<1>5. ASSUME NEW t \in draft[r]
      PROVE  /\ t \in Tasks /\ order'[t] \in 1..MaxOrder
             /\ order'[t] = Position(list[r], t)
             /\ list[r][order'[t]] = t
             /\ \A i \in DOMAIN list[r] : list[r][i] = t => i = order'[t]
  <2>1. t \in Tasks /\ order'[t] = Position(list[r], t)
      BY <1>1, <1>3 DEF TypeOK
  <2>2. QED
      BY <1>1, <2>1, PositionOf DEF Transaction
<1>6. TypeOK'
  <2>1. order' \in [Tasks -> 0..MaxOrder]
    <3>1. ASSUME NEW t \in Tasks PROVE order'[t] \in 0..MaxOrder
      <4>1. CASE t \in draft[r]
          BY <1>5, <4>1
      <4>2. CASE t \notin draft[r]
          BY <1>1, <1>3, <4>2 DEF TypeOK
      <4>3. QED
          BY <4>1, <4>2
    <3>2. QED
        BY <1>3, <3>1
  <2>2. QED
      BY <1>1, <1>2, <1>3, <1>4, <2>1 DEF TypeOK, Present
<1>7. Present' = Present
  <2>1. ASSUME NEW t \in Tasks PROVE order'[t] # 0 <=> order[t] # 0
    <3>1. CASE t \in draft[r]
        BY <1>1, <1>5, <3>1 DEF Transaction, Present
    <3>2. CASE t \notin draft[r]
        BY <1>3, <3>2
    <3>3. QED
        BY <3>1, <3>2
  <2>2. QED
      BY <2>1 DEF Present
<1>8. ASSUME NEW q \in Reorders PROVE Transaction(q)'
  <2>1. CASE q = r
      BY <1>1, <1>4, <2>1 DEF Transaction, TypeOK
  <2>2. CASE q # r
    <3>1. list'[q] = list[q] /\ todo'[q] = todo[q] /\ draft'[q] = draft[q] /\ place'[q] = place[q]
        BY <1>1, <1>4, <2>2 DEF TypeOK, Requests
    <3>2. QED
        BY <1>7, <3>1, TransactionUnchanged DEF IInv
  <2>3. QED
      BY <2>1, <2>2
<1>9. ASSUME NEW c \in Creates PROVE Unborn(c)'
  <2>1. place'[c] = place[c]
      BY <1>1, <1>4 DEF TypeOK, Requests
  <2>2. order[NewTask[c]] = 0 => order'[NewTask[c]] = 0
      BY <1>7 DEF Present
  <2>3. \A q \in Reorders : Range(list'[q]) \subseteq Range(list[q]) \union Present
      BY <1>1, <1>4 DEF TypeOK
  <2>4. Range(last') \subseteq UNION {Range(list[q]) : q \in Reorders}
      BY <1>3
  <2>5. QED
      BY <1>1, <1>2, <2>1, <2>2, <2>3, <2>4, UnbornUnchanged DEF IInv
<1>10. \A e \in Edits : place'[e] = "save" => seen'[e].task \in Tasks
    BY <1>1, <1>2, <1>4 DEF IInv, TypeOK, Requests
<1>11. ClashOnlyByOutdated'
  <2>1. ASSUME NEW t \in (Present \ outdated)', NEW u \in (Present \ outdated)',
               order'[t] = order'[u]
        PROVE  t = u
    <3>1. t \in draft[r] /\ u \in draft[r]
        BY <1>3, <1>7, <2>1
    <3>2. QED
        BY <1>5, <2>1, <3>1
  <2>2. QED
      BY <2>1 DEF ClashOnlyByOutdated
<1>12. LastReorderStands'
    BY <1>3, <1>5, <1>7 DEF LastReorderStands
<1>13. QED
    BY <1>6, <1>8, <1>9, <1>10, <1>11, <1>12 DEF IInv

LEMMA RollbackPreserves ==
  ASSUME IInv, NEW r \in Reorders, Rollback(r)
  PROVE  IInv'
<1> USE RequestAssumption, EmptySequence
<1>1. TypeOK /\ r \in Requests
    BY DEF IInv, Requests
<1>2. UNCHANGED <<order, last, max, seen, outdated>>
    BY DEF Rollback
<1>3. /\ place' = [place EXCEPT ![r] = "done"]
      /\ list' = [list EXCEPT ![r] = <<>>]
      /\ todo' = [todo EXCEPT ![r] = <<>>]
      /\ draft' = [draft EXCEPT ![r] = {}]
    BY DEF Rollback, Close, Goto
<1>4. TypeOK'
    BY <1>1, <1>2, <1>3 DEF TypeOK
<1>5. ASSUME NEW q \in Reorders PROVE Transaction(q)'
  <2>1. Present' = Present
      BY <1>2 DEF Present
  <2>2. CASE q = r
      BY <1>1, <1>3, <2>2 DEF Transaction, TypeOK
  <2>3. CASE q # r
    <3>1. list'[q] = list[q] /\ todo'[q] = todo[q] /\ draft'[q] = draft[q] /\ place'[q] = place[q]
        BY <1>1, <1>3, <2>3 DEF TypeOK, Requests
    <3>2. QED
        BY <2>1, <3>1, TransactionUnchanged DEF IInv
  <2>4. QED
      BY <2>2, <2>3
<1>6. ASSUME NEW c \in Creates PROVE Unborn(c)'
  <2>1. place'[c] = place[c]
      BY <1>1, <1>3 DEF TypeOK, Requests
  <2>2. \A q \in Reorders : Range(list'[q]) \subseteq Range(list[q]) \union Present
      BY <1>1, <1>3 DEF TypeOK
  <2>3. QED
      BY <1>1, <1>2, <2>1, <2>2, UnbornUnchanged DEF IInv
<1>7. \A e \in Edits : place'[e] = "save" => seen'[e].task \in Tasks
    BY <1>1, <1>2, <1>3 DEF IInv, TypeOK, Requests
<1>8. QED
    BY <1>2, <1>4, <1>5, <1>6, <1>7, RowsUnchanged DEF IInv

(* The other requests leave every transaction alone.                       *)
LEMMA TransactionsElsewhere ==
  ASSUME IInv, UNCHANGED <<list, todo, draft>>,
         NEW x \in Creates \union Edits,
         \E p : place' = [place EXCEPT ![x] = p],
         \A r \in Reorders : draft[r] \subseteq Present'
  PROVE  \A r \in Reorders : Transaction(r)'
<1>1. ASSUME NEW r \in Reorders PROVE Transaction(r)'
  <2>1. place'[r] = place[r]
      BY RequestAssumption DEF IInv, TypeOK, Requests
  <2>2. Transaction(r)
      BY DEF IInv
  <2>3. QED
      BY <2>1, <2>2 DEF Transaction
<1>2. QED
    BY <1>1

LEMMA ReadMaxPreserves ==
  ASSUME IInv, NEW c \in Creates, ReadMax(c)
  PROVE  IInv'
<1> USE RequestAssumption
<1>1. TypeOK /\ c \in Requests /\ place[c] = "new"
    BY DEF IInv, Requests, ReadMax
<1>2. UNCHANGED <<order, list, todo, draft, last, seen, outdated>>
    BY DEF ReadMax, reorderVars
<1>3. \/ \E m \in 0..MaxOrder :
            max' = [max EXCEPT ![c] = m] /\ place' = [place EXCEPT ![c] = "insert"]
      \/ max' = max /\ place' = [place EXCEPT ![c] = "done"]
    BY DEF ReadMax, Goto
<1>4. TypeOK'
  <2>1. place' \in [Requests -> {"new", "done"} \union InFlight]
      BY <1>1, <1>3 DEF TypeOK, InFlight
  <2>2. max' \in [Creates -> 0..MaxOrder]
    <3>1. ASSUME NEW m \in 0..MaxOrder, max' = [max EXCEPT ![c] = m]
          PROVE  max' \in [Creates -> 0..MaxOrder]
        BY <1>1, <3>1 DEF TypeOK
    <3>2. CASE max' = max
        BY <1>1, <3>2 DEF TypeOK
    <3>3. QED
        BY <1>3, <3>1, <3>2
  <2>3. QED
      BY <1>1, <1>2, <2>1, <2>2 DEF TypeOK
<1>5. \A r \in Reorders : Transaction(r)'
  <2>1. \A r \in Reorders : draft[r] \subseteq Present'
      BY <1>2 DEF IInv, Transaction, Present
  <2>2. QED
      BY <1>2, <1>3, <2>1, TransactionsElsewhere
<1>6. ASSUME NEW d \in Creates PROVE Unborn(d)'
  <2>1. place'[d] # "done" => place[d] # "done"
      BY <1>1, <1>3 DEF TypeOK, Requests
  <2>2. QED
      BY <1>1, <1>2, <2>1, UnbornUnchanged DEF IInv
<1>7. \A e \in Edits : place'[e] = "save" => seen'[e].task \in Tasks
    BY <1>1, <1>2, <1>3 DEF IInv, TypeOK, Requests
<1>8. QED
    BY <1>2, <1>4, <1>5, <1>6, <1>7, RowsUnchanged DEF IInv

LEMMA InsertPreserves ==
  ASSUME IInv, NEW c \in Creates, Insert(c)
  PROVE  IInv'
<1> DEFINE t == NewTask[c]
           m == max[c]
<1> USE RequestAssumption, ListAssumption
<1>1. /\ TypeOK /\ c \in Requests /\ place[c] = "insert"
      /\ t \in Tasks /\ m \in 0..MaxOrder /\ m < MaxOrder
    BY DEF IInv, Requests, Insert, TypeOK
<1>2. UNCHANGED <<list, todo, draft, last, seen>>
    BY DEF Insert, reorderVars
<1>3. /\ order' = [order EXCEPT ![t] = m + 1]
      /\ outdated' = IF Highest(m) THEN outdated ELSE outdated \union {t}
      /\ max' = [max EXCEPT ![c] = 0]
      /\ place' = [place EXCEPT ![c] = "done"]
    BY DEF Insert, Goto
<1>4. m + 1 \in 1..MaxOrder
    BY <1>1
<1>5. TypeOK'
    BY <1>1, <1>2, <1>3, <1>4 DEF TypeOK
<1>6. order[t] = 0 /\ t \notin Range(last)
    BY <1>1 DEF IInv, Unborn
<1>7. Present' = Present \union {t} /\ t \notin Present
    BY <1>1, <1>3, <1>4, <1>6 DEF Present, TypeOK
<1>8. \A r \in Reorders : Transaction(r)'
  <2>1. \A r \in Reorders : draft[r] \subseteq Present'
      BY <1>7 DEF IInv, Transaction
  <2>2. QED
      BY <1>2, <1>3, <2>1, TransactionsElsewhere
<1>9. ASSUME NEW d \in Creates PROVE Unborn(d)'
  <2>1. CASE d = c
      BY <1>1, <1>3, <2>1 DEF Unborn, TypeOK
  <2>2. CASE d # c
    <3>1. NewTask[d] # t
        BY <2>2 DEF IsInjective
    <3>2. place'[d] = place[d] /\ order'[NewTask[d]] = order[NewTask[d]]
        BY <1>1, <1>3, <2>2, <3>1 DEF TypeOK, Requests
    <3>3. QED
        BY <1>1, <1>2, <3>2, UnbornUnchanged DEF IInv
  <2>3. QED
      BY <2>1, <2>2
<1>10. \A e \in Edits : place'[e] = "save" => seen'[e].task \in Tasks
    BY <1>1, <1>2, <1>3 DEF IInv, TypeOK, Requests
<1>11. ClashOnlyByOutdated'
  <2>1. CASE Highest(m)
    <3>1. \A u \in Tasks : order[u] < m + 1
        BY <1>1, <2>1 DEF Highest, TypeOK
    <3>2. \A u \in Present : order'[u] = order[u]
        BY <1>1, <1>3, <1>7 DEF TypeOK
    <3>3. order'[t] = m + 1
        BY <1>1, <1>3 DEF TypeOK
    <3>4. \A u \in Present : u \in Tasks /\ order'[u] # m + 1
        BY <1>1, <3>1, <3>2 DEF Present, TypeOK
    <3>5. QED
        BY <1>3, <1>7, <2>1, <3>2, <3>3, <3>4 DEF IInv, ClashOnlyByOutdated
  <2>2. CASE ~Highest(m)
      BY <1>1, <1>3, <1>7, <2>2 DEF IInv, ClashOnlyByOutdated, TypeOK
  <2>3. QED
      BY <2>1, <2>2
<1>12. LastReorderStands'
  <2>1. ASSUME NEW i \in DOMAIN last, last[i] \in (Present \ outdated)'
        PROVE  order'[last[i]] = i
    <3>1. last[i] # t
        BY <1>6 DEF Range
    <3>2. last[i] \in Present \ outdated /\ order'[last[i]] = order[last[i]]
        BY <1>1, <1>3, <1>7, <2>1, <3>1 DEF TypeOK
    <3>3. QED
        BY <3>2 DEF IInv, LastReorderStands
  <2>2. QED
      BY <1>2, <2>1 DEF LastReorderStands
<1>13. QED
    BY <1>5, <1>8, <1>9, <1>10, <1>11, <1>12 DEF IInv

LEMMA LoadTaskPreserves ==
  ASSUME IInv, NEW e \in Edits, LoadTask(e)
  PROVE  IInv'
<1> USE RequestAssumption
<1>1. TypeOK /\ e \in Requests
    BY DEF IInv, Requests
<1>2. UNCHANGED <<order, list, todo, draft, last, max, outdated>>
    BY DEF LoadTask, reorderVars
<1>3. \/ \E t \in Present :
            /\ seen' = [seen EXCEPT ![e] = [task |-> t, order |-> order[t]]]
            /\ place' = [place EXCEPT ![e] = "save"]
      \/ seen' = seen /\ place' = [place EXCEPT ![e] = "done"]
    BY DEF LoadTask, Goto
<1> DEFINE Loaded == [task : Present, order : 0..MaxOrder]
<1>4. \/ /\ place' = [place EXCEPT ![e] = "save"]
         /\ \E row \in Loaded : seen' = [seen EXCEPT ![e] = row]
      \/ seen' = seen /\ place' = [place EXCEPT ![e] = "done"]
  <2>1. \A t \in Present : [task |-> t, order |-> order[t]] \in Loaded
      BY <1>1 DEF TypeOK, Present
  <2>2. QED
      BY <1>3, <2>1
<1>5. \A row \in Loaded : row \in [task : Tasks \union {None}, order : 0..MaxOrder]
    BY DEF Present
<1>6. \A row \in Loaded : row.task \in Present
    OBVIOUS
<1>7. ASSUME NEW f \in Edits
      PROVE  \/ seen'[f] = seen[f] /\ (f # e => place'[f] = place[f])
                                  /\ (f = e => place'[f] = "done")
             \/ f = e /\ seen'[f] \in Loaded
    BY <1>1, <1>4 DEF TypeOK, Requests
<1>8. seen' \in [Edits -> [task : Tasks \union {None}, order : 0..MaxOrder]]
  <2>1. \A f \in Edits : seen'[f] \in [task : Tasks \union {None}, order : 0..MaxOrder]
      BY <1>1, <1>5, <1>7 DEF TypeOK
  <2>2. \A row \in Loaded : [seen EXCEPT ![e] = row] = [f \in Edits |-> IF f = e THEN row ELSE seen[f]]
      BY <1>1 DEF TypeOK
  <2>3. seen' = [f \in Edits |-> seen'[f]]
      BY <1>1, <1>4, <2>2 DEF TypeOK
  <2>4. QED
      BY <2>1, <2>3
<1>9. TypeOK'
  <2>1. place' \in [Requests -> {"new", "done"} \union InFlight]
      BY <1>1, <1>3 DEF TypeOK, InFlight
  <2>2. QED
      BY <1>1, <1>2, <1>8, <2>1 DEF TypeOK
<1>10. \A r \in Reorders : Transaction(r)'
  <2>1. \A r \in Reorders : draft[r] \subseteq Present'
      BY <1>2 DEF IInv, Transaction, Present
  <2>2. QED
      BY <1>2, <1>3, <2>1, TransactionsElsewhere
<1>11. ASSUME NEW c \in Creates PROVE Unborn(c)'
  <2>1. place'[c] = place[c]
      BY <1>1, <1>3 DEF TypeOK, Requests
  <2>2. \A f \in Edits : seen'[f].task \in {seen[f].task} \union Present
      BY <1>6, <1>7
  <2>3. QED
      BY <1>1, <1>2, <2>1, <2>2, UnbornUnchanged DEF IInv
<1>12. \A f \in Edits : place'[f] = "save" => seen'[f].task \in Tasks
    BY <1>6, <1>7 DEF IInv, Present
<1>13. QED
    BY <1>2, <1>9, <1>10, <1>11, <1>12, RowsUnchanged DEF IInv

(* A row that is written with another order than it has becomes outdated,  *)
(* whether it was reordered or deleted since it was loaded.                *)
LEMMA SaveTaskPreserves ==
  ASSUME IInv, NEW e \in Edits, SaveTask(e)
  PROVE  IInv'
<1> DEFINE t == seen[e].task
           o == seen[e].order
<1> USE RequestAssumption, ListAssumption
<1>1. /\ TypeOK /\ e \in Requests /\ e \notin Reorders /\ place[e] = "save"
      /\ t \in Tasks /\ o \in 0..MaxOrder /\ ~LockedFor(e, t)
    BY DEF IInv, Requests, SaveTask, TypeOK
<1>2. UNCHANGED <<list, todo, draft, last, max>>
    BY DEF SaveTask, reorderVars
<1>3. /\ order' = [order EXCEPT ![t] = o]
      /\ outdated' = IF order[t] = o THEN outdated ELSE outdated \union {t}
      /\ seen' = [seen EXCEPT ![e] = Nothing]
      /\ place' = [place EXCEPT ![e] = "done"]
    BY DEF SaveTask, Goto
<1>4. TypeOK'
  <2>1. seen' \in [Edits -> [task : Tasks \union {None}, order : 0..MaxOrder]]
      BY <1>1, <1>3 DEF TypeOK, Nothing
  <2>2. QED
      BY <1>1, <1>2, <1>3, <2>1 DEF TypeOK
<1>5. \A u \in Tasks \ {t} : order'[u] = order[u] /\ (u \in outdated' <=> u \in outdated)
    BY <1>1, <1>3 DEF TypeOK
<1>6. order' # order => t \in outdated'
    BY <1>1, <1>3 DEF TypeOK
<1>7. \A r \in Reorders : Transaction(r)'
  <2>1. ASSUME NEW r \in Reorders PROVE draft[r] \subseteq Present'
    <3>1. t \notin draft[r] /\ draft[r] \subseteq Present
        BY <1>1 DEF IInv, Transaction, LockedFor
    <3>2. QED
        BY <1>5, <3>1 DEF Present
  <2>2. QED
      BY <1>2, <1>3, <2>1, TransactionsElsewhere
<1>8. ASSUME NEW c \in Creates PROVE Unborn(c)'
  <2>1. place'[c] = place[c]
      BY <1>1, <1>3 DEF TypeOK, Requests
  <2>2. \A f \in Edits : seen'[f].task \in {seen[f].task, None}
      BY <1>1, <1>3 DEF TypeOK, Nothing
  <2>3. CASE place[c] = "done"
      BY <2>1, <2>3 DEF Unborn
  <2>4. CASE place[c] # "done"
    <3>1. NewTask[c] # t /\ NewTask[c] \in Tasks
        BY <2>4 DEF IInv, Unborn
    <3>2. QED
        BY <1>1, <1>2, <1>5, <2>1, <2>2, <3>1, UnbornUnchanged DEF IInv
  <2>5. QED
      BY <2>3, <2>4
<1>9. \A f \in Edits : place'[f] = "save" => seen'[f].task \in Tasks
    BY <1>1, <1>3 DEF IInv, TypeOK, Requests
<1>10. Present' \ outdated' \subseteq Present \ outdated
       /\ \A u \in Present' \ outdated' : order'[u] = order[u]
    BY <1>1, <1>3, <1>5, <1>6 DEF Present, TypeOK
<1>11. ClashOnlyByOutdated' /\ LastReorderStands'
    BY <1>2, <1>10 DEF IInv, ClashOnlyByOutdated, LastReorderStands
<1>12. QED
    BY <1>4, <1>7, <1>8, <1>9, <1>11 DEF IInv

LEMMA DeletePreserves ==
  ASSUME IInv, NEW t \in Tasks, Delete(t)
  PROVE  IInv'
<1> USE RequestAssumption, ListAssumption
<1>1. TypeOK /\ t \in Present /\ ~LockedFor(None, t)
    BY DEF IInv, Delete
<1>2. UNCHANGED <<place, list, todo, draft, last, max, seen>>
    BY DEF Delete, reorderVars
<1>3. order' = [order EXCEPT ![t] = 0] /\ outdated' = outdated \ {t}
    BY DEF Delete
<1>4. TypeOK'
    BY <1>1, <1>2, <1>3 DEF TypeOK
<1>5. Present' = Present \ {t} /\ \A u \in Present' : order'[u] = order[u]
    BY <1>1, <1>3 DEF Present, TypeOK
<1>6. ASSUME NEW r \in Reorders PROVE Transaction(r)'
  <2>1. t \notin draft[r]
      BY <1>1 DEF LockedFor
  <2>2. QED
      BY <1>2, <1>5, <2>1 DEF IInv, Transaction
<1>7. ASSUME NEW c \in Creates PROVE Unborn(c)'
  <2>1. order[NewTask[c]] = 0 => order'[NewTask[c]] = 0
      BY <1>1, <1>3 DEF TypeOK
  <2>2. QED
      BY <1>1, <1>2, <2>1, UnbornUnchanged DEF IInv
<1>8. Present' \ outdated' \subseteq Present \ outdated
    BY <1>3, <1>5
<1>9. ClashOnlyByOutdated' /\ LastReorderStands'
    BY <1>2, <1>5, <1>8 DEF IInv, ClashOnlyByOutdated, LastReorderStands
<1>10. QED
    BY <1>2, <1>4, <1>6, <1>7, <1>9 DEF IInv

(* A request without a transaction that is killed just ends.               *)
LEMMA KillPreserves ==
  ASSUME IInv, NEW x \in Creates \union Edits,
         place' = [place EXCEPT ![x] = "done"],
         UNCHANGED <<order, list, todo, draft, last, max, seen, outdated>>
  PROVE  IInv'
<1> USE RequestAssumption
<1>1. TypeOK /\ x \in Requests
    BY DEF IInv, Requests
<1>2. TypeOK'
    BY <1>1 DEF TypeOK
<1>3. \A r \in Reorders : Transaction(r)'
  <2>1. \A r \in Reorders : draft[r] \subseteq Present'
      BY DEF IInv, Transaction, Present
  <2>2. QED
      BY <2>1, TransactionsElsewhere
<1>4. ASSUME NEW c \in Creates PROVE Unborn(c)'
  <2>1. place'[c] # "done" => place[c] # "done"
      BY <1>1 DEF TypeOK, Requests
  <2>2. QED
      BY <1>1, <2>1, UnbornUnchanged DEF IInv
<1>5. \A e \in Edits : place'[e] = "save" => seen'[e].task \in Tasks
    BY <1>1 DEF IInv, TypeOK, Requests
<1>6. QED
    BY <1>2, <1>3, <1>4, <1>5, RowsUnchanged DEF IInv

LEMMA Preserved == IInv /\ [Next]_vars => IInv'
<1> SUFFICES ASSUME IInv, [Next]_vars PROVE IInv'
    OBVIOUS
<1>1. ASSUME NEW r \in Reorders, CheckList(r) \/ Reorder(r) PROVE IInv'
    BY <1>1, CheckListPreserves, UpdatePreserves, CommitPreserves, RollbackPreserves
       DEF Reorder, Deadlock
<1>2. ASSUME NEW c \in Creates, ReadMax(c) \/ Insert(c) PROVE IInv'
    BY <1>2, ReadMaxPreserves, InsertPreserves
<1>3. ASSUME NEW e \in Edits, LoadTask(e) \/ SaveTask(e) PROVE IInv'
    BY <1>3, LoadTaskPreserves, SaveTaskPreserves
<1>4. ASSUME NEW t \in Deletable, Delete(t) PROVE IInv'
    BY <1>4, RequestAssumption, DeletePreserves
<1>5. ASSUME NEW x \in Mortal, Kill(x) PROVE IInv'
  <2>1. CASE x \in Reorders
      BY <1>5, <2>1, RollbackPreserves DEF Kill
  <2>2. CASE x \notin Reorders
      BY <1>5, <2>2, RequestAssumption, KillPreserves DEF Kill, Goto, reorderVars
  <2>3. QED
      BY <2>1, <2>2
<1>6. CASE UNCHANGED vars
  <2>1. UNCHANGED <<order, place, list, todo, draft, last, max, seen, outdated>>
      BY <1>6 DEF vars, reorderVars
  <2>2. TypeOK'
      BY <2>1 DEF IInv, TypeOK
  <2>3. \A r \in Reorders : Transaction(r)'
      BY <2>1 DEF IInv, Transaction, Present
  <2>4. \A c \in Creates : Unborn(c)'
      BY <2>1 DEF IInv, Unborn
  <2>5. QED
      BY <2>1, <2>2, <2>3, <2>4, RowsUnchanged DEF IInv
<1>7. QED
    BY <1>1, <1>2, <1>3, <1>4, <1>5, <1>6 DEF Next

LEMMA Invariance == Spec => []IInv
<1>1. QED
    BY Initial, Preserved, PTL DEF Spec

(* Every column and every local variable keeps its type.                   *)
THEOREM TypeCorrect == Spec => []TypeOK
<1>1. IInv => TypeOK
    BY DEF IInv
<1>2. QED
    BY <1>1, Invariance, PTL

(* Two tasks share an order only when one was written from an outdated     *)
(* reading.                                                                *)
THEOREM Numbering == Spec => []ClashOnlyByOutdated
<1>1. IInv => ClashOnlyByOutdated
    BY DEF IInv
<1>2. QED
    BY <1>1, Invariance, PTL

(* Reorderings never mix, whatever they wait for and whoever is killed.    *)
THEOREM Reordering == Spec => []LastReorderStands
<1>1. IInv => LastReorderStands
    BY DEF IInv
<1>2. QED
    BY <1>1, Invariance, PTL

-----------------------------------------------------------------------------
(* Where everybody waits for somebody among finitely many, some wait in a  *)
(* circle: a smallest set that nobody in it waits out of.                  *)
LEMMA CircleExists ==
  ASSUME NEW U, IsFiniteSet(U), U # {}, NEW f \in [U -> U]
  PROVE  \E S \in SUBSET U :
            /\ S # {}
            /\ \A q \in S : f[q] \in S /\ \E x \in S : f[x] = q
<1> DEFINE Closed == {S \in SUBSET U : S # {} /\ \A q \in S : f[q] \in S}
           R == StrictSubsetOrdering(U)
<1>1. Closed \in SUBSET FiniteSubsetsOf(U) /\ U \in Closed
  <2>1. FiniteSubsetsOf(U) = SUBSET U
      BY FS_FiniteSubsetsOfFinite
  <2>2. U \in Closed
      OBVIOUS
  <2>3. Closed \subseteq SUBSET U
      OBVIOUS
  <2> HIDE DEF Closed
  <2>4. QED
      BY <2>1, <2>2, <2>3
<1>2. IsWellFoundedOn(R, FiniteSubsetsOf(U))
    BY FS_StrictSubsetOrderingWellFounded
<1>3. \E S \in Closed : \A T \in Closed : ~(<<T, S>> \in R)
  <2> HIDE DEF Closed, R
  <2>1. QED
      BY <1>1, <1>2, WFMin
<1>4. PICK S \in Closed : \A T \in Closed : ~(<<T, S>> \in R)
    BY <1>3
<1>5. S \in SUBSET U /\ S # {} /\ \A q \in S : f[q] \in S
    OBVIOUS
<1> DEFINE T == {f[x] : x \in S}
<1>6. T \subseteq S /\ T \in SUBSET U /\ T # {}
    BY <1>5
<1>7. \A q \in T : f[q] \in T
    BY <1>6
<1>8. T \in Closed
    BY <1>6, <1>7
<1>9. ~(<<T, S>> \in R)
  <2> HIDE DEF T, Closed, R
  <2>1. QED
      BY <1>4, <1>8
<1>10. T = S
  <2> HIDE DEF T
  <2>1. <<T, S>> \in (SUBSET U) \X (SUBSET U)
      BY <1>5, <1>6
  <2>2. QED
      BY <1>6, <1>9, <2>1 DEF StrictSubsetOrdering
<1>11. \A q \in S : \E x \in S : f[x] = q
    BY <1>10
<1>12. QED
    BY <1>5, <1>11

(* Requests start one after the other, so that there are finitely many     *)
(* transactions under way at any time, however many requests come.         *)
UnderWay == {r \in Reorders : place[r] = "update"}

LEMMA OneStarts ==
  ASSUME TypeOK, [Next]_vars
  PROVE  \E x \in Requests \union {None} : \A y \in Requests \ {x} : place'[y] = place[y]
<1>1. ASSUME NEW x \in Requests, NEW next, Goto(x, next)
      PROVE  \A y \in Requests \ {x} : place'[y] = place[y]
    BY <1>1 DEF Goto, TypeOK
<1>2. ASSUME NEW r \in Reorders, CheckList(r) \/ Reorder(r)
      PROVE  \A y \in Requests \ {r} : place'[y] = place[y]
  <2>1. r \in Requests
      BY DEF Requests
  <2>2. (\E next : Goto(r, next)) \/ UNCHANGED place
      BY <1>2 DEF CheckList, Reorder, Update, Commit, Deadlock, Rollback, Close
  <2>3. QED
      BY <1>1, <2>1, <2>2
<1>3. ASSUME NEW c \in Creates, ReadMax(c) \/ Insert(c)
      PROVE  \A y \in Requests \ {c} : place'[y] = place[y]
  <2>1. c \in Requests /\ \E next : Goto(c, next)
      BY <1>3 DEF Requests, ReadMax, Insert
  <2>2. QED
      BY <1>1, <2>1
<1>4. ASSUME NEW e \in Edits, LoadTask(e) \/ SaveTask(e)
      PROVE  \A y \in Requests \ {e} : place'[y] = place[y]
  <2>1. e \in Requests /\ \E next : Goto(e, next)
      BY <1>4 DEF Requests, LoadTask, SaveTask
  <2>2. QED
      BY <1>1, <2>1
<1>5. ASSUME NEW x \in Mortal, Kill(x)
      PROVE  \A y \in Requests \ {x} : place'[y] = place[y]
  <2>1. x \in Requests /\ \E next : Goto(x, next)
      BY <1>5, RequestAssumption DEF Requests, Kill, Rollback, Close
  <2>2. QED
      BY <1>1, <2>1
<1>6. CASE UNCHANGED place
    BY <1>6
<1>7. QED
    BY <1>2, <1>3, <1>4, <1>5, <1>6, RequestAssumption DEF Next, vars, Delete, Requests

LEMMA FinitelyMany == Spec => []IsFiniteSet(UnderWay)
<1>1. Init => IsFiniteSet(UnderWay)
  <2>1. Init => UnderWay = {}
      BY DEF Init, UnderWay, Requests
  <2>2. QED
      BY <2>1, FS_EmptySet
<1>2. IsFiniteSet(UnderWay) /\ TypeOK /\ [Next]_vars => IsFiniteSet(UnderWay)'
  <2>1. SUFFICES ASSUME IsFiniteSet(UnderWay), TypeOK, [Next]_vars
                 PROVE  IsFiniteSet(UnderWay')
      OBVIOUS
  <2>2. PICK x \in Requests \union {None} : \A y \in Requests \ {x} : place'[y] = place[y]
      BY <2>1, OneStarts
  <2>3. UnderWay' \in SUBSET (UnderWay \union {x})
      BY <2>2 DEF UnderWay, Requests
  <2>4. IsFiniteSet(UnderWay \union {x})
      BY <2>1, FS_AddElement
  <2>5. QED
      BY <2>3, <2>4, FS_Subset
<1>3. QED
    BY <1>1, <1>2, TypeCorrect, PTL DEF Spec

(* When every transaction under way waits, each waits for another one.     *)
LEMMA AllWait ==
  ASSUME IsFiniteSet(UnderWay),
         \A r \in Reorders : draft[r] # {} => place[r] = "update",
         NEW r \in Reorders, place[r] = "update"
  PROVE  \E q \in Reorders :
            /\ place[q] = "update"
            /\ todo[q] # <<>> /\ LockedFor(q, Head(todo[q])) => InCircle(q)
<1> DEFINE U == UnderWay
<1> USE DEF UnderWay
<1>1. SUFFICES ASSUME \A q \in U : todo[q] # <<>> /\ LockedFor(q, Head(todo[q]))
               PROVE  \E q \in U : InCircle(q)
    OBVIOUS
<1>2. IsFiniteSet(U) /\ U # {} /\ U \subseteq Reorders
    OBVIOUS
<1>3. \A q \in U : \E x \in U : WaitsFor(q, x)
  <2>1. SUFFICES ASSUME NEW q \in U PROVE \E x \in U : WaitsFor(q, x)
      OBVIOUS
  <2>2. PICK x \in Reorders \ {q} : Head(todo[q]) \in draft[x]
      BY <1>1 DEF LockedFor
  <2>3. x \in U
      BY <2>2
  <2>4. WaitsFor(q, x)
      BY <1>1, <2>2 DEF WaitsFor
  <2>5. QED
      BY <2>3, <2>4
<1> HIDE DEF U
<1> DEFINE f == [q \in U |-> CHOOSE x \in U : WaitsFor(q, x)]
<1>4. f \in [U -> U] /\ \A q \in U : WaitsFor(q, f[q])
    BY <1>3
<1> HIDE DEF f
<1>5. PICK S \in SUBSET U :
            /\ S # {}
            /\ \A q \in S : f[q] \in S /\ \E x \in S : f[x] = q
    BY <1>2, <1>4, CircleExists
<1>6. \A q \in S : (\E x \in S : WaitsFor(q, x)) /\ (\E x \in S : WaitsFor(x, q))
    BY <1>4, <1>5
<1>7. S \in SUBSET Reorders
    BY <1>2
<1>8. \A q \in S : InCircle(q)
    BY <1>6, <1>7 DEF InCircle
<1>9. QED
    BY <1>5, <1>8

(* However many teachers reorder the tasks of a module at once, one of     *)
(* them can go on or is ended by the database, and only they hold rows     *)
(* that others wait for.                                                   *)
THEOREM DeadlockFree == Spec => []NobodyStuck
<1>1. ASSUME IInv, IsFiniteSet(UnderWay) PROVE NobodyStuck
  <2>1. \A r \in Reorders : draft[r] # {} => place[r] = "update"
    <3>1. SUFFICES ASSUME NEW r \in Reorders, place[r] # "update" PROVE draft[r] = {}
        OBVIOUS
    <3>2. list[r] = <<>> /\ draft[r] \subseteq Range(list[r])
        BY <1>1, <3>1 DEF IInv, Transaction
    <3>3. QED
        BY <3>2, EmptySequence
  <2>2. QED
      BY <1>1, <2>1, AllWait DEF NobodyStuck
<1>2. QED
    BY <1>1, Invariance, FinitelyMany, PTL

=============================================================================
