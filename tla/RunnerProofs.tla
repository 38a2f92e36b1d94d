---------------------------- MODULE RunnerProofs ----------------------------
(***************************************************************************)
(* Theorems about one test of a program: Runner, the processes that run    *)
(* it, for any languages and any timeout, and, from Rank on, OutputCheck,  *)
(* the comparison of its output, for texts of any length.                  *)
(***************************************************************************)
EXTENDS Runner, OutputCheck, FiniteSetTheorems, TLAPS

-----------------------------------------------------------------------------
(* The processes. *)

(* What is left of StatusNamesStage before the call returns: a result that *)
(* waits for its decision is one of _run and belongs to a stage, a decided *)
(* one names its stage, and until the first result there is none.          *)
Named ==
    /\ status \in {"ok", "runtime_error", "timeout"} => stage = "run"
    /\ status = "compile_error" => stage = "compile"

(* The time of a call: that of the stage under way, and at most a timeout  *)
(* for the compiler before it.                                             *)
Timed ==
    /\ place = "write" => elapsed = 0
    /\ place = "popen" => elapsed <= IF stage = "run" THEN Timeout ELSE 0
    /\ place = "wait" => elapsed <= IF stage = "run" THEN wall + Timeout ELSE wall

IInv ==
    /\ TypeOK
    /\ CallIsShort
    /\ Timed
    /\ place \in {"write", "popen", "wait", "decide"} => stage # "none"
    /\ place = "decide" => status \in Results \ {"compile_error"}
    /\ place \in {"cleanup", "idle"} => Named

LEMMA Initial == Init => IInv
<1> SUFFICES ASSUME Init PROVE IInv
    OBVIOUS
<1>1. workdir \in BOOLEAN /\ ~workdir
    BY DEF Init
<1>2. wall \in 0..Timeout
    BY TimeoutAssumption DEF Init
<1>3. elapsed = 0 /\ 0 <= 2 * Timeout
    BY TimeoutAssumption DEF Init
<1>4. QED
    BY <1>1, <1>2, <1>3
       DEF Init, IInv, TypeOK, CallIsShort, Timed, Named, Codes, Kinds, Results

(* One step of the thread or of a process.                                 *)
LEMMA Preserved == IInv /\ [Next]_vars => IInv'
<1> SUFFICES ASSUME IInv, [Next]_vars PROVE IInv'
    OBVIOUS
<1> USE TimeoutAssumption, LanguageAssumption
    DEF IInv, TypeOK, CallIsShort, Timed, Named, Codes, Kinds, Results, processVars
<1>1. ASSUME NEW lang \in Compiled \union Interpreted \union Unknown, Call(lang)
      PROVE  IInv'
  <2>1. workdir' \in BOOLEAN /\ (place' = "idle" => ~workdir')
    <3>1. CASE lang \in Unknown
        BY <1>1, <3>1, Zenon DEF Call
    <3>2. CASE lang \notin Unknown
        BY <1>1, <3>2, Zenon DEF Call
    <3>3. QED
        BY <3>1, <3>2
  <2>2. QED
      BY <1>1, <2>1 DEF Call
<1>2. CASE WriteSource
    BY <1>2 DEF WriteSource
<1>3. CASE Popen
    BY <1>3 DEF Popen
<1>4. CASE Collect
    BY <1>4 DEF Collect, Leave
<1>5. CASE Refuse
    BY <1>5 DEF Refuse, Leave
<1>6. CASE Expire
    BY <1>6 DEF Expire, Leave
<1>7. CASE Decide
    BY <1>7 DEF Decide
<1>8. CASE Cleanup
  <2>1. workdir' \in BOOLEAN /\ (stage = "none" => ~workdir')
      BY <1>8 DEF Cleanup
  <2>2. QED
      BY <1>8, <2>1 DEF Cleanup
<1>9. ASSUME NEW kind \in Kinds, Fork(kind) \/ ChildrenEnd(kind)
      PROVE  IInv'
  <2>1. group' \subseteq Kinds /\ escaped' \subseteq Kinds
      BY <1>9 DEF Fork, ChildrenEnd
  <2>2. UNCHANGED <<place, stage, leader, wall, elapsed, status, workdir>>
      BY <1>9 DEF Fork, ChildrenEnd
  <2>3. QED
      BY <2>1, <2>2
<1>10. CASE Exit
    BY <1>10 DEF Exit
<1>11. CASE Tick
    BY <1>11 DEF Tick
<1>12. CASE UNCHANGED vars
    BY <1>12 DEF vars
<1>13. QED
    BY <1>1, <1>2, <1>3, <1>4, <1>5, <1>6, <1>7, <1>8, <1>9, <1>10, <1>11, <1>12
       DEF Next, Step, Processes

(* The inductive invariant holds in every reachable state.                 *)
THEOREM Invariance == Spec => []IInv
BY Initial, Preserved, PTL DEF Spec

(* Every variable has its type, a process leads the group exactly while    *)
(* the thread waits for it, and no work directory outlives a call that has *)
(* started nothing.                                                        *)
THEOREM TypeCorrect == Spec => []TypeOK
<1>1. IInv => TypeOK
    BY DEF IInv
<1>2. QED
    BY <1>1, Invariance, PTL

(* A call lasts no longer than one timeout for each of its stages.         *)
THEOREM ShortCalls == Spec => []CallIsShort
<1>1. IInv => CallIsShort
    BY DEF IInv
<1>2. QED
    BY <1>1, Invariance, PTL

(* The status of a call that has returned names the stage that ended so.   *)
THEOREM StatusHonest == Spec => []StatusNamesStage
<1>1. IInv => StatusNamesStage
    BY DEF IInv, Named, StatusNamesStage
<1>2. QED
    BY <1>1, Invariance, PTL

-----------------------------------------------------------------------------
(* The texts. *)

(* The rank of a position among some positions, and the position of a      *)
(* rank, are each other's inverse.                                         *)
LEMMA RankType ==
  ASSUME NEW S \in SUBSET Nat, IsFiniteSet(S), NEW i \in S
  PROVE  Rank(S, i) \in 1..Cardinality(S)
<1> DEFINE T == {j \in S : j <= i}
<1>1. T \subseteq S /\ i \in T
    OBVIOUS
<1>2. IsFiniteSet(T) /\ Cardinality(T) <= Cardinality(S)
    BY <1>1, FS_Subset
<1>3. Cardinality(T) \in Nat /\ Cardinality(S) \in Nat
    BY <1>2, FS_CardinalityType
<1>4. Cardinality(T) # 0
    BY <1>1, <1>2, FS_EmptySet
<1>5. QED
    BY <1>2, <1>3, <1>4 DEF Rank

(* Ranks grow with the positions.                                          *)
LEMMA RankMonotone ==
  ASSUME NEW S \in SUBSET Nat, IsFiniteSet(S), NEW i \in S, NEW j \in S, i < j
  PROVE  Rank(S, i) < Rank(S, j)
<1> DEFINE T(m) == {n \in S : n <= m}
<1>0. i \in Nat /\ j \in Nat /\ \A n \in S : n \in Nat
    OBVIOUS
<1>1. T(i) \subseteq T(j) /\ j \in T(j) /\ j \notin T(i)
  <2>1. j \in T(j) /\ j \notin T(i)
      BY <1>0
  <2>2. ASSUME NEW n \in T(i) PROVE n \in T(j)
      BY <1>0
  <2>3. QED
      BY <2>1, <2>2
<1>2. IsFiniteSet(T(j))
    BY FS_Subset
<1>3. T(i) \in SUBSET T(j) /\ T(i) # T(j)
    BY <1>1
<1> HIDE DEF T
<1>4. /\ IsFiniteSet(T(i))
      /\ Cardinality(T(i)) <= Cardinality(T(j))
      /\ Cardinality(T(i)) # Cardinality(T(j))
    BY <1>2, <1>3, FS_Subset
<1>5. Cardinality(T(i)) \in Nat /\ Cardinality(T(j)) \in Nat
    BY <1>2, <1>4, FS_CardinalityType
<1>6. QED
    BY <1>4, <1>5 DEF Rank, T

(* Every rank up to the number of positions is that of one: an injection   *)
(* between finite sets of one size leaves none out.                        *)
LEMMA NthRank ==
  ASSUME NEW S \in SUBSET Nat, IsFiniteSet(S), NEW k \in 1..Cardinality(S)
  PROVE  Nth(S, k) \in S /\ Rank(S, Nth(S, k)) = k
<1> DEFINE n == Cardinality(S)
           f == [i \in S |-> Rank(S, i)]
<1>1. n \in Nat
    BY FS_CardinalityType
<1>2. f \in [S -> 1..n]
    BY RankType
<1>3. ASSUME NEW i \in S, NEW j \in S, f[i] = f[j]
      PROVE  i = j
  <2>1. Rank(S, i) = Rank(S, j) /\ Rank(S, i) \in Nat
      BY <1>3, RankType
  <2>2. ~(i < j) /\ ~(j < i)
      BY <2>1, RankMonotone
  <2>3. i \in Nat /\ j \in Nat
      OBVIOUS
  <2>4. QED
      BY <2>2, <2>3
<1>4. f \in Injection(S, 1..n)
    BY <1>2, <1>3 DEF Injection, IsInjective
<1>5. IsFiniteSet(1..n) /\ Cardinality(1..n) = n
    BY <1>1, FS_Interval
<1>6. f \in Surjection(S, 1..n)
    BY <1>4, <1>5, FS_Injection
<1>7. \E i \in S : f[i] = k
    BY <1>6, Zenon DEF Surjection
<1>8. QED
    BY <1>7 DEF Nth

(* A position is the one of its rank.                                      *)
LEMMA NthOfRank ==
  ASSUME NEW S \in SUBSET Nat, IsFiniteSet(S), NEW i \in S
  PROVE  Nth(S, Rank(S, i)) = i
<1> DEFINE j == Nth(S, Rank(S, i))
<1>1. Rank(S, i) \in 1..Cardinality(S)
    BY RankType
<1>2. j \in S /\ Rank(S, j) = Rank(S, i)
    BY <1>1, NthRank
<1>3. Rank(S, i) \in Nat
    BY <1>1, FS_CardinalityType
<1> HIDE DEF j
<1>4. ~(i < j) /\ ~(j < i)
    BY <1>2, <1>3, RankMonotone
<1>5. i \in Nat /\ j \in Nat
    BY <1>2
<1>6. QED
    BY <1>4, <1>5 DEF j

(* Positions grow with their ranks.                                        *)
LEMMA NthMonotone ==
  ASSUME NEW S \in SUBSET Nat, IsFiniteSet(S),
         NEW k \in 1..Cardinality(S), NEW m \in 1..Cardinality(S), k < m
  PROVE  Nth(S, k) < Nth(S, m)
<1> DEFINE i == Nth(S, k)
           j == Nth(S, m)
<1>1. i \in S /\ j \in S /\ Rank(S, i) = k /\ Rank(S, j) = m
    BY NthRank
<1>2. k \in Nat /\ m \in Nat
    BY FS_CardinalityType
<1> HIDE DEF i, j
<1>3. ~(j < i) /\ i # j
    BY <1>1, <1>2, RankMonotone
<1>4. i \in Nat /\ j \in Nat
    BY <1>1
<1>5. QED
    BY <1>3, <1>4 DEF i, j

(* The last position is the maximum that CHOOSE finds, the first one the   *)
(* minimum.                                                                *)
LEMMA Maximum ==
  ASSUME NEW S \in SUBSET Nat, IsFiniteSet(S), S # {}
  PROVE  Max(S) \in S /\ \A j \in S : j <= Max(S)
<1> DEFINE n == Cardinality(S)
           i == Nth(S, n)
<1>1. n \in Nat /\ n # 0
    BY FS_CardinalityType, FS_EmptySet
<1>2. i \in S /\ Rank(S, i) = n
    BY <1>1, NthRank
<1> HIDE DEF i
<1>3. ASSUME NEW j \in S PROVE j <= i
  <2>1. ~(i < j)
      BY <1>1, <1>2, RankMonotone, RankType
  <2>2. QED
      BY <1>2, <2>1
<1>4. \E x \in S : \A y \in S : x >= y
    BY <1>2, <1>3
<1>5. Max(S) \in S /\ \A y \in S : Max(S) >= y
    BY <1>4, Zenon DEF Max
<1>6. QED
    BY <1>5

LEMMA Minimum ==
  ASSUME NEW S \in SUBSET Nat, IsFiniteSet(S), S # {}
  PROVE  Min(S) \in S /\ \A j \in S : Min(S) <= j
<1> DEFINE n == Cardinality(S)
           i == Nth(S, 1)
<1>1. n \in Nat /\ n # 0
    BY FS_CardinalityType, FS_EmptySet
<1>2. i \in S /\ Rank(S, i) = 1
    BY <1>1, NthRank
<1> HIDE DEF i
<1>3. ASSUME NEW j \in S PROVE i <= j
  <2>1. ~(j < i)
      BY <1>1, <1>2, RankMonotone, RankType
  <2>2. QED
      BY <1>2, <2>1
<1>4. \E x \in S : \A y \in S : x =< y
    BY <1>2, <1>3
<1>5. Min(S) \in S /\ \A y \in S : Min(S) =< y
    BY <1>4, Zenon DEF Min
<1>6. QED
    BY <1>5

(* The characters of a text.                                               *)
Char == White \union Visible

(* The characters a conversion of line ends leaves, of which there are at  *)
(* most as many as before.                                                 *)
LEMMA KeptSet ==
  ASSUME NEW x \in Seq(Char)
  PROVE  /\ Kept(x) \in SUBSET Nat
         /\ Kept(x) \in SUBSET (1..Len(x))
         /\ IsFiniteSet(Kept(x))
         /\ Cardinality(Kept(x)) \in Nat
         /\ Cardinality(Kept(x)) <= Len(x)
<1>1. Kept(x) \in SUBSET (1..Len(x))
    BY DEF Kept
<1>0. Len(x) \in Nat
    OBVIOUS
<1>2. IsFiniteSet(1..Len(x)) /\ Cardinality(1..Len(x)) = Len(x)
    BY <1>0, FS_Interval
<1>3. IsFiniteSet(Kept(x)) /\ Cardinality(Kept(x)) <= Len(x)
    BY <1>1, <1>2, FS_Subset
<1>4. QED
    BY <1>1, <1>3, FS_CardinalityType

(* The result of the conversion is a text.                                 *)
LEMMA UnixText ==
  ASSUME NEW x \in Seq(Char)
  PROVE  /\ UnixLines(x) \in Seq(Char)
         /\ Len(UnixLines(x)) = Cardinality(Kept(x))
<1> DEFINE n == Cardinality(Kept(x))
<1>1. n \in Nat
    BY KeptSet
<1>2. ASSUME NEW k \in 1..n PROVE Unix(x[Nth(Kept(x), k)]) \in Char
  <2>1. Nth(Kept(x), k) \in 1..Len(x)
      BY KeptSet, NthRank
  <2>2. x[Nth(Kept(x), k)] \in Char
      BY <2>1
  <2>3. QED
      BY <2>2 DEF Unix, Char, White
<1>3. UnixLines(x) \in [1..n -> Char]
    BY <1>2 DEF UnixLines
<1> HIDE DEF n
<1>4. QED
    BY <1>1, <1>3 DEF n

(* The cuts of a text, and where the line of a position begins.            *)
LEMMA CutSet ==
  ASSUME NEW s \in Seq(Char)
  PROVE  /\ Cuts(s) \in SUBSET Nat
         /\ Cuts(s) \in SUBSET (0..Len(s) + 1)
         /\ IsFiniteSet(Cuts(s))
         /\ Cardinality(Cuts(s)) \in Nat
         /\ Cardinality(Cuts(s)) >= 2
<1>1. Cuts(s) \in SUBSET (0..Len(s) + 1)
    BY DEF Cuts
<1>2. IsFiniteSet(0..Len(s) + 1)
    BY FS_Interval
<1>3. IsFiniteSet(Cuts(s))
    BY <1>1, <1>2, FS_Subset
<1>4. Cuts(s) \in SUBSET Nat
    BY <1>1
<1>5. 0 \in Cuts(s) /\ Len(s) + 1 \in Cuts(s) /\ 0 < Len(s) + 1
    BY DEF Cuts
<1>6. Cardinality(Cuts(s)) \in Nat
    BY <1>3, FS_CardinalityType
<1>7. /\ Rank(Cuts(s), 0) < Rank(Cuts(s), Len(s) + 1)
      /\ Rank(Cuts(s), 0) \in 1..Cardinality(Cuts(s))
      /\ Rank(Cuts(s), Len(s) + 1) \in 1..Cardinality(Cuts(s))
    BY <1>3, <1>4, <1>5, RankMonotone, RankType
<1>8. Cardinality(Cuts(s)) >= 2
    BY <1>6, <1>7
<1>9. QED
    BY <1>1, <1>3, <1>4, <1>6, <1>8

(* A line begins after the last cut before the position, and its number    *)
(* is one less than the rank of that cut.                                  *)
LEMMA LineBegin ==
  ASSUME NEW s \in Seq(Char), NEW i \in DOMAIN s
  PROVE  /\ LineStart(s, i) \in Cuts(s)
         /\ LineStart(s, i) < i
         /\ \A j \in Cuts(s) : j < i => j <= LineStart(s, i)
         /\ Rank(Cuts(s), LineStart(s, i)) = LineNumber(s, i) + 1
         /\ LineNumber(s, i) \in Nat
<1> DEFINE ends == {j \in 1 .. i - 1 : s[j] = LF}
           before == {0} \union ends
<1>1. i \in Nat /\ i \in 1..Len(s) /\ Len(s) \in Nat
    OBVIOUS
<1>2. IsFiniteSet(1 .. i - 1)
    BY <1>1, FS_Interval
<1>3. ends \in SUBSET (1 .. i - 1)
    OBVIOUS
<1>4. IsFiniteSet(ends) /\ Cardinality(ends) \in Nat
    BY <1>2, <1>3, FS_Subset, FS_CardinalityType
<1>5. before \in SUBSET Nat /\ before # {} /\ 0 \notin ends
    BY <1>1
<1>6. before = ends \union {0}
    OBVIOUS
<1> HIDE DEF before, ends
<1>7. IsFiniteSet(before) /\ Cardinality(before) = Cardinality(ends) + 1
    BY <1>4, <1>5, <1>6, FS_AddElement
<1>8. LineStart(s, i) = Max(before)
    BY DEF LineStart, before, ends
<1>9. LineNumber(s, i) = Cardinality(ends)
    BY DEF LineNumber, ends
<1> DEFINE m == Max(before)
<1>10. m \in before /\ \A j \in before : j <= m
    BY <1>5, <1>7, Maximum
<1>11. before = {j \in Cuts(s) : j < i}
    BY <1>1 DEF Cuts, before, ends
<1> HIDE DEF m
<1>12. m \in Cuts(s) /\ m < i /\ \A j \in Cuts(s) : j < i => j <= m
    BY <1>10, <1>11
<1>13. {j \in Cuts(s) : j <= m} = before
  <2>1. Cuts(s) \in SUBSET Nat
      BY CutSet
  <2>2. ASSUME NEW j \in Cuts(s) PROVE j <= m <=> j < i
    <3>1. j \in Nat /\ m \in Nat
        BY <1>12, <2>1
    <3>2. QED
        BY <1>1, <1>12, <3>1
  <2>3. QED
      BY <1>11, <2>2
<1>14. QED
    BY <1>4, <1>7, <1>8, <1>9, <1>12, <1>13 DEF Rank, m

(* What SubSeq returns within the bounds of a sequence.                    *)
LEMMA Piece ==
  ASSUME NEW T, NEW s \in Seq(T), NEW m \in 1..Len(s) + 1, NEW n \in 0..Len(s)
  PROVE  /\ SubSeq(s, m, n) \in Seq(T)
         /\ DOMAIN SubSeq(s, m, n) = 1..n - m + 1
         /\ \A c \in 1..n - m + 1 : SubSeq(s, m, n)[c] = s[m + c - 1]
<1>1. Len(s) \in Nat
    OBVIOUS
<1>2. SubSeq(s, m, n) = [c \in 1..n - m + 1 |-> s[m + c - 1]]
    BY <1>1
<1>3. QED
    BY <1>1, <1>2

(* Lines: what SplitLines returns, from a line to the text and back.       *)
LEMMA SplitType ==
  ASSUME NEW s \in Seq(Char)
  PROVE  /\ SplitLines(s) \in Seq(Seq(Char))
         /\ DOMAIN SplitLines(s) = 1..Cardinality(Cuts(s)) - 1
         /\ \A k \in DOMAIN SplitLines(s) :
               /\ Nth(Cuts(s), k) \in 0..Len(s)
               /\ Nth(Cuts(s), k + 1) \in 1..Len(s) + 1
               /\ Nth(Cuts(s), k) < Nth(Cuts(s), k + 1)
               /\ DOMAIN SplitLines(s)[k] =
                     1..Nth(Cuts(s), k + 1) - Nth(Cuts(s), k) - 1
               /\ \A c \in DOMAIN SplitLines(s)[k] :
                     SplitLines(s)[k][c] = s[Nth(Cuts(s), k) + c]
<1> DEFINE n == Cardinality(Cuts(s)) - 1
           a(k) == Nth(Cuts(s), k)
           l(k) == SubSeq(s, a(k) + 1, a(k + 1) - 1)
<1>1. n \in Nat /\ Len(s) \in Nat
    BY CutSet
<1>2. SplitLines(s) = [k \in 1..n |-> l(k)]
    BY DEF SplitLines
<1>3. ASSUME NEW k \in 1..n
      PROVE  a(k) \in 0..Len(s) /\ a(k + 1) \in 1..Len(s) + 1 /\ a(k) < a(k + 1)
  <2>1. k \in 1..Cardinality(Cuts(s)) /\ k + 1 \in 1..Cardinality(Cuts(s)) /\ k < k + 1
      BY <1>1, CutSet
  <2>2. a(k) < a(k + 1)
      BY <2>1, CutSet, NthMonotone
  <2>3. a(k) \in 0..Len(s) + 1 /\ a(k + 1) \in 0..Len(s) + 1
      BY <2>1, CutSet, NthRank
  <2> HIDE DEF a
  <2>4. QED
      BY <1>1, <2>2, <2>3
<1> HIDE DEF n, a
<1>4. ASSUME NEW k \in 1..n
      PROVE  /\ l(k) \in Seq(Char)
             /\ DOMAIN l(k) = 1..a(k + 1) - a(k) - 1
             /\ \A c \in DOMAIN l(k) : l(k)[c] = s[a(k) + c]
  <2>1. a(k) \in 0..Len(s) /\ a(k + 1) \in 1..Len(s) + 1 /\ a(k) < a(k + 1)
      BY <1>3
  <2>2. PICK b \in 0..Len(s), e \in 1..Len(s) + 1 : b = a(k) /\ e = a(k + 1) /\ b < e
      BY <2>1
  <2>3. /\ SubSeq(s, b + 1, e - 1) \in Seq(Char)
        /\ DOMAIN SubSeq(s, b + 1, e - 1) = 1..e - b - 1
        /\ \A c \in 1..e - b - 1 : SubSeq(s, b + 1, e - 1)[c] = s[b + c]
    <3>1. b + 1 \in 1..Len(s) + 1 /\ e - 1 \in 0..Len(s)
        BY <1>1, <2>2
    <3>2. (e - 1) - (b + 1) + 1 = e - b - 1
        BY <1>1, <2>2
    <3>3. \A c \in 1..e - b - 1 : (b + 1) + c - 1 = b + c
        BY <1>1, <2>2
    <3>4. QED
        BY <3>1, <3>2, <3>3, Piece
  <2>4. QED
      BY <2>2, <2>3
<1> HIDE DEF l
<1>5. DOMAIN SplitLines(s) = 1..n /\ \A k \in 1..n : SplitLines(s)[k] = l(k)
    BY <1>2
<1>6. SplitLines(s) \in Seq(Seq(Char))
    BY <1>1, <1>2, <1>4
<1>7. QED
    BY <1>3, <1>4, <1>5, <1>6 DEF n, a

(* A character that ends no line is in the line of its number, at its      *)
(* column.                                                                 *)
LEMMA InLine ==
  ASSUME NEW s \in Seq(Char), NEW i \in DOMAIN s, s[i] # LF
  PROVE  /\ LineNumber(s, i) + 1 \in DOMAIN SplitLines(s)
         /\ Nth(Cuts(s), LineNumber(s, i) + 1) = LineStart(s, i)
         /\ i - LineStart(s, i) \in DOMAIN SplitLines(s)[LineNumber(s, i) + 1]
         /\ SplitLines(s)[LineNumber(s, i) + 1][i - LineStart(s, i)] = s[i]
<1> DEFINE b == LineStart(s, i)
           k == LineNumber(s, i) + 1
           n == Cardinality(Cuts(s))
<1>1. /\ b \in Cuts(s) /\ b < i /\ k \in Nat
      /\ \A j \in Cuts(s) : j < i => j <= b
      /\ Rank(Cuts(s), b) = k
    BY LineBegin
<1>2. Nth(Cuts(s), k) = b /\ k \in 1..n
    BY <1>1, CutSet, NthOfRank, RankType
<1>3. i \in Nat /\ Len(s) \in Nat /\ i <= Len(s) /\ b \in Nat /\ n \in Nat
    BY <1>1, CutSet
<1> HIDE DEF b, k
<1>4. k + 1 \in 1..n
  <2>1. Len(s) + 1 \in Cuts(s) /\ b < Len(s) + 1
      BY <1>1, <1>3 DEF Cuts
  <2>2. k < Rank(Cuts(s), Len(s) + 1) /\ Rank(Cuts(s), Len(s) + 1) \in 1..n
      BY <1>1, <2>1, CutSet, RankMonotone, RankType
  <2>3. QED
      BY <1>1, <1>3, <2>2
<1> DEFINE e == Nth(Cuts(s), k + 1)
<1>5. e \in Cuts(s) /\ b < e /\ e \in Nat
    BY <1>2, <1>4, CutSet, NthRank, NthMonotone
<1> HIDE DEF e
<1>6. i < e
  <2>1. e # i
      BY <1>3, <1>5 DEF Cuts
  <2>2. QED
      BY <1>1, <1>3, <1>5, <2>1
<1>7. k \in DOMAIN SplitLines(s)
    BY <1>1, <1>2, <1>3, <1>4, SplitType
<1>8. i - b \in DOMAIN SplitLines(s)[k]
  <2>1. DOMAIN SplitLines(s)[k] = 1..e - b - 1
      BY <1>2, <1>7, SplitType DEF e
  <2>2. i - b \in 1..e - b - 1
      BY <1>1, <1>3, <1>5, <1>6
  <2>3. QED
      BY <2>1, <2>2
<1>9. SplitLines(s)[k][i - b] = s[b + (i - b)]
    BY <1>2, <1>7, <1>8, SplitType
<1>10. QED
    BY <1>2, <1>3, <1>7, <1>8, <1>9 DEF b, k

(* And a character of a line is at that line and column of the text.       *)
LEMMA FromLine ==
  ASSUME NEW s \in Seq(Char), NEW k \in DOMAIN SplitLines(s),
         NEW c \in DOMAIN SplitLines(s)[k]
  PROVE  LET i == Nth(Cuts(s), k) + c
         IN  /\ i \in DOMAIN s
             /\ s[i] # LF
             /\ s[i] = SplitLines(s)[k][c]
             /\ LineStart(s, i) = Nth(Cuts(s), k)
             /\ LineNumber(s, i) = k - 1
<1> DEFINE a == Nth(Cuts(s), k)
           e == Nth(Cuts(s), k + 1)
           i == a + c
           n == Cardinality(Cuts(s))
<1>1. /\ a \in 0..Len(s) /\ e \in 1..Len(s) + 1 /\ a < e
      /\ c \in 1..e - a - 1
      /\ SplitLines(s)[k][c] = s[i]
    BY SplitType
<1>2. n \in Nat /\ k \in 1..n /\ k + 1 \in 1..n /\ Len(s) \in Nat
  <2>1. n \in Nat /\ k \in 1..n - 1
      BY CutSet, SplitType
  <2>2. QED
      BY <2>1
<1>3. /\ a \in Cuts(s) /\ Rank(Cuts(s), a) = k
      /\ e \in Cuts(s) /\ Rank(Cuts(s), e) = k + 1
    BY <1>2, CutSet, NthRank
<1> HIDE DEF a, e
<1>4. i \in Nat /\ a < i /\ i < e /\ i \in 1..Len(s)
    BY <1>1, <1>2
<1>5. i \in DOMAIN s
    BY <1>4
<1> HIDE DEF i
<1>6. ASSUME NEW j \in Cuts(s), a < j PROVE ~(j < e)
  <2>1. Rank(Cuts(s), j) \in 1..n /\ k < Rank(Cuts(s), j)
      BY <1>3, <1>6, CutSet, RankMonotone, RankType
  <2>2. j < e => Rank(Cuts(s), j) < k + 1
      BY <1>3, CutSet, RankMonotone
  <2>3. QED
      BY <1>2, <2>1, <2>2
<1>7. s[i] # LF
  <2>1. i \notin Cuts(s)
      BY <1>4, <1>6
  <2>2. QED
      BY <1>5, <2>1 DEF Cuts
<1> DEFINE b == LineStart(s, i)
<1>8. /\ b \in Cuts(s) /\ b < i
      /\ \A j \in Cuts(s) : j < i => j <= b
      /\ Rank(Cuts(s), b) = LineNumber(s, i) + 1
      /\ LineNumber(s, i) \in Nat
    BY <1>5, LineBegin
<1> HIDE DEF b
<1>9. b = a
  <2>1. b \in Nat /\ a \in Nat /\ e \in Nat
      BY <1>3, <1>8, CutSet
  <2>2. a <= b
      BY <1>3, <1>4, <1>8
  <2>3. b < e
      BY <1>4, <1>8, <2>1
  <2>4. ~(a < b)
      BY <1>6, <1>8, <2>3
  <2>5. QED
      BY <2>1, <2>2, <2>4
<1>10. LineNumber(s, i) + 1 = k
    BY <1>3, <1>8, <1>9
<1>11. LineNumber(s, i) = k - 1
    BY <1>2, <1>8, <1>10
<1>12. QED
    BY <1>1, <1>5, <1>7, <1>9, <1>11 DEF i, a, b

(* What rstrip leaves is a prefix, what lstrip leaves a suffix.            *)
LEMMA TailDropped ==
  ASSUME NEW T, NEW s \in Seq(T), NEW D
  PROVE  \E m \in 0..Len(s) :
            /\ DropTail(s, D) = SubSeq(s, 1, m)
            /\ m = 0 \/ s[m] \notin D
            /\ \A i \in m + 1..Len(s) : s[i] \in D
<1> DEFINE P == {0} \union {i \in DOMAIN s : s[i] \notin D}
<1>1. Len(s) \in Nat /\ DOMAIN s = 1..Len(s)
    OBVIOUS
<1>2. P \in SUBSET (0..Len(s)) /\ P # {} /\ P \in SUBSET Nat
    BY <1>1
<1>3. IsFiniteSet(P)
  <2>1. IsFiniteSet(0..Len(s))
      BY <1>1, FS_Interval
  <2>2. QED
      BY <1>2, <2>1, FS_Subset
<1>4. Max(P) \in P /\ \A j \in P : j <= Max(P)
    BY <1>2, <1>3, Maximum
<1>5. DropTail(s, D) = SubSeq(s, 1, Max(P))
    BY DEF DropTail
<1>6. PICK m \in P : m = Max(P)
    BY <1>4
<1>7. m \in 0..Len(s) /\ (m = 0 \/ s[m] \notin D)
    BY <1>2
<1>8. ASSUME NEW i \in m + 1..Len(s) PROVE s[i] \in D
  <2>1. i \in DOMAIN s /\ i \in Nat /\ ~(i <= m)
      BY <1>1, <1>7
  <2>2. i \notin P
      BY <1>4, <1>6, <2>1
  <2>3. QED
      BY <2>1, <2>2
<1>9. QED
    BY <1>5, <1>6, <1>7, <1>8

LEMMA HeadDropped ==
  ASSUME NEW T, NEW s \in Seq(T), NEW D
  PROVE  \E m \in 1..Len(s) + 1 :
            /\ DropHead(s, D) = SubSeq(s, m, Len(s))
            /\ m = Len(s) + 1 \/ s[m] \notin D
            /\ \A i \in 1..m - 1 : s[i] \in D
<1> DEFINE P == {Len(s) + 1} \union {i \in DOMAIN s : s[i] \notin D}
<1>1. Len(s) \in Nat /\ DOMAIN s = 1..Len(s)
    OBVIOUS
<1>2. P \in SUBSET (1..Len(s) + 1) /\ P # {} /\ P \in SUBSET Nat
    BY <1>1
<1>3. IsFiniteSet(P)
  <2>1. IsFiniteSet(1..Len(s) + 1)
      BY <1>1, FS_Interval
  <2>2. QED
      BY <1>2, <2>1, FS_Subset
<1>4. Min(P) \in P /\ \A j \in P : Min(P) <= j
    BY <1>2, <1>3, Minimum
<1>5. DropHead(s, D) = SubSeq(s, Min(P), Len(s))
    BY DEF DropHead
<1>6. PICK m \in P : m = Min(P)
    BY <1>4
<1>7. m \in 1..Len(s) + 1 /\ (m = Len(s) + 1 \/ s[m] \notin D)
    BY <1>2
<1>8. ASSUME NEW i \in 1..m - 1 PROVE s[i] \in D
  <2>1. i \in DOMAIN s /\ i \in Nat /\ ~(m <= i)
      BY <1>1, <1>7
  <2>2. i \notin P
      BY <1>4, <1>6, <2>1
  <2>3. QED
      BY <2>1, <2>2
<1>9. QED
    BY <1>5, <1>6, <1>7, <1>8

(* The normal form of a text has of each line the characters up to the     *)
(* last visible one, and no lines after the last that has one.             *)
LEMMA NormalForm ==
  ASSUME NEW x \in Seq(Char)
  PROVE  LET N == normalize_output(x)
             L == SplitLines(UnixLines(x))
         IN  /\ N \in Seq(Seq(Char))
             /\ Len(N) # 0 => N[Len(N)] # <<>>
             /\ \A k \in DOMAIN N :
                   /\ k \in DOMAIN L
                   /\ \A c \in DOMAIN N[k] : c \in DOMAIN L[k] /\ N[k][c] = L[k][c]
             /\ \A k \in DOMAIN L : \A c \in DOMAIN L[k] :
                   (k \in DOMAIN N /\ c \in DOMAIN N[k])
                      <=> \E d \in DOMAIN L[k] : c <= d /\ L[k][d] \notin White
<1> DEFINE N == normalize_output(x)
           L == SplitLines(UnixLines(x))
           R == [k \in DOMAIN L |-> DropTail(L[k], White)]
<1>1. L \in Seq(Seq(Char))
    BY UnixText, SplitType
<1>2. N = DropTail(R, {<<>>})
    BY DEF normalize_output
<1> HIDE DEF N, L
<1>3. \A k \in DOMAIN L : L[k] \in Seq(Char)
    BY <1>1
<1>4. ASSUME NEW k \in DOMAIN L
      PROVE  /\ R[k] \in Seq(Char)
             /\ \E m \in 0..Len(L[k]) :
                  /\ DOMAIN R[k] = 1..m
                  /\ \A c \in 1..m : R[k][c] = L[k][c]
                  /\ m = 0 \/ L[k][m] \notin White
                  /\ \A i \in m + 1..Len(L[k]) : L[k][i] \in White
  <2>1. L[k] \in Seq(Char)
      BY <1>3
  <2>2. PICK m \in 0..Len(L[k]) :
            /\ DropTail(L[k], White) = SubSeq(L[k], 1, m)
            /\ m = 0 \/ L[k][m] \notin White
            /\ \A i \in m + 1..Len(L[k]) : L[k][i] \in White
      BY <2>1, TailDropped
  <2>3. R[k] = SubSeq(L[k], 1, m)
      BY <2>2
  <2> HIDE DEF R
  <2>4. Len(L[k]) \in Nat /\ m \in Nat /\ 1 \in 1..Len(L[k]) + 1
      BY <2>1
  <2>5. /\ SubSeq(L[k], 1, m) \in Seq(Char)
        /\ DOMAIN SubSeq(L[k], 1, m) = 1..m - 1 + 1
        /\ \A c \in 1..m - 1 + 1 : SubSeq(L[k], 1, m)[c] = L[k][1 + c - 1]
      BY <2>1, <2>4, Piece
  <2>6. m - 1 + 1 = m /\ \A c \in 1..m : 1 + c - 1 = c
      BY <2>4
  <2>7. DOMAIN R[k] = 1..m /\ \A c \in 1..m : R[k][c] = L[k][c]
      BY <2>3, <2>5, <2>6
  <2>8. R[k] \in Seq(Char)
      BY <2>3, <2>5
  <2>9. QED
      BY <2>2, <2>7, <2>8
<1>5. DOMAIN R = DOMAIN L
    OBVIOUS
<1>6. R \in Seq(Seq(Char)) /\ Len(R) = Len(L) /\ Len(L) \in Nat /\ DOMAIN L = 1..Len(L)
  <2>1. R \in [1..Len(L) -> Seq(Char)]
      BY <1>1, <1>4
  <2>2. QED
      BY <1>1, <2>1
<1> HIDE DEF R
<1>7. PICK m \in 0..Len(R) :
            /\ N = SubSeq(R, 1, m)
            /\ m = 0 \/ R[m] \notin {<<>>}
            /\ \A i \in m + 1..Len(R) : R[i] \in {<<>>}
    BY <1>2, <1>6, TailDropped
<1>8. N \in Seq(Seq(Char)) /\ DOMAIN N = 1..m /\ \A k \in 1..m : N[k] = R[k]
  <2>1. 1 \in 1..Len(R) + 1 /\ m \in Nat
      BY <1>6
  <2>2. m - 1 + 1 = m /\ \A c \in 1..m : 1 + c - 1 = c
      BY <2>1
  <2>3. QED
      BY <1>6, <1>7, <2>1, <2>2, Piece
<1>9. Len(N) # 0 => N[Len(N)] # <<>>
  <2>1. Len(N) = m /\ m \in Nat
      BY <1>6, <1>8
  <2>2. QED
      BY <1>7, <1>8, <2>1
<1>10. ASSUME NEW k \in DOMAIN N
       PROVE  /\ k \in DOMAIN L
              /\ \A c \in DOMAIN N[k] : c \in DOMAIN L[k] /\ N[k][c] = L[k][c]
  <2>1. k \in DOMAIN L /\ N[k] = R[k]
      BY <1>6, <1>8
  <2>2. Len(L[k]) \in Nat /\ DOMAIN L[k] = 1..Len(L[k])
      BY <1>3, <2>1
  <2>3. QED
      BY <1>4, <2>1, <2>2
<1>11. ASSUME NEW k \in DOMAIN L, NEW c \in DOMAIN L[k]
       PROVE  (k \in DOMAIN N /\ c \in DOMAIN N[k])
                 <=> \E d \in DOMAIN L[k] : c <= d /\ L[k][d] \notin White
  <2>1. Len(L[k]) \in Nat /\ DOMAIN L[k] = 1..Len(L[k]) /\ c \in Nat
      BY <1>3
  <2>2. PICK q \in 0..Len(L[k]) :
                  /\ DOMAIN R[k] = 1..q
                  /\ q = 0 \/ L[k][q] \notin White
                  /\ \A i \in q + 1..Len(L[k]) : L[k][i] \in White
      BY <1>4
  <2>3. c \in DOMAIN R[k] <=> \E d \in DOMAIN L[k] : c <= d /\ L[k][d] \notin White
    <3>1. ASSUME c \in DOMAIN R[k] PROVE \E d \in DOMAIN L[k] : c <= d /\ L[k][d] \notin White
      <4>1. q \in DOMAIN L[k] /\ c <= q /\ L[k][q] \notin White
          BY <2>1, <2>2, <3>1
      <4>2. QED
          BY <4>1
    <3>2. ASSUME NEW d \in DOMAIN L[k], c <= d, L[k][d] \notin White PROVE c \in DOMAIN R[k]
      <4>1. d \notin q + 1..Len(L[k])
          BY <2>2, <3>2
      <4>2. c <= q
          BY <2>1, <3>2, <4>1
      <4>3. QED
          BY <2>1, <2>2, <4>2
    <3>3. QED
        BY <3>1, <3>2
  <2>4. c \in DOMAIN R[k] => k \in DOMAIN N /\ N[k] = R[k]
    <3>1. SUFFICES ASSUME c \in DOMAIN R[k] PROVE k \in 1..m
        BY <1>8
    <3>2. R[k] # <<>>
        BY <3>1
    <3>3. k \notin m + 1..Len(R)
        BY <1>7, <3>2
    <3>4. QED
        BY <1>6, <3>3
  <2>5. QED
      BY <1>8, <2>3, <2>4
<1>12. QED
    BY <1>8, <1>9, <1>10, <1>11 DEF N, L

(* What Content collects, read off a list of lines.                        *)
Triples(N) == UNION {{<<k - 1, c, N[k][c]>> : c \in DOMAIN N[k]} : k \in DOMAIN N}

(* The members of that union.                                              *)
LEMMA TripleMember ==
  ASSUME NEW N, NEW t
  PROVE  t \in Triples(N) <=>
            \E k \in DOMAIN N : \E c \in DOMAIN N[k] : t = <<k - 1, c, N[k][c]>>
<1>1. ASSUME NEW k \in DOMAIN N, NEW c \in DOMAIN N[k], t = <<k - 1, c, N[k][c]>>
      PROVE  t \in Triples(N)
  <2> DEFINE T == {<<k - 1, d, N[k][d]>> : d \in DOMAIN N[k]}
  <2>1. t \in T
      BY <1>1
  <2>2. T \in {{<<l - 1, d, N[l][d]>> : d \in DOMAIN N[l]} : l \in DOMAIN N}
      OBVIOUS
  <2> HIDE DEF T
  <2>3. QED
      BY <2>1, <2>2, Zenon DEF Triples
<1>2. ASSUME t \in Triples(N)
      PROVE  \E k \in DOMAIN N : \E c \in DOMAIN N[k] : t = <<k - 1, c, N[k][c]>>
    BY <1>2 DEF Triples
<1>3. QED
    BY <1>1, <1>2

(* The content of a text is what its normal form consists of.              *)
LEMMA ContentOfLines ==
  ASSUME NEW x \in Seq(Char)
  PROVE  Content(x) = Triples(normalize_output(x))
<1> DEFINE s == UnixLines(x)
           N == normalize_output(x)
           L == SplitLines(s)
<1>1. s \in Seq(Char)
    BY UnixText
<1>2. /\ N \in Seq(Seq(Char))
      /\ \A k \in DOMAIN N :
            /\ k \in DOMAIN L
            /\ \A c \in DOMAIN N[k] : c \in DOMAIN L[k] /\ N[k][c] = L[k][c]
      /\ \A k \in DOMAIN L : \A c \in DOMAIN L[k] :
            (k \in DOMAIN N /\ c \in DOMAIN N[k])
               <=> \E d \in DOMAIN L[k] : c <= d /\ L[k][d] \notin White
    BY NormalForm
<1>3. Content(x) = {<<LineNumber(s, i), i - LineStart(s, i), s[i]>> : i \in Significant(s)}
    BY DEF Content
<1> HIDE DEF s, N
<1>4. DOMAIN s = 1..Len(s) /\ Len(s) \in Nat
    BY <1>1
<1>5. ASSUME NEW i \in Significant(s)
      PROVE  <<LineNumber(s, i), i - LineStart(s, i), s[i]>> \in Triples(N)
  <2>1. PICK j \in i..Len(s) : s[j] \in Visible /\ LineStart(s, j) = LineStart(s, i)
      BY DEF Significant
  <2>2. i \in DOMAIN s /\ j \in DOMAIN s /\ i \in Nat /\ j \in Nat /\ i <= j
      BY <1>4, <2>1 DEF Significant
  <2>3. s[j] \notin White /\ s[j] # LF
      BY <2>1, VisibleAssumption DEF White
  <2>4. s[i] # LF
    <3>1. SUFFICES ASSUME s[i] = LF PROVE FALSE
        OBVIOUS
    <3>2. i < j
        BY <2>2, <2>3, <3>1
    <3>3. i \in Cuts(s)
        BY <2>2, <3>1 DEF Cuts
    <3>4. i <= LineStart(s, j) /\ LineStart(s, i) < i /\ LineStart(s, i) \in Cuts(s)
        BY <1>1, <2>2, <3>2, <3>3, LineBegin
    <3>5. LineStart(s, i) \in Nat
        BY <1>1, <3>4, CutSet
    <3>6. QED
        BY <2>1, <2>2, <3>4, <3>5
  <2> DEFINE b == LineStart(s, i)
             k == LineNumber(s, i) + 1
  <2>5. LineNumber(s, i) \in Nat /\ LineNumber(s, j) + 1 = k /\ LineNumber(s, j) \in Nat
      BY <1>1, <2>1, <2>2, LineBegin
  <2>6. /\ k \in DOMAIN L
        /\ i - b \in DOMAIN L[k] /\ L[k][i - b] = s[i]
      BY <1>1, <2>2, <2>4, InLine
  <2>7. j - b \in DOMAIN L[k] /\ L[k][j - b] = s[j]
    <3>1. /\ j - LineStart(s, j) \in DOMAIN L[LineNumber(s, j) + 1]
          /\ L[LineNumber(s, j) + 1][j - LineStart(s, j)] = s[j]
        BY <1>1, <2>2, <2>3, InLine
    <3>2. QED
        BY <2>1, <2>5, <3>1
  <2>8. b \in Nat
      BY <1>1, <2>2, LineBegin, CutSet
  <2>9. k - 1 = LineNumber(s, i)
      BY <2>5
  <2> HIDE DEF b, k, L
  <2>10. i - b <= j - b
      BY <2>2, <2>8
  <2>11. k \in DOMAIN N /\ i - b \in DOMAIN N[k]
      BY <1>2, <2>3, <2>6, <2>7, <2>10
  <2>12. N[k][i - b] = s[i]
      BY <1>2, <2>6, <2>11
  <2>13. <<k - 1, i - b, N[k][i - b]>> \in Triples(N)
      BY <2>11, TripleMember
  <2>14. QED
      BY <2>9, <2>12, <2>13 DEF b
<1>6. ASSUME NEW k \in DOMAIN N, NEW c \in DOMAIN N[k]
      PROVE  \E i \in Significant(s) :
                <<k - 1, c, N[k][c]>> = <<LineNumber(s, i), i - LineStart(s, i), s[i]>>
  <2>1. k \in DOMAIN L /\ c \in DOMAIN L[k] /\ N[k][c] = L[k][c]
      BY <1>2
  <2>2. PICK d \in DOMAIN L[k] : c <= d /\ L[k][d] \notin White
      BY <1>2, <2>1
  <2> DEFINE a == Nth(Cuts(s), k)
  <2>3. L[k] \in Seq(Char) /\ L \in Seq(Seq(Char)) /\ a \in 0..Len(s)
      BY <1>1, <2>1, SplitType
  <2>4. c \in Nat /\ d \in Nat /\ a \in Nat
      BY <1>4, <2>1, <2>2, <2>3
  <2>5. /\ a + c \in DOMAIN s /\ s[a + c] = L[k][c]
        /\ LineStart(s, a + c) = a /\ LineNumber(s, a + c) = k - 1
      BY <1>1, <2>1, FromLine
  <2>6. /\ a + d \in DOMAIN s /\ s[a + d] = L[k][d] /\ LineStart(s, a + d) = a
      BY <1>1, <2>1, FromLine
  <2> HIDE DEF a, L
  <2>7. s[a + d] \in Visible
      BY <1>1, <2>2, <2>6 DEF Char
  <2>8. a + d \in a + c..Len(s)
      BY <1>4, <2>2, <2>4, <2>6
  <2>9. a + c \in Significant(s)
      BY <2>5, <2>6, <2>7, <2>8 DEF Significant
  <2>10. (a + c) - a = c
      BY <2>4
  <2>11. QED
      BY <2>1, <2>5, <2>9, <2>10
<1>7. ASSUME NEW t \in Triples(N) PROVE t \in Content(x)
  <2>1. PICK k \in DOMAIN N : \E c \in DOMAIN N[k] : t = <<k - 1, c, N[k][c]>>
      BY TripleMember
  <2>2. PICK c \in DOMAIN N[k] : t = <<k - 1, c, N[k][c]>>
      BY <2>1
  <2>3. PICK i \in Significant(s) :
            <<k - 1, c, N[k][c]>> = <<LineNumber(s, i), i - LineStart(s, i), s[i]>>
      BY <1>6
  <2>4. QED
      BY <1>3, <2>2, <2>3
<1>8. ASSUME NEW t \in Content(x) PROVE t \in Triples(N)
    BY <1>3, <1>5, <1>8
<1>9. QED
    BY <1>7, <1>8 DEF N

(* Two lists that do not end with an empty line are equal when they        *)
(* consist of the same characters at the same places.                      *)
LEMMA SameTriples ==
  ASSUME NEW M \in Seq(Seq(Char)), NEW N \in Seq(Seq(Char)),
         Len(M) # 0 => M[Len(M)] # <<>>,
         Len(N) # 0 => N[Len(N)] # <<>>,
         Triples(M) = Triples(N)
  PROVE  M = N
<1>1. ASSUME NEW A \in Seq(Seq(Char)), NEW B \in Seq(Seq(Char)), Triples(A) = Triples(B),
             NEW k \in DOMAIN A, NEW c \in DOMAIN A[k]
      PROVE  k \in DOMAIN B /\ c \in DOMAIN B[k] /\ A[k][c] = B[k][c]
  <2>1. <<k - 1, c, A[k][c]>> \in Triples(A)
      BY TripleMember
  <2>2. PICK l \in DOMAIN B :
            \E d \in DOMAIN B[l] : <<k - 1, c, A[k][c]>> = <<l - 1, d, B[l][d]>>
      BY <1>1, <2>1, TripleMember
  <2>3. PICK d \in DOMAIN B[l] : <<k - 1, c, A[k][c]>> = <<l - 1, d, B[l][d]>>
      BY <2>2
  <2>4. k - 1 = l - 1 /\ c = d /\ A[k][c] = B[l][d]
      BY <2>3
  <2>5. k = l
      BY <2>4
  <2>6. QED
      BY <2>4, <2>5
<1>2. ASSUME NEW A \in Seq(Seq(Char)), NEW B \in Seq(Seq(Char)), Triples(A) = Triples(B),
             Len(A) # 0 => A[Len(A)] # <<>>
      PROVE  Len(A) <= Len(B)
  <2>1. CASE Len(A) = 0
      BY <2>1
  <2>2. CASE Len(A) # 0
    <3>1. Len(A) \in DOMAIN A /\ Len(A) \in Nat
        BY <2>2
    <3>2. A[Len(A)] \in Seq(Char) /\ A[Len(A)] # <<>>
        BY <1>2, <2>2, <3>1
    <3>3. 1 \in DOMAIN A[Len(A)]
        BY <3>2
    <3>4. Len(A) \in DOMAIN B
        BY <1>1, <1>2, <3>1, <3>3
    <3>5. QED
        BY <3>4
  <2>3. QED
      BY <2>1, <2>2
<1>3. Len(M) = Len(N)
  <2>1. Len(M) <= Len(N) /\ Len(N) <= Len(M)
      BY <1>2
  <2>2. Len(M) \in Nat /\ Len(N) \in Nat
      OBVIOUS
  <2>3. QED
      BY <2>1, <2>2
<1>4. ASSUME NEW k \in 1..Len(M) PROVE M[k] = N[k]
  <2>1. k \in DOMAIN M /\ k \in DOMAIN N /\ M[k] \in Seq(Char) /\ N[k] \in Seq(Char)
      BY <1>3
  <2>2. \A c \in DOMAIN M[k] : c \in DOMAIN N[k] /\ M[k][c] = N[k][c]
      BY <1>1, <2>1
  <2>3. \A c \in DOMAIN N[k] : c \in DOMAIN M[k]
      BY <1>1, <2>1
  <2>4. DOMAIN M[k] = DOMAIN N[k]
      BY <2>2, <2>3
  <2>5. QED
      BY <2>1, <2>2, <2>4
<1>5. /\ M \in [1..Len(M) -> Seq(Char)]
      /\ N \in [1..Len(M) -> Seq(Char)]
    BY <1>3
<1>6. QED
    BY <1>4, <1>5

(* The checker's comparison is one of what the two texts have in common.   *)
LEMMA EqualWhenSameContent ==
  ASSUME NEW x \in Seq(Char), NEW y \in Seq(Char)
  PROVE  normalize_output(x) = normalize_output(y) <=> Content(x) = Content(y)
<1>1. /\ Content(x) = Triples(normalize_output(x))
      /\ Content(y) = Triples(normalize_output(y))
    BY ContentOfLines
<1> DEFINE M == normalize_output(x)
           N == normalize_output(y)
<1>2. /\ M \in Seq(Seq(Char)) /\ (Len(M) # 0 => M[Len(M)] # <<>>)
      /\ N \in Seq(Seq(Char)) /\ (Len(N) # 0 => N[Len(N)] # <<>>)
    BY NormalForm
<1> HIDE DEF M, N
<1>3. Triples(M) = Triples(N) => M = N
    BY <1>2, SameTriples
<1>4. QED
    BY <1>1, <1>3 DEF M, N

(* u is v followed by white space.                                         *)
Trimmed(u, v) ==
    /\ Len(v) <= Len(u)
    /\ \A c \in 1..Len(v) : v[c] = u[c]
    /\ \A c \in Len(v) + 1..Len(u) : u[c] \in White

(* The k-th of the positions up to n is the k-th of all of them.           *)
LEMMA NthOfPrefix ==
  ASSUME NEW S \in SUBSET Nat, IsFiniteSet(S), NEW n \in Nat, NEW T,
         T = {i \in S : i <= n}
  PROVE  /\ T \in SUBSET Nat /\ IsFiniteSet(T) /\ Cardinality(T) <= Cardinality(S)
         /\ \A k \in 1..Cardinality(T) : Nth(S, k) = Nth(T, k)
         /\ \A k \in 1..Cardinality(S) : k > Cardinality(T) => Nth(S, k) > n
<1>1. T \in SUBSET S
    OBVIOUS
<1>2. T \in SUBSET Nat /\ IsFiniteSet(T) /\ Cardinality(T) <= Cardinality(S)
    BY <1>1, FS_Subset
<1>3. Cardinality(T) \in Nat /\ Cardinality(S) \in Nat
    BY <1>2, FS_CardinalityType
<1>4. ASSUME NEW i \in T PROVE Rank(S, i) = Rank(T, i)
  <2>1. i \in Nat /\ i <= n
      BY <1>2
  <2>2. ASSUME NEW j \in S, j <= i PROVE j <= n
      BY <2>1, <2>2
  <2>3. {j \in S : j <= i} = {j \in T : j <= i}
      BY <2>2
  <2>4. QED
      BY <2>3 DEF Rank
<1>5. ASSUME NEW k \in 1..Cardinality(T) PROVE Nth(S, k) = Nth(T, k)
  <2>1. Nth(T, k) \in T /\ Rank(T, Nth(T, k)) = k
      BY <1>2, NthRank
  <2>2. Nth(T, k) \in S /\ Rank(S, Nth(T, k)) = k
      BY <1>1, <1>4, <2>1
  <2>3. QED
      BY <2>2, NthOfRank
<1>6. ASSUME NEW k \in 1..Cardinality(S), k > Cardinality(T) PROVE Nth(S, k) > n
  <2>1. Nth(S, k) \in S /\ Rank(S, Nth(S, k)) = k
      BY NthRank
  <2>2. Nth(S, k) \notin T
    <3>1. ASSUME Nth(S, k) \in T PROVE FALSE
      <4>1. Rank(T, Nth(S, k)) = k /\ Rank(T, Nth(S, k)) \in 1..Cardinality(T)
          BY <1>2, <1>4, <2>1, <3>1, RankType
      <4>2. QED
          BY <1>3, <1>6, <4>1
    <3>2. QED
        BY <3>1
  <2>3. Nth(S, k) \in Nat /\ ~(Nth(S, k) <= n)
      BY <2>1, <2>2
  <2>4. QED
      BY <2>3
<1>7. QED
    BY <1>2, <1>5, <1>6

(* A text that ends with white space has the line ends of the text         *)
(* without it, and white space after them.                                 *)
LEMMA UnixTrimmed ==
  ASSUME NEW u \in Seq(Char), NEW v \in Seq(Char), Trimmed(u, v),
         Len(v) = 0 \/ v[Len(v)] \notin White
  PROVE  Trimmed(UnixLines(u), UnixLines(v))
<1> DEFINE n == Len(v)
           S == Kept(u)
           T == Kept(v)
<1>1. n \in Nat /\ Len(u) \in Nat /\ n <= Len(u) /\ DOMAIN u = 1..Len(u) /\ DOMAIN v = 1..n
    BY DEF Trimmed
<1>2. \A c \in 1..n : v[c] = u[c]
    BY DEF Trimmed
<1>3. ASSUME NEW i \in 1..n PROVE i \in S <=> i \in T
  <2>1. CASE i < n
    <3>1. i + 1 \in 1..n /\ i < Len(u)
        BY <1>1, <2>1
    <3>2. v[i] = u[i] /\ v[i + 1] = u[i + 1]
        BY <1>2, <3>1
    <3>3. QED
        BY <1>1, <2>1, <3>1, <3>2 DEF Kept
  <2>2. CASE i = n
    <3>1. n # 0 /\ v[i] # CR /\ u[i] # CR
        BY <1>1, <1>2, <2>2 DEF White
    <3>2. QED
        BY <1>1, <3>1 DEF Kept
  <2>3. n \in Nat
      BY <1>1
  <2>4. i < n \/ i = n
      BY <2>3
  <2>5. QED
      BY <2>1, <2>2, <2>4, Zenon
<1>4. T = {i \in S : i <= n}
  <2>1. S \in SUBSET (1..Len(u)) /\ T \in SUBSET (1..n)
      BY KeptSet
  <2>2. \A i \in S : i <= n => i \in 1..n
      BY <1>1, <2>1
  <2>3. \A i \in T : i <= n /\ i \in 1..n
      BY <1>1, <2>1
  <2> HIDE DEF S, T, n
  <2>4. QED
      BY <1>3, <2>2, <2>3
<1>5. S \in SUBSET Nat /\ IsFiniteSet(S)
    BY KeptSet
<1> DEFINE q == Cardinality(T)
<1>6. /\ q <= Cardinality(S)
      /\ \A k \in 1..q : Nth(S, k) = Nth(T, k)
      /\ \A k \in 1..Cardinality(S) : k > q => Nth(S, k) > n
  <2> HIDE DEF S, T, n
  <2>1. QED
      BY <1>1, <1>4, <1>5, NthOfPrefix
<1>7. Len(UnixLines(u)) = Cardinality(S) /\ Len(UnixLines(v)) = q
    BY UnixText
<1>8. q \in Nat /\ Cardinality(S) \in Nat
    BY KeptSet
<1>9. ASSUME NEW k \in 1..q PROVE UnixLines(v)[k] = UnixLines(u)[k]
  <2>1. Nth(T, k) \in 1..n
      BY KeptSet, NthRank
  <2>2. v[Nth(T, k)] = u[Nth(S, k)]
      BY <1>2, <1>6, <2>1
  <2>3. k \in 1..Cardinality(S)
      BY <1>6, <1>8
  <2>4. UnixLines(v)[k] = Unix(v[Nth(T, k)]) /\ UnixLines(u)[k] = Unix(u[Nth(S, k)])
      BY <2>3 DEF UnixLines
  <2>5. QED
      BY <2>2, <2>4
<1>10. ASSUME NEW k \in q + 1..Cardinality(S) PROVE UnixLines(u)[k] \in White
  <2>1. k \in 1..Cardinality(S) /\ k > q
      BY <1>8
  <2>2. Nth(S, k) > n /\ Nth(S, k) \in 1..Len(u)
      BY <1>6, <2>1, KeptSet, NthRank
  <2>3. Nth(S, k) \in n + 1..Len(u)
      BY <1>1, <2>2
  <2>4. u[Nth(S, k)] \in White
      BY <2>3 DEF Trimmed
  <2>5. UnixLines(u)[k] = Unix(u[Nth(S, k)])
      BY <2>1 DEF UnixLines
  <2>6. QED
      BY <2>4, <2>5 DEF Unix, White
<1>11. QED
    BY <1>6, <1>7, <1>9, <1>10 DEF Trimmed

(* White space at the end is no part of the content.                       *)
LEMMA TrimmedContent ==
  ASSUME NEW u \in Seq(Char), NEW v \in Seq(Char), Trimmed(u, v),
         Len(v) = 0 \/ v[Len(v)] \notin White
  PROVE  Content(u) = Content(v)
<1> DEFINE s == UnixLines(u)
           r == UnixLines(v)
           q == Len(r)
<1>1. s \in Seq(Char) /\ r \in Seq(Char) /\ Trimmed(s, r)
    BY UnixText, UnixTrimmed
<1>2. /\ Content(u) = {<<LineNumber(s, i), i - LineStart(s, i), s[i]>> : i \in Significant(s)}
      /\ Content(v) = {<<LineNumber(r, i), i - LineStart(r, i), r[i]>> : i \in Significant(r)}
    BY DEF Content
<1> HIDE DEF s, r
<1>3. /\ q \in Nat /\ Len(s) \in Nat /\ q <= Len(s)
      /\ DOMAIN s = 1..Len(s) /\ DOMAIN r = 1..q
      /\ \A c \in 1..q : r[c] = s[c]
      /\ \A c \in q + 1..Len(s) : s[c] \in White
    BY <1>1 DEF Trimmed
<1> HIDE DEF q
<1>4. ASSUME NEW i \in 1..q
      PROVE  LineStart(s, i) = LineStart(r, i) /\ LineNumber(s, i) = LineNumber(r, i)
  <2>1. \A j \in 1 .. i - 1 : j \in 1..q
      BY <1>3
  <2>2. {j \in 1 .. i - 1 : s[j] = LF} = {j \in 1 .. i - 1 : r[j] = LF}
      BY <1>3, <2>1
  <2>3. QED
      BY <2>2 DEF LineStart, LineNumber
<1>5. ASSUME NEW i \in Significant(s) PROVE i \in Significant(r)
  <2>1. PICK j \in i .. Len(s) : s[j] \in Visible /\ LineStart(s, j) = LineStart(s, i)
      BY DEF Significant
  <2>2. i \in 1..Len(s) /\ j \in Nat
      BY <1>3, <2>1 DEF Significant
  <2>3. j \notin q + 1..Len(s)
      BY <1>3, <2>1, VisibleAssumption
  <2>4. i \in 1..q /\ j \in 1..q /\ j \in i..q
      BY <1>3, <2>1, <2>2, <2>3
  <2>5. QED
      BY <1>3, <1>4, <2>1, <2>4 DEF Significant
<1>6. ASSUME NEW i \in Significant(r) PROVE i \in Significant(s)
  <2>1. PICK j \in i .. q : r[j] \in Visible /\ LineStart(r, j) = LineStart(r, i)
      BY DEF Significant, q
  <2>2. i \in 1..q /\ j \in 1..q /\ i \in 1..Len(s) /\ j \in i..Len(s)
      BY <1>3, <2>1 DEF Significant
  <2>3. QED
      BY <1>3, <1>4, <2>1, <2>2 DEF Significant
<1>7. ASSUME NEW i \in Significant(r)
      PROVE  <<LineNumber(s, i), i - LineStart(s, i), s[i]>>
                = <<LineNumber(r, i), i - LineStart(r, i), r[i]>>
  <2>1. i \in 1..q
      BY <1>3 DEF Significant
  <2>2. QED
      BY <1>3, <1>4, <2>1
<1>8. Significant(s) = Significant(r)
    BY <1>5, <1>6
<1>9. QED
    BY <1>2, <1>7, <1>8

(* A text stripped at both ends and one stripped at its beginning differ   *)
(* in white space at the end.                                              *)
LEMMA StripText ==
  ASSUME NEW t \in Seq(Char)
  PROVE  /\ Strip(t) \in Seq(Char) /\ Len(Strip(t)) <= Len(t)
         /\ DropHead(t, White) \in Seq(Char)
         /\ Trimmed(DropHead(t, White), Strip(t))
         /\ Len(Strip(t)) = 0 \/ Strip(t)[Len(Strip(t))] \notin White
<1> DEFINE d == DropTail(t, White)
           u == DropHead(t, White)
           v == Strip(t)
<1>1. Len(t) \in Nat /\ DOMAIN t = 1..Len(t)
    OBVIOUS
<1>2. PICK m \in 0..Len(t) :
          /\ d = SubSeq(t, 1, m)
          /\ m = 0 \/ t[m] \notin White
          /\ \A i \in m + 1..Len(t) : t[i] \in White
    BY TailDropped
<1>3. PICK h \in 1..Len(t) + 1 :
          /\ u = SubSeq(t, h, Len(t))
          /\ h = Len(t) + 1 \/ t[h] \notin White
          /\ \A i \in 1..h - 1 : t[i] \in White
    BY HeadDropped
<1>4. d \in Seq(Char) /\ Len(d) = m /\ \A c \in 1..m : d[c] = t[c]
  <2>1. 1 \in 1..Len(t) + 1 /\ m - 1 + 1 = m /\ \A c \in 1..m : 1 + c - 1 = c
      BY <1>1
  <2>2. SubSeq(t, 1, m) \in Seq(Char)
        /\ DOMAIN SubSeq(t, 1, m) = 1..m /\ \A c \in 1..m : SubSeq(t, 1, m)[c] = t[c]
      BY <2>1, Piece
  <2> HIDE DEF d
  <2>3. QED
      BY <1>1, <1>2, <2>2
<1>5. PICK g \in 1..m + 1 :
          /\ v = SubSeq(d, g, m)
          /\ g = m + 1 \/ d[g] \notin White
          /\ \A i \in 1..g - 1 : d[i] \in White
  <2>1. v = DropHead(d, White)
      BY DEF Strip
  <2> HIDE DEF d, v
  <2>2. QED
      BY <1>4, <2>1, HeadDropped
<1> HIDE DEF d, u, v
<1>6. /\ u \in Seq(Char) /\ Len(u) = Len(t) - h + 1
      /\ \A c \in 1..Len(t) - h + 1 : u[c] = t[h + c - 1]
  <2>1. /\ SubSeq(t, h, Len(t)) \in Seq(Char)
        /\ DOMAIN SubSeq(t, h, Len(t)) = 1..Len(t) - h + 1
        /\ \A c \in 1..Len(t) - h + 1 : SubSeq(t, h, Len(t))[c] = t[h + c - 1]
      BY <1>1, Piece
  <2>2. Len(t) - h + 1 \in Nat
      BY <1>1
  <2>3. QED
      BY <1>3, <2>1, <2>2
<1>7. /\ v \in Seq(Char) /\ Len(v) = m - g + 1
      /\ \A c \in 1..m - g + 1 : v[c] = d[g + c - 1]
  <2>1. /\ SubSeq(d, g, m) \in Seq(Char)
        /\ DOMAIN SubSeq(d, g, m) = 1..m - g + 1
        /\ \A c \in 1..m - g + 1 : SubSeq(d, g, m)[c] = d[g + c - 1]
      BY <1>1, <1>4, Piece
  <2>2. m - g + 1 \in Nat
      BY <1>1
  <2>3. QED
      BY <1>5, <2>1, <2>2
<1>8. m \in Nat /\ h \in Nat /\ g \in Nat /\ m <= Len(t)
    BY <1>1
<1>9. Len(v) <= Len(t)
    BY <1>1, <1>7, <1>8
<1>10. Trimmed(u, v) /\ (Len(v) = 0 \/ v[Len(v)] \notin White)
  <2>1. CASE m = 0
    <3>1. Len(v) = 0
        BY <1>5, <1>7, <1>8, <2>1
    <3>2. ASSUME NEW c \in 1..Len(u) PROVE u[c] \in White
      <4>1. h + c - 1 \in m + 1..Len(t) /\ c \in 1..Len(t) - h + 1
          BY <1>1, <1>6, <1>8, <2>1
      <4>2. QED
          BY <1>2, <1>6, <4>1
    <3>3. Len(u) \in Nat
        BY <1>6
    <3>4. QED
        BY <3>1, <3>2, <3>3 DEF Trimmed
  <2>2. CASE m # 0
    <3>1. m \in 1..Len(t) /\ t[m] \notin White /\ d[m] = t[m]
        BY <1>1, <1>2, <1>4, <1>8, <2>2
    <3>2. h <= m
      <4>1. m \notin 1..h - 1
          BY <1>3, <3>1
      <4>2. QED
          BY <1>8, <3>1, <4>1
    <3>3. g <= m
      <4>1. m \notin 1..g - 1
          BY <1>5, <3>1
      <4>2. QED
          BY <1>8, <3>1, <4>1
    <3>4. t[h] \notin White /\ t[g] \notin White
      <4>1. h # Len(t) + 1 /\ g # m + 1 /\ g \in 1..m
          BY <1>1, <1>8, <3>2, <3>3
      <4>2. QED
          BY <1>3, <1>4, <1>5, <4>1
    <3>5. ~(h < g)
      <4>1. ASSUME h < g PROVE FALSE
        <5>1. h \in 1..g - 1 /\ h \in 1..m
            BY <1>8, <3>2, <4>1
        <5>2. QED
            BY <1>4, <1>5, <3>4, <5>1
      <4>2. QED
          BY <4>1
    <3>6. ~(g < h)
      <4>1. g < h => g \in 1..h - 1
          BY <1>8
      <4>2. QED
          BY <1>3, <3>4, <4>1
    <3>7. g = h
        BY <1>8, <3>5, <3>6
    <3>8. Len(v) <= Len(u)
        BY <1>1, <1>6, <1>7, <1>8, <3>7
    <3>9. ASSUME NEW c \in 1..Len(v) PROVE v[c] = u[c]
      <4>1. g + c - 1 \in 1..m /\ c \in 1..m - g + 1 /\ c \in 1..Len(t) - h + 1
          BY <1>1, <1>7, <1>8, <3>7
      <4>2. QED
          BY <1>4, <1>6, <1>7, <3>7, <4>1
    <3>10. ASSUME NEW c \in Len(v) + 1..Len(u) PROVE u[c] \in White
      <4>1. h + c - 1 \in m + 1..Len(t) /\ c \in 1..Len(t) - h + 1
          BY <1>1, <1>6, <1>7, <1>8, <3>3, <3>7
      <4>2. QED
          BY <1>2, <1>6, <4>1
    <3>11. v[Len(v)] \notin White
      <4>1. Len(v) \in 1..m - g + 1 /\ g + Len(v) - 1 = m
          BY <1>7, <1>8, <3>3
      <4>2. v[Len(v)] = d[m]
          BY <1>7, <4>1
      <4>3. QED
          BY <3>1, <4>2
    <3>12. QED
        BY <3>8, <3>9, <3>10, <3>11 DEF Trimmed
  <2>3. QED
      BY <2>1, <2>2
<1>11. QED
    BY <1>6, <1>7, <1>9, <1>10 DEF u, v

(* So stripping costs nothing but what Body leaves out.                    *)
LEMMA StripKeepsBody ==
  ASSUME NEW t \in Seq(Char)
  PROVE  Content(Strip(t)) = Body(t)
BY StripText, TrimmedContent DEF Body

-----------------------------------------------------------------------------
(* The test of one case. *)

(* The texts up to some length.                                            *)
LEMMA TextsAreSeqs ==
  ASSUME NEW n \in Nat
  PROVE  \A t : t \in Texts(n) <=> t \in Seq(Char) /\ Len(t) <= n
<1>1. Texts(n) = UNION {[1..m -> Char] : m \in 0..n}
    BY DEF Texts, BoundedSeq, SeqOf, Char
<1>2. ASSUME NEW t \in Texts(n) PROVE t \in Seq(Char) /\ Len(t) <= n
  <2>1. PICK m \in 0..n : t \in [1..m -> Char]
      BY <1>1
  <2>2. QED
      BY <2>1
<1>3. ASSUME NEW t \in Seq(Char), Len(t) <= n PROVE t \in Texts(n)
  <2>1. Len(t) \in 0..n /\ t \in [1..Len(t) -> Char]
      BY <1>3
  <2>2. [1..Len(t) -> Char] \in {[1..m -> Char] : m \in 0..n}
      BY <2>1
  <2>3. QED
      BY <1>1, <2>1, <2>2, Zenon
<1>4. QED
    BY <1>2, <1>3

(* Read is what _run keeps before it strips, and never too long.           *)
LEMMA ReadIsClipped ==
  ASSUME NEW t \in Seq(Char)
  PROVE  /\ Read(t) = clip(UnixLines(t))
         /\ Read(t) \in Seq(Char)
         /\ Len(Read(t)) <= MaxOutput
<1> DEFINE s == UnixLines(t)
           P == {Len(s), MaxOutput}
           m == Min(P)
<1>1. s \in Seq(Char) /\ Len(s) \in Nat
    BY UnixText
<1>2. P = {MaxOutput, Len(s)}
    OBVIOUS
<1>3. P \in SUBSET Nat /\ P # {} /\ Len(s) \in P /\ MaxOutput \in P
    BY <1>1, LengthAssumption
<1>4. IsFiniteSet({Len(s)})
    BY FS_Singleton
<1>5. IsFiniteSet({Len(s)} \union {MaxOutput})
    BY <1>4, FS_AddElement
<1>6. P = {Len(s)} \union {MaxOutput}
    OBVIOUS
<1>7. IsFiniteSet(P)
    BY <1>5, <1>6
<1>8. Read(t) = SubSeq(s, 1, m) /\ clip(s) = SubSeq(s, 1, m)
    BY <1>2 DEF Read, clip
<1> HIDE DEF s, P
<1>9. m \in Nat /\ m <= Len(s) /\ m <= MaxOutput
    BY <1>3, <1>7, Minimum
<1> HIDE DEF m
<1>10. /\ SubSeq(s, 1, m) \in Seq(Char)
       /\ Len(SubSeq(s, 1, m)) = m
  <2>1. 1 \in 1..Len(s) + 1 /\ m \in 0..Len(s) /\ m - 1 + 1 = m
      BY <1>1, <1>9
  <2>2. SubSeq(s, 1, m) \in Seq(Char) /\ DOMAIN SubSeq(s, 1, m) = 1..m
      BY <1>1, <2>1, Piece
  <2>3. QED
      BY <1>9, <2>2
<1>11. QED
    BY <1>8, <1>9, <1>10 DEF s

(* A cut that takes nothing but white space takes what Strip drops.        *)
LEMMA FittingCut ==
  ASSUME NEW t \in Seq(Char), Fits(t)
  PROVE  Strip(Read(t)) = Strip(UnixLines(t))
<1> DEFINE s == UnixLines(t)
           P == {MaxOutput, Len(s)}
           n == Min(P)
           r == SubSeq(s, 1, n)
<1>1. s \in Seq(Char) /\ Len(s) \in Nat
    BY UnixText
<1>2. P \in SUBSET Nat /\ P # {} /\ IsFiniteSet(P)
  <2>1. IsFiniteSet({Len(s)} \union {MaxOutput})
      BY FS_Singleton, FS_AddElement
  <2>2. P = {Len(s)} \union {MaxOutput}
      OBVIOUS
  <2>3. QED
      BY <1>1, <2>1, <2>2, LengthAssumption
<1>3. n \in 0..Len(s) /\ n \in {MaxOutput, Len(s)}
  <2>1. n \in P /\ \A j \in P : n <= j
      BY <1>2, Minimum
  <2>2. n \in Nat /\ n <= Len(s)
      BY <1>2, <2>1
  <2>3. QED
      BY <1>1, <2>1, <2>2
<1>4. Read(t) = r
    BY DEF Read
<1>5. \A i \in n + 1..Len(s) : s[i] \in White
    BY <1>1, <1>3 DEF Fits
<1> HIDE DEF s, n
<1>6. /\ r \in Seq(Char) /\ DOMAIN r = 1..n /\ Len(r) = n
      /\ \A i \in 1..n : r[i] = s[i]
  <2>1. 1 \in 1..Len(s) + 1
      BY <1>1
  <2>2. /\ r \in Seq(Char) /\ DOMAIN r = 1..n - 1 + 1
        /\ \A c \in 1..n - 1 + 1 : r[c] = s[1 + c - 1]
      BY <1>1, <1>3, <2>1, Piece
  <2>3. QED
      BY <1>1, <1>3, <2>2
<1> HIDE DEF r
<1>7. PICK k \in 0..Len(s) :
            /\ DropTail(s, White) = SubSeq(s, 1, k)
            /\ k = 0 \/ s[k] \notin White
            /\ \A i \in k + 1..Len(s) : s[i] \in White
    BY <1>1, TailDropped
<1>8. PICK m \in 0..n :
            /\ DropTail(r, White) = SubSeq(r, 1, m)
            /\ m = 0 \/ r[m] \notin White
            /\ \A i \in m + 1..n : r[i] \in White
    BY <1>6, TailDropped
<1>9. k = m
  <2>1. ~(m < k)
    <3>1. ASSUME m < k PROVE FALSE
      <4>1. k \in m + 1..Len(s) /\ s[k] \notin White
          BY <1>1, <1>3, <1>7, <3>1
      <4>2. CASE k <= n
        <5>1. k \in m + 1..n /\ k \in 1..n
            BY <1>1, <1>3, <3>1, <4>1, <4>2
        <5>2. QED
            BY <1>6, <1>8, <4>1, <5>1
      <4>3. CASE k > n
          BY <1>1, <1>3, <1>5, <4>1, <4>3
      <4>4. QED
          BY <1>1, <1>3, <4>2, <4>3
    <3>2. QED
        BY <3>1
  <2>2. ~(k < m)
    <3>1. ASSUME k < m PROVE FALSE
      <4>1. m \in k + 1..Len(s) /\ m \in 1..n /\ r[m] \notin White
          BY <1>1, <1>3, <1>8, <3>1
      <4>2. QED
          BY <1>6, <1>7, <4>1
    <3>2. QED
        BY <3>1
  <2>3. QED
      BY <1>1, <1>3, <2>1, <2>2
<1>10. SubSeq(r, 1, m) = SubSeq(s, 1, m)
  <2>1. 1 \in 1..Len(r) + 1 /\ 1 \in 1..Len(s) + 1 /\ m \in 0..Len(s) /\ m \in 0..Len(r)
      BY <1>1, <1>3, <1>6
  <2>2. /\ SubSeq(r, 1, m) \in Seq(Char) /\ DOMAIN SubSeq(r, 1, m) = 1..m - 1 + 1
        /\ \A c \in 1..m - 1 + 1 : SubSeq(r, 1, m)[c] = r[1 + c - 1]
      BY <1>6, <2>1, Piece
  <2>3. /\ SubSeq(s, 1, m) \in Seq(Char) /\ DOMAIN SubSeq(s, 1, m) = 1..m - 1 + 1
        /\ \A c \in 1..m - 1 + 1 : SubSeq(s, 1, m)[c] = s[1 + c - 1]
      BY <1>1, <2>1, Piece
  <2>4. \A c \in 1..m - 1 + 1 : r[1 + c - 1] = s[1 + c - 1]
      BY <1>1, <1>3, <1>6
  <2>5. QED
      BY <2>2, <2>3, <2>4
<1>11. QED
    BY <1>4, <1>7, <1>8, <1>9, <1>10 DEF Strip, s

(* What each column holds once it is written, and what the verdict says.   *)
TextInv ==
    /\ TextsTyped
    /\ step # "enter" => expected = Strip(entered)
    /\ step \in {"compare", "passed", "rejected"} => stdout = Strip(Read(printed))
    /\ step = "passed" => normalize_output(stdout) = normalize_output(expected)
    /\ step = "rejected" => normalize_output(stdout) # normalize_output(expected)

(* Before the form is posted nothing else has been written.                *)
LEMMA TextInitial == TextInit => TextInv
<1> SUFFICES ASSUME TextInit PROVE TextInv
    OBVIOUS
<1>1. <<>> \in Seq(Char) /\ Len(<<>>) <= MaxEntered /\ Len(<<>>) <= MaxOutput
    BY LengthAssumption
<1>2. <<>> \in Texts(MaxEntered) /\ <<>> \in Texts(MaxOutput)
    BY <1>1, LengthAssumption, TextsAreSeqs
<1>3. QED
    BY <1>2 DEF TextInit, TextInv, TextsTyped

(* The form, the run and the comparison, one after the other.              *)
LEMMA TextPreserved == TextInv /\ [TextNext]_textVars => TextInv'
<1> SUFFICES ASSUME TextInv, [TextNext]_textVars PROVE TextInv'
    OBVIOUS
<1> USE DEF TextInv, TextsTyped
<1>1. CASE Enter
  <2>1. Strip(entered) \in Texts(MaxEntered)
    <3>1. entered \in Seq(Char) /\ Len(entered) <= MaxEntered
        BY LengthAssumption, TextsAreSeqs
    <3>2. Strip(entered) \in Seq(Char) /\ Len(Strip(entered)) <= MaxEntered
        BY <3>1, StripText, LengthAssumption
    <3>3. QED
        BY <3>2, LengthAssumption, TextsAreSeqs
  <2>2. QED
      BY <1>1, <2>1 DEF Enter
<1>2. CASE Run
  <2>1. printed \in Seq(Char)
      BY LengthAssumption, TextsAreSeqs
  <2>2. stdout' = Strip(Read(printed))
      BY <1>2, <2>1, ReadIsClipped DEF Run
  <2>3. Strip(Read(printed)) \in Texts(MaxOutput)
    <3>1. Read(printed) \in Seq(Char) /\ Len(Read(printed)) <= MaxOutput
        BY <2>1, ReadIsClipped
    <3>2. Strip(Read(printed)) \in Seq(Char) /\ Len(Strip(Read(printed))) <= MaxOutput
        BY <3>1, StripText, LengthAssumption
    <3>3. QED
        BY <3>2, LengthAssumption, TextsAreSeqs
  <2>4. QED
      BY <1>2, <2>2, <2>3 DEF Run
<1>3. CASE Compare
    BY <1>3 DEF Compare
<1>4. CASE UNCHANGED textVars
    BY <1>4 DEF textVars
<1>5. QED
    BY <1>1, <1>2, <1>3, <1>4 DEF TextNext

(* TextInv holds in every reachable state.                                 *)
LEMMA TextInvariance == TextSpec => []TextInv
BY TextInitial, TextPreserved, PTL DEF TextSpec

(* A verdict tells whether the two texts have the same body.               *)
LEMMA VerdictOfBodies ==
  ASSUME TextInv, step \in {"compare", "passed", "rejected"}
  PROVE  normalize_output(stdout) = normalize_output(expected)
            <=> Body(Read(printed)) = Body(entered)
<1>1. printed \in Seq(Char) /\ entered \in Seq(Char)
    BY LengthAssumption, TextsAreSeqs DEF TextInv, TextsTyped
<1>2. Read(printed) \in Seq(Char)
    BY <1>1, ReadIsClipped
<1>3. stdout = Strip(Read(printed)) /\ expected = Strip(entered)
    BY DEF TextInv
<1>4. stdout \in Seq(Char) /\ expected \in Seq(Char)
    BY <1>1, <1>2, <1>3, StripText
<1>5. Content(stdout) = Body(Read(printed)) /\ Content(expected) = Body(entered)
    BY <1>1, <1>2, <1>3, StripKeepsBody
<1>6. QED
    BY <1>4, <1>5, EqualWhenSameContent

(* The columns hold texts no longer than the form, the program and the     *)
(* cut allow.                                                              *)
THEOREM TextsCorrect == TextSpec => []TextsTyped
<1>1. TextInv => TextsTyped
    BY DEF TextInv
<1>2. QED
    BY <1>1, TextInvariance, PTL

(* An output with the body of what the author entered, whatever its line   *)
(* ends and the white space around it, is not rejected when nothing that   *)
(* is visible of it lies beyond the cut.                                   *)
THEOREM ExactPasses == TextSpec => []ExactOutputPasses
<1>1. TextInv => ExactOutputPasses
  <2> SUFFICES ASSUME TextInv, step = "rejected", Fits(printed)
               PROVE  Body(UnixLines(printed)) # Body(entered)
      BY DEF ExactOutputPasses
  <2>1. printed \in Seq(Char)
      BY LengthAssumption, TextsAreSeqs DEF TextInv, TextsTyped
  <2>2. Read(printed) \in Seq(Char) /\ UnixLines(printed) \in Seq(Char)
      BY <2>1, ReadIsClipped, UnixText
  <2>3. Body(Read(printed)) = Body(UnixLines(printed))
      BY <2>1, <2>2, FittingCut, StripKeepsBody
  <2>4. Body(Read(printed)) # Body(entered)
      BY VerdictOfBodies DEF TextInv
  <2>5. QED
      BY <2>3, <2>4
<1>2. QED
    BY <1>1, TextInvariance, PTL

(* And one that differs in a line, a column or an inner blank of what was  *)
(* read never passes.                                                      *)
THEOREM OnlySamePasses == TextSpec => []PassedMeansSameBody
<1>1. TextInv => PassedMeansSameBody
    BY VerdictOfBodies DEF TextInv, PassedMeansSameBody
<1>2. QED
    BY <1>1, TextInvariance, PTL

=============================================================================
