--------------------------- MODULE TaskTableProofs ---------------------------
(***************************************************************************)
(* Proofs, for any finite set of tasks, that the table of the project      *)
(* reader shows every task once, is never indexed past its end, and which  *)
(* of its rows open the task that they show.                               *)
(***************************************************************************)
EXTENDS TaskTable, SequenceTheorems, FiniteSetTheorems, FunctionTheorems, TLAPS

\* The loader stays while a task is being added.
CoverInv == added # {} => covered

\* A row of the table holds the task that the list has there by now, marked or not: only
\* a failed addition shortens the list behind the table, and its loader stays until the
\* table is reloaded.
RowsInv ==
    added # {} \/ ~ covered =>
        /\ Len(table) <= Len(taskList)
        /\ \A k \in 1 .. Len(table) : table[k].taskID = taskList[k].taskID

IInv == TypeOK /\ CoverInv /\ RowsInv

-----------------------------------------------------------------------------
(***************************************************************************)
(* What the filter returns.                                                *)
(***************************************************************************)

\* The ranks of the positions of K are 1, 2, ... and Position inverts them.
LEMMA PositionFacts ==
    ASSUME NEW L \in Nat, NEW K \in SUBSET (1 .. L)
    PROVE  /\ Cardinality(K) \in 0 .. L
           /\ \A k \in K : Rank(K, k) \in 1 .. Cardinality(K) /\ Position(K, Rank(K, k)) = k
           /\ \A n \in 1 .. Cardinality(K) : Position(K, n) \in K /\ Rank(K, Position(K, n)) = n
<1> DEFINE C == Cardinality(K)
           R == [k \in K |-> Rank(K, k)]
<1>1. IsFiniteSet(1 .. L) /\ Cardinality(1 .. L) = L
  BY FS_Interval
<1>2. IsFiniteSet(K) /\ C \in 0 .. L
  <2>1. IsFiniteSet(K) /\ Cardinality(K) <= L
    BY <1>1, FS_Subset
  <2>2. Cardinality(K) \in Nat
    BY <2>1, FS_CardinalityType
  <2> QED
    BY <2>1, <2>2
<1>3. \A k \in K : /\ IsFiniteSet({j \in K : j <= k})
                   /\ Rank(K, k) \in 1 .. C
  <2> SUFFICES ASSUME NEW k \in K
               PROVE  IsFiniteSet({j \in K : j <= k}) /\ Rank(K, k) \in 1 .. C
    OBVIOUS
  <2> DEFINE D == {j \in K : j <= k}
  <2>1. D \in SUBSET K /\ k \in D
    OBVIOUS
  <2> HIDE DEF D
  <2>2. IsFiniteSet(D) /\ Cardinality(D) <= C /\ Cardinality(D) \in Nat
    BY <1>2, <2>1, FS_Subset, FS_CardinalityType
  <2>3. Cardinality(D) # 0
    BY <2>1, <2>2, FS_EmptySet
  <2>4. Rank(K, k) = Cardinality(D)
    BY DEF Rank, D
  <2>5. Rank(K, k) \in 1 .. C
    BY <1>2, <2>2, <2>3, <2>4
  <2> QED
    BY <2>2, <2>5 DEF D
<1>4. ASSUME NEW k \in K, NEW m \in K, k < m PROVE Rank(K, k) # Rank(K, m)
  <2> DEFINE D == {j \in K : j <= k}
             E == {j \in K : j <= m}
  <2>0. k \in Nat /\ m \in Nat /\ \A j \in K : j \in Nat
    OBVIOUS
  <2>1. D \in SUBSET E /\ m \in E /\ m \notin D
    <3>1. m <= m /\ ~ (m <= k) /\ \A j \in K : j <= k => j <= m
      BY <1>4, <2>0
    <3> QED
      BY <3>1
  <2>2. IsFiniteSet(E)
    BY <1>3, m \in K, Zenon
  <2> HIDE DEF D, E
  <2>3. Cardinality(D) # Cardinality(E)
    BY <2>1, <2>2, FS_Subset
  <2> QED
    BY <2>3 DEF Rank, D, E
<1>5. \A k, m \in K : Rank(K, k) = Rank(K, m) => k = m
  BY <1>4
<1>6. R \in Injection(K, 1 .. C)
  <2>1. R \in [K -> 1 .. C]
    BY <1>3
  <2>2. \A k, m \in K : R[k] = R[m] => k = m
    BY <1>5
  <2> HIDE DEF R, C
  <2> QED
    BY <2>1, <2>2, Fun_IsInj
<1>7. IsFiniteSet(1 .. C) /\ Cardinality(1 .. C) = C
  BY <1>2, FS_Interval
<1>8. R \in Surjection(K, 1 .. C)
  <2> HIDE DEF R
  <2> QED
    BY <1>6, <1>7, FS_Injection
<1>9. \A n \in 1 .. C : \E k \in K : Rank(K, k) = n
  BY <1>8 DEF Surjection
<1>10. \A n \in 1 .. C : Position(K, n) \in K /\ Rank(K, Position(K, n)) = n
  BY <1>9 DEF Position
<1>11. \A k \in K : Position(K, Rank(K, k)) = k
  BY <1>3, <1>5, <1>10
<1> QED
  BY <1>2, <1>3, <1>10, <1>11

\* A filter returns elements of the list that pass, each position once, and all of them.
LEMMA FilterFacts ==
    ASSUME NEW A, NEW list \in Seq(A), NEW S
    PROVE  LET K == Kept(list, S)
               F == Filter(list, S)
           IN  /\ F \in Seq(A) /\ Len(F) <= Len(list) /\ Len(F) = Cardinality(K)
               /\ \A n \in 1 .. Len(F) : /\ Position(K, n) \in DOMAIN list
                                         /\ F[n] = list[Position(K, n)] /\ F[n] \in S
               /\ \A m, n \in 1 .. Len(F) : Position(K, m) = Position(K, n) => m = n
               /\ \A k \in DOMAIN list : list[k] \in S =>
                      \E n \in 1 .. Len(F) : Position(K, n) = k
<1> DEFINE K == Kept(list, S)
           C == Cardinality(K)
           F == Filter(list, S)
<1>1. Len(list) \in Nat /\ DOMAIN list = 1 .. Len(list) /\ \A k \in DOMAIN list : list[k] \in A
  BY LenProperties, ElementOfSeq
<1>2. K \in SUBSET (1 .. Len(list)) /\ \A k \in DOMAIN list : k \in K <=> list[k] \in S
  BY <1>1 DEF Kept
<1>3. F = [n \in 1 .. C |-> list[Position(K, n)]]
  BY DEF Filter
<1> HIDE DEF K, F
<1>4. /\ C \in 0 .. Len(list)
      /\ \A k \in K : Rank(K, k) \in 1 .. C /\ Position(K, Rank(K, k)) = k
      /\ \A n \in 1 .. C : Position(K, n) \in K /\ Rank(K, Position(K, n)) = n
  BY <1>1, <1>2, PositionFacts
<1> HIDE DEF C
<1>5. \A n \in 1 .. C : Position(K, n) \in DOMAIN list /\ list[Position(K, n)] \in A \cap S
  BY <1>1, <1>2, <1>4
<1>6. F \in Seq(A) /\ Len(F) = C
  <2>1. F \in [1 .. C -> A] /\ C \in Nat
    BY <1>3, <1>4, <1>5
  <2> QED
    BY <2>1, SeqDef
<1>7. \A n \in 1 .. C : F[n] = list[Position(K, n)] /\ F[n] \in S
  BY <1>3, <1>5
<1>8. \A m, n \in 1 .. C : Position(K, m) = Position(K, n) => m = n
  BY <1>4
<1>9. \A k \in DOMAIN list : list[k] \in S => \E n \in 1 .. C : Position(K, n) = k
  BY <1>2, <1>4
<1>10. C <= Len(list)
  BY <1>1, <1>4
<1> QED
  BY <1>5, <1>6, <1>7, <1>8, <1>9, <1>10 DEF K, F, C

\* A filter that every element passes returns the list.
LEMMA FilterAll ==
    ASSUME NEW A, NEW list \in Seq(A), NEW S, \A k \in DOMAIN list : list[k] \in S
    PROVE  Filter(list, S) = list
<1> DEFINE K == Kept(list, S)
           F == Filter(list, S)
<1>1. Len(list) \in Nat /\ DOMAIN list = 1 .. Len(list)
  BY LenProperties
<1>2. K = 1 .. Len(list)
  BY <1>1 DEF Kept
<1>3. Cardinality(K) = Len(list)
  BY <1>1, <1>2, FS_Interval
<1>4. /\ F \in Seq(A) /\ Len(F) = Len(list)
      /\ \A n \in 1 .. Len(F) : F[n] = list[Position(K, n)]
  BY <1>3, FilterFacts
<1>5. \A n \in 1 .. Len(list) : Position(K, n) = n
  <2> SUFFICES ASSUME NEW n \in 1 .. Len(list) PROVE Position(K, n) = n
    OBVIOUS
  <2>1. {j \in K : j <= n} = 1 .. n
    BY <1>1, <1>2
  <2>2. Rank(K, n) = n
    <3>1. Cardinality(1 .. n) = n
      BY FS_Interval
    <3>2. Rank(K, n) = Cardinality(1 .. n)
      BY <2>1 DEF Rank
    <3> QED
      BY <3>1, <3>2
  <2>3. Position(K, Rank(K, n)) = n
    <3> HIDE DEF K
    <3> QED
      BY <1>1, <1>2, PositionFacts
  <2> QED
    BY <2>2, <2>3
<1> HIDE DEF F, K
<1>6. F = list
  BY <1>4, <1>5, SeqEqual
<1> QED
  BY <1>6 DEF F

\* What a filter returns stays where it was exactly when all that is before it passes.
LEMMA FilterIndex ==
    ASSUME NEW A, NEW list \in Seq(A), NEW S, NEW n \in 1 .. Len(Filter(list, S))
    PROVE  Position(Kept(list, S), n) = n <=> \A k \in 1 .. n : list[k] \in S
<1> DEFINE K == Kept(list, S)
           D == {j \in K : j <= n}
<1>1. Len(list) \in Nat /\ DOMAIN list = 1 .. Len(list)
  BY LenProperties
<1>2. K \in SUBSET (1 .. Len(list)) /\ \A k \in DOMAIN list : k \in K <=> list[k] \in S
  BY <1>1 DEF Kept
<1>3. Len(Filter(list, S)) = Cardinality(K) /\ Len(Filter(list, S)) <= Len(list)
  BY FilterFacts
<1> HIDE DEF K
<1>4. /\ Cardinality(K) \in Nat
      /\ \A k \in K : Position(K, Rank(K, k)) = k
      /\ \A m \in 1 .. Cardinality(K) : Position(K, m) \in K /\ Rank(K, Position(K, m)) = m
  BY <1>1, <1>2, PositionFacts
<1>5. n \in 1 .. Len(list) /\ n \in 1 .. Cardinality(K) /\ n \in Nat
  BY <1>1, <1>3, <1>4
<1>6. IsFiniteSet(1 .. n) /\ Cardinality(1 .. n) = n
  BY <1>5, FS_Interval
<1>7. Rank(K, n) = Cardinality(D)
  BY DEF Rank
<1>8. D \in SUBSET (1 .. n) /\ \A k \in 1 .. n : k \in D <=> list[k] \in S
  <2>1. \A j \in K : j <= n => j \in 1 .. n
    BY <1>1, <1>2, <1>5
  <2>2. \A k \in 1 .. n : k \in DOMAIN list /\ k <= n
    BY <1>1, <1>5
  <2>3. D \in SUBSET (1 .. n)
    BY <2>1
  <2>4. \A k \in 1 .. n : k \in D <=> list[k] \in S
    BY <1>2, <2>2
  <2> QED
    BY <2>3, <2>4
<1> HIDE DEF D
<1>9. ASSUME Position(K, n) = n PROVE \A k \in 1 .. n : list[k] \in S
  <2>1. Cardinality(D) = Cardinality(1 .. n)
    BY <1>4, <1>5, <1>6, <1>7, <1>9
  <2>2. D = 1 .. n
    BY <1>6, <1>8, <2>1, FS_Subset
  <2> QED
    BY <1>8, <2>2
<1>10. ASSUME \A k \in 1 .. n : list[k] \in S PROVE Position(K, n) = n
  <2>1. D = 1 .. n
    BY <1>8, <1>10
  <2>2. Rank(K, n) = n
    BY <1>6, <1>7, <2>1
  <2>3. n \in K
    BY <1>1, <1>2, <1>5, <1>10
  <2> QED
    BY <1>4, <2>2, <2>3
<1> QED
  BY <1>9, <1>10 DEF K

-----------------------------------------------------------------------------
(***************************************************************************)
(* The lists of the table.                                                 *)
(***************************************************************************)

Open == {task \in TaskObjects : ~ task.isValidate}
Done == {task \in TaskObjects : task.isValidate}

\* A list of the table is a sequence of tasks, none of them twice.
LEMMA ListFacts ==
    ASSUME NEW list
    PROVE  list \in Lists <=> /\ list \in Seq(TaskObjects) /\ Len(list) <= Cardinality(Tasks)
                             /\ \A j, k \in DOMAIN list :
                                    list[j].taskID = list[k].taskID => j = k
<1>1. Cardinality(Tasks) \in Nat
  BY TasksAssumption, FS_CardinalityType
<1>2. list \in UNION {[1..n -> TaskObjects] : n \in 0..Cardinality(Tasks)}
          <=> list \in Seq(TaskObjects) /\ Len(list) <= Cardinality(Tasks)
  <2>1. ASSUME NEW n \in 0..Cardinality(Tasks), list \in [1..n -> TaskObjects]
        PROVE  list \in Seq(TaskObjects) /\ Len(list) <= Cardinality(Tasks)
    <3>1. n \in Nat /\ n <= Cardinality(Tasks)
      BY <1>1
    <3>2. list \in Seq(TaskObjects)
      BY <2>1, <3>1, SeqDef
    <3>3. Len(list) = n
      BY <2>1, <3>1, <3>2, LenProperties
    <3> QED
      BY <3>1, <3>2, <3>3
  <2>2. ASSUME list \in Seq(TaskObjects), Len(list) <= Cardinality(Tasks)
        PROVE  \E n \in 0..Cardinality(Tasks) : list \in [1..n -> TaskObjects]
    <3>1. Len(list) \in 0..Cardinality(Tasks) /\ list \in [1..Len(list) -> TaskObjects]
      BY <1>1, <2>2, LenProperties
    <3> QED
      BY <3>1
  <2> QED
    BY <2>1, <2>2
<1> QED
  BY <1>2 DEF Lists

\* The filters of the data source split the list: nothing is lost, an open task is not
\* done, and a list of one kind is its own section.
LEMMA SplitFacts ==
    ASSUME NEW list \in Lists
    PROVE  /\ list \in Seq(TaskObjects)
           /\ ValidateTasks(list) \in Seq(TaskObjects) /\ UnValidateTasks(list) \in Seq(TaskObjects)
           /\ Len(ValidateTasks(list)) <= Len(list) /\ Len(UnValidateTasks(list)) <= Len(list)
           /\ \A n \in 1 .. Len(ValidateTasks(list)) : ValidateTasks(list)[n].isValidate
           /\ \A n \in 1 .. Len(UnValidateTasks(list)) : ~ UnValidateTasks(list)[n].isValidate
           /\ list # <<>> => ValidateTasks(list) # <<>> \/ UnValidateTasks(list) # <<>>
           /\ ValidateTasks(list) = <<>> => UnValidateTasks(list) = list
           /\ UnValidateTasks(list) = <<>> => ValidateTasks(list) = list
<1>1. list \in Seq(TaskObjects)
  BY ListFacts
<1>2. ValidateTasks(list) = Filter(list, Done) /\ UnValidateTasks(list) = Filter(list, Open)
  BY DEF ValidateTasks, UnValidateTasks, Open, Done
<1>3. /\ Filter(list, Done) \in Seq(TaskObjects) /\ Len(Filter(list, Done)) <= Len(list)
      /\ \A n \in 1 .. Len(Filter(list, Done)) : Filter(list, Done)[n] \in Done
      /\ \A k \in DOMAIN list : list[k] \in Done => \E n \in 1 .. Len(Filter(list, Done)) : TRUE
  BY <1>1, FilterFacts
<1>4. /\ Filter(list, Open) \in Seq(TaskObjects) /\ Len(Filter(list, Open)) <= Len(list)
      /\ \A n \in 1 .. Len(Filter(list, Open)) : Filter(list, Open)[n] \in Open
      /\ \A k \in DOMAIN list : list[k] \in Open => \E n \in 1 .. Len(Filter(list, Open)) : TRUE
  BY <1>1, FilterFacts
<1>5. /\ Len(list) \in Nat /\ DOMAIN list = 1 .. Len(list)
      /\ \A k \in DOMAIN list : list[k] \in TaskObjects
  BY <1>1, LenProperties, ElementOfSeq
<1>6. \A k \in DOMAIN list : list[k] \in Open \/ list[k] \in Done
  BY <1>5 DEF Open, Done
<1>7. /\ Filter(list, Done) = <<>> => \A k \in DOMAIN list : list[k] \in Open
      /\ Filter(list, Open) = <<>> => \A k \in DOMAIN list : list[k] \in Done
  <2>1. 1 .. Len(<<>>) = {}
    OBVIOUS
  <2> QED
    BY <1>3, <1>4, <1>6, <2>1
<1>8. /\ Filter(list, Done) = <<>> => Filter(list, Open) = list
      /\ Filter(list, Open) = <<>> => Filter(list, Done) = list
  BY <1>1, <1>7, FilterAll
<1>9. /\ \A n \in 1 .. Len(Filter(list, Done)) : Filter(list, Done)[n].isValidate
      /\ \A n \in 1 .. Len(Filter(list, Open)) : ~ Filter(list, Open)[n].isValidate
  BY <1>3, <1>4 DEF Open, Done
<1> QED
  BY <1>1, <1>2, <1>3, <1>4, <1>8, <1>9

\* The rows of a section come from the same filter as its cells, and are at most the
\* tasks of the list.
LEMMA PathFacts ==
    ASSUME NEW list \in Lists, NEW path \in Paths(list)
    PROVE  /\ path[1] \in {0, 1} /\ path[2] \in Nat /\ path[2] < Len(list)
           /\ path[2] + 1 \in 1 .. NumberOfRowsInSection(list, path[1])
           /\ CellForRowAt(list, path[1], path[2]) \in TaskObjects
<1> DEFINE V == ValidateTasks(list)
           U == UnValidateTasks(list)
<1>1. /\ path[1] \in {0, 1} /\ path[2] \in Nat
      /\ path[2] < NumberOfRowsInSection(list, path[1])
  BY DEF Paths
<1>2. /\ list \in Seq(TaskObjects) /\ V \in Seq(TaskObjects) /\ U \in Seq(TaskObjects)
      /\ Len(V) <= Len(list) /\ Len(U) <= Len(list)
  BY SplitFacts
<1> HIDE DEF V, U
<1>3. Len(V) \in Nat /\ Len(U) \in Nat /\ Len(list) \in Nat
  BY <1>2, LenProperties
<1>4. \/ /\ NumberOfRowsInSection(list, path[1]) = Len(V)
         /\ CellForRowAt(list, path[1], path[2]) = V[path[2] + 1]
      \/ /\ NumberOfRowsInSection(list, path[1]) = Len(U)
         /\ CellForRowAt(list, path[1], path[2]) = U[path[2] + 1]
  BY <1>1 DEF NumberOfRowsInSection, CellForRowAt, U, V
<1>5. /\ path[2] < Len(list)
      /\ path[2] + 1 \in 1 .. NumberOfRowsInSection(list, path[1])
  BY <1>1, <1>2, <1>3, <1>4
<1>6. CellForRowAt(list, path[1], path[2]) \in TaskObjects
  BY <1>2, <1>4, <1>5, ElementOfSeq
<1> QED
  BY <1>1, <1>5, <1>6

\* A cell is a task of the list, at its own row exactly when no task of the other
\* section is before it.
LEMMA CellFacts ==
    ASSUME NEW list \in Lists, NEW path \in Paths(list)
    PROVE  LET cell == CellForRowAt(list, path[1], path[2])
           IN  list[path[2] + 1].taskID = cell.taskID
                   <=> \A k \in 1 .. (path[2] + 1) : list[k].isValidate = cell.isValidate
<1> DEFINE cell == CellForRowAt(list, path[1], path[2])
           n == path[2] + 1
<1>1. /\ path[1] \in {0, 1} /\ path[2] \in Nat /\ path[2] < Len(list)
      /\ n \in 1 .. NumberOfRowsInSection(list, path[1])
  BY PathFacts
<1>2. /\ list \in Seq(TaskObjects)
      /\ \A j, k \in DOMAIN list : list[j].taskID = list[k].taskID => j = k
  BY ListFacts
<1>3. /\ Len(list) \in Nat /\ DOMAIN list = 1 .. Len(list)
      /\ \A k \in DOMAIN list : list[k] \in TaskObjects
  BY <1>2, LenProperties, ElementOfSeq
<1>4. n \in DOMAIN list /\ 1 .. n \in SUBSET DOMAIN list
  BY <1>1, <1>3
<1>5. PICK S \in {Done, Open} : n \in 1 .. Len(Filter(list, S)) /\ cell = Filter(list, S)[n]
  <2>1. ValidateTasks(list) = Filter(list, Done) /\ UnValidateTasks(list) = Filter(list, Open)
    BY DEF ValidateTasks, UnValidateTasks, Open, Done
  <2>2. \/ /\ NumberOfRowsInSection(list, path[1]) = Len(Filter(list, Done))
           /\ cell = Filter(list, Done)[n]
        \/ /\ NumberOfRowsInSection(list, path[1]) = Len(Filter(list, Open))
           /\ cell = Filter(list, Open)[n]
    BY <1>1, <2>1 DEF NumberOfRowsInSection, CellForRowAt
  <2> QED
    BY <1>1, <2>2
<1> DEFINE at == Position(Kept(list, S), n)
<1> HIDE DEF cell, n
<1>6. at \in DOMAIN list /\ cell = list[at] /\ cell \in S
  BY <1>2, <1>5, FilterFacts
<1>7. at = n <=> \A k \in 1 .. n : list[k] \in S
  BY <1>2, <1>5, FilterIndex
<1> HIDE DEF at
<1>8. list[n].taskID = cell.taskID <=> at = n
  BY <1>2, <1>4, <1>6
<1>9. \A k \in 1 .. n : list[k] \in S <=> list[k].isValidate = cell.isValidate
  <2> SUFFICES ASSUME NEW k \in 1 .. n
               PROVE  list[k] \in S <=> list[k].isValidate = cell.isValidate
    OBVIOUS
  <2>1. list[k] \in TaskObjects /\ list[k].isValidate \in BOOLEAN
    BY <1>3, <1>4 DEF TaskObjects
  <2>2. CASE S = Done
    <3>1. (list[k] \in Done <=> list[k].isValidate) /\ cell.isValidate
      BY <1>6, <2>1, <2>2 DEF Done
    <3>2. cell.isValidate \in BOOLEAN
      BY <1>3, <1>6 DEF TaskObjects
    <3> QED
      BY <2>1, <2>2, <3>1, <3>2
  <2>3. CASE S = Open
    <3>1. (list[k] \in Open <=> ~ list[k].isValidate) /\ ~ cell.isValidate
      BY <1>6, <2>1, <2>3 DEF Open
    <3>2. cell.isValidate \in BOOLEAN
      BY <1>3, <1>6 DEF TaskObjects
    <3> QED
      BY <2>1, <2>3, <3>1, <3>2
  <2> QED
    BY <1>5, <2>2, <2>3
<1>10. list[n].taskID = cell.taskID <=> \A k \in 1 .. n : list[k].isValidate = cell.isValidate
  BY <1>7, <1>8, <1>9
<1> QED
  BY <1>10 DEF cell, n

-----------------------------------------------------------------------------
(***************************************************************************)
(* What the handlers do to a list.                                         *)
(***************************************************************************)

\* A list with other marks and the same identifiers is a list of the table.
LEMMA MarksKeep ==
    ASSUME taskList \in Lists, NEW new,
           new = [k \in DOMAIN taskList |-> new[k]],
           \A k \in DOMAIN taskList :
               new[k] \in TaskObjects /\ new[k].taskID = taskList[k].taskID
    PROVE  new \in Lists /\ Len(new) = Len(taskList)
<1>1. taskList \in Seq(TaskObjects) /\ Len(taskList) <= Cardinality(Tasks)
  BY ListFacts
<1>2. Len(taskList) \in Nat /\ DOMAIN taskList = 1 .. Len(taskList)
  BY <1>1, LenProperties
<1>3. DOMAIN new = 1 .. Len(taskList) /\ new \in [1 .. Len(taskList) -> TaskObjects]
  BY <1>2
<1>4. new \in Seq(TaskObjects)
  BY <1>2, <1>3, SeqDef
<1>5. Len(new) = Len(taskList)
  BY <1>2, <1>3, <1>4, LenProperties
<1>6. \A j, k \in DOMAIN new : new[j].taskID = new[k].taskID => j = k
  BY <1>2, <1>3, ListFacts
<1> QED
  BY <1>1, <1>4, <1>5, <1>6, ListFacts

\* Tapping a check mark, and taking it back, change one task and no identifier.
LEMMA ValidateKeeps ==
    ASSUME taskList \in Lists, NEW new,
           \/ \E task : new = ValidateTask(task)
           \/ \E t : new = UnvalidateTask(t)
    PROVE  /\ new \in Lists /\ Len(new) = Len(taskList)
           /\ \A k \in 1 .. Len(taskList) : new[k].taskID = taskList[k].taskID
<1>1. /\ Len(taskList) \in Nat /\ DOMAIN taskList = 1 .. Len(taskList)
      /\ \A k \in DOMAIN taskList : taskList[k] \in TaskObjects
  BY ListFacts, LenProperties, ElementOfSeq
<1>2. new = [k \in DOMAIN taskList |-> new[k]]
  BY DEF ValidateTask, UnvalidateTask
<1>3. \A k \in DOMAIN taskList : \E b \in BOOLEAN :
          new[k] = taskList[k] \/ new[k] = [taskList[k] EXCEPT !.isValidate = b]
  <2>1. CASE \E task : new = ValidateTask(task)
    <3>1. PICK task : new = ValidateTask(task)
      BY <2>1
    <3>2. (~ task.isValidate) \in BOOLEAN
      OBVIOUS
    <3> QED
      BY <3>1, <3>2 DEF ValidateTask
  <2>2. CASE \E t : new = UnvalidateTask(t)
    <3>1. PICK t : new = UnvalidateTask(t)
      BY <2>2
    <3>2. \A k \in DOMAIN taskList : (~ taskList[k].isValidate) \in BOOLEAN
      OBVIOUS
    <3> QED
      BY <3>1, <3>2 DEF UnvalidateTask
  <2> QED
    BY <2>1, <2>2
<1>4. \A k \in DOMAIN taskList :
          new[k] \in TaskObjects /\ new[k].taskID = taskList[k].taskID
  BY <1>1, <1>3 DEF TaskObjects
<1> QED
  BY <1>1, <1>2, <1>4, MarksKeep

\* A task that the list lacks can be added: the list is not full yet.
LEMMA AddKeeps ==
    ASSUME taskList \in Lists, NEW t \in Tasks,
           \A k \in DOMAIN taskList : taskList[k].taskID # t
    PROVE  LET new == Append(taskList, [taskID |-> t, isValidate |-> FALSE])
           IN  /\ new \in Lists /\ Len(new) = Len(taskList) + 1
               /\ \A k \in 1 .. Len(taskList) : new[k] = taskList[k]
<1> DEFINE task == [taskID |-> t, isValidate |-> FALSE]
           new == Append(taskList, task)
           ids == [k \in 1 .. Len(taskList) |-> taskList[k].taskID]
<1>1. /\ taskList \in Seq(TaskObjects) /\ Len(taskList) <= Cardinality(Tasks)
      /\ \A j, k \in DOMAIN taskList : taskList[j].taskID = taskList[k].taskID => j = k
  BY ListFacts
<1>2. /\ Len(taskList) \in Nat /\ DOMAIN taskList = 1 .. Len(taskList)
      /\ \A k \in DOMAIN taskList : taskList[k] \in TaskObjects
  BY <1>1, LenProperties, ElementOfSeq
<1>3. task \in TaskObjects /\ task.taskID = t
  BY DEF TaskObjects
<1>4. Len(taskList) + 1 <= Cardinality(Tasks)
  <2>1. ids \in [1 .. Len(taskList) -> Tasks \ {t}]
    BY <1>2 DEF TaskObjects
  <2>2. \A j, k \in 1 .. Len(taskList) : ids[j] = ids[k] => j = k
    BY <1>1, <1>2
  <2>3. ids \in Injection(1 .. Len(taskList), Tasks \ {t})
    <3> HIDE DEF ids
    <3> QED
      BY <2>1, <2>2, Fun_IsInj
  <2>4. /\ IsFiniteSet(Tasks \ {t}) /\ Cardinality(Tasks \ {t}) = Cardinality(Tasks) - 1
        /\ Cardinality(Tasks) \in Nat
    BY TasksAssumption, FS_RemoveElement, FS_CardinalityType
  <2>5. Cardinality(1 .. Len(taskList)) = Len(taskList)
    <3>1. \A n \in Nat : Cardinality(1 .. n) = n
      BY FS_Interval
    <3> QED
      BY <1>2, <3>1
  <2>6. Cardinality(1 .. Len(taskList)) <= Cardinality(Tasks \ {t})
    <3> HIDE DEF ids
    <3> QED
      BY <2>3, <2>4, FS_Injection
  <2> QED
    BY <1>2, <2>4, <2>5, <2>6
<1> HIDE DEF task
<1>5. /\ new \in Seq(TaskObjects) /\ Len(new) = Len(taskList) + 1
      /\ \A k \in 1 .. Len(taskList) : new[k] = taskList[k]
      /\ new[Len(taskList) + 1] = task
  BY <1>1, <1>3, AppendProperties
<1> HIDE DEF new
<1>6. \A k \in DOMAIN new : k \in DOMAIN taskList \/ k = Len(taskList) + 1
  BY <1>2, <1>5, LenProperties
<1>7. \A j, k \in DOMAIN new : new[j].taskID = new[k].taskID => j = k
  BY <1>1, <1>2, <1>3, <1>5, <1>6
<1>8. new \in Lists
  BY <1>4, <1>5, <1>7, ListFacts
<1> QED
  BY <1>5, <1>8 DEF new, task

\* Removing a task keeps the others once each.
LEMMA RemoveKeeps ==
    ASSUME NEW list \in Lists, NEW t PROVE RemoveTask(list, t) \in Lists
<1> DEFINE S == {task \in TaskObjects : task.taskID # t}
           K == Kept(list, S)
           F == Filter(list, S)
<1>1. /\ list \in Seq(TaskObjects) /\ Len(list) <= Cardinality(Tasks)
      /\ \A j, k \in DOMAIN list : list[j].taskID = list[k].taskID => j = k
  BY ListFacts
<1> HIDE DEF S
<1>2. /\ F \in Seq(TaskObjects) /\ Len(F) <= Len(list)
      /\ \A n \in 1 .. Len(F) : Position(K, n) \in DOMAIN list /\ F[n] = list[Position(K, n)]
      /\ \A m, n \in 1 .. Len(F) : Position(K, m) = Position(K, n) => m = n
  BY <1>1, FilterFacts
<1> HIDE DEF F, K
<1>3. Len(F) \in Nat /\ Len(list) \in Nat /\ DOMAIN F = 1 .. Len(F)
      /\ Cardinality(Tasks) \in Nat
  BY <1>1, <1>2, LenProperties, TasksAssumption, FS_CardinalityType
<1>4. \A j, k \in DOMAIN F : F[j].taskID = F[k].taskID => j = k
  BY <1>1, <1>2, <1>3
<1>5. Len(F) <= Cardinality(Tasks)
  BY <1>1, <1>2, <1>3
<1>6. F \in Lists
  BY <1>2, <1>4, <1>5, ListFacts
<1> QED
  BY <1>6 DEF RemoveTask, F, S

-----------------------------------------------------------------------------
(***************************************************************************)
(* The invariant and the theorems.                                         *)
(***************************************************************************)

\* A row that can be tapped is a row of the list.
LEMMA InRange == IInv => SelectIsInRange
<1> SUFFICES ASSUME IInv, ~ covered, NEW path \in Paths(table) PROVE path[2] < Len(taskList)
  BY DEF SelectIsInRange
<1>1. table \in Lists /\ taskList \in Lists /\ Len(table) <= Len(taskList)
  BY DEF IInv, TypeOK, RowsInv
<1>2. path[2] \in Nat /\ path[2] < Len(table)
  BY <1>1, PathFacts
<1>3. Len(table) \in Nat /\ Len(taskList) \in Nat
  BY <1>1, ListFacts, LenProperties
<1> QED
  BY <1>1, <1>2, <1>3

\* The count of the saves under way stays within its bound.
LEMMA SavingType ==
    ASSUME saving \in [Tasks -> 0..MaxSaves], NEW t \in Tasks
    PROVE  /\ saving[t] < MaxSaves => [saving EXCEPT ![t] = @ + 1] \in [Tasks -> 0..MaxSaves]
           /\ saving[t] > 0 => [saving EXCEPT ![t] = @ - 1] \in [Tasks -> 0..MaxSaves]
<1>1. saving[t] \in 0..MaxSaves /\ MaxSaves \in Nat
  BY SavesAssumption
<1>2. /\ saving[t] < MaxSaves => saving[t] + 1 \in 0..MaxSaves
      /\ saving[t] > 0 => saving[t] - 1 \in 0..MaxSaves
  BY <1>1
<1> QED
  BY <1>2

\* Every step keeps the invariant.
LEMMA Inductive == IInv /\ [Next]_vars => IInv'
<1> SUFFICES ASSUME IInv, [Next]_vars PROVE IInv'
  OBVIOUS
<1>0. /\ taskList \in Lists /\ table \in Lists /\ covered \in BOOLEAN
      /\ added \subseteq Tasks /\ opened \subseteq TaskObjects
      /\ saving \in [Tasks -> 0..MaxSaves]
  BY DEF IInv, TypeOK
<1>00. Len(taskList) \in Nat /\ Len(table) \in Nat
  BY <1>0, ListFacts, LenProperties
<1>000. ASSUME taskList' \in Lists, Len(taskList') = Len(taskList),
               \A k \in 1 .. Len(taskList) : taskList'[k].taskID = taskList[k].taskID,
               UNCHANGED <<table, covered, added>>
        PROVE  RowsInv'
  BY <1>00, <1>000 DEF IInv, RowsInv
<1>1. CASE Select
  <2>1. PICK path \in Paths(table) : opened' = {taskList[path[2] + 1]}
    BY <1>1 DEF Select, DidSelectRowAt
  <2>2. path[2] \in Nat /\ path[2] < Len(taskList)
    BY <1>0, <1>1, InRange, PathFacts DEF SelectIsInRange, Select
  <2>3. taskList[path[2] + 1] \in TaskObjects
    <3>1. taskList \in Seq(TaskObjects) /\ path[2] + 1 \in 1 .. Len(taskList)
      BY <1>0, <1>00, <2>2, ListFacts
    <3> QED
      BY <3>1, ElementOfSeq
  <2>4. UNCHANGED <<taskList, table, covered, added, saving>>
    BY <1>1 DEF Select
  <2> QED
    BY <1>0, <2>1, <2>3, <2>4 DEF IInv, TypeOK, CoverInv, RowsInv
<1>2. CASE TapCheckMark
  <2>1. PICK path \in Paths(table) :
            LET cell == CellForRowAt(table, path[1], path[2]) IN
            /\ saving[cell.taskID] < MaxSaves
            /\ taskList' = ValidateTask(cell)
            /\ saving' = [saving EXCEPT ![cell.taskID] = @ + 1]
    BY <1>2 DEF TapCheckMark
  <2>2. CellForRowAt(table, path[1], path[2]).taskID \in Tasks
    BY <1>0, PathFacts DEF TaskObjects
  <2>3. /\ taskList' \in Lists /\ Len(taskList') = Len(taskList)
        /\ \A k \in 1 .. Len(taskList) : taskList'[k].taskID = taskList[k].taskID
    BY <1>0, <2>1, ValidateKeeps
  <2>4. saving' \in [Tasks -> 0..MaxSaves]
    BY <1>0, <2>1, <2>2, SavingType
  <2>5. UNCHANGED <<table, covered, added, opened>>
    BY <1>2 DEF TapCheckMark
  <2> QED
    BY <1>0, <1>000, <2>3, <2>4, <2>5 DEF IInv, TypeOK, CoverInv
<1>3. CASE SaveStored
  <2>1. saving' \in [Tasks -> 0..MaxSaves]
    BY <1>0, <1>3, SavingType DEF SaveStored
  <2>2. table' = taskList /\ UNCHANGED <<taskList, covered, added, opened>>
    BY <1>3 DEF SaveStored
  <2> QED
    BY <1>0, <1>00, <2>1, <2>2 DEF IInv, TypeOK, CoverInv, RowsInv
<1>4. CASE SaveFailed
  <2>1. /\ taskList' \in Lists /\ Len(taskList') = Len(taskList)
        /\ \A k \in 1 .. Len(taskList) : taskList'[k].taskID = taskList[k].taskID
    BY <1>0, <1>4, ValidateKeeps DEF SaveFailed
  <2>2. saving' \in [Tasks -> 0..MaxSaves]
    BY <1>0, <1>4, SavingType DEF SaveFailed
  <2>3. UNCHANGED <<table, covered, added, opened>>
    BY <1>4 DEF SaveFailed
  <2> QED
    BY <1>0, <1>000, <2>1, <2>2, <2>3 DEF IInv, TypeOK, CoverInv
<1>5. CASE Reload
  BY <1>0, <1>00, <1>5 DEF Reload, IInv, TypeOK, CoverInv, RowsInv
<1>6. CASE AddTask
  <2>1. /\ taskList' \in Lists /\ Len(taskList') = Len(taskList) + 1
        /\ \A k \in 1 .. Len(taskList) : taskList'[k] = taskList[k]
    BY <1>0, <1>6, AddKeeps DEF AddTask
  <2>2. /\ Len(table) <= Len(taskList)
        /\ \A k \in 1 .. Len(table) : table[k].taskID = taskList[k].taskID
        /\ added' \subseteq Tasks /\ covered' = TRUE
        /\ UNCHANGED <<table, saving, opened>>
    BY <1>6 DEF AddTask, IInv, RowsInv
  <2>3. RowsInv'
    BY <1>00, <2>1, <2>2 DEF RowsInv
  <2> QED
    BY <1>0, <2>1, <2>2, <2>3 DEF IInv, TypeOK, CoverInv
<1>7. CASE AddTaskStored
  BY <1>0, <1>7 DEF AddTaskStored, IInv, TypeOK, CoverInv, RowsInv
<1>8. CASE AddTaskFailed
  <2>1. taskList' \in Lists
    BY <1>0, <1>8, RemoveKeeps DEF AddTaskFailed
  <2>2. covered /\ covered' = covered /\ added' = {} /\ UNCHANGED <<table, saving, opened>>
    BY <1>8 DEF AddTaskFailed, IInv, CoverInv
  <2> QED
    BY <1>0, <2>1, <2>2 DEF IInv, TypeOK, CoverInv, RowsInv
<1>9. CASE LoaderGone
  <2>1. /\ table' = taskList /\ taskList' = taskList /\ opened' = opened
        /\ covered' = FALSE /\ added' = {} /\ saving' = saving
    BY <1>9 DEF LoaderGone
  <2>2. TypeOK'
    BY <1>0, <2>1 DEF TypeOK
  <2>3. CoverInv' /\ RowsInv'
    BY <1>00, <2>1 DEF CoverInv, RowsInv
  <2> QED
    BY <2>2, <2>3 DEF IInv
<1>10. CASE Deliver
  <2>1. taskList' \in Lists /\ table' = taskList' /\ UNCHANGED <<covered, added, saving, opened>>
    BY <1>10 DEF Deliver
  <2>2. Len(taskList') \in Nat
    BY <2>1, ListFacts, LenProperties
  <2> QED
    BY <1>0, <2>1, <2>2 DEF IInv, TypeOK, CoverInv, RowsInv
<1>11. CASE UNCHANGED vars
  BY <1>11 DEF vars, IInv, TypeOK, CoverInv, RowsInv
<1> QED
  BY <1>1, <1>2, <1>3, <1>4, <1>5, <1>6, <1>7, <1>8, <1>9, <1>10, <1>11 DEF Next

\* IInv is an invariant of the table.
LEMMA Invariance == Spec => []IInv
<1>1. Init => IInv
  <2> SUFFICES ASSUME Init PROVE IInv
    OBVIOUS
  <2>1. Len(taskList) \in Nat
    BY ListFacts, LenProperties DEF Init
  <2>2. /\ taskList \in Lists /\ table = taskList /\ opened = {}
        /\ covered = FALSE /\ added = {} /\ saving = [t \in Tasks |-> 0]
    BY DEF Init
  <2>3. TypeOK
    <3>1. saving \in [Tasks -> 0..MaxSaves]
      BY <2>2, SavesAssumption
    <3> QED
      BY <2>2, <3>1 DEF TypeOK
  <2>4. CoverInv /\ RowsInv
    BY <2>1, <2>2 DEF CoverInv, RowsInv
  <2> QED
    BY <2>3, <2>4 DEF IInv
<1> QED
  BY <1>1, Inductive, PTL DEF Spec

\* The list never holds a task twice, whatever is tapped, added, taken back or
\* delivered, and what is handed to the editor is a task.
THEOREM TypeCorrect == Spec => []TypeOK
<1>1. IInv => TypeOK
  BY DEF IInv
<1> QED
  BY <1>1, Invariance, PTL

\* didSelectRowAt never indexes past the end of the list, for lists of any length: the
\* table may be older than the list, but while rows can be tapped it is not longer.
THEOREM SelectIsInRangeHolds == Spec => []SelectIsInRange
  BY InRange, Invariance, PTL

\* The cells of a section are the tasks that its filter returns.
LEMMA CellsFacts ==
    ASSUME NEW list \in Lists, NEW section \in {0, 1}
    PROVE  Cells(list, section) =
             IF OnlyDone(list) \/ (~ OnlyOpen(list) /\ section = 1)
             THEN ValidateTasks(list) ELSE UnValidateTasks(list)
<1> DEFINE T == IF OnlyDone(list) \/ (~ OnlyOpen(list) /\ section = 1)
                THEN ValidateTasks(list) ELSE UnValidateTasks(list)
<1>1. T \in Seq(TaskObjects)
  BY SplitFacts
<1>2. NumberOfRowsInSection(list, section) = Len(T)
  BY DEF NumberOfRowsInSection
<1>3. \A row : CellForRowAt(list, section, row) = T[row + 1]
  BY DEF CellForRowAt
<1> HIDE DEF T
<1>4. Len(T) \in Nat /\ T = [k \in 1 .. Len(T) |-> T[k]]
  BY <1>1, LenProperties
<1>5. \A k \in 1 .. Len(T) : CellForRowAt(list, section, k - 1) = T[k]
  <2> SUFFICES ASSUME NEW k \in 1 .. Len(T) PROVE CellForRowAt(list, section, k - 1) = T[k]
    OBVIOUS
  <2>1. (k - 1) + 1 = k
    BY <1>4
  <2> QED
    BY <1>3, <2>1
<1>6. Cells(list, section) = T
  BY <1>2, <1>4, <1>5 DEF Cells
<1> QED
  BY <1>6 DEF T

\* The four methods of the data source agree on every list.
LEMMA DataSource == taskList \in Lists => EveryTaskOnce
<1> SUFFICES ASSUME taskList \in Lists PROVE EveryTaskOnce
  OBVIOUS
<1> DEFINE V == ValidateTasks(taskList)
           U == UnValidateTasks(taskList)
           n == NumberOfSections(taskList)
<1>1. /\ V \in Seq(TaskObjects) /\ U \in Seq(TaskObjects)
      /\ \A k \in 1 .. Len(V) : V[k].isValidate
      /\ \A k \in 1 .. Len(U) : ~ U[k].isValidate
      /\ taskList # <<>> => V # <<>> \/ U # <<>>
      /\ taskList = <<>> => V = <<>> /\ U = <<>>
  <2>1. taskList = <<>> => Len(V) <= 0 /\ Len(U) <= 0
    BY SplitFacts
  <2>2. V \in Seq(TaskObjects) /\ U \in Seq(TaskObjects)
    BY SplitFacts
  <2>3. taskList = <<>> => V = <<>> /\ U = <<>>
    <3> HIDE DEF V, U
    <3> QED
      BY <2>1, <2>2, EmptySeq
  <2> QED
    BY <2>3, SplitFacts
<1>2. Cells(taskList, 0) = IF OnlyDone(taskList) THEN V ELSE U
  BY CellsFacts
<1>3. Cells(taskList, 1) = IF OnlyDone(taskList) \/ ~ OnlyOpen(taskList) THEN V ELSE U
  BY CellsFacts
<1>4. OnlyOpen(taskList) <=> U # <<>> /\ V = <<>>
  BY DEF OnlyOpen
<1>5. OnlyDone(taskList) <=> U = <<>> /\ V # <<>>
  BY DEF OnlyDone
<1>6. Reference(taskList) = U \o V
  BY DEF Reference
<1>7. n = IF taskList = <<>> \/ OnlyOpen(taskList) \/ OnlyDone(taskList) THEN 1 ELSE 2
  BY DEF NumberOfSections
<1>8. \A s \in {0, 1} : NumberOfRowsInSection(taskList, s) =
          IF OnlyDone(taskList) \/ (~ OnlyOpen(taskList) /\ s # 0) THEN Len(V) ELSE Len(U)
  BY DEF NumberOfRowsInSection
<1>9. \A s \in {0, 1}, row \in Nat : CellForRowAt(taskList, s, row) =
          (IF OnlyDone(taskList) \/ (~ OnlyOpen(taskList) /\ s = 1) THEN V ELSE U)[row + 1]
  BY DEF CellForRowAt
<1>10. \A s \in {0, 1} : HeightForHeader(taskList, s) > 0 <=>
           ~ OnlyOpen(taskList) /\ (OnlyDone(taskList) \/ s # 0)
  BY DEF HeightForHeader
<1> HIDE DEF V, U, n
<1>11. Reference(taskList) = Cells(taskList, 0) \o (IF n = 2 THEN Cells(taskList, 1) ELSE <<>>)
  <2>1. U \o <<>> = U /\ <<>> \o V = V /\ V \o <<>> = V /\ <<>> \o <<>> = <<>>
    BY <1>1, ConcatEmptySeq
  <2>2. CASE OnlyOpen(taskList)
    BY <1>2, <1>4, <1>5, <1>6, <1>7, <2>1, <2>2
  <2>3. CASE OnlyDone(taskList)
    BY <1>2, <1>5, <1>6, <1>7, <2>1, <2>3
  <2>4. CASE taskList = <<>>
    BY <1>1, <1>2, <1>5, <1>6, <1>7, <2>1, <2>4
  <2>5. CASE taskList # <<>> /\ ~ OnlyOpen(taskList) /\ ~ OnlyDone(taskList)
    BY <1>2, <1>3, <1>6, <1>7, <2>5
  <2> QED
    BY <2>2, <2>3, <2>4, <2>5
<1>12. taskList # <<>> => \A s \in 0..(n - 1) : NumberOfRowsInSection(taskList, s) > 0
  <2> SUFFICES ASSUME taskList # <<>>, NEW s \in 0..(n - 1)
               PROVE  NumberOfRowsInSection(taskList, s) > 0
    OBVIOUS
  <2>1. s \in {0, 1} /\ (n = 1 => s = 0)
    BY <1>7
  <2>2. (V # <<>> => Len(V) > 0) /\ (U # <<>> => Len(U) > 0)
    BY <1>1, EmptySeq
  <2> QED
    BY <1>1, <1>4, <1>5, <1>7, <1>8, <2>1, <2>2
<1>13. ASSUME NEW path \in Paths(taskList)
       PROVE  HeightForHeader(taskList, path[1]) > 0
                  <=> CellForRowAt(taskList, path[1], path[2]).isValidate
  <2>1. /\ path[1] \in {0, 1} /\ path[2] \in Nat
        /\ path[2] + 1 \in 1 .. NumberOfRowsInSection(taskList, path[1])
    BY PathFacts
  <2> DEFINE done == OnlyDone(taskList) \/ (~ OnlyOpen(taskList) /\ path[1] = 1)
  <2>2. ~ (OnlyOpen(taskList) /\ OnlyDone(taskList))
    BY <1>4, <1>5
  <2>3. HeightForHeader(taskList, path[1]) > 0 <=> done
    BY <1>10, <2>1, <2>2
  <2>4. CASE done
    <3>1. NumberOfRowsInSection(taskList, path[1]) = Len(V)
      BY <1>8, <2>1, <2>4
    <3>2. CellForRowAt(taskList, path[1], path[2]) = V[path[2] + 1]
      BY <1>9, <2>1, <2>4
    <3> QED
      BY <1>1, <2>1, <2>3, <2>4, <3>1, <3>2
  <2>5. CASE ~ done
    <3>1. NumberOfRowsInSection(taskList, path[1]) = Len(U)
      BY <1>8, <2>1, <2>5
    <3>2. CellForRowAt(taskList, path[1], path[2]) = U[path[2] + 1]
      BY <1>9, <2>1, <2>5
    <3> QED
      BY <1>1, <2>1, <2>3, <2>5, <3>1, <3>2
  <2> QED
    BY <2>4, <2>5
<1> QED
  BY <1>11, <1>12, <1>13 DEF EveryTaskOnce, n

\* For lists of any length, the sections show every task once, open ones first, no
\* section is empty, and the header is above the done tasks only: numberOfSections,
\* numberOfRowsInSection, heightForHeader and cellForRowAt agree.
THEOREM EveryTaskOnceHolds == Spec => []EveryTaskOnce
<1>1. IInv => EveryTaskOnce
  BY DataSource DEF IInv, TypeOK
<1> QED
  BY <1>1, Invariance, PTL

\* For lists of any length and any number of saves under way, a row that can be tapped
\* opens the task that it shows exactly when no task of the other section stands before
\* it in the list, although the table may be older than the list that didSelectRowAt
\* indexes.
THEOREM SelectOpensCellHolds == Spec => []SelectOpensCell
<1>1. IInv => SelectOpensCell
  <2> SUFFICES ASSUME IInv, ~ covered, NEW path \in Paths(table)
               PROVE  LET cell == CellForRowAt(table, path[1], path[2]) IN
                      DidSelectRowAt(path[1], path[2]).taskID = cell.taskID
                          <=> \A k \in 1..(path[2] + 1) : table[k].isValidate = cell.isValidate
    BY DEF SelectOpensCell
  <2>1. table \in Lists /\ Len(table) \in Nat
    BY ListFacts, LenProperties DEF IInv, TypeOK
  <2>2. path[2] + 1 \in 1 .. Len(table)
    BY <2>1, PathFacts
  <2>3. DidSelectRowAt(path[1], path[2]).taskID = table[path[2] + 1].taskID
    BY <2>2 DEF IInv, RowsInv, DidSelectRowAt
  <2> QED
    BY <2>1, <2>3, CellFacts
<1> QED
  BY <1>1, Invariance, PTL
=============================================================================
