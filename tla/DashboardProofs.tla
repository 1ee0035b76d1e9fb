--------------------------- MODULE DashboardProofs ---------------------------
(***************************************************************************)
(* Proofs, for any set of projects, any number of overlapping loads and    *)
(* any number of delayed blocks, of the safety properties of Dashboard.    *)
(***************************************************************************)
EXTENDS Dashboard, SequenceTheorems, FiniteSetTheorems, FunctionTheorems, TLAPS

Listed(list) == {list[k].project : k \in DOMAIN list}

Once(list) == \A j, k \in DOMAIN list : list[j].project = list[k].project => j = k

\* A load lists no project twice, and unless a project has changed meanwhile the ones
\* that it has listed and the ones it waits for are the ones that are stored.
LoadOK(L) ==
    /\ Once(L.got)
    /\ Listed(L.got) \cap L.pending = {}
    /\ L.step # "getTasks" => L.got = <<>> /\ L.pending = {}
    /\ L.step = "getTasks" /\ ~ L.stale => L.pending \union Listed(L.got) = stored

LoadInv == \A l \in Loads : LoadOK(load[l])

Success(bs) == \E k \in DOMAIN bs : bs[k] = "success"

\* Lists that are settled are whole, and on the screen once their block has run.
ShownInv ==
    settled /\ screen # "crashed" => Whole(shown) /\ (grid = shown \/ Success(blocks))

IInv == TypeOK /\ LoadInv /\ ShownInv

-----------------------------------------------------------------------------
(***************************************************************************)
(* What the filter returns.                                                *)
(***************************************************************************)

\* The ranks of the positions of K are 1, 2, ... and Position inverts them.
LEMMA PositionFacts ==
    ASSUME NEW L \in Nat, NEW K \in SUBSET (1 .. L)
    PROVE  /\ Cardinality(K) \in 0 .. L
           /\ \A k \in K : Rank(K, k) \in 1 .. Cardinality(K) /\ Position(K, Rank(K, k)) = k
           /\ \A n \in 1 .. Cardinality(K) : Position(K, n) \in K /\ Rank(K, Position(K, n)) = n
<1> DEFINE C == Cardinality(K)
           R == [k \in K |-> Rank(K, k)]
<1>1. IsFiniteSet(1 .. L) /\ Cardinality(1 .. L) = L
  BY FS_Interval
<1>2. IsFiniteSet(K) /\ C \in 0 .. L
  <2>1. IsFiniteSet(K) /\ Cardinality(K) <= L
    BY <1>1, FS_Subset
  <2>2. Cardinality(K) \in Nat
    BY <2>1, FS_CardinalityType
  <2> QED
    BY <2>1, <2>2
<1>3. \A k \in K : /\ IsFiniteSet({j \in K : j <= k})
                   /\ Rank(K, k) \in 1 .. C
  <2> SUFFICES ASSUME NEW k \in K
               PROVE  IsFiniteSet({j \in K : j <= k}) /\ Rank(K, k) \in 1 .. C
    OBVIOUS
  <2> DEFINE D == {j \in K : j <= k}
  <2>1. D \in SUBSET K /\ k \in D
    OBVIOUS
  <2> HIDE DEF D
  <2>2. IsFiniteSet(D) /\ Cardinality(D) <= C /\ Cardinality(D) \in Nat
    BY <1>2, <2>1, FS_Subset, FS_CardinalityType
  <2>3. Cardinality(D) # 0
    BY <2>1, <2>2, FS_EmptySet
  <2>4. Rank(K, k) = Cardinality(D)
    BY DEF Rank, D
  <2>5. Rank(K, k) \in 1 .. C
    BY <1>2, <2>2, <2>3, <2>4
  <2> QED
    BY <2>2, <2>5 DEF D
<1>4. ASSUME NEW k \in K, NEW m \in K, k < m PROVE Rank(K, k) # Rank(K, m)
  <2> DEFINE D == {j \in K : j <= k}
             E == {j \in K : j <= m}
  <2>0. k \in Nat /\ m \in Nat /\ \A j \in K : j \in Nat
    OBVIOUS
  <2>1. D \in SUBSET E /\ m \in E /\ m \notin D
    <3>1. m <= m /\ ~ (m <= k) /\ \A j \in K : j <= k => j <= m
      BY <1>4, <2>0
    <3> QED
      BY <3>1
  <2>2. IsFiniteSet(E)
    BY <1>3, m \in K, Zenon
  <2> HIDE DEF D, E
  <2>3. Cardinality(D) # Cardinality(E)
    BY <2>1, <2>2, FS_Subset
  <2> QED
    BY <2>3 DEF Rank, D, E
<1>5. \A k, m \in K : Rank(K, k) = Rank(K, m) => k = m
  BY <1>4
<1>6. R \in Injection(K, 1 .. C)
  <2>1. R \in [K -> 1 .. C]
    BY <1>3
  <2>2. \A k, m \in K : R[k] = R[m] => k = m
    BY <1>5
  <2> HIDE DEF R, C
  <2> QED
    BY <2>1, <2>2, Fun_IsInj
<1>7. IsFiniteSet(1 .. C) /\ Cardinality(1 .. C) = C
  BY <1>2, FS_Interval
<1>8. R \in Surjection(K, 1 .. C)
  <2> HIDE DEF R
  <2> QED
    BY <1>6, <1>7, FS_Injection
<1>9. \A n \in 1 .. C : \E k \in K : Rank(K, k) = n
  BY <1>8 DEF Surjection
<1>10. \A n \in 1 .. C : Position(K, n) \in K /\ Rank(K, Position(K, n)) = n
  BY <1>9 DEF Position
<1>11. \A k \in K : Position(K, Rank(K, k)) = k
  BY <1>3, <1>5, <1>10
<1> QED
  BY <1>2, <1>3, <1>10, <1>11

\* A filter returns elements of the list that pass, each position once, and all of them.
LEMMA FilterFacts ==
    ASSUME NEW A, NEW list \in Seq(A), NEW S
    PROVE  LET K == Kept(list, S)
               F == Filter(list, S)
           IN  /\ F \in Seq(A) /\ Len(F) <= Len(list) /\ Len(F) = Cardinality(K)
               /\ \A n \in 1 .. Len(F) : /\ Position(K, n) \in DOMAIN list
                                         /\ F[n] = list[Position(K, n)] /\ F[n] \in S
               /\ \A m, n \in 1 .. Len(F) : Position(K, m) = Position(K, n) => m = n
               /\ \A k \in DOMAIN list : list[k] \in S =>
                      \E n \in 1 .. Len(F) : Position(K, n) = k
<1> DEFINE K == Kept(list, S)
           C == Cardinality(K)
           F == Filter(list, S)
<1>1. Len(list) \in Nat /\ DOMAIN list = 1 .. Len(list) /\ \A k \in DOMAIN list : list[k] \in A
  BY LenProperties, ElementOfSeq
<1>2. K \in SUBSET (1 .. Len(list)) /\ \A k \in DOMAIN list : k \in K <=> list[k] \in S
  BY <1>1 DEF Kept
<1>3. F = [n \in 1 .. C |-> list[Position(K, n)]]
  BY DEF Filter
<1> HIDE DEF K, F
<1>4. /\ C \in 0 .. Len(list)
      /\ \A k \in K : Rank(K, k) \in 1 .. C /\ Position(K, Rank(K, k)) = k
      /\ \A n \in 1 .. C : Position(K, n) \in K /\ Rank(K, Position(K, n)) = n
  BY <1>1, <1>2, PositionFacts
<1> HIDE DEF C
<1>5. \A n \in 1 .. C : Position(K, n) \in DOMAIN list /\ list[Position(K, n)] \in A \cap S
  BY <1>1, <1>2, <1>4
<1>6. F \in Seq(A) /\ Len(F) = C
  <2>1. F \in [1 .. C -> A] /\ C \in Nat
    BY <1>3, <1>4, <1>5
  <2> QED
    BY <2>1, SeqDef
<1>7. \A n \in 1 .. C : F[n] = list[Position(K, n)] /\ F[n] \in S
  BY <1>3, <1>5
<1>8. \A m, n \in 1 .. C : Position(K, m) = Position(K, n) => m = n
  BY <1>4
<1>9. \A k \in DOMAIN list : list[k] \in S => \E n \in 1 .. C : Position(K, n) = k
  BY <1>2, <1>4
<1>10. C <= Len(list)
  BY <1>1, <1>4
<1> QED
  BY <1>5, <1>6, <1>7, <1>8, <1>9, <1>10 DEF K, F, C

-----------------------------------------------------------------------------
(***************************************************************************)
(* The two lists, the loads and the blocks.                                *)
(***************************************************************************)

\* Sorting gives two lists of projects.
LEMMA SortType ==
    ASSUME NEW list \in Seq(Entries) PROVE Sort(list) \in [Sections -> Seq(Entries)]
<1>1. \A s \in Sections :
          Filter(list, {e \in Entries : InSection(e.project, s)}) \in Seq(Entries)
  BY FilterFacts
<1> QED
  BY <1>1 DEF Sort

\* Sorting a list of all stored projects puts each of them once into its section.
LEMMA SortWhole ==
    ASSUME NEW list \in Seq(Entries), Once(list), Listed(list) = stored, AllFetched(list)
    PROVE  Whole(Sort(list))
<1> SUFFICES ASSUME NEW s \in Sections
             PROVE  /\ Listed(Sort(list)[s]) = {p \in stored : InSection(p, s)}
                    /\ Once(Sort(list)[s]) /\ AllFetched(Sort(list)[s])
  BY DEF Whole, Listed, Once
<1> DEFINE S == {e \in Entries : InSection(e.project, s)}
           K == Kept(list, S)
           F == Filter(list, S)
<1>1. Sort(list)[s] = F
  BY DEF Sort
<1>2. DOMAIN list = 1 .. Len(list) /\ \A k \in DOMAIN list : list[k] \in Entries
  BY LenProperties, ElementOfSeq
<1>3. \A k \in DOMAIN list : list[k] \in S <=> InSection(list[k].project, s)
  BY <1>2
<1> HIDE DEF S
<1>4. /\ F \in Seq(Entries)
      /\ \A n \in 1 .. Len(F) : /\ Position(K, n) \in DOMAIN list
                                /\ F[n] = list[Position(K, n)] /\ F[n] \in S
      /\ \A m, n \in 1 .. Len(F) : Position(K, m) = Position(K, n) => m = n
      /\ \A k \in DOMAIN list : list[k] \in S => \E n \in 1 .. Len(F) : Position(K, n) = k
  BY FilterFacts
<1> HIDE DEF F, K
<1>5. DOMAIN F = 1 .. Len(F)
  BY <1>4, LenProperties
<1>6. ASSUME NEW p PROVE p \in Listed(F) <=> p \in stored /\ InSection(p, s)
  <2>1. ASSUME p \in Listed(F) PROVE p \in stored /\ InSection(p, s)
    <3>1. PICK n \in DOMAIN F : p = F[n].project
      BY <2>1 DEF Listed
    <3>2. PICK k \in DOMAIN list : F[n] = list[k] /\ list[k] \in S
      BY <1>4, <1>5
    <3> QED
      BY <1>3, <3>1, <3>2 DEF Listed
  <2>2. ASSUME p \in stored, InSection(p, s) PROVE p \in Listed(F)
    <3>1. PICK k \in DOMAIN list : p = list[k].project
      BY <2>2 DEF Listed
    <3>2. list[k] \in S
      BY <1>3, <2>2, <3>1
    <3>3. PICK n \in DOMAIN F : F[n] = list[k]
      BY <1>4, <1>5, <3>2
    <3> QED
      BY <3>1, <3>3 DEF Listed
  <2> QED
    BY <2>1, <2>2
<1>7. Listed(F) = {p \in stored : InSection(p, s)}
  BY <1>6
<1>8. Once(F)
  BY <1>4, <1>5 DEF Once
<1>9. AllFetched(F)
  BY <1>4, <1>5 DEF AllFetched
<1> QED
  BY <1>1, <1>7, <1>8, <1>9

\* A load that has ended, or has just begun, has listed nothing.
LEMMA IdleFacts ==
    /\ Idle \in LoadRecords /\ LoadOK(Idle)
    /\ [Idle EXCEPT !.step = "getUser"] \in LoadRecords
    /\ LoadOK([Idle EXCEPT !.step = "getUser"])
<1>1. <<>> \in Seq(Entries) /\ DOMAIN <<>> = {}
  BY EmptySeq, LenProperties
<1>2. Once(<<>>) /\ Listed(<<>>) = {}
  BY <1>1 DEF Once, Listed
<1>3. Idle \in LoadRecords /\ [Idle EXCEPT !.step = "getUser"] \in LoadRecords
  BY <1>1 DEF Idle, LoadRecords, Steps
<1>4. LoadOK(Idle)
  BY <1>2 DEF LoadOK, Idle
<1>5. LoadOK([Idle EXCEPT !.step = "getUser"])
  BY <1>2 DEF LoadOK, Idle
<1> QED
  BY <1>3, <1>4, <1>5

\* One load goes on: the others keep what they have listed.
LEMMA LoadStep ==
    ASSUME TypeOK, LoadInv, NEW l \in Loads, NEW L \in LoadRecords, LoadOK(L),
           load' = [load EXCEPT ![l] = L], stored' = stored
    PROVE  load' \in [Loads -> LoadRecords] /\ LoadInv'
<1>1. load' \in [Loads -> LoadRecords]
  BY DEF TypeOK
<1>2. \A m \in Loads : LoadOK(load'[m])
  BY DEF TypeOK, LoadInv
<1>3. \A m \in Loads : LoadOK(load[m])'
  BY <1>2 DEF LoadOK
<1> QED
  BY <1>1, <1>3 DEF LoadInv

\* Blocks wait in the order in which they were put into the main queue.
LEMMA LaterFacts ==
    ASSUME TypeOK, NEW bs \in Seq({"success", "failure"}), Later(bs)
    PROVE  /\ blocks' \in Seq({"success", "failure"})
           /\ Success(blocks) \/ Success(bs) => Success(blocks')
<1>1. blocks \in Seq({"success", "failure"}) /\ blocks' = blocks \o bs
  BY DEF TypeOK, Later
<1>2. /\ DOMAIN blocks = 1 .. Len(blocks) /\ DOMAIN bs = 1 .. Len(bs)
      /\ Len(blocks) \in Nat /\ Len(bs) \in Nat
  BY <1>1, LenProperties
<1>3. /\ blocks' \in Seq({"success", "failure"}) /\ Len(blocks') = Len(blocks) + Len(bs)
      /\ \A k \in 1 .. Len(blocks) + Len(bs) :
             blocks'[k] = IF k <= Len(blocks) THEN blocks[k] ELSE bs[k - Len(blocks)]
  BY <1>1, ConcatProperties
<1>4. DOMAIN blocks' = 1 .. Len(blocks) + Len(bs)
  BY <1>3, LenProperties
<1>5. ASSUME NEW k \in DOMAIN blocks, blocks[k] = "success" PROVE Success(blocks')
  <2>1. k \in DOMAIN blocks' /\ blocks'[k] = "success"
    BY <1>2, <1>3, <1>4, <1>5
  <2> QED
    BY <2>1 DEF Success
<1>6. ASSUME NEW k \in DOMAIN bs, bs[k] = "success" PROVE Success(blocks')
  <2>1. k + Len(blocks) \in DOMAIN blocks' /\ blocks'[k + Len(blocks)] = bs[k]
    BY <1>2, <1>3, <1>4
  <2> QED
    BY <1>6, <2>1 DEF Success
<1> QED
  BY <1>3, <1>5, <1>6 DEF Success

\* The first block runs; a success behind a failure is still to come.
LEMMA TailFacts ==
    ASSUME TypeOK, blocks # <<>>, blocks' = Tail(blocks)
    PROVE  /\ blocks' \in Seq({"success", "failure"})
           /\ Success(blocks) => Head(blocks) = "success" \/ Success(blocks')
<1>1. blocks \in Seq({"success", "failure"})
  BY DEF TypeOK
<1>2. DOMAIN blocks = 1 .. Len(blocks) /\ Len(blocks) \in Nat \ {0}
  BY <1>1, LenProperties, EmptySeq
<1>3. /\ blocks' \in Seq({"success", "failure"}) /\ Len(blocks') = Len(blocks) - 1
      /\ \A k \in 1 .. Len(blocks') : blocks'[k] = blocks[k + 1]
  BY <1>1, HeadTailProperties
<1>4. DOMAIN blocks' = 1 .. (Len(blocks) - 1)
  BY <1>3, LenProperties
<1>5. ASSUME NEW k \in DOMAIN blocks, blocks[k] = "success"
      PROVE  Head(blocks) = "success" \/ Success(blocks')
  <2>1. CASE k = 1
    BY <1>5, <2>1
  <2>2. CASE k # 1
    <3>1. k - 1 \in DOMAIN blocks' /\ blocks'[k - 1] = blocks[k]
      BY <1>2, <1>3, <1>4, <2>2
    <3> QED
      BY <1>5, <3>1 DEF Success
  <2> QED
    BY <2>1, <2>2
<1> QED
  BY <1>3, <1>5 DEF Success

\* A step that leaves the lists alone, and the screen as it was or as they are.
LEMMA ShownKeeps ==
    ASSUME ShownInv, stored' = stored, shown' = shown, settled' => settled,
           screen' # "crashed" => screen # "crashed",
           grid = shown => grid' = shown,
           Success(blocks) => grid' = shown \/ Success(blocks')
    PROVE  ShownInv'
<1> SUFFICES ASSUME settled', screen' # "crashed"
             PROVE  Whole(shown)' /\ (grid' = shown \/ Success(blocks'))
  BY DEF ShownInv, Success
<1>1. Whole(shown) /\ (grid = shown \/ Success(blocks))
  BY DEF ShownInv
<1>2. Whole(shown)'
  BY <1>1 DEF Whole, AllFetched
<1> QED
  BY <1>1, <1>2

-----------------------------------------------------------------------------
(***************************************************************************)
(* The invariant.                                                          *)
(***************************************************************************)

\* The app starts with a load and empty lists.
LEMMA Initial == Init => IInv
<1> SUFFICES ASSUME Init PROVE IInv
  OBVIOUS
<1>1. PICK l \in Loads :
          load = [m \in Loads |-> IF m = l THEN [Idle EXCEPT !.step = "getUser"] ELSE Idle]
  BY DEF Init
<1>2. load \in [Loads -> LoadRecords] /\ LoadInv
  BY <1>1, IdleFacts DEF LoadInv
<1>3. <<>> \in Seq(Entries) /\ <<>> \in Seq({"success", "failure"})
  BY EmptySeq
<1>4. Nothing \in [Sections -> Seq(Entries)]
  BY <1>3, SortType DEF Nothing
<1>5. TypeOK
  BY <1>2, <1>3, <1>4 DEF Init, TypeOK
<1>6. ShownInv
  BY DEF Init, ShownInv
<1> QED
  BY <1>2, <1>5, <1>6 DEF IInv

\* A load begins: the screen shows the lists as they are.
LEMMA ReloadStep ==
    ASSUME IInv, ReloadSettings,
           UNCHANGED <<stored, data, shown, filtered, blocks, settled>>,
           screen' \in {"dashboard", "other", "crashed"}, screen' = "crashed" \/ screen # "crashed",
           loader' \in BOOLEAN, alert' \in BOOLEAN
    PROVE  IInv'
<1>1. PICK l \in Loads : load' = [load EXCEPT ![l] = [Idle EXCEPT !.step = "getUser"]]
  BY DEF ReloadSettings
<1>2. load' \in [Loads -> LoadRecords] /\ LoadInv'
  <2> DEFINE L == [Idle EXCEPT !.step = "getUser"]
  <2>1. L \in LoadRecords /\ LoadOK(L)
    BY IdleFacts
  <2>2. load' = [load EXCEPT ![l] = L]
    BY <1>1
  <2> HIDE DEF L
  <2> QED
    BY <2>1, <2>2, LoadStep DEF IInv
<1>3. tabBar' = FALSE /\ text' = FALSE /\ grid' = shown
  BY DEF ReloadSettings
<1>4. TypeOK'
  BY <1>2, <1>3 DEF IInv, TypeOK
<1>5. ShownInv'
  BY <1>3, ShownKeeps DEF IInv
<1> QED
  BY <1>2, <1>4, <1>5 DEF IInv

\* An index out of range ends the process, and every load with it.
LEMMA CrashStep ==
    ASSUME IInv, Crash,
           UNCHANGED <<stored, data, shown, filtered, grid, modal, text, settled>>
    PROVE  IInv'
<1>1. load' = [l \in Loads |-> Idle] /\ screen' = "crashed" /\ blocks' = <<>>
  BY DEF Crash
<1>2. load' \in [Loads -> LoadRecords]
  BY <1>1, IdleFacts
<1>3. LoadInv'
  <2>1. \A l \in Loads : LoadOK(load'[l])
    BY <1>1, IdleFacts
  <2>2. \A l \in Loads : LoadOK(load[l])'
    BY <2>1 DEF LoadOK
  <2> QED
    BY <2>2 DEF LoadInv
<1>4. blocks' \in Seq({"success", "failure"})
  BY <1>1, EmptySeq
<1>5. TypeOK'
  BY <1>1, <1>2, <1>4 DEF IInv, TypeOK, modal
<1>6. ShownInv'
  BY <1>1 DEF ShownInv
<1> QED
  BY <1>3, <1>5, <1>6 DEF IInv

\* A step that leaves the loads and what is stored alone keeps the loads right.
LEMMA LoadsKeep == ASSUME LoadInv, UNCHANGED <<load, stored>> PROVE LoadInv'
<1>1. \A l \in Loads : LoadOK(load[l])'
  BY DEF LoadInv, LoadOK
<1> QED
  BY <1>1 DEF LoadInv

\* What the user does keeps the invariant.
LEMMA UserStep == IInv /\ User => IInv'
<1> SUFFICES ASSUME IInv, User PROVE IInv'
  OBVIOUS
<1>0. TypeOK /\ LoadInv /\ ShownInv
  BY DEF IInv
<1>1. CASE Appear
  <2>1. /\ ReloadSettings /\ UNCHANGED <<stored, data, shown, filtered, blocks, settled, alert>>
        /\ screen = "other" /\ screen' = "dashboard" /\ loader' = TRUE
    BY <1>1 DEF Appear
  <2>2. loader' \in BOOLEAN /\ alert' \in BOOLEAN
    BY <1>0, <2>1 DEF TypeOK
  <2> QED
    BY <2>1, <2>2, ReloadStep
<1>2. CASE Retry
  <2>1. /\ ReloadSettings
        /\ UNCHANGED <<stored, data, shown, filtered, blocks, settled, screen, loader>>
        /\ alert' = FALSE
    BY <1>2 DEF Retry
  <2>2. loader' \in BOOLEAN /\ alert' \in BOOLEAN /\ screen' \in {"dashboard", "other", "crashed"}
    BY <1>0, <2>1 DEF TypeOK
  <2> QED
    BY <2>1, <2>2, ReloadStep
<1>3. CASE Leave
  <2>1. /\ UNCHANGED <<stored, load, data, shown, filtered, grid, blocks, modal, text, settled>>
        /\ screen = "dashboard" /\ screen' = "other"
    BY <1>3 DEF Leave, Attentive
  <2>2. TypeOK'
    BY <1>0, <2>1 DEF TypeOK, modal
  <2>3. LoadInv' /\ ShownInv'
    BY <1>0, <2>1, LoadsKeep, ShownKeeps DEF Success
  <2> QED
    BY <2>2, <2>3 DEF IInv
<1>4. CASE Change
  <2>1. /\ stored' \in SUBSET Projects /\ settled' = FALSE
        /\ load' = [l \in Loads |-> [load[l] EXCEPT !.stale = Busy(l)]]
        /\ UNCHANGED <<data, shown, filtered, grid, blocks, screen, modal, text>>
    BY <1>4 DEF Change
  <2>2. \A l \in Loads : load[l] \in LoadRecords
    BY <1>0 DEF TypeOK
  <2>3. ASSUME NEW l \in Loads
        PROVE  /\ load'[l] \in LoadRecords
               /\ load'[l].step = load[l].step /\ load'[l].pending = load[l].pending
               /\ load'[l].got = load[l].got
               /\ load[l].step = "getTasks" => load'[l].stale
    <3> DEFINE b == Busy(l)
    <3>1. b \in BOOLEAN
      BY DEF Busy
    <3>2. load'[l] = [load[l] EXCEPT !.stale = b]
      BY <2>1
    <3>3. load[l].step = "getTasks" => b
      BY DEF Busy
    <3> HIDE DEF b
    <3>4. /\ load'[l] \in LoadRecords /\ load'[l].stale = b
          /\ load'[l].step = load[l].step /\ load'[l].pending = load[l].pending
          /\ load'[l].got = load[l].got
      BY <2>2, <3>1, <3>2 DEF LoadRecords
    <3> QED
      BY <3>3, <3>4
  <2>4. load' \in [Loads -> LoadRecords]
    BY <2>1, <2>3
  <2>5. \A l \in Loads : LoadOK(load[l])'
    BY <1>0, <2>3 DEF LoadInv, LoadOK
  <2>6. TypeOK'
    BY <1>0, <2>1, <2>4 DEF TypeOK, modal
  <2>7. LoadInv' /\ ShownInv'
    BY <2>1, <2>5 DEF LoadInv, ShownInv
  <2> QED
    BY <2>6, <2>7 DEF IInv
<1>5. CASE Search
  <2>1. /\ shown' = Sort(IF text THEN filtered ELSE data) /\ grid' = shown' /\ settled' = FALSE
        /\ UNCHANGED <<stored, load, data, filtered, blocks, screen, modal, text>>
    BY <1>5 DEF Search
  <2>2. shown' \in [Sections -> Seq(Entries)]
    <3>1. (IF text THEN filtered ELSE data) \in Seq(Entries)
      BY <1>0 DEF TypeOK
    <3> QED
      BY <2>1, <3>1, SortType
  <2>3. TypeOK'
    BY <1>0, <2>1, <2>2 DEF TypeOK, modal
  <2>4. LoadInv' /\ ShownInv'
    BY <1>0, <2>1, LoadsKeep DEF ShownInv
  <2> QED
    BY <2>3, <2>4 DEF IInv
<1>6. ASSUME NEW s \in Sections, NEW k \in DOMAIN grid[s], Select(s, k) PROVE IInv'
  <2>1. UNCHANGED <<stored, data, shown, filtered, grid, modal, text, settled>>
    BY <1>6 DEF Select
  <2>2. CASE k \in DOMAIN shown[s]
    <3>1. screen = "dashboard" /\ screen' = "other" /\ UNCHANGED <<load, blocks>>
      BY <1>6, <2>2 DEF Select, Attentive
    <3>2. TypeOK'
      BY <1>0, <2>1, <3>1 DEF TypeOK, modal
    <3>3. LoadInv' /\ ShownInv'
      BY <1>0, <2>1, <3>1, LoadsKeep, ShownKeeps DEF Success
    <3> QED
      BY <3>2, <3>3 DEF IInv
  <2>3. CASE k \notin DOMAIN shown[s]
    BY <1>6, <2>1, <2>3, CrashStep DEF Select
  <2> QED
    BY <2>2, <2>3
<1>7. ASSUME NEW s \in Sections, NEW k \in DOMAIN grid[s], Scroll(s, k) PROVE IInv'
  <2>1. UNCHANGED <<stored, data, shown, filtered, modal, text, settled>>
    BY <1>7 DEF Scroll
  <2>2. CASE k \in DOMAIN shown[s]
    <3>1. grid' = [grid EXCEPT ![s][k] = shown[s][k]] /\ UNCHANGED <<load, blocks, screen>>
      BY <1>7, <2>2 DEF Scroll
    <3>2. grid[s] \in Seq(Entries) /\ shown[s] \in Seq(Entries)
      BY <1>0 DEF TypeOK
    <3>3. shown[s][k] \in Entries /\ k \in 1 .. Len(grid[s])
      BY <2>2, <3>2, LenProperties, ElementOfSeq
    <3>4. [grid[s] EXCEPT ![k] = shown[s][k]] \in Seq(Entries)
      BY <3>2, <3>3, ExceptSeq
    <3>5. grid' = [grid EXCEPT ![s] = [grid[s] EXCEPT ![k] = shown[s][k]]]
      BY <1>0, <3>1 DEF TypeOK
    <3>6. grid' \in [Sections -> Seq(Entries)]
      BY <1>0, <3>4, <3>5 DEF TypeOK
    <3>7. grid = shown => grid' = shown
      <4> SUFFICES ASSUME grid = shown PROVE grid' = grid
        OBVIOUS
      <4>1. [grid[s] EXCEPT ![k] = grid[s][k]] = grid[s]
        BY <3>2, LenProperties
      <4>2. [grid EXCEPT ![s] = grid[s]] = grid
        BY <1>0 DEF TypeOK
      <4> QED
        BY <3>5, <4>1, <4>2
    <3>8. TypeOK'
      BY <1>0, <2>1, <3>1, <3>6 DEF TypeOK, modal
    <3>9. LoadInv' /\ ShownInv'
      BY <1>0, <2>1, <3>1, <3>7, LoadsKeep, ShownKeeps DEF Success
    <3> QED
      BY <3>8, <3>9 DEF IInv
  <2>3. CASE k \notin DOMAIN shown[s]
    BY <1>7, <2>1, <2>3, CrashStep DEF Scroll
  <2> QED
    BY <2>2, <2>3
<1>8. ASSUME NEW entry \in BOOLEAN, Type(entry) PROVE IInv'
  <2>1. /\ text' = entry /\ filtered' = (IF entry THEN Matches(data) ELSE data)
        /\ UNCHANGED <<stored, load, data, shown, grid, blocks, screen, modal, settled>>
    BY <1>8 DEF Type
  <2>2. data \in Seq(Entries) /\ Matches(data) \in Seq(Entries)
    BY <1>0, FilterFacts DEF TypeOK, Matches
  <2>3. filtered' \in Seq(Entries) /\ text' \in BOOLEAN
    BY <2>1, <2>2
  <2>4. TypeOK'
    BY <1>0, <2>1, <2>3 DEF TypeOK, modal
  <2>5. LoadInv' /\ ShownInv'
    BY <1>0, <2>1, LoadsKeep, ShownKeeps DEF Success
  <2> QED
    BY <2>4, <2>5 DEF IInv
<1> QED
  BY <1>1, <1>2, <1>3, <1>4, <1>5, <1>6, <1>7, <1>8 DEF User

\* A load ends.
LEMMA EndedStep ==
    ASSUME TypeOK, LoadInv, NEW l \in Loads, load' = Ended(l), stored' = stored
    PROVE  load' \in [Loads -> LoadRecords] /\ LoadInv'
  BY IdleFacts, LoadStep DEF Ended

\* The blocks that a load leaves.
LEMMA BlockSequences ==
    /\ <<"failure">> \in Seq({"success", "failure"})
    /\ <<"success">> \in Seq({"success", "failure"}) /\ Success(<<"success">>)
    /\ <<>> \in Seq({"success", "failure"})
    /\ \A e \in {<<>>, <<"failure">>} : /\ e \o <<"success">> \in Seq({"success", "failure"})
                                      /\ Success(e \o <<"success">>)
<1>1. /\ <<"failure">> \in Seq({"success", "failure"})
      /\ <<"success">> \in Seq({"success", "failure"})
      /\ <<>> \in Seq({"success", "failure"})
  OBVIOUS
<1>2. Success(<<"success">>)
  <2>1. 1 \in DOMAIN <<"success">> /\ <<"success">>[1] = "success"
    OBVIOUS
  <2> QED
    BY <2>1 DEF Success
<1>3. ASSUME NEW e \in Seq({"success", "failure"})
      PROVE  /\ e \o <<"success">> \in Seq({"success", "failure"})
             /\ Success(e \o <<"success">>)
  <2> DEFINE b == e \o <<"success">>
  <2>1. Len(<<"success">>) = 1 /\ <<"success">>[1] = "success" /\ Len(e) \in Nat
    BY LenProperties
  <2>2. /\ b \in Seq({"success", "failure"}) /\ Len(b) = Len(e) + 1
        /\ b[Len(e) + 1] = <<"success">>[(Len(e) + 1) - Len(e)]
    BY <1>1, <2>1, ConcatProperties
  <2> HIDE DEF b
  <2>3. DOMAIN b = 1 .. Len(e) + 1
    BY <2>2, LenProperties
  <2>4. Len(e) + 1 \in DOMAIN b /\ b[Len(e) + 1] = "success"
    BY <2>1, <2>2, <2>3
  <2> QED
    BY <2>2, <2>4 DEF Success, b
<1> QED
  BY <1>1, <1>2, <1>3

\* A load reads the user.
LEMMA GetUserStep ==
    ASSUME IInv, NEW l \in Loads, GetUser(l) PROVE IInv'
<1>0. TypeOK /\ LoadInv /\ ShownInv /\ load[l] \in LoadRecords
  BY DEF IInv, TypeOK
<1>1. UNCHANGED <<stored, shown, filtered, grid, screen, modal, text>>
  BY DEF GetUser
<1>2. CASE /\ load' = [load EXCEPT ![l].step = "getProjects"]
           /\ data' = <<>> /\ settled' = FALSE /\ blocks' = blocks
  <2> DEFINE L == [load[l] EXCEPT !.step = "getProjects"]
  <2>1. load' = [load EXCEPT ![l] = L]
    BY <1>0, <1>2 DEF TypeOK
  <2>2. /\ L \in LoadRecords /\ L.step = "getProjects" /\ L.got = load[l].got
        /\ L.pending = load[l].pending
    BY <1>0 DEF LoadRecords, Steps
  <2>3. load[l].step = "getUser"
    BY DEF GetUser
  <2> HIDE DEF L
  <2>4. LoadOK(L)
    BY <1>0, <2>2, <2>3 DEF LoadInv, LoadOK
  <2>5. load' \in [Loads -> LoadRecords] /\ LoadInv'
    BY <1>0, <1>1, <2>1, <2>2, <2>4, LoadStep
  <2>6. data' \in Seq(Entries)
    BY <1>2, EmptySeq
  <2>7. TypeOK'
    BY <1>0, <1>1, <1>2, <2>5, <2>6 DEF TypeOK, modal
  <2>8. ShownInv'
    BY <1>2 DEF ShownInv
  <2> QED
    BY <2>5, <2>7, <2>8 DEF IInv
<1>3. CASE load' = Ended(l) /\ Later(<<"failure">>) /\ UNCHANGED <<data, settled>>
  <2>1. load' \in [Loads -> LoadRecords] /\ LoadInv'
    BY <1>0, <1>1, <1>3, EndedStep
  <2>2. /\ blocks' \in Seq({"success", "failure"})
        /\ Success(blocks) => Success(blocks')
    BY <1>0, <1>3, LaterFacts, BlockSequences
  <2>3. TypeOK'
    BY <1>0, <1>1, <1>3, <2>1, <2>2 DEF TypeOK, modal
  <2>4. ShownInv'
    BY <1>0, <1>1, <1>3, <2>2, ShownKeeps
  <2> QED
    BY <2>1, <2>3, <2>4 DEF IInv
<1> QED
  BY <1>2, <1>3 DEF GetUser

\* A load answers with a list of all projects: the lists are whole, and a block is left
\* that shows them.
LEMMA AnswerShown ==
    ASSUME IInv, NEW list \in Seq(Entries), Answer(list), stored' = stored, Success(blocks'),
           settled' => Once(list) /\ Listed(list) = stored /\ AllFetched(list)
    PROVE  ShownInv' /\ data' \in Seq(Entries) /\ shown' \in [Sections -> Seq(Entries)]
<1>1. data' = list /\ shown' = Sort(list)
  BY DEF Answer
<1>2. shown' \in [Sections -> Seq(Entries)]
  BY <1>1, SortType
<1>3. ASSUME settled' PROVE Whole(shown)'
  <2>1. Whole(Sort(list))
    BY <1>3, SortWhole
  <2> QED
    BY <1>1, <2>1 DEF Whole, AllFetched
<1>4. ShownInv'
  BY <1>3 DEF ShownInv, Success
<1> QED
  BY <1>1, <1>2, <1>4

\* A load reads the projects.
LEMMA GetProjectsStep ==
    ASSUME IInv, NEW l \in Loads, GetProjects(l) PROVE IInv'
<1>0. TypeOK /\ LoadInv /\ ShownInv /\ load[l] \in LoadRecords
  BY DEF IInv, TypeOK
<1>1. /\ UNCHANGED <<stored, filtered, grid, screen, modal, text>>
      /\ load[l].step = "getProjects"
  BY DEF GetProjects
<1>2. CASE /\ load' = IF stored = {} THEN Ended(l)
                      ELSE [load EXCEPT ![l].step = "getTasks", ![l].pending = stored]
           /\ Answer(<<>>)
           /\ settled' = (stored = {} /\ ~ load[l].stale)
           /\ Later(<<"success">>)
  <2>1. blocks' \in Seq({"success", "failure"}) /\ Success(blocks')
    BY <1>0, <1>2, LaterFacts, BlockSequences
  <2>2. <<>> \in Seq(Entries) /\ Once(<<>>) /\ Listed(<<>>) = {} /\ AllFetched(<<>>)
    <3>1. <<>> \in Seq(Entries) /\ DOMAIN <<>> = {}
      BY EmptySeq, LenProperties
    <3> QED
      BY <3>1 DEF Once, Listed, AllFetched
  <2>3. settled' \in BOOLEAN /\ (settled' => stored = {})
    <3>1. (stored = {} /\ ~ load[l].stale) \in BOOLEAN
      OBVIOUS
    <3> QED
      BY <1>2, <3>1, Zenon
  <2>4. ShownInv' /\ data' \in Seq(Entries) /\ shown' \in [Sections -> Seq(Entries)]
    BY <1>1, <1>2, <2>1, <2>2, <2>3, AnswerShown
  <2>5. load' \in [Loads -> LoadRecords] /\ LoadInv'
    <3>1. CASE stored = {}
      BY <1>0, <1>1, <1>2, <3>1, EndedStep
    <3>2. CASE stored # {}
      <4> DEFINE L == [load[l] EXCEPT !.step = "getTasks", !.pending = stored]
      <4>1. load' = [load EXCEPT ![l] = L]
        BY <1>0, <1>2, <3>2 DEF TypeOK
      <4>2. stored \in SUBSET Projects
        BY <1>0 DEF TypeOK
      <4>3. /\ L \in LoadRecords /\ L.step = "getTasks" /\ L.got = load[l].got
            /\ L.pending = stored
        BY <1>0, <4>2 DEF LoadRecords, Steps
      <4> HIDE DEF L
      <4>4. load[l].got = <<>>
        BY <1>0, <1>1 DEF LoadInv, LoadOK
      <4>5. LoadOK(L)
        BY <2>2, <4>3, <4>4 DEF LoadOK
      <4> QED
        BY <1>0, <1>1, <4>1, <4>3, <4>5, LoadStep
    <3> QED
      BY <3>1, <3>2
  <2>6. TypeOK'
    BY <1>0, <1>1, <2>1, <2>3, <2>4, <2>5 DEF TypeOK, modal
  <2> QED
    BY <2>4, <2>5, <2>6 DEF IInv
<1>3. CASE load' = Ended(l) /\ Later(<<"failure">>) /\ UNCHANGED <<data, shown, settled>>
  <2>1. load' \in [Loads -> LoadRecords] /\ LoadInv'
    BY <1>0, <1>1, <1>3, EndedStep
  <2>2. /\ blocks' \in Seq({"success", "failure"})
        /\ Success(blocks) => Success(blocks')
    BY <1>0, <1>3, LaterFacts, BlockSequences
  <2>3. TypeOK'
    BY <1>0, <1>1, <1>3, <2>1, <2>2 DEF TypeOK, modal
  <2>4. ShownInv'
    BY <1>0, <1>1, <1>3, <2>2, ShownKeeps
  <2> QED
    BY <2>1, <2>3, <2>4 DEF IInv
<1> QED
  BY <1>2, <1>3 DEF GetProjects

\* A load reads the tasks of one project: it is listed, and no longer waited for.
LEMMA GotFacts ==
    ASSUME IInv, NEW l \in Loads, NEW p \in load[l].pending, NEW tasks \in {"fetched", "none"}
    PROVE  LET got == Append(load[l].got, Entry(p, tasks))
           IN  /\ load[l].step = "getTasks" /\ load[l] \in LoadRecords
               /\ got \in Seq(Entries) /\ Once(got)
               /\ Listed(got) = Listed(load[l].got) \union {p}
               /\ Listed(got) \cap (load[l].pending \ {p}) = {}
               /\ ~ load[l].stale => (load[l].pending \ {p}) \union Listed(got) = stored
<1> DEFINE old == load[l].got
           got == Append(old, Entry(p, tasks))
<1>1. load[l] \in LoadRecords /\ LoadOK(load[l])
  BY DEF IInv, TypeOK, LoadInv
<1>2. load[l].step = "getTasks"
  BY <1>1 DEF LoadOK
<1>3. old \in Seq(Entries) /\ p \in Projects
  BY <1>1 DEF LoadRecords
<1>4. Entry(p, tasks) \in Entries /\ Entry(p, tasks).project = p
  BY <1>3 DEF Entry, Entries
<1>5. /\ Once(old) /\ Listed(old) \cap load[l].pending = {}
      /\ ~ load[l].stale => load[l].pending \union Listed(old) = stored
  BY <1>1, <1>2 DEF LoadOK
<1> HIDE DEF old
<1>6. Len(old) \in Nat /\ DOMAIN old = 1 .. Len(old)
  BY <1>3, LenProperties
<1>7. /\ got \in Seq(Entries) /\ Len(got) = Len(old) + 1
      /\ \A k \in 1 .. Len(old) : got[k] = old[k]
      /\ got[Len(old) + 1] = Entry(p, tasks)
  BY <1>3, <1>4, AppendProperties
<1> HIDE DEF got
<1>8. DOMAIN got = 1 .. Len(old) + 1
  BY <1>7, LenProperties
<1>9. /\ \A k \in DOMAIN got : k \in DOMAIN old \/ k = Len(old) + 1
      /\ \A k \in DOMAIN old : k \in DOMAIN got
      /\ Len(old) + 1 \in DOMAIN got
  BY <1>6, <1>8
<1>10. Listed(got) = Listed(old) \union {p}
  <2>1. ASSUME NEW q \in Listed(got) PROVE q \in Listed(old) \/ q = p
    <3>1. PICK k \in DOMAIN got : q = got[k].project
      BY DEF Listed
    <3> QED
      BY <1>4, <1>6, <1>7, <1>9, <3>1 DEF Listed
  <2>2. ASSUME NEW q \in Listed(old) PROVE q \in Listed(got)
    <3>1. PICK k \in DOMAIN old : q = old[k].project
      BY DEF Listed
    <3> QED
      BY <1>6, <1>7, <1>9, <3>1 DEF Listed
  <2>3. p \in Listed(got)
    BY <1>4, <1>7, <1>9 DEF Listed
  <2> QED
    BY <2>1, <2>2, <2>3
<1>11. \A k \in DOMAIN old : old[k].project # p
  BY <1>5 DEF Listed
<1>12. Once(got)
  <2> SUFFICES ASSUME NEW j \in DOMAIN got, NEW k \in DOMAIN got,
                      got[j].project = got[k].project
               PROVE  j = k
    BY DEF Once
  <2>1. CASE j \in DOMAIN old /\ k \in DOMAIN old
    BY <1>5, <1>6, <1>7, <2>1 DEF Once
  <2>2. CASE j \notin DOMAIN old \/ k \notin DOMAIN old
    BY <1>4, <1>6, <1>7, <1>9, <1>11, <2>2
  <2> QED
    BY <2>1, <2>2
<1>13. Listed(got) \cap (load[l].pending \ {p}) = {}
  BY <1>5, <1>10
<1>14. ~ load[l].stale => (load[l].pending \ {p}) \union Listed(got) = stored
  BY <1>5, <1>10
<1> QED
  BY <1>1, <1>2, <1>7, <1>10, <1>12, <1>13, <1>14 DEF got, old

\* A load reads the tasks of a project, with or without an error.
LEMMA GetTasksStep ==
    ASSUME IInv, NEW l \in Loads, NEW p \in Projects, GetTasks(l, p) PROVE IInv'
<1>0. TypeOK /\ LoadInv /\ ShownInv
  BY DEF IInv
<1>1. /\ UNCHANGED <<stored, filtered, grid, screen, modal, text>>
      /\ p \in load[l].pending
  BY DEF GetTasks
<1>2. PICK tasks \in {"fetched", "none"} :
          LET got == Append(load[l].got, Entry(p, tasks))
              error == IF tasks = "none" THEN <<"failure">> ELSE <<>>
          IN  IF load[l].pending = {p}
              THEN /\ load' = Ended(l)
                   /\ Answer(got)
                   /\ Later(error \o <<"success">>)
                   /\ settled' = (AllFetched(got) /\ ~ load[l].stale)
              ELSE /\ load' = [load EXCEPT ![l].pending = @ \ {p}, ![l].got = got]
                   /\ Later(error)
                   /\ UNCHANGED <<data, shown, settled>>
  BY DEF GetTasks
<1> DEFINE got == Append(load[l].got, Entry(p, tasks))
           error == IF tasks = "none" THEN <<"failure">> ELSE <<>>
<1>3. error \in {<<>>, <<"failure">>}
  OBVIOUS
<1>4. /\ load[l].step = "getTasks" /\ load[l] \in LoadRecords
      /\ got \in Seq(Entries) /\ Once(got)
      /\ Listed(got) \cap (load[l].pending \ {p}) = {}
      /\ ~ load[l].stale => (load[l].pending \ {p}) \union Listed(got) = stored
  BY <1>1, GotFacts
<1>5. CASE load[l].pending = {p}
  <2>1. /\ load' = Ended(l) /\ Answer(got) /\ Later(error \o <<"success">>)
        /\ settled' = (AllFetched(got) /\ ~ load[l].stale)
    BY <1>2, <1>5
  <2> HIDE DEF got, error
  <2>2. load' \in [Loads -> LoadRecords] /\ LoadInv'
    BY <1>0, <1>1, <2>1, EndedStep
  <2>3. blocks' \in Seq({"success", "failure"}) /\ Success(blocks')
    BY <1>0, <1>3, <2>1, LaterFacts, BlockSequences
  <2>4. settled' \in BOOLEAN /\ (settled' => AllFetched(got) /\ ~ load[l].stale)
    <3>1. (AllFetched(got) /\ ~ load[l].stale) \in BOOLEAN
      BY DEF AllFetched
    <3> QED
      BY <2>1, <3>1, Zenon
  <2>5. ~ load[l].stale => Listed(got) = stored
    BY <1>4, <1>5
  <2>6. ShownInv' /\ data' \in Seq(Entries) /\ shown' \in [Sections -> Seq(Entries)]
    BY <1>1, <1>4, <2>1, <2>3, <2>4, <2>5, AnswerShown
  <2>7. TypeOK'
    BY <1>0, <1>1, <2>2, <2>3, <2>4, <2>6 DEF TypeOK, modal
  <2> QED
    BY <2>2, <2>6, <2>7 DEF IInv
<1>6. CASE load[l].pending # {p}
  <2>1. /\ load' = [load EXCEPT ![l].pending = @ \ {p}, ![l].got = got]
        /\ Later(error) /\ UNCHANGED <<data, shown, settled>>
    BY <1>2, <1>6
  <2> HIDE DEF got, error
  <2> DEFINE L == [load[l] EXCEPT !.pending = load[l].pending \ {p}, !.got = got]
  <2>2. load' = [load EXCEPT ![l] = L]
    BY <1>0, <2>1 DEF TypeOK
  <2>3. /\ L \in LoadRecords /\ L.step = "getTasks" /\ L.got = got
        /\ L.pending = load[l].pending \ {p} /\ L.stale = load[l].stale
    BY <1>4 DEF LoadRecords
  <2> HIDE DEF L
  <2>4. LoadOK(L)
    BY <1>4, <2>3 DEF LoadOK
  <2>5. load' \in [Loads -> LoadRecords] /\ LoadInv'
    BY <1>0, <1>1, <2>2, <2>3, <2>4, LoadStep
  <2>6. /\ blocks' \in Seq({"success", "failure"})
        /\ Success(blocks) => Success(blocks')
    BY <1>0, <1>3, <2>1, LaterFacts, BlockSequences
  <2>7. TypeOK'
    BY <1>0, <1>1, <2>1, <2>5, <2>6 DEF TypeOK, modal
  <2>8. ShownInv'
    BY <1>0, <1>1, <2>1, <2>6, ShownKeeps
  <2> QED
    BY <2>5, <2>7, <2>8 DEF IInv
<1> QED
  BY <1>5, <1>6

\* A delayed block runs.
LEMMA FireStep == ASSUME IInv, Fire PROVE IInv'
<1>0. TypeOK /\ LoadInv /\ ShownInv
  BY DEF IInv
<1>1. /\ blocks # <<>> /\ blocks' = Tail(blocks) /\ loader' = FALSE /\ tabBar' = TRUE
      /\ alert' = (Head(blocks) = "failure" /\ screen = "dashboard")
      /\ grid' = (IF Head(blocks) = "success" THEN shown ELSE grid)
      /\ UNCHANGED <<stored, load, data, shown, filtered, screen, text, settled>>
  BY DEF Fire
<1>2. /\ blocks' \in Seq({"success", "failure"})
      /\ Success(blocks) => Head(blocks) = "success" \/ Success(blocks')
  BY <1>0, <1>1, TailFacts
<1>3. alert' \in BOOLEAN /\ loader' \in BOOLEAN /\ tabBar' \in BOOLEAN
  <2>1. (Head(blocks) = "failure" /\ screen = "dashboard") \in BOOLEAN
    OBVIOUS
  <2> QED
    BY <1>1, <2>1, Zenon
<1>4. grid' \in [Sections -> Seq(Entries)]
  BY <1>0, <1>1 DEF TypeOK
<1>5. TypeOK'
  BY <1>0, <1>1, <1>2, <1>3, <1>4 DEF TypeOK
<1>6. LoadInv'
  BY <1>0, <1>1, LoadsKeep
<1>7. ShownInv'
  BY <1>0, <1>1, <1>2, ShownKeeps
<1> QED
  BY <1>5, <1>6, <1>7 DEF IInv

\* Every step keeps the invariant.
LEMMA Inductive == IInv /\ [Next]_vars => IInv'
<1> SUFFICES ASSUME IInv, [Next]_vars PROVE IInv'
  OBVIOUS
<1>1. CASE User
  BY <1>1, UserStep
<1>2. CASE Completion
  BY <1>2, GetUserStep, GetProjectsStep, GetTasksStep, FireStep DEF Completion
<1>3. CASE UNCHANGED vars
  <2>1. TypeOK'
    BY <1>3 DEF vars, IInv, TypeOK
  <2>2. LoadInv' /\ ShownInv'
    BY <1>3, LoadsKeep, ShownKeeps DEF vars, IInv, Success
  <2> QED
    BY <2>1, <2>2 DEF IInv
<1> QED
  BY <1>1, <1>2, <1>3 DEF Next

\* IInv is an invariant of the dashboard.
LEMMA Invariance == Spec => []IInv
  BY Initial, Inductive, PTL DEF Spec

\* The lists, the loads and the queue of blocks keep their types, however many loads
\* overlap and whatever they answer: an entry always has its list of tasks.
THEOREM TypeCorrect == Spec => []TypeOK
<1>1. IInv => TypeOK
  BY DEF IInv
<1> QED
  BY <1>1, Invariance, PTL

\* However many loads of however many projects overlap, fail in part and answer several
\* times each: once the lists come from a load without errors that no change crossed,
\* every project is listed once, in its section and with its tasks, and once the delayed
\* blocks have run the screen shows just that.
THEOREM SettledDashboardHolds == Spec => []SettledDashboard
<1>1. IInv => SettledDashboard
  <2> SUFFICES ASSUME IInv, settled, screen # "crashed"
               PROVE  Whole(shown) /\ (blocks = <<>> => Whole(grid))
    BY DEF SettledDashboard
  <2>1. Whole(shown) /\ (grid = shown \/ Success(blocks))
    BY DEF IInv, ShownInv
  <2>2. blocks = <<>> => ~ Success(blocks)
    BY EmptySeq, LenProperties DEF Success
  <2> QED
    BY <2>1, <2>2
<1> QED
  BY <1>1, Invariance, PTL
=============================================================================
