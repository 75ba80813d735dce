--------------------------- MODULE FdTableProofs ---------------------------
(***************************************************************************)
(* For every number of processes, descriptors and pipes: the Pipe systems' *)
(* counts are the descriptors that are open onto them, so a reader meets   *)
(* end of file only when nobody can write any more.                        *)
(***************************************************************************)
EXTENDS FdTable, FiniteSetTheorems, WellFoundedInduction, TLAPS

(* A Pipe system's state goes with its counts.                             *)
PipeOK(p) ==
    /\ p \in [st : {"None", "Writable", "Drained"}, readers : Nat, writers : Nat]
    /\ p.st = "Writable" <=> p.writers > 0
    /\ p.st = "None" <=> p.readers = 0 /\ p.writers = 0

PipesOK == \A id \in Ids : PipeOK(POOL[id])

FreeTablesEmpty == \A s \in FdSlots : state[s] = "Free" => TABLES[s] = EmptyTable

FdInv == FdTypeOK /\ EndsCounted /\ PipesOK /\ FreeTablesEmpty

-----------------------------------------------------------------------------
(* The operations of a Pipe system.                                        *)

LEMMA OpenedPipe ==
    ASSUME NEW p, PipeOK(p), NEW r \in Nat, NEW w \in Nat,
           p.st = "None" => r = 0 /\ w = 0
    PROVE  /\ PipeOK(Opened(p, r, w))
           /\ Opened(p, r, w).readers = p.readers + r
           /\ Opened(p, r, w).writers = p.writers + w
BY DEF PipeOK, Opened

LEMMA ClosedPipe ==
    ASSUME NEW p, PipeOK(p), NEW r \in Nat, NEW w \in Nat,
           r <= p.readers, w <= p.writers
    PROVE  /\ PipeOK(Closed(p, r, w))
           /\ Closed(p, r, w).readers = p.readers - r
           /\ Closed(p, r, w).writers = p.writers - w
<1>1. CASE r + w = 0 \/ p.st = "None"
  BY <1>1 DEF PipeOK, Closed
<1>2. CASE ~(r + w = 0 \/ p.st = "None")
  <2>1. CASE p.readers - r <= 0 /\ p.writers - w = 0
    BY <1>2, <2>1 DEF PipeOK, Closed, NoPipe
  <2>2. CASE ~(p.readers - r <= 0 /\ p.writers - w = 0)
    BY <1>2, <2>2 DEF PipeOK, Closed
  <2> QED BY <2>1, <2>2
<1> QED BY <1>1, <1>2

-----------------------------------------------------------------------------
(* Counting descriptors.                                                   *)

HoldersIn(T, id, w) == {h \in FdSlots \X FDs : T[h[1]][h[2]] = End(id, w)}
HeldBy(t, id, w) == {fd \in FDs : t[fd] = End(id, w)}

LEMMA FDsFinite ==
    /\ IsFiniteSet(FDs) /\ IsFiniteSet(FdSlots \X FDs)
    /\ 0 \in FDs
<1>1. IsFiniteSet(FDs)
  BY FdAssumption, FS_Interval DEF FDs
<1> QED BY <1>1, FdAssumption, FS_Product DEF FDs

LEMMA RefsType ==
    ASSUME NEW t, NEW S \in SUBSET FDs, NEW id, NEW w
    PROVE  Refs(t, S, id, w) \in Nat /\ IsFiniteSet({fd \in S : t[fd] = End(id, w)})
<1>1. {fd \in S : t[fd] = End(id, w)} \in SUBSET FDs
  OBVIOUS
<1> QED BY <1>1, FDsFinite, FS_Subset, FS_CardinalityType DEF Refs

LEMMA HoldersType ==
    ASSUME NEW T, NEW id, NEW w
    PROVE  /\ IsFiniteSet(HoldersIn(T, id, w))
           /\ Cardinality(HoldersIn(T, id, w)) \in Nat
<1>1. HoldersIn(T, id, w) \in SUBSET (FdSlots \X FDs)
  BY DEF HoldersIn
<1> QED BY <1>1, FDsFinite, FS_Subset, FS_CardinalityType

(* A process's share of the holders is counted on its own table.           *)
LEMMA HoldersSplit ==
    ASSUME NEW T, NEW s \in FdSlots, NEW id, NEW w
    PROVE  Cardinality(HoldersIn(T, id, w)) =
              Cardinality({h \in HoldersIn(T, id, w) : h[1] # s}) + Refs(T[s], FDs, id, w)
<1> DEFINE H == HoldersIn(T, id, w)
           Rest == {h \in H : h[1] # s}
           Mine == {h \in H : h[1] = s}
           F == {fd \in FDs : T[s][fd] = End(id, w)}
           f == [fd \in F |-> <<s, fd>>]
<1>1. IsFiniteSet(H) /\ IsFiniteSet(F) /\ Cardinality(F) = Refs(T[s], FDs, id, w)
  <2>1. FDs \in SUBSET FDs
    OBVIOUS
  <2>2. IsFiniteSet(F)
    BY <2>1, RefsType
  <2> QED BY <2>2, HoldersType DEF Refs
<1>2. IsFiniteSet(Rest) /\ IsFiniteSet(Mine) /\ H = Rest \cup Mine /\ Rest \cap Mine = {}
  BY <1>1, FS_Subset
<1>3. ExistsBijection(F, Mine)
  <2>1. \A fd \in F : <<s, fd>> \in Mine
    BY DEF HoldersIn
  <2>2. \A h \in Mine : h[2] \in F /\ h = <<s, h[2]>>
    BY DEF HoldersIn
  <2>3. f \in [F -> Mine]
    BY <2>1
  <2>4. f \in Injection(F, Mine)
    BY <2>3 DEF Injection, IsInjective
  <2>5. f \in Surjection(F, Mine)
    BY <2>2, <2>3, Zenon DEF Surjection
  <2> QED BY <2>4, <2>5 DEF ExistsBijection, Bijection
<1>4. Cardinality(Mine) = Cardinality(F)
  BY <1>1, <1>3, FS_Bijection
<1>5. Cardinality(H) = Cardinality(Rest) + Cardinality(Mine) - Cardinality(Rest \cap Mine)
  BY <1>2, FS_Union
<1>6. Cardinality(Rest \cap Mine) = 0
  BY <1>2, FS_EmptySet
<1>7. Cardinality(Rest) \in Nat /\ Cardinality(Mine) \in Nat
  BY <1>2, FS_CardinalityType
<1> HIDE DEF H, Rest, Mine, F
<1>8. Cardinality(H) = Cardinality(Rest) + Refs(T[s], FDs, id, w)
  BY <1>1, <1>4, <1>5, <1>6, <1>7
<1> QED BY <1>8 DEF H, Rest

LEMMA RefsOne ==
    ASSUME NEW t, NEW fd \in FDs, NEW id, NEW w
    PROVE  Refs(t, {fd}, id, w) = IF t[fd] = End(id, w) THEN 1 ELSE 0
<1>1. CASE t[fd] = End(id, w)
  <2>1. {x \in {fd} : t[x] = End(id, w)} = {fd}
    BY <1>1
  <2> QED BY <1>1, <2>1, FS_Singleton DEF Refs
<1>2. CASE t[fd] # End(id, w)
  <2>1. {x \in {fd} : t[x] = End(id, w)} = {}
    BY <1>2
  <2> QED BY <1>2, <2>1, FS_EmptySet DEF Refs
<1> QED BY <1>1, <1>2

(* Changing one descriptor of a table.                                     *)
Put(t, u, fd, v) == u = [t EXCEPT ![fd] = v]

LEMMA RefsChange ==
    ASSUME NEW t \in [FDs -> Slot], NEW fd \in FDs, NEW v, NEW u, Put(t, u, fd, v), NEW id, NEW w
    PROVE  Refs(u, FDs, id, w) =
              Refs(t, FDs, id, w) - Refs(t, {fd}, id, w)
                 + (IF v = End(id, w) THEN 1 ELSE 0)
<1> DEFINE Old == {x \in FDs : t[x] = End(id, w)}
           New == {x \in FDs : u[x] = End(id, w)}
<1>1. IsFiniteSet(Old) /\ Cardinality(Old) \in Nat /\ IsFiniteSet(New)
  <2>1. FDs \in SUBSET FDs
    OBVIOUS
  <2>2. IsFiniteSet(Old)
    BY <2>1, RefsType
  <2>3. IsFiniteSet(New)
    BY <2>1, RefsType
  <2> QED BY <2>2, <2>3, FS_CardinalityType
<1>2. /\ IsFiniteSet(Old \ {fd})
      /\ Cardinality(Old \ {fd}) = Cardinality(Old) - Refs(t, {fd}, id, w)
  <2>1. fd \in Old <=> t[fd] = End(id, w)
    OBVIOUS
  <2>2. Refs(t, {fd}, id, w) = IF fd \in Old THEN 1 ELSE 0
    BY <2>1, RefsOne
  <2> HIDE DEF Old
  <2>3. /\ IsFiniteSet(Old \ {fd})
        /\ Cardinality(Old \ {fd}) = IF fd \in Old THEN Cardinality(Old) - 1 ELSE Cardinality(Old)
    BY <1>1, FS_RemoveElement
  <2> QED BY <1>1, <2>2, <2>3
<1>3. New = (Old \ {fd}) \cup (IF v = End(id, w) THEN {fd} ELSE {})
  BY DEF Put
<1>4. Cardinality(New) = Cardinality(Old \ {fd}) + (IF v = End(id, w) THEN 1 ELSE 0)
  <2>1. CASE v = End(id, w)
    <3>1. New = (Old \ {fd}) \cup {fd} /\ fd \notin Old \ {fd}
      BY <1>3, <2>1
    <3> QED BY <3>1, <2>1, <1>2, FS_AddElement, Zenon
  <2>2. CASE v # End(id, w)
    <3>1. New = Old \ {fd}
      BY <1>3, <2>2
    <3> HIDE DEF New, Old
    <3>2. Cardinality(Old \ {fd}) \in Nat
      BY <1>2, FS_CardinalityType
    <3> QED BY <3>1, <3>2, <2>2
  <2> QED BY <2>1, <2>2
<1> QED BY <1>2, <1>4 DEF Refs

-----------------------------------------------------------------------------
(* What a table holds is within the counts.                                *)

Count(p, w) == IF w THEN p.writers ELSE p.readers

LEMMA CountType ==
    ASSUME NEW p, PipeOK(p), NEW w \in BOOLEAN
    PROVE  /\ Count(p, w) \in Nat
           /\ p.st = "None" => Count(p, w) = 0
BY DEF PipeOK, Count

LEMMA HoldersAreCounted ==
    ASSUME FdInv, NEW id \in Ids, NEW w \in BOOLEAN
    PROVE  /\ Count(POOL[id], w) = Cardinality(HoldersIn(TABLES, id, w)) + lost[id][w]
           /\ lost[id][w] \in Nat
<1>1. \A v \in BOOLEAN : Holders(id, v) = HoldersIn(TABLES, id, v)
  BY DEF Holders, HoldersIn
<1>2. \A v \in BOOLEAN : lost[id][v] \in Nat
  BY FdAssumption DEF FdInv, FdTypeOK
<1>3. CASE w = TRUE
  BY <1>1, <1>2, <1>3, Zenon DEF FdInv, EndsCounted, Count
<1>4. CASE w = FALSE
  BY <1>1, <1>2, <1>4, ZenonT(60) DEF FdInv, EndsCounted, Count
<1> QED BY <1>3, <1>4, Zenon

LEMMA RefsWithinCounts ==
    ASSUME FdInv, NEW s \in FdSlots, NEW S \in SUBSET FDs, NEW id \in Ids, NEW w \in BOOLEAN
    PROVE  /\ Refs(TABLES[s], S, id, w) \in Nat
           /\ Refs(TABLES[s], S, id, w) <= Count(POOL[id], w)
<1> DEFINE A == {fd \in S : TABLES[s][fd] = End(id, w)}
           B == {fd \in FDs : TABLES[s][fd] = End(id, w)}
           R == {h \in HoldersIn(TABLES, id, w) : h[1] # s}
<1>1. A \subseteq B /\ FDs \in SUBSET FDs /\ R \subseteq HoldersIn(TABLES, id, w)
  OBVIOUS
<1>2. IsFiniteSet(B) /\ Refs(TABLES[s], FDs, id, w) \in Nat
  BY <1>1, RefsType
<1>3. Refs(TABLES[s], S, id, w) \in Nat
  BY RefsType, ZenonT(60)
<1>4. Cardinality(A) <= Cardinality(B)
  BY <1>1, <1>2, FS_Subset
<1>5. Refs(TABLES[s], S, id, w) <= Refs(TABLES[s], FDs, id, w)
  BY <1>4 DEF Refs
<1>6. Cardinality(R) \in Nat
  BY <1>1, HoldersType, FS_Subset, FS_CardinalityType
<1>7. Cardinality(HoldersIn(TABLES, id, w)) = Cardinality(R) + Refs(TABLES[s], FDs, id, w)
  BY HoldersSplit
<1>8. /\ Count(POOL[id], w) = Cardinality(HoldersIn(TABLES, id, w)) + lost[id][w]
      /\ lost[id][w] \in Nat
  BY HoldersAreCounted
<1> HIDE DEF R
<1> QED BY <1>2, <1>3, <1>5, <1>6, <1>7, <1>8

(* The counts after clone_slot and after close.                            *)
LEMMA CloneCounts ==
    ASSUME FdInv, NEW s \in FdSlots, NEW S \in SUBSET FDs, NEW id \in Ids
    PROVE  /\ PipeOK(CloneEnds(POOL, TABLES[s], S)[id])
           /\ \A w \in BOOLEAN : Count(CloneEnds(POOL, TABLES[s], S)[id], w) =
                                   Count(POOL[id], w) + Refs(TABLES[s], S, id, w)
<1> DEFINE n(w) == Refs(TABLES[s], S, id, w)
           q == Opened(POOL[id], n(FALSE), n(TRUE))
<1>1. CloneEnds(POOL, TABLES[s], S)[id] = q
  BY DEF CloneEnds
<1>2. PipeOK(POOL[id])
  BY DEF FdInv, PipesOK
<1>3. \A w \in BOOLEAN : n(w) \in Nat /\ n(w) <= Count(POOL[id], w)
  BY RefsWithinCounts
<1>4. \A w \in BOOLEAN : POOL[id].st = "None" => Count(POOL[id], w) = 0
  BY <1>2, CountType
<1> HIDE DEF n
<1>5. \A w \in BOOLEAN : n(w) \in Nat /\ (POOL[id].st = "None" => n(w) = 0)
  BY <1>3, <1>4
<1>6. n(FALSE) \in Nat /\ n(TRUE) \in Nat /\ (POOL[id].st = "None" => n(FALSE) = 0 /\ n(TRUE) = 0)
  BY <1>5, Zenon
<1>7. PipeOK(q) /\ q.readers = POOL[id].readers + n(FALSE) /\ q.writers = POOL[id].writers + n(TRUE)
  BY <1>2, <1>6, OpenedPipe, ZenonT(60)
<1> HIDE DEF q
<1>8. \A w \in BOOLEAN : Count(q, w) = Count(POOL[id], w) + n(w)
  BY <1>7, Zenon DEF Count
<1> QED BY <1>1, <1>7, <1>8 DEF n

LEMMA CloseCounts ==
    ASSUME FdInv, NEW s \in FdSlots, NEW S \in SUBSET FDs, NEW id \in Ids,
           NEW pool, PipeOK(pool[id]),
           \A w \in BOOLEAN : Count(pool[id], w) >= Count(POOL[id], w)
    PROVE  /\ PipeOK(CloseEnds(pool, TABLES[s], S)[id])
           /\ \A w \in BOOLEAN : Count(CloseEnds(pool, TABLES[s], S)[id], w) =
                                   Count(pool[id], w) - Refs(TABLES[s], S, id, w)
<1> DEFINE n(w) == Refs(TABLES[s], S, id, w)
           q == Closed(pool[id], n(FALSE), n(TRUE))
<1>1. CloseEnds(pool, TABLES[s], S)[id] = q
  BY DEF CloseEnds
<1>2. PipeOK(POOL[id])
  BY DEF FdInv, PipesOK
<1>3. \A w \in BOOLEAN : n(w) \in Nat /\ n(w) <= Count(POOL[id], w)
  BY RefsWithinCounts
<1>4. \A w \in BOOLEAN : Count(POOL[id], w) \in Nat /\ Count(pool[id], w) \in Nat
  BY <1>2, CountType
<1> HIDE DEF n
<1>5. \A w \in BOOLEAN : n(w) \in Nat /\ n(w) <= Count(pool[id], w)
  BY <1>3, <1>4
<1>6. n(FALSE) \in Nat /\ n(TRUE) \in Nat /\ n(FALSE) <= pool[id].readers /\ n(TRUE) <= pool[id].writers
  BY <1>5, Zenon DEF Count
<1>7. PipeOK(q) /\ q.readers = pool[id].readers - n(FALSE) /\ q.writers = pool[id].writers - n(TRUE)
  BY <1>6, ClosedPipe, ZenonT(60)
<1> HIDE DEF q
<1>8. \A w \in BOOLEAN : Count(q, w) = Count(pool[id], w) - n(w)
  BY <1>7, Zenon DEF Count
<1> QED BY <1>1, <1>7, <1>8 DEF n

(* The counts, once they are right for each end.                           *)
LEMMA EndsCountedNext ==
    ASSUME \A id \in Ids : \A w \in BOOLEAN :
              Count(POOL'[id], w) = Cardinality(HoldersIn(TABLES', id, w)) + lost'[id][w]
    PROVE  EndsCounted'
<1> SUFFICES ASSUME NEW id \in Ids
             PROVE  /\ POOL'[id].readers = Cardinality(Holders(id, FALSE)') + lost'[id][FALSE]
                    /\ POOL'[id].writers = Cardinality(Holders(id, TRUE)') + lost'[id][TRUE]
  BY Zenon DEF EndsCounted
<1>1. /\ Holders(id, FALSE)' = HoldersIn(TABLES', id, FALSE)
      /\ Holders(id, TRUE)' = HoldersIn(TABLES', id, TRUE)
  BY DEF Holders, HoldersIn
<1>2. /\ Count(POOL'[id], FALSE) = Cardinality(HoldersIn(TABLES', id, FALSE)) + lost'[id][FALSE]
      /\ Count(POOL'[id], TRUE) = Cardinality(HoldersIn(TABLES', id, TRUE)) + lost'[id][TRUE]
  BY ZenonT(60)
<1>3. Count(POOL'[id], FALSE) = POOL'[id].readers /\ Count(POOL'[id], TRUE) = POOL'[id].writers
  BY DEF Count
<1> QED BY <1>1, <1>2, <1>3, Zenon

(* When one table changes, the holders change by what it held and holds.   *)
OthersKept(T, U, s) == \A q \in FdSlots \ {s} : U[q] = T[q]

LEMMA HoldersChange ==
    ASSUME NEW T, NEW U, NEW s \in FdSlots, OthersKept(T, U, s), NEW id, NEW w
    PROVE  Cardinality(HoldersIn(U, id, w)) =
              Cardinality(HoldersIn(T, id, w)) - Refs(T[s], FDs, id, w) + Refs(U[s], FDs, id, w)
<1> DEFINE n == Cardinality({h \in HoldersIn(T, id, w) : h[1] # s})
<1>2. {h \in HoldersIn(U, id, w) : h[1] # s} = {h \in HoldersIn(T, id, w) : h[1] # s}
  BY DEF OthersKept, HoldersIn
<1>3. Cardinality(HoldersIn(T, id, w)) = n + Refs(T[s], FDs, id, w)
  BY HoldersSplit
<1>4. Cardinality(HoldersIn(U, id, w)) = n + Refs(U[s], FDs, id, w)
  BY <1>2, HoldersSplit
<1>6. n \in Nat
  <2>1. {h \in HoldersIn(T, id, w) : h[1] # s} \in SUBSET HoldersIn(T, id, w)
    OBVIOUS
  <2> QED BY <2>1, HoldersType, FS_Subset, FS_CardinalityType
<1>7. Refs(T[s], FDs, id, w) \in Nat /\ Refs(U[s], FDs, id, w) \in Nat
  <2>1. FDs \in SUBSET FDs
    OBVIOUS
  <2> QED BY <2>1, RefsType, ZenonT(60)
<1> HIDE DEF n
<1> QED BY <1>3, <1>4, <1>6, <1>7

(* A step that changes one table and moves every count by the difference   *)
(* keeps the invariant.                                                    *)
CountsMove(s, u) ==
    \A id \in Ids :
       /\ PipeOK(POOL'[id])
       /\ \A w \in BOOLEAN : Count(POOL'[id], w) =
             Count(POOL[id], w) - Refs(TABLES[s], FDs, id, w) + Refs(u, FDs, id, w)

OneTable(s, u) ==
    /\ u \in [FDs -> Slot]
    /\ TABLES' = [TABLES EXCEPT ![s] = u]
    /\ UNCHANGED lost
    /\ state' \in [FdSlots -> {"Free", "Live", "Dead"}]
    /\ \A q \in FdSlots \ {s} : state'[q] = state[q]
    /\ state'[s] = "Free" => u = EmptyTable
    /\ POOL' = [id \in Ids |-> POOL'[id]]

LEMMA OneTableStep ==
    ASSUME FdInv, NEW s \in FdSlots, NEW u, OneTable(s, u), CountsMove(s, u)
    PROVE  FdInv'
<1>1. /\ TABLES' \in [FdSlots -> [FDs -> Slot]] /\ TABLES'[s] = u
      /\ OthersKept(TABLES, TABLES', s)
  BY DEF FdInv, FdTypeOK, OneTable, OthersKept
<1>2. PipesOK'
  BY DEF PipesOK, CountsMove
<1>3. FdTypeOK'
  <2>1. \A id \in Ids : POOL'[id] \in [st : {"None", "Writable", "Drained"}, readers : Nat, writers : Nat]
    BY DEF PipeOK, CountsMove
  <2>2. POOL' \in [Ids -> [st : {"None", "Writable", "Drained"}, readers : Nat, writers : Nat]]
    BY <2>1 DEF OneTable
  <2> QED BY <1>1, <2>2 DEF FdInv, FdTypeOK, OneTable
<1>4. FreeTablesEmpty'
  BY <1>1 DEF FdInv, FreeTablesEmpty, OthersKept, OneTable
<1>5. EndsCounted'
  <2>1. ASSUME NEW id \in Ids, NEW w \in BOOLEAN
        PROVE  Count(POOL'[id], w) = Cardinality(HoldersIn(TABLES', id, w)) + lost'[id][w]
    <3>1. FDs \in SUBSET FDs
      OBVIOUS
    <3>2. Refs(TABLES[s], FDs, id, w) \in Nat /\ Refs(u, FDs, id, w) \in Nat
      BY <3>1, RefsType, Zenon
    <3>3. Cardinality(HoldersIn(TABLES', id, w)) = Cardinality(HoldersIn(TABLES, id, w))
                     - Refs(TABLES[s], FDs, id, w) + Refs(TABLES'[s], FDs, id, w)
      BY <1>1, HoldersChange
    <3>4. Cardinality(HoldersIn(TABLES, id, w)) \in Nat
      BY HoldersType
    <3>5. Count(POOL[id], w) = Cardinality(HoldersIn(TABLES, id, w)) + lost[id][w] /\ lost[id][w] \in Nat
      BY HoldersAreCounted
    <3>6. Count(POOL'[id], w) = Count(POOL[id], w) - Refs(TABLES[s], FDs, id, w) + Refs(u, FDs, id, w)
      BY DEF CountsMove
    <3>7. lost'[id][w] = lost[id][w]
      BY DEF OneTable
    <3> QED BY <1>1, <3>2, <3>3, <3>4, <3>5, <3>6, <3>7
  <2> QED BY <2>1, EndsCountedNext
<1> QED BY <1>2, <1>3, <1>4, <1>5 DEF FdInv

LEMMA LowestOf ==
    ASSUME NEW S \in SUBSET Nat, S # {}
    PROVE  Lowest(S) \in S
<1>1. PICK x \in S : \A y \in S : <<y, x>> \notin OpToRel(<, Nat)
  BY NatLessThanWellFounded, WFMin, Zenon
<1>2. ASSUME NEW y \in S PROVE x <= y
  <2>1. <<y, x>> \in Nat \X Nat /\ <<y, x>>[1] = y /\ <<y, x>>[2] = x
    OBVIOUS
  <2>2. ~(y < x)
    BY <1>1, <2>1, Zenon DEF OpToRel
  <2> QED BY <2>1, <2>2
<1> QED BY <1>2, Zenon DEF Lowest

LEMMA NothingHeld ==
    ASSUME NEW t, NEW S \in SUBSET FDs, \A fd \in S : t[fd] \in {NoFile, Other}, NEW id, NEW w
    PROVE  Refs(t, S, id, w) = 0
<1>1. End(id, w) # NoFile /\ End(id, w) # Other
  BY DEF End, NoFile, Other
<1>2. {fd \in S : t[fd] = End(id, w)} = {}
  BY <1>1
<1> QED BY <1>2, FS_EmptySet DEF Refs

-----------------------------------------------------------------------------
(* Each operation keeps the invariant.                                     *)

LEMMA TableFacts ==
    ASSUME FdInv, NEW s \in FdSlots
    PROVE  /\ TABLES[s] \in [FDs -> Slot]
           /\ FreeFds(TABLES[s]) \in SUBSET FDs
           /\ FDs \in SUBSET FDs /\ FDs \in SUBSET Nat
           /\ NoFile \in Slot /\ Other \in Slot
           /\ POOL = [id \in Ids |-> POOL[id]]
           /\ state \in [FdSlots -> {"Free", "Live", "Dead"}]
<1>1. FDs \in SUBSET Nat
  BY FdAssumption DEF FDs
<1> QED BY <1>1 DEF FdInv, FdTypeOK, FreeFds, Slot

(* What the counts of one end become when its table does not change.       *)
LEMMA SameCounts ==
    ASSUME FdInv, NEW s \in FdSlots, UNCHANGED POOL,
           NEW u, \A id \in Ids : \A w \in BOOLEAN : Refs(u, FDs, id, w) = Refs(TABLES[s], FDs, id, w)
    PROVE  CountsMove(s, u)
<1> SUFFICES ASSUME NEW id \in Ids
             PROVE  /\ PipeOK(POOL[id])
                    /\ \A w \in BOOLEAN : Count(POOL[id], w) =
                          Count(POOL[id], w) - Refs(TABLES[s], FDs, id, w) + Refs(TABLES[s], FDs, id, w)
  BY DEF CountsMove
<1>1. PipeOK(POOL[id])
  BY DEF FdInv, PipesOK
<1>2. ASSUME NEW w \in BOOLEAN
      PROVE  Count(POOL[id], w) \in Nat /\ Refs(TABLES[s], FDs, id, w) \in Nat
  BY <1>1, CountType, RefsType, TableFacts, Zenon
<1> QED BY <1>1, <1>2

LEMMA OpenKeeps == ASSUME FdInv, NEW s \in FdSlots, open(s) PROVE FdInv'
<1> DEFINE l == Lowest(FreeFds(TABLES[s]))
           u == [TABLES[s] EXCEPT ![l] = Other]
<1>1. FreeFds(TABLES[s]) # {}
  BY DEF open
<1>2. l \in FDs /\ TABLES[s][l] = NoFile
  <2>1. l \in FreeFds(TABLES[s])
    BY <1>1, TableFacts, LowestOf
  <2> QED BY <2>1 DEF FreeFds
<1>3. OneTable(s, u)
  <2>1. TABLES' = [TABLES EXCEPT ![s] = u]
    BY DEF open, FdInv, FdTypeOK
  <2>2. u \in [FDs -> Slot] /\ state[s] # "Free"
    BY <1>2, TableFacts DEF open
  <2> HIDE DEF u
  <2> QED BY <2>1, <2>2, TableFacts, ZenonT(60) DEF open, OneTable
<1>4. ASSUME NEW id \in Ids, NEW w \in BOOLEAN
      PROVE  Refs(u, FDs, id, w) = Refs(TABLES[s], FDs, id, w)
  <2>1. Refs(TABLES[s], {l}, id, w) = 0 /\ Other # End(id, w)
    BY <1>2, NothingHeld DEF Other, End
  <2>2. Refs(u, FDs, id, w) = Refs(TABLES[s], FDs, id, w) - Refs(TABLES[s], {l}, id, w)
                                 + (IF Other = End(id, w) THEN 1 ELSE 0)
    <3>1. Put(TABLES[s], u, l, Other)
      BY DEF Put
    <3> HIDE DEF u, l
    <3> QED BY <1>2, <3>1, TableFacts, RefsChange
  <2>3. Refs(TABLES[s], FDs, id, w) \in Nat
    BY TableFacts, RefsType, Zenon
  <2> HIDE DEF u, l
  <2> QED BY <2>1, <2>2, <2>3
<1> HIDE DEF u
<1>5. CountsMove(s, u)
  BY <1>4, SameCounts DEF open
<1> QED BY <1>3, <1>5, OneTableStep

LEMMA CloseKeeps == ASSUME FdInv, NEW s \in FdSlots, NEW fd \in FDs, close(s, fd) PROVE FdInv'
<1> DEFINE u == [TABLES[s] EXCEPT ![fd] = NoFile]
<1>1. OneTable(s, u)
  <2>1. TABLES' = [TABLES EXCEPT ![s] = u]
    BY DEF close, FdInv, FdTypeOK
  <2>2. u \in [FDs -> Slot] /\ state[s] # "Free"
    BY TableFacts DEF close
  <2> HIDE DEF u
  <2>3. POOL' = [id \in Ids |-> POOL'[id]]
    BY DEF close, CloseEnds
  <2> QED BY <2>1, <2>2, <2>3, TableFacts, ZenonT(60) DEF close, OneTable
<1>2. CountsMove(s, u)
  <2> SUFFICES ASSUME NEW id \in Ids
               PROVE  /\ PipeOK(POOL'[id])
                      /\ \A w \in BOOLEAN : Count(POOL'[id], w) =
                           Count(POOL[id], w) - Refs(TABLES[s], FDs, id, w) + Refs(u, FDs, id, w)
    BY DEF CountsMove
  <2>1. PipeOK(POOL[id])
    BY DEF FdInv, PipesOK
  <2>2. \A w \in BOOLEAN : Count(POOL[id], w) \in Nat /\ Count(POOL[id], w) >= Count(POOL[id], w)
    BY <2>1, CountType
  <2>3. {fd} \in SUBSET FDs
    OBVIOUS
  <2>4. /\ PipeOK(CloseEnds(POOL, TABLES[s], {fd})[id])
        /\ \A w \in BOOLEAN : Count(CloseEnds(POOL, TABLES[s], {fd})[id], w) =
                                Count(POOL[id], w) - Refs(TABLES[s], {fd}, id, w)
    BY <2>1, <2>2, <2>3, CloseCounts, Zenon
  <2>5. POOL' = CloseEnds(POOL, TABLES[s], {fd})
    BY DEF close
  <2>6. ASSUME NEW w \in BOOLEAN
        PROVE  /\ Refs(u, FDs, id, w) = Refs(TABLES[s], FDs, id, w) - Refs(TABLES[s], {fd}, id, w)
                                          + (IF NoFile = End(id, w) THEN 1 ELSE 0)
               /\ NoFile # End(id, w)
               /\ Refs(TABLES[s], FDs, id, w) \in Nat /\ Refs(TABLES[s], {fd}, id, w) \in Nat
    <3>1. NoFile # End(id, w)
      BY DEF NoFile, End
    <3>2. Refs(TABLES[s], FDs, id, w) \in Nat
      BY TableFacts, RefsType, Zenon
    <3>3. Refs(TABLES[s], {fd}, id, w) \in Nat
      BY <2>3, RefsType, Zenon
    <3>4. Refs(u, FDs, id, w) = Refs(TABLES[s], FDs, id, w) - Refs(TABLES[s], {fd}, id, w)
                                          + (IF NoFile = End(id, w) THEN 1 ELSE 0)
      <4>1. Put(TABLES[s], u, fd, NoFile)
        BY DEF Put
      <4> HIDE DEF u
      <4> QED BY <4>1, TableFacts, RefsChange
    <3> HIDE DEF u
    <3> QED BY <3>1, <3>2, <3>3, <3>4
  <2> HIDE DEF u
  <2>7. ASSUME NEW w \in BOOLEAN
        PROVE  Count(POOL'[id], w) = Count(POOL[id], w) - Refs(TABLES[s], FDs, id, w) + Refs(u, FDs, id, w)
    <3>1. Count(POOL'[id], w) = Count(POOL[id], w) - Refs(TABLES[s], {fd}, id, w)
      BY <2>4, <2>5
    <3>2. Count(POOL[id], w) \in Nat
      BY <2>2
    <3>3. /\ Refs(u, FDs, id, w) = Refs(TABLES[s], FDs, id, w) - Refs(TABLES[s], {fd}, id, w) + 0
          /\ Refs(TABLES[s], FDs, id, w) \in Nat /\ Refs(TABLES[s], {fd}, id, w) \in Nat
      BY <2>6, Zenon
    <3> QED BY <3>1, <3>2, <3>3
  <2> QED BY <2>4, <2>5, <2>7
<1> HIDE DEF u
<1> QED BY <1>1, <1>2, OneTableStep

LEMMA Dup2Keeps ==
    ASSUME FdInv, NEW s \in FdSlots, NEW oldfd \in FDs, NEW newfd \in FDs, dup2(s, oldfd, newfd)
    PROVE  FdInv'
<1> DEFINE v == TABLES[s][oldfd]
           u == [TABLES[s] EXCEPT ![newfd] = v]
           pool == CloneEnds(POOL, TABLES[s], {oldfd})
<1>1. v \in Slot
  BY TableFacts
<1>2. OneTable(s, u)
  <2>1. TABLES' = [TABLES EXCEPT ![s] = u]
    BY DEF dup2, FdInv, FdTypeOK
  <2>2. u \in [FDs -> Slot] /\ state[s] # "Free"
    BY <1>1, TableFacts DEF dup2
  <2> HIDE DEF u
  <2>3. POOL' = [id \in Ids |-> POOL'[id]]
    BY DEF dup2, CloseEnds
  <2> QED BY <2>1, <2>2, <2>3, TableFacts, ZenonT(60) DEF dup2, OneTable
<1>3. CountsMove(s, u)
  <2> SUFFICES ASSUME NEW id \in Ids
               PROVE  /\ PipeOK(POOL'[id])
                      /\ \A w \in BOOLEAN : Count(POOL'[id], w) =
                           Count(POOL[id], w) - Refs(TABLES[s], FDs, id, w) + Refs(u, FDs, id, w)
    BY DEF CountsMove
  <2>1. PipeOK(POOL[id])
    BY DEF FdInv, PipesOK
  <2>2. {oldfd} \in SUBSET FDs /\ {newfd} \in SUBSET FDs
    OBVIOUS
  <2>3. /\ PipeOK(pool[id])
        /\ \A w \in BOOLEAN : Count(pool[id], w) = Count(POOL[id], w) + Refs(TABLES[s], {oldfd}, id, w)
    BY <2>2, CloneCounts
  <2>4. \A w \in BOOLEAN : Count(POOL[id], w) \in Nat /\ Refs(TABLES[s], {oldfd}, id, w) \in Nat
    BY <2>1, <2>2, CountType, RefsType, Zenon
  <2>5. POOL' = CloseEnds(pool, TABLES[s], {newfd})
    BY DEF dup2
  <2> HIDE DEF pool
  <2>6. \A w \in BOOLEAN : Count(pool[id], w) >= Count(POOL[id], w)
    <3> TAKE w \in BOOLEAN
    <3>1. PICK c \in Nat, k \in Nat :
             Count(POOL[id], w) = c /\ Refs(TABLES[s], {oldfd}, id, w) = k
      BY <2>4, Zenon
    <3>2. Count(pool[id], w) = c + k
      BY <2>3, <3>1, Zenon
    <3> QED BY <3>1, <3>2
  <2>7. /\ PipeOK(CloseEnds(pool, TABLES[s], {newfd})[id])
        /\ \A w \in BOOLEAN : Count(CloseEnds(pool, TABLES[s], {newfd})[id], w) =
                                Count(pool[id], w) - Refs(TABLES[s], {newfd}, id, w)
    BY <2>2, <2>3, <2>6, CloseCounts, ZenonT(60)
  <2>8. ASSUME NEW w \in BOOLEAN
        PROVE  /\ Refs(u, FDs, id, w) = Refs(TABLES[s], FDs, id, w) - Refs(TABLES[s], {newfd}, id, w)
                                          + Refs(TABLES[s], {oldfd}, id, w)
               /\ Refs(TABLES[s], FDs, id, w) \in Nat /\ Refs(TABLES[s], {newfd}, id, w) \in Nat
    <3>1. Refs(TABLES[s], {oldfd}, id, w) = IF v = End(id, w) THEN 1 ELSE 0
      BY RefsOne
    <3>2. Refs(TABLES[s], FDs, id, w) \in Nat
      BY TableFacts, RefsType, Zenon
    <3>3. Refs(TABLES[s], {newfd}, id, w) \in Nat
      BY <2>2, RefsType, ZenonT(60)
    <3> HIDE DEF v
    <3>4. Refs(u, FDs, id, w) = Refs(TABLES[s], FDs, id, w) - Refs(TABLES[s], {newfd}, id, w)
                                          + (IF v = End(id, w) THEN 1 ELSE 0)
      <4>1. Put(TABLES[s], u, newfd, v)
        BY DEF Put
      <4> HIDE DEF u
      <4> QED BY <4>1, TableFacts, RefsChange
    <3> HIDE DEF u
    <3> QED BY <3>1, <3>2, <3>3, <3>4
  <2> HIDE DEF u
  <2>9. ASSUME NEW w \in BOOLEAN
        PROVE  Count(POOL'[id], w) = Count(POOL[id], w) - Refs(TABLES[s], FDs, id, w) + Refs(u, FDs, id, w)
    <3>1. Count(POOL'[id], w) = Count(pool[id], w) - Refs(TABLES[s], {newfd}, id, w)
      BY <2>5, <2>7
    <3>2. /\ Count(pool[id], w) = Count(POOL[id], w) + Refs(TABLES[s], {oldfd}, id, w)
          /\ Count(POOL[id], w) \in Nat /\ Refs(TABLES[s], {oldfd}, id, w) \in Nat
      BY <2>3, <2>4
    <3>3. /\ Refs(u, FDs, id, w) = Refs(TABLES[s], FDs, id, w) - Refs(TABLES[s], {newfd}, id, w)
                                      + Refs(TABLES[s], {oldfd}, id, w)
          /\ Refs(TABLES[s], FDs, id, w) \in Nat /\ Refs(TABLES[s], {newfd}, id, w) \in Nat
      BY <2>8, ZenonT(60)
    <3> QED BY <3>1, <3>2, <3>3
  <2> QED BY <2>5, <2>7, <2>9
<1> HIDE DEF u
<1> QED BY <1>2, <1>3, OneTableStep

LEMMA DupKeeps ==
    ASSUME FdInv, NEW s \in FdSlots, NEW fd \in FDs, dup(s, fd), FreeFds(TABLES[s]) # {}
    PROVE  FdInv'
<1> DEFINE v == TABLES[s][fd]
           l == Lowest(FreeFds(TABLES[s]))
           u == [TABLES[s] EXCEPT ![l] = v]
<1>1. v \in Slot
  BY TableFacts
<1>2. l \in FDs /\ TABLES[s][l] = NoFile
  <2>1. l \in FreeFds(TABLES[s])
    BY TableFacts, LowestOf
  <2> QED BY <2>1 DEF FreeFds
<1>3. OneTable(s, u)
  <2>1. TABLES' = [TABLES EXCEPT ![s] = u]
    BY DEF dup, FdInv, FdTypeOK
  <2>2. u \in [FDs -> Slot] /\ state[s] # "Free"
    BY <1>1, <1>2, TableFacts DEF dup
  <2> HIDE DEF u
  <2>3. POOL' = [id \in Ids |-> POOL'[id]]
    BY DEF dup, CloneEnds
  <2> QED BY <2>1, <2>2, <2>3, TableFacts DEF dup, OneTable
<1>4. CountsMove(s, u)
  <2> SUFFICES ASSUME NEW id \in Ids
               PROVE  /\ PipeOK(POOL'[id])
                      /\ \A w \in BOOLEAN : Count(POOL'[id], w) =
                           Count(POOL[id], w) - Refs(TABLES[s], FDs, id, w) + Refs(u, FDs, id, w)
    BY DEF CountsMove
  <2>1. {fd} \in SUBSET FDs /\ {l} \in SUBSET FDs
    BY <1>2
  <2>2. /\ PipeOK(CloneEnds(POOL, TABLES[s], {fd})[id])
        /\ \A w \in BOOLEAN : Count(CloneEnds(POOL, TABLES[s], {fd})[id], w) =
                                Count(POOL[id], w) + Refs(TABLES[s], {fd}, id, w)
    BY <2>1, CloneCounts, ZenonT(60)
  <2>3. POOL' = CloneEnds(POOL, TABLES[s], {fd})
    BY DEF dup
  <2>4. PipeOK(POOL[id])
    BY DEF FdInv, PipesOK
  <2>5. ASSUME NEW w \in BOOLEAN
        PROVE  /\ Refs(u, FDs, id, w) = Refs(TABLES[s], FDs, id, w) + Refs(TABLES[s], {fd}, id, w)
               /\ Refs(TABLES[s], FDs, id, w) \in Nat /\ Refs(TABLES[s], {fd}, id, w) \in Nat
               /\ Count(POOL[id], w) \in Nat
    <3>1. Refs(TABLES[s], {fd}, id, w) = IF v = End(id, w) THEN 1 ELSE 0
      BY RefsOne
    <3>2. Refs(TABLES[s], FDs, id, w) \in Nat /\ Count(POOL[id], w) \in Nat
      BY <2>4, TableFacts, RefsType, CountType, ZenonT(60)
    <3>3. Refs(TABLES[s], {l}, id, w) = 0
      BY <1>2, <2>1, NothingHeld
    <3> HIDE DEF v, l
    <3>4. Refs(u, FDs, id, w) = Refs(TABLES[s], FDs, id, w) - Refs(TABLES[s], {l}, id, w)
                                          + (IF v = End(id, w) THEN 1 ELSE 0)
      <4>1. Put(TABLES[s], u, l, v)
        BY DEF Put
      <4> HIDE DEF u
      <4> QED BY <1>2, <4>1, TableFacts, RefsChange
    <3> HIDE DEF u
    <3> QED BY <3>1, <3>2, <3>3, <3>4
  <2> HIDE DEF u
  <2>6. ASSUME NEW w \in BOOLEAN
        PROVE  Count(POOL'[id], w) = Count(POOL[id], w) - Refs(TABLES[s], FDs, id, w) + Refs(u, FDs, id, w)
    <3>1. Count(POOL'[id], w) = Count(POOL[id], w) + Refs(TABLES[s], {fd}, id, w)
      BY <2>2, <2>3
    <3>2. /\ Refs(u, FDs, id, w) = Refs(TABLES[s], FDs, id, w) + Refs(TABLES[s], {fd}, id, w)
          /\ Refs(TABLES[s], FDs, id, w) \in Nat /\ Refs(TABLES[s], {fd}, id, w) \in Nat
          /\ Count(POOL[id], w) \in Nat
      BY <2>5, ZenonT(60)
    <3> QED BY <3>1, <3>2
  <2> QED BY <2>2, <2>3, <2>6, SMTT(30)
<1> HIDE DEF u
<1> QED BY <1>3, <1>4, OneTableStep

(* A full table: the reference is counted and no descriptor installed.     *)
LEMMA LostDupKeeps ==
    ASSUME FdInv, NEW s \in FdSlots, NEW fd \in FDs, dup(s, fd), FreeFds(TABLES[s]) = {}
    PROVE  FdInv'
<1> DEFINE e == TABLES[s][fd]
<1>1. {fd} \in SUBSET FDs
  OBVIOUS
<1>2. /\ POOL' = CloneEnds(POOL, TABLES[s], {fd})
      /\ lost' = IF e = Other THEN lost ELSE [lost EXCEPT ![e[2]][e[3]] = @ + 1]
      /\ e # Other => lost[e[2]][e[3]] < MaxLost
      /\ TABLES' = TABLES /\ state' = state
      /\ e # NoFile
  BY DEF dup
<1>3. \A id \in Ids :
         /\ PipeOK(POOL'[id])
         /\ \A w \in BOOLEAN : Count(POOL'[id], w) = Count(POOL[id], w) + Refs(TABLES[s], {fd}, id, w)
  BY <1>1, <1>2, CloneCounts
<1>4. e \in Slot /\ lost \in [Ids -> [BOOLEAN -> 0 .. MaxLost]]
  BY TableFacts DEF FdInv, FdTypeOK
<1>5. lost' \in [Ids -> [BOOLEAN -> 0 .. MaxLost]]
      /\ \A id \in Ids : \A w \in BOOLEAN : lost'[id][w] = lost[id][w] + IF e = End(id, w) THEN 1 ELSE 0
  <2> HIDE DEF e
  <2>1. CASE e = Other
    <3>1. \A id \in Ids : \A w \in BOOLEAN : e # End(id, w)
      BY <2>1 DEF Other, End
    <3>2. \A id \in Ids : \A w \in BOOLEAN : lost[id][w] \in Nat
      BY <1>4, FdAssumption
    <3> QED BY <1>2, <1>4, <2>1, <3>1, <3>2
  <2>2. CASE e # Other
    <3>1. PICK i \in Ids, v \in BOOLEAN : e = End(i, v)
      BY <1>2, <1>4, <2>2 DEF Slot
    <3>2. e[2] = i /\ e[3] = v
      BY <3>1 DEF End
    <3>3. lost' = [lost EXCEPT ![i][v] = @ + 1] /\ lost[i][v] < MaxLost
      BY <1>2, <2>2, <3>2
    <3>4. \A id \in Ids : \A w \in BOOLEAN : e = End(id, w) <=> id = i /\ w = v
      BY <3>1 DEF End
    <3>5. lost[i][v] \in 0 .. MaxLost /\ lost[i][v] + 1 \in 0 .. MaxLost
      BY <1>4, <3>3, FdAssumption
    <3>6. \A id \in Ids : \A w \in BOOLEAN : lost[id][w] \in Nat
      BY <1>4, FdAssumption
    <3> QED BY <1>4, <3>3, <3>4, <3>5, <3>6
  <2> QED BY <2>1, <2>2
<1>6. EndsCounted'
  <2>1. ASSUME NEW id \in Ids, NEW w \in BOOLEAN
        PROVE  Count(POOL'[id], w) = Cardinality(HoldersIn(TABLES', id, w)) + lost'[id][w]
    <3>1. Refs(TABLES[s], {fd}, id, w) = IF e = End(id, w) THEN 1 ELSE 0
      BY RefsOne
    <3>2. Cardinality(HoldersIn(TABLES, id, w)) \in Nat
      BY HoldersType
    <3>3. Count(POOL[id], w) = Cardinality(HoldersIn(TABLES, id, w)) + lost[id][w] /\ lost[id][w] \in Nat
      BY HoldersAreCounted
    <3> HIDE DEF e
    <3>4. lost'[id][w] = lost[id][w] + IF e = End(id, w) THEN 1 ELSE 0
      BY <1>5
    <3>5. Count(POOL'[id], w) = Count(POOL[id], w) + Refs(TABLES[s], {fd}, id, w)
      BY <1>3
    <3>6. HoldersIn(TABLES', id, w) = HoldersIn(TABLES, id, w)
      BY <1>2
    <3> QED BY <3>1, <3>2, <3>3, <3>4, <3>5, <3>6
  <2> QED BY <2>1, EndsCountedNext
<1>7. PipesOK'
  BY <1>3 DEF PipesOK
<1>8. FdTypeOK'
  <2>1. POOL' = [id \in Ids |-> POOL'[id]]
    BY <1>2 DEF CloneEnds
  <2>2. \A id \in Ids : POOL'[id] \in [st : {"None", "Writable", "Drained"}, readers : Nat, writers : Nat]
    BY <1>3 DEF PipeOK
  <2>3. POOL' \in [Ids -> [st : {"None", "Writable", "Drained"}, readers : Nat, writers : Nat]]
    BY <2>1, <2>2
  <2> HIDE DEF e
  <2> QED BY <1>2, <1>5, <2>3, ZenonT(60) DEF FdInv, FdTypeOK
<1>9. FreeTablesEmpty'
  BY <1>2 DEF FdInv, FreeTablesEmpty
<1> QED BY <1>6, <1>7, <1>8, <1>9 DEF FdInv

(* clear_table on the empty table of a free slot changes no pipe.          *)
LEMMA ClearNothing ==
    ASSUME FdInv, NEW s \in FdSlots, state[s] = "Free"
    PROVE  /\ CloseEnds(POOL, TABLES[s], FDs) = POOL
           /\ \A id, w : Refs(TABLES[s], FDs, id, w) = 0
<1>1. TABLES[s] = EmptyTable
  BY DEF FdInv, FreeTablesEmpty
<1>2. \A fd \in FDs : TABLES[s][fd] \in {NoFile, Other}
  BY <1>1 DEF EmptyTable
<1>3. ASSUME NEW id, NEW w PROVE Refs(TABLES[s], FDs, id, w) = 0
  BY <1>2, TableFacts, NothingHeld
<1>4. \A id \in Ids : Closed(POOL[id], 0, 0) = POOL[id]
  BY DEF Closed
<1>5. CloseEnds(POOL, TABLES[s], FDs) = [id \in Ids |-> POOL[id]]
  BY <1>3, <1>4, Zenon DEF CloseEnds
<1> QED BY <1>3, <1>5, TableFacts

LEMMA ForkKeeps ==
    ASSUME FdInv, NEW s \in FdSlots, NEW child \in FdSlots, fork(s, child)
    PROVE  FdInv'
<1> DEFINE u == TABLES[s]
<1>1. /\ state[child] = "Free"
      /\ state' = [state EXCEPT ![child] = "Live"]
      /\ POOL' = CloneEnds(CloseEnds(POOL, TABLES[child], FDs), TABLES[s], FDs)
      /\ TABLES' = [TABLES EXCEPT ![child] = u]
      /\ UNCHANGED lost
  BY DEF fork
<1>2. POOL' = CloneEnds(POOL, TABLES[s], FDs)
  BY <1>1, ClearNothing
<1>3. OneTable(child, u)
  <2>1. POOL' = [id \in Ids |-> POOL'[id]]
    BY <1>2 DEF CloneEnds
  <2>2. u \in [FDs -> Slot] /\ state \in [FdSlots -> {"Free", "Live", "Dead"}]
    BY TableFacts
  <2> HIDE DEF u
  <2>3. /\ state' \in [FdSlots -> {"Free", "Live", "Dead"}]
        /\ \A q \in FdSlots \ {child} : state'[q] = state[q]
        /\ state'[child] # "Free"
    BY <1>1, <2>2
  <2> QED BY <1>1, <2>1, <2>2, <2>3 DEF OneTable
<1>4. ASSUME NEW id \in Ids
      PROVE  /\ PipeOK(POOL'[id])
             /\ \A w \in BOOLEAN : Count(POOL'[id], w) = Count(POOL[id], w) + Refs(u, FDs, id, w)
  BY <1>2, TableFacts, CloneCounts, Zenon
<1>5. ASSUME NEW id \in Ids, NEW w \in BOOLEAN
      PROVE  Count(POOL'[id], w) =
                Count(POOL[id], w) - Refs(TABLES[child], FDs, id, w) + Refs(u, FDs, id, w)
  <2>1. PipeOK(POOL[id])
    BY DEF FdInv, PipesOK
  <2>2. Count(POOL[id], w) \in Nat /\ Refs(u, FDs, id, w) \in Nat
    BY <2>1, CountType, TableFacts, RefsType, ZenonT(60)
  <2>3. Refs(TABLES[child], FDs, id, w) = 0
    BY <1>1, ClearNothing
  <2>4. Count(POOL'[id], w) = Count(POOL[id], w) + Refs(u, FDs, id, w)
    BY <1>4
  <2> HIDE DEF u
  <2> QED BY <2>2, <2>3, <2>4
<1>6. CountsMove(child, u)
  BY <1>4, <1>5 DEF CountsMove
<1> HIDE DEF u
<1> QED BY <1>3, <1>6, OneTableStep

LEMMA SpawnKeeps == ASSUME FdInv, NEW s \in FdSlots, spawn_user(s) PROVE FdInv'
<1>1. POOL' = POOL
  BY ClearNothing DEF spawn_user
<1>2. OneTable(s, ConsoleFds)
  <2>1. ConsoleFds \in [FDs -> Slot]
    BY DEF ConsoleFds, Slot
  <2>2. /\ state' \in [FdSlots -> {"Free", "Live", "Dead"}]
        /\ \A q \in FdSlots \ {s} : state'[q] = state[q]
        /\ state'[s] # "Free"
    BY TableFacts DEF spawn_user
  <2> QED BY <1>1, <2>1, <2>2, TableFacts DEF OneTable, spawn_user
<1>3. ASSUME NEW id \in Ids, NEW w \in BOOLEAN
      PROVE  Refs(ConsoleFds, FDs, id, w) = Refs(TABLES[s], FDs, id, w)
  <2>1. Refs(TABLES[s], FDs, id, w) = 0
    BY ClearNothing DEF spawn_user
  <2>2. \A fd \in FDs : ConsoleFds[fd] \in {NoFile, Other}
    BY DEF ConsoleFds
  <2>3. Refs(ConsoleFds, FDs, id, w) = 0
    BY <2>2, TableFacts, NothingHeld
  <2> QED BY <2>1, <2>3
<1>4. CountsMove(s, ConsoleFds)
  BY <1>1, <1>3, SameCounts
<1> QED BY <1>2, <1>4, OneTableStep

LEMMA ExitKeeps == ASSUME FdInv, NEW s \in FdSlots, exit_current_fds(s) PROVE FdInv'
<1>1. OneTable(s, TABLES[s])
  <2>1. TABLES' = [TABLES EXCEPT ![s] = TABLES[s]]
    BY DEF FdInv, FdTypeOK, exit_current_fds
  <2>2. /\ state' \in [FdSlots -> {"Free", "Live", "Dead"}]
        /\ \A q \in FdSlots \ {s} : state'[q] = state[q]
        /\ state'[s] # "Free"
    BY TableFacts DEF exit_current_fds
  <2> QED BY <2>1, <2>2, TableFacts, Zenon DEF OneTable, exit_current_fds
<1>2. CountsMove(s, TABLES[s])
  BY SameCounts DEF exit_current_fds
<1> QED BY <1>1, <1>2, OneTableStep

LEMMA ReapKeeps == ASSUME FdInv, NEW s \in FdSlots, reap_dead_child(s) PROVE FdInv'
<1>1. POOL' = CloseEnds(POOL, TABLES[s], FDs)
  BY DEF reap_dead_child
<1>2. OneTable(s, EmptyTable)
  <2>1. EmptyTable \in [FDs -> Slot]
    BY DEF EmptyTable, Slot
  <2>2. /\ state' \in [FdSlots -> {"Free", "Live", "Dead"}]
        /\ \A q \in FdSlots \ {s} : state'[q] = state[q]
    BY TableFacts DEF reap_dead_child
  <2>3. POOL' = [id \in Ids |-> POOL'[id]]
    BY <1>1 DEF CloseEnds
  <2> QED BY <2>1, <2>2, <2>3 DEF OneTable, reap_dead_child
<1>3. ASSUME NEW id \in Ids
      PROVE  /\ PipeOK(POOL'[id])
             /\ \A w \in BOOLEAN : Count(POOL'[id], w) = Count(POOL[id], w) - Refs(TABLES[s], FDs, id, w)
  <2>1. PipeOK(POOL[id])
    BY DEF FdInv, PipesOK
  <2>2. \A w \in BOOLEAN : Count(POOL[id], w) >= Count(POOL[id], w)
    BY <2>1, CountType
  <2> QED BY <1>1, <2>1, <2>2, TableFacts, CloseCounts, ZenonT(60)
<1>4. ASSUME NEW id \in Ids, NEW w \in BOOLEAN
      PROVE  Count(POOL'[id], w) =
                Count(POOL[id], w) - Refs(TABLES[s], FDs, id, w) + Refs(EmptyTable, FDs, id, w)
  <2>1. PipeOK(POOL[id])
    BY DEF FdInv, PipesOK
  <2>2. Count(POOL[id], w) \in Nat /\ Refs(TABLES[s], FDs, id, w) \in Nat
    BY <2>1, CountType, TableFacts, RefsType, ZenonT(60)
  <2>3. \A fd \in FDs : EmptyTable[fd] \in {NoFile, Other}
    BY DEF EmptyTable
  <2>4. Refs(EmptyTable, FDs, id, w) = 0
    BY <2>3, TableFacts, NothingHeld
  <2>5. Count(POOL'[id], w) = Count(POOL[id], w) - Refs(TABLES[s], FDs, id, w)
    BY <1>3
  <2> QED BY <2>2, <2>4, <2>5
<1>5. CountsMove(s, EmptyTable)
  BY <1>3, <1>4 DEF CountsMove
<1> QED BY <1>2, <1>5, OneTableStep

(* A free pool slot has no holder and no lost reference.                   *)
LEMMA FreePipe ==
    ASSUME FdInv, NEW id \in Ids, POOL[id].st = "None"
    PROVE  POOL[id] = NoPipe /\ \A w \in BOOLEAN : Count(POOL[id], w) = 0
<1>1. PipeOK(POOL[id])
  BY DEF FdInv, PipesOK
<1> QED BY <1>1, CountType DEF PipeOK, NoPipe

LEMMA FdStutter == ASSUME FdInv, UNCHANGED fd_vars PROVE FdInv'
BY ZenonT(60) DEF FdInv, FdTypeOK, EndsCounted, Holders, PipesOK, FreeTablesEmpty, fd_vars

LEMMA PipeDropped ==
    ASSUME FdInv, NEW s \in FdSlots, NEW i \in Ids, POOL[i].st = "None",
           POOL' = [POOL EXCEPT ![i] = Closed(Created, 1, 1)],
           UNCHANGED <<TABLES, state, lost>>
    PROVE  FdInv'
<1>1. Closed(Created, 1, 1) = NoPipe
  BY DEF Closed, Created
<1>2. POOL' = POOL
  BY <1>1, FreePipe DEF FdInv, FdTypeOK
<1>3. UNCHANGED fd_vars
  BY <1>2 DEF fd_vars
<1> QED BY <1>3, FdStutter

LEMMA RefsPut ==
    ASSUME NEW t \in [FDs -> Slot], NEW fd \in FDs, NEW v \in Slot, NEW u, Put(t, u, fd, v),
           fd \in FreeFds(t), NEW id, NEW w
    PROVE  /\ Refs(u, FDs, id, w) = Refs(t, FDs, id, w) + (IF v = End(id, w) THEN 1 ELSE 0)
           /\ Refs(t, FDs, id, w) \in Nat
<1>1. Refs(t, {fd}, id, w) = 0
  BY NothingHeld DEF FreeFds
<1>2. Refs(t, FDs, id, w) \in Nat
  <2>1. FDs \in SUBSET FDs
    OBVIOUS
  <2> QED BY <2>1, RefsType, Zenon
<1>3. Refs(u, FDs, id, w) =
         Refs(t, FDs, id, w) - Refs(t, {fd}, id, w) + (IF v = End(id, w) THEN 1 ELSE 0)
  BY RefsChange
<1> QED BY <1>1, <1>2, <1>3

LEMMA PipeMade ==
    ASSUME FdInv, NEW s \in FdSlots, state[s] # "Free", NEW i \in Ids, POOL[i].st = "None",
           NEW r \in FreeFds(TABLES[s]), NEW x \in FreeFds(TABLES[s]), x # r,
           POOL' = [POOL EXCEPT ![i] = Created],
           TABLES' = [TABLES EXCEPT ![s][r] = End(i, FALSE), ![s][x] = End(i, TRUE)],
           UNCHANGED <<state, lost>>
    PROVE  FdInv'
<1> DEFINE rd == End(i, FALSE)
           wr == End(i, TRUE)
           t == [TABLES[s] EXCEPT ![r] = rd]
           u == [t EXCEPT ![x] = wr]
<1>1. r \in FDs /\ x \in FDs /\ TABLES[s][r] = NoFile /\ TABLES[s][x] = NoFile
  BY DEF FreeFds
<1>2. rd \in Slot /\ wr \in Slot
  <2>1. \A w \in BOOLEAN : End(i, w) \in Slot
    BY DEF Slot
  <2> QED BY <2>1, Zenon
<1>3. t \in [FDs -> Slot] /\ x \in FreeFds(t)
  BY <1>1, <1>2, TableFacts, Zenon DEF FreeFds
<1>4. OneTable(s, u)
  <2>1. TABLES' = [TABLES EXCEPT ![s] = u]
    BY <1>1, Zenon DEF FdInv, FdTypeOK
  <2>2. u \in [FDs -> Slot]
    BY <1>2, <1>3, Zenon
  <2> HIDE DEF u
  <2>3. POOL' = [id \in Ids |-> POOL'[id]]
    BY TableFacts, ZenonT(60)
  <2> QED BY <2>1, <2>2, <2>3, TableFacts, Zenon DEF OneTable
<1>5. ASSUME NEW id \in Ids, NEW w \in BOOLEAN
      PROVE  /\ Refs(u, FDs, id, w) = Refs(TABLES[s], FDs, id, w) + (IF id = i THEN 1 ELSE 0)
             /\ Refs(TABLES[s], FDs, id, w) \in Nat
  <2>1. Refs(TABLES[s], FDs, id, w) \in Nat
    BY TableFacts, RefsType, Zenon
  <2>2. /\ w = FALSE => (rd = End(id, w) <=> id = i) /\ wr # End(id, w)
        /\ w = TRUE => rd # End(id, w) /\ (wr = End(id, w) <=> id = i)
    BY Zenon DEF End
  <2> HIDE DEF rd, wr
  <2>3. Put(TABLES[s], t, r, rd) /\ Put(t, u, x, wr)
    BY DEF Put
  <2> HIDE DEF t, u
  <2>5. Refs(t, FDs, id, w) = Refs(TABLES[s], FDs, id, w) + (IF rd = End(id, w) THEN 1 ELSE 0)
    BY <1>1, <1>2, <2>3, TableFacts, RefsPut, SMTT(30)
  <2>6. /\ Refs(u, FDs, id, w) = Refs(t, FDs, id, w) + (IF wr = End(id, w) THEN 1 ELSE 0)
        /\ Refs(t, FDs, id, w) \in Nat
    BY <1>1, <1>2, <1>3, <2>3, RefsPut
  <2>4. \/ id # i /\ rd # End(id, w) /\ wr # End(id, w)
        \/ id = i /\ rd = End(id, w) /\ wr # End(id, w)
        \/ id = i /\ rd # End(id, w) /\ wr = End(id, w)
    BY <2>2
  <2> QED BY <2>1, <2>4, <2>5, <2>6
<1> HIDE DEF u, t, rd, wr
<1>6. CountsMove(s, u)
  <2> SUFFICES ASSUME NEW id \in Ids
               PROVE  /\ PipeOK(POOL'[id])
                      /\ \A w \in BOOLEAN : Count(POOL'[id], w) =
                           Count(POOL[id], w) - Refs(TABLES[s], FDs, id, w) + Refs(u, FDs, id, w)
    BY DEF CountsMove
  <2>1. PipeOK(POOL[id])
    BY DEF FdInv, PipesOK
  <2>2. CASE id = i
    <3>1. POOL'[id] = Created
      BY <2>2 DEF FdInv, FdTypeOK
    <3>2. PipeOK(Created) /\ \A w \in BOOLEAN : Count(Created, w) = 1
      BY DEF PipeOK, Created, Count
    <3>3. \A w \in BOOLEAN : Count(POOL[id], w) = 0
      BY <2>2, FreePipe
    <3>4. ASSUME NEW w \in BOOLEAN
          PROVE  Count(POOL'[id], w) = Count(POOL[id], w) - Refs(TABLES[s], FDs, id, w) + Refs(u, FDs, id, w)
      <4>1. Count(POOL'[id], w) = 1 /\ Count(POOL[id], w) = 0
        BY <3>1, <3>2, <3>3
      <4>2. /\ Refs(u, FDs, id, w) = Refs(TABLES[s], FDs, id, w) + 1
            /\ Refs(TABLES[s], FDs, id, w) \in Nat
        BY <1>5, <2>2
      <4> QED BY <4>1, <4>2
    <3> QED BY <3>1, <3>2, <3>4
  <2>3. CASE id # i
    <3>1. POOL'[id] = POOL[id]
      BY <2>3 DEF FdInv, FdTypeOK
    <3>2. ASSUME NEW w \in BOOLEAN
          PROVE  Count(POOL'[id], w) = Count(POOL[id], w) - Refs(TABLES[s], FDs, id, w) + Refs(u, FDs, id, w)
      <4>1. Count(POOL'[id], w) = Count(POOL[id], w) /\ Count(POOL[id], w) \in Nat
        BY <3>1, <2>1, CountType
      <4>2. /\ Refs(u, FDs, id, w) = Refs(TABLES[s], FDs, id, w) + 0
            /\ Refs(TABLES[s], FDs, id, w) \in Nat
        BY <1>5, <2>3
      <4> QED BY <4>1, <4>2
    <3> QED BY <2>1, <3>1, <3>2
  <2> QED BY <2>2, <2>3
<1> QED BY <1>4, <1>6, OneTableStep

LEMMA MakePipeKeeps == ASSUME FdInv, NEW s \in FdSlots, make_pipe(s) PROVE FdInv'
<1> DEFINE free == FreeFds(TABLES[s])
           pipes == {id \in Ids : POOL[id].st = "None"}
           i == Lowest(pipes)
           r == Lowest(free)
           x == Lowest(free \ {r})
<1>1. i \in Ids /\ POOL[i].st = "None"
  <2>1. pipes # {} /\ pipes \in SUBSET Nat
    BY FdAssumption DEF make_pipe, Ids
  <2>2. i \in pipes
    BY <2>1, LowestOf
  <2> QED BY <2>2
<1>2. CASE Cardinality(free) >= 2
  <2>1. IsFiniteSet(free) /\ free \in SUBSET Nat
    BY TableFacts, FDsFinite, FS_Subset
  <2>2. free # {}
    BY <1>2, FS_EmptySet
  <2>3. r \in free
    BY <2>1, <2>2, LowestOf
  <2>4. free \ {r} # {}
    <3> HIDE DEF free, r
    <3>1. ASSUME free \ {r} = {} PROVE FALSE
      <4>1. free = {r}
        BY <2>3, <3>1
      <4>2. Cardinality(free) = 1
        BY <4>1, FS_Singleton, Zenon
      <4> QED BY <1>2, <4>2
    <3> QED BY <3>1
  <2>5. x \in free \ {r}
    <3>1. free \ {r} \in SUBSET Nat
      BY <2>1
    <3> HIDE DEF free, r
    <3> QED BY <2>4, <3>1, LowestOf
  <2>6. /\ state[s] # "Free"
        /\ POOL' = [POOL EXCEPT ![i] = Created]
        /\ TABLES' = [TABLES EXCEPT ![s][r] = End(i, FALSE), ![s][x] = End(i, TRUE)]
        /\ UNCHANGED <<state, lost>>
    BY <1>2, Zenon DEF make_pipe
  <2> HIDE DEF i, r, x
  <2> QED BY <1>1, <2>3, <2>5, <2>6, PipeMade, Zenon
<1>3. CASE ~(Cardinality(free) >= 2)
  <2>1. /\ POOL' = [POOL EXCEPT ![i] = Closed(Created, 1, 1)]
        /\ UNCHANGED <<TABLES, state, lost>>
    BY <1>3 DEF make_pipe
  <2> HIDE DEF i
  <2> QED BY <1>1, <2>1, PipeDropped, Zenon
<1> QED BY <1>2, <1>3

-----------------------------------------------------------------------------

LEMMA InitFdInv == FdInit => FdInv
<1> SUFFICES ASSUME FdInit PROVE FdInv
  OBVIOUS
<1>1. FdTypeOK
  BY FdAssumption DEF FdInit, FdTypeOK, EmptyTable, Slot, NoPipe
<1>2. PipesOK
  BY DEF FdInit, PipesOK, PipeOK, NoPipe
<1>3. FreeTablesEmpty
  BY DEF FdInit, FreeTablesEmpty
<1>4. EndsCounted
  <2>1. ASSUME NEW id \in Ids, NEW w \in BOOLEAN
        PROVE  Cardinality(Holders(id, w)) + lost[id][w] = 0
    <3>1. \A h \in FdSlots \X FDs : TABLES[h[1]][h[2]] = NoFile
      BY DEF FdInit, EmptyTable
    <3>2. NoFile # End(id, w)
      BY DEF NoFile, End
    <3>3. Holders(id, w) = {}
      BY <3>1, <3>2 DEF Holders
    <3>4. Cardinality(Holders(id, w)) = 0
      BY <3>3, FS_EmptySet
    <3>5. lost[id][w] = 0
      BY DEF FdInit
    <3> QED BY <3>4, <3>5
  <2>2. \A id \in Ids : POOL[id].readers = 0 /\ POOL[id].writers = 0
    BY DEF FdInit, NoPipe
  <2>3. ASSUME NEW id \in Ids
        PROVE  /\ POOL[id].readers = Cardinality(Holders(id, FALSE)) + lost[id][FALSE]
               /\ POOL[id].writers = Cardinality(Holders(id, TRUE)) + lost[id][TRUE]
    <3>1. /\ Cardinality(Holders(id, FALSE)) + lost[id][FALSE] = 0
          /\ Cardinality(Holders(id, TRUE)) + lost[id][TRUE] = 0
      BY <2>1, ZenonT(60)
    <3> QED BY <2>2, <3>1, Zenon
  <2> QED BY <2>3, ZenonT(60) DEF EndsCounted
<1> QED BY <1>1, <1>2, <1>3, <1>4 DEF FdInv

LEMMA NextFdInv == FdInv /\ [FdNext]_fd_vars => FdInv'
<1> SUFFICES ASSUME FdInv, [FdNext]_fd_vars PROVE FdInv'
  OBVIOUS
<1>1. CASE UNCHANGED fd_vars
  BY <1>1, FdStutter
<1>2. ASSUME NEW s \in FdSlots,
             open(s) \/ make_pipe(s) \/ spawn_user(s) \/ exit_current_fds(s) \/ reap_dead_child(s)
      PROVE  FdInv'
  BY <1>2, OpenKeeps, MakePipeKeeps, SpawnKeeps, ExitKeeps, ReapKeeps
<1>3. ASSUME NEW s \in FdSlots, NEW fd \in FDs, close(s, fd) PROVE FdInv'
  BY <1>3, CloseKeeps
<1>4. ASSUME NEW s \in FdSlots, NEW fd \in FDs, dup(s, fd) PROVE FdInv'
  BY <1>4, DupKeeps, LostDupKeeps
<1>5. ASSUME NEW s \in FdSlots, NEW fd \in FDs, NEW newfd \in FDs, dup2(s, fd, newfd) PROVE FdInv'
  BY <1>5, Dup2Keeps
<1>6. ASSUME NEW s \in FdSlots, NEW child \in FdSlots, fork(s, child) PROVE FdInv'
  BY <1>6, ForkKeeps
<1> QED BY <1>1, <1>2, <1>3, <1>4, <1>5, <1>6 DEF FdNext

LEMMA FdInvIsSound == FdInv => FdSound
<1> SUFFICES ASSUME FdInv PROVE FdSound
  OBVIOUS
<1>1. NoEarlyEof
  <2> SUFFICES ASSUME NEW id \in Ids, Holders(id, TRUE) # {} PROVE has_writers(id)
    BY ZenonT(60) DEF NoEarlyEof
  <2>1. Holders(id, TRUE) = HoldersIn(TABLES, id, TRUE)
    BY DEF Holders, HoldersIn
  <2>2. ASSUME NEW w \in BOOLEAN, HoldersIn(TABLES, id, w) # {} PROVE Count(POOL[id], w) > 0
    <3>1. IsFiniteSet(HoldersIn(TABLES, id, w)) /\ Cardinality(HoldersIn(TABLES, id, w)) \in Nat
      BY HoldersType
    <3>2. Cardinality(HoldersIn(TABLES, id, w)) # 0
      BY <2>2, <3>1, FS_EmptySet
    <3>3. Count(POOL[id], w) = Cardinality(HoldersIn(TABLES, id, w)) + lost[id][w] /\ lost[id][w] \in Nat
      BY HoldersAreCounted
    <3> QED BY <3>1, <3>2, <3>3
  <2>6. POOL[id].writers > 0
    BY <2>1, <2>2, Zenon DEF Count
  <2>7. PipeOK(POOL[id])
    BY DEF FdInv, PipesOK
  <2> QED BY <2>6, <2>7 DEF PipeOK, has_writers
<1> QED BY <1>1 DEF FdInv, FdSound

(* The counts, the Pipe states and the tables of free slots agree along    *)
(* every sequence of descriptor operations.                                *)
THEOREM FdInvariant == FdSpec => []FdInv
BY InitFdInv, NextFdInv, PTL DEF FdSpec

(* FdSound for every number of processes, descriptors and pipes: the pipe  *)
(* counts of pipe.frs are the descriptors open onto each end, and no       *)
(* reader is told end of file while a write end is open somewhere.         *)
THEOREM FdIsSound == FdSpec => []FdSound
BY FdInvariant, FdInvIsSound, PTL
=============================================================================
