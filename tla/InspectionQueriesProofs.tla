---------------------- MODULE InspectionQueriesProofs ----------------------
(***************************************************************************)
(* What the queries of InspectionQueries return, for every finite table    *)
(* and every limit.  A fact about tables of any size is shown for the      *)
(* least size at which it could fail (LeastNatural).                       *)
(***************************************************************************)
EXTENDS InspectionQueries, FiniteSetTheorems, WellFoundedInduction, TLAPS

\* Every non-empty set of natural numbers has a least element.
LEMMA LeastNatural ==
  ASSUME NEW S, S \subseteq Nat, S # {}
  PROVE  \E m \in S : \A n \in S : m <= n
<1>1. IsWellFoundedOn(OpToRel(<, Nat), Nat)
  BY NatLessThanWellFounded
<1>2. PICK m \in S : \A n \in S : ~ (<<n, m>> \in OpToRel(<, Nat))
  BY <1>1, WFMin
<1>3. \A n \in S : ~ (n < m)
  BY <1>2 DEF OpToRel
<1> QED
  BY <1>3

\* Rows with a primary key inspection_id.
Table(rows) == /\ IsFiniteSet(rows)
               /\ \A i \in rows : i.inspection_id \in Nat
               /\ \A i, j \in rows : i.inspection_id = j.inspection_id => i = j

-----------------------------------------------------------------------------
(* Counting.                                                                *)

\* Some rows of a table are a table.
LEMMA SubTable ==
  ASSUME NEW S, Table(S), NEW T \in SUBSET S
  PROVE  Table(T) /\ Cardinality(T) \in Nat /\ Cardinality(T) <= Cardinality(S)
  BY FS_Subset, FS_CardinalityType DEF Table

\* A non-empty table has an oldest row, and OldestID is its id.
LEMMA Oldest ==
  ASSUME NEW S, Table(S), S # {}
  PROVE  \E o \in S : /\ OldestID(S) = o.inspection_id
                      /\ \A j \in S \ {o} : o.inspection_id < j.inspection_id
<1> DEFINE ids == {i.inspection_id : i \in S}
<1>1. ids \subseteq Nat /\ ids # {}
  BY DEF Table
<1>2. \E m \in ids : \A n \in ids : m <= n
  <2> HIDE DEF ids
  <2> QED
    BY <1>1, LeastNatural
<1>3. PICK i \in S : \A j \in S : i.inspection_id <= j.inspection_id
  BY <1>2
<1> DEFINE o == CHOOSE x \in S : \A j \in S : x.inspection_id <= j.inspection_id
<1>4. o \in S /\ \A j \in S : o.inspection_id <= j.inspection_id
  BY <1>3
<1>5. OldestID(S) = o.inspection_id
  BY DEF OldestID
<1> HIDE DEF o
<1>6. \A j \in S \ {o} : o.inspection_id < j.inspection_id
  BY <1>4 DEF Table
<1> QED
  BY <1>4, <1>5, <1>6

-----------------------------------------------------------------------------
(* ORDER BY id DESC LIMIT n.                                                *)

\* The rows newer than a row are fewer than all, and the fewer the newer it is.
LEMMA NewerCounts ==
  ASSUME NEW S, Table(S), NEW i \in S
  PROVE  /\ Newer(i, S) \in SUBSET S
         /\ Cardinality(Newer(i, S)) \in Nat
         /\ Cardinality(Newer(i, S)) < Cardinality(S)
         /\ \A j \in S : i.inspection_id <= j.inspection_id
              => Cardinality(Newer(j, S)) <= Cardinality(Newer(i, S))
<1>1. Newer(i, S) \in SUBSET S /\ i \notin Newer(i, S)
  BY DEF Newer, Table
<1>2. Cardinality(Newer(i, S)) \in Nat /\ Cardinality(S) \in Nat
  BY <1>1, SubTable
<1>3. Cardinality(Newer(i, S)) < Cardinality(S)
  BY <1>1, <1>2, FS_Subset DEF Table
<1>4. ASSUME NEW j \in S, i.inspection_id <= j.inspection_id
      PROVE  Cardinality(Newer(j, S)) <= Cardinality(Newer(i, S))
  <2>1. Newer(j, S) \in SUBSET Newer(i, S)
    BY <1>4 DEF Newer, Table
  <2> QED
    BY <1>1, <2>1, SubTable
<1> QED
  BY <1>1, <1>2, <1>3, <1>4

\* Whatever is cut off is older than whatever stays.
LEMMA TopIsNewest ==
  ASSUME NEW S, Table(S), NEW n \in Nat
  PROVE  \A i \in Top(n, S), j \in S \ Top(n, S) : i.inspection_id > j.inspection_id
<1> SUFFICES ASSUME NEW i \in Top(n, S), NEW j \in S \ Top(n, S),
                    i.inspection_id <= j.inspection_id
             PROVE  FALSE
  BY DEF Top, Table
<1>1. /\ i \in S
      /\ Cardinality(Newer(i, S)) < n
      /\ ~ (Cardinality(Newer(j, S)) < n)
  BY DEF Top
<1>2. Cardinality(Newer(j, S)) <= Cardinality(Newer(i, S))
  BY <1>1, NewerCounts
<1> QED
  BY <1>1, <1>2, NewerCounts

\* At most n rows stay.
LEMMA TopAtMost ==
  ASSUME NEW S, Table(S), NEW n \in Nat
  PROVE  Cardinality(Top(n, S)) \in Nat /\ Cardinality(Top(n, S)) <= n
<1>1. Top(n, S) \in SUBSET S
  BY DEF Top
<1>2. Table(Top(n, S)) /\ Cardinality(Top(n, S)) \in Nat
  BY <1>1, SubTable
<1>3. CASE Top(n, S) = {}
  BY <1>3, FS_EmptySet
<1>4. CASE Top(n, S) # {}
  <2>1. PICK o \in Top(n, S) :
          \A j \in Top(n, S) \ {o} : o.inspection_id < j.inspection_id
    BY <1>2, <1>4, Oldest
  <2>2. Top(n, S) \ {o} \in SUBSET Newer(o, S)
    BY <1>1, <2>1 DEF Newer, Table
  <2>3. Cardinality(Top(n, S) \ {o}) = Cardinality(Top(n, S)) - 1
    BY <1>2, FS_RemoveElement DEF Table
  <2>4. Newer(o, S) \in SUBSET S /\ Cardinality(Newer(o, S)) < n
    BY DEF Newer, Top
  <2>5. Table(Newer(o, S)) /\ Cardinality(Newer(o, S)) \in Nat
    BY <2>4, SubTable
  <2>6. Cardinality(Top(n, S) \ {o}) <= Cardinality(Newer(o, S))
    BY <2>2, <2>5, SubTable
  <2> QED
    BY <1>2, <2>3, <2>4, <2>5, <2>6
<1> QED
  BY <1>2, <1>3, <1>4

\* At least n rows stay, if there are as many.
LEMMA TopAtLeast ==
  ASSUME NEW S, Table(S), NEW n \in Nat, n <= Cardinality(S)
  PROVE  n <= Cardinality(Top(n, S))
<1> DEFINE Bad == {m \in Nat : \E T \in SUBSET S : /\ Cardinality(T) = m
                                                  /\ n <= m
                                                  /\ ~ (n <= Cardinality(Top(n, T)))}
<1>1. SUFFICES ASSUME Bad # {}
               PROVE  FALSE
  <2>1. Cardinality(S) \in Nat
    BY SubTable
  <2> QED
    BY <1>1, <2>1
<1>2. PICK m \in Bad : \A k \in Bad : m <= k
  <2>1. Bad \subseteq Nat
    OBVIOUS
  <2> HIDE DEF Bad
  <2> QED
    BY <1>1, <2>1, LeastNatural
<1>3. PICK T \in SUBSET S : /\ Cardinality(T) = m
                            /\ n <= m
                            /\ ~ (n <= Cardinality(Top(n, T)))
  OBVIOUS
<1>4. Table(T) /\ m \in Nat
  BY <1>3, SubTable
<1>5. CASE m = n
  <2>1. \A i \in T : Cardinality(Newer(i, T)) < n
    BY <1>3, <1>4, <1>5, NewerCounts
  <2>2. Top(n, T) = T
    BY <2>1 DEF Top
  <2> QED
    BY <1>3, <1>5, <2>2
<1>6. CASE m > n
  <2>1. T # {}
    BY <1>3, <1>4, <1>6, FS_EmptySet
  <2>2. PICK o \in T : \A j \in T \ {o} : o.inspection_id < j.inspection_id
    BY <1>4, <2>1, Oldest
  <2> DEFINE U == T \ {o}
  <2>3. U \in SUBSET S /\ Cardinality(U) = m - 1
    BY <1>3, <1>4, FS_RemoveElement DEF Table
  <2>4. m - 1 \notin Bad /\ m - 1 \in Nat /\ n <= m - 1
    BY <1>2, <1>4, <1>6
  <2>5. n <= Cardinality(Top(n, U))
    BY <2>3, <2>4
  <2>6. \A i \in U : Newer(i, U) = Newer(i, T)
    BY <1>4, <2>2 DEF Newer, Table
  <2>7. Top(n, U) \in SUBSET Top(n, T)
    BY <2>6 DEF Top
  <2>8. Top(n, T) \in SUBSET T
    BY DEF Top
  <2>9. /\ Cardinality(Top(n, U)) <= Cardinality(Top(n, T))
        /\ Cardinality(Top(n, U)) \in Nat
        /\ Cardinality(Top(n, T)) \in Nat
    BY <1>4, <2>7, <2>8, SubTable
  <2> QED
    BY <1>3, <2>5, <2>9
<1> QED
  BY <1>3, <1>4, <1>5, <1>6

\* A cut that is made again on a part that holds all it keeps changes nothing.
LEMMA TopOfPart ==
  ASSUME NEW S, Table(S), NEW n \in Nat, NEW T \in SUBSET S, Top(n, S) \subseteq T
  PROVE  Top(n, T) = Top(n, S)
<1>1. Table(T)
  BY SubTable
<1>2. ASSUME NEW i \in Top(n, S)
      PROVE  i \in Top(n, T)
  <2>1. Newer(i, T) \in SUBSET Newer(i, S) /\ Newer(i, S) \in SUBSET S
    BY DEF Newer
  <2>2. /\ Cardinality(Newer(i, T)) \in Nat
        /\ Cardinality(Newer(i, S)) \in Nat
        /\ Cardinality(Newer(i, T)) <= Cardinality(Newer(i, S))
    BY <2>1, SubTable
  <2>3. Cardinality(Newer(i, S)) < n
    BY <1>2 DEF Top
  <2> QED
    BY <1>2, <2>2, <2>3 DEF Top
<1>3. ASSUME NEW i \in Top(n, T), i \notin Top(n, S)
      PROVE  FALSE
  <2>1. i \in T /\ Cardinality(Newer(i, T)) < n
    BY <1>3 DEF Top
  <2>2. i \in S /\ ~ (Cardinality(Newer(i, S)) < n)
    BY <1>3, <2>1 DEF Top
  <2>3. n <= Cardinality(S)
    <3>1. Cardinality(S) \in Nat /\ Cardinality(Newer(i, S)) \in Nat
      BY <2>2, SubTable, NewerCounts
    <3> QED
      BY <2>2, <3>1, NewerCounts
  <2>4. n <= Cardinality(Top(n, S))
    BY <2>3, TopAtLeast
  <2>5. Top(n, S) \in SUBSET Newer(i, T)
    BY <1>3, <2>2, TopIsNewest DEF Newer
  <2>6. Newer(i, T) \in SUBSET T
    BY DEF Newer
  <2>7. /\ Cardinality(Top(n, S)) <= Cardinality(Newer(i, T))
        /\ Cardinality(Top(n, S)) \in Nat
        /\ Cardinality(Newer(i, T)) \in Nat
    BY <1>1, <2>5, <2>6, SubTable
  <2> QED
    BY <2>1, <2>4, <2>7
<1> QED
  BY <1>2, <1>3

-----------------------------------------------------------------------------
(* Pages.                                                                   *)

\* The two bounded branches lose nothing of what one statement over both sides
\* would return, and yield a record that is in both once.
LEMMA BranchesSuffice ==
  ASSUME NEW S, Table(S), NEW target, NEW before, NEW n \in Nat
  PROVE  HistoryRows(S, target, before, n) = Top(n, Below(Hitting(S, target), before))
<1> DEFINE A == Below({i \in S : i.chip_binding_id = target}, before)
           B == Below({i \in S : i.board_binding_id = target}, before)
           W == Below(Hitting(S, target), before)
<1>1. W = A \cup B /\ W \in SUBSET S
  BY DEF Below, Hitting
<1> HIDE DEF A, B, W
<1>2. Table(W) /\ Table(A) /\ Table(B)
  <2>1. Table(W) /\ A \in SUBSET W /\ B \in SUBSET W
    BY <1>1, SubTable
  <2> QED
    BY <2>1, SubTable
<1>3. Top(n, A) \cup Top(n, B) \in SUBSET W
  BY <1>1 DEF Top
<1>4. ASSUME NEW i \in Top(n, W), NEW X \in SUBSET W, i \in X
      PROVE  i \in Top(n, X)
  <2>1. Newer(i, X) \in SUBSET Newer(i, W) /\ Newer(i, W) \in SUBSET W
    BY DEF Newer
  <2>2. /\ Cardinality(Newer(i, X)) \in Nat
        /\ Cardinality(Newer(i, W)) \in Nat
        /\ Cardinality(Newer(i, X)) <= Cardinality(Newer(i, W))
    BY <1>2, <2>1, SubTable
  <2>3. Cardinality(Newer(i, W)) < n
    BY DEF Top
  <2> QED
    BY <1>4, <2>2, <2>3 DEF Top
<1>5. Top(n, W) \subseteq Top(n, A) \cup Top(n, B)
  <2>1. Top(n, W) \subseteq W
    BY DEF Top
  <2> QED
    BY <1>1, <1>4, <2>1
<1>6. Top(n, Top(n, A) \cup Top(n, B)) = Top(n, W)
  BY <1>2, <1>3, <1>5, TopOfPart
<1> QED
  BY <1>6 DEF HistoryRows, A, B, W

\* A page holds exactly the newest records of either side below its cursor, and
\* names the next cursor exactly when older ones remain (store.go:547-557).
THEOREM PagesExact ==
  ASSUME NEW S, Table(S), NEW target, NEW before, NEW limit \in Nat \ {0}
  PROVE  ExactPage(S, target, before, limit)
<1> DEFINE want    == Below(Hitting(S, target), before)
           read    == HistoryRows(S, target, before, limit + 1)
           entries == Top(limit, read)
           rest    == want \ entries
<1>1. Table(want) /\ Cardinality(want) \in Nat
  <2>1. want \in SUBSET S
    BY DEF Below, Hitting
  <2> HIDE DEF want
  <2> QED
    BY <2>1, SubTable
<1>2. read = Top(limit + 1, want)
  BY BranchesSuffice
<1>3. Page(S, target, before, limit)
        = [entries     |-> entries,
           next_cursor |-> IF Cardinality(read) > limit /\ entries # {}
                           THEN OldestID(entries) ELSE NoID]
  BY DEF Page
<1> HIDE DEF want, read
<1>4. entries = Top(limit, want)
  <2>1. read \in SUBSET want
    BY <1>2 DEF Top
  <2>2. Top(limit, want) \subseteq read
    <3>1. \A i \in want : Cardinality(Newer(i, want)) \in Nat
      BY <1>1, NewerCounts
    <3> QED
      BY <1>2, <3>1 DEF Top
  <2> QED
    BY <1>1, <2>1, <2>2, TopOfPart
<1>5. entries \subseteq want
  BY <1>4 DEF Top
<1>6. \A i \in entries, j \in rest : i.inspection_id > j.inspection_id
  BY <1>1, <1>4, TopIsNewest
<1>7. Cardinality(entries) \in Nat /\ Cardinality(entries) <= limit
  BY <1>1, <1>4, TopAtMost
<1>8. ASSUME rest # {}
      PROVE  /\ Cardinality(entries) = limit
             /\ Cardinality(read) > limit
             /\ entries # {}
  <2>1. PICK j \in want : ~ (Cardinality(Newer(j, want)) < limit)
    BY <1>4, <1>8 DEF Top
  <2>2. limit + 1 <= Cardinality(want)
    BY <1>1, <2>1, NewerCounts
  <2>3. limit <= Cardinality(entries)
    BY <1>1, <1>4, <2>2, TopAtLeast
  <2>4. limit + 1 <= Cardinality(read)
    BY <1>1, <1>2, <2>2, TopAtLeast
  <2>5. Cardinality(read) \in Nat
    BY <1>1, <1>2, TopAtMost
  <2> QED
    BY <1>7, <2>3, <2>4, <2>5, FS_EmptySet
<1>9. ASSUME rest = {}
      PROVE  ~ (Cardinality(read) > limit)
  <2>1. read \in SUBSET entries
    BY <1>2, <1>9 DEF Top
  <2>2. Table(entries)
    BY <1>1, <1>5, SubTable
  <2>3. Cardinality(read) \in Nat /\ Cardinality(read) <= Cardinality(entries)
    BY <2>1, <2>2, SubTable
  <2> QED
    BY <1>7, <2>3
<1> HIDE DEF entries
<1>10. Page(S, target, before, limit).entries = entries
  BY <1>3
<1>11. Page(S, target, before, limit).next_cursor
         = IF rest = {} THEN NoID ELSE OldestID(entries)
  BY <1>3, <1>8, <1>9
<1> QED
  BY <1>5, <1>6, <1>8, <1>10, <1>11 DEF ExactPage, want

-----------------------------------------------------------------------------
(* ORDER BY and LIMIT for any order.                                        *)

\* R puts the elements of S in a row.
Orders(R, S) ==
  /\ \A p \in S : <<p, p>> \notin R
  /\ \A p, q \in S : p # q => <<p, q>> \in R \/ <<q, p>> \in R
  /\ \A p, q, r \in S : <<p, q>> \in R /\ <<q, r>> \in R => <<p, r>> \in R

\* What LIMIT n leaves of S in the order R.
Cut(R, S, n) == {p \in S : Cardinality({q \in S : <<q, p>> \in R}) < n}

\* The cut keeps n elements, or all when there are fewer: the numbers of
\* predecessors are 0, 1, ... without a gap.
LEMMA CutCounts ==
  ASSUME NEW S, IsFiniteSet(S), NEW R, Orders(R, S), NEW n \in Nat
  PROVE  /\ Cardinality(Cut(R, S, n)) = IF Cardinality(S) < n THEN Cardinality(S) ELSE n
         /\ \A p \in S : Cardinality({q \in S : <<q, p>> \in R}) \in 0..Cardinality(S) - 1
         /\ \A p, q \in S : <<p, q>> \in R =>
              Cardinality({r \in S : <<r, p>> \in R}) < Cardinality({r \in S : <<r, q>> \in R})
<1> DEFINE pred(p) == {q \in S : <<q, p>> \in R}
           rank    == [p \in S |-> Cardinality(pred(p))]
           size    == Cardinality(S)
<1>1. size \in Nat
  BY FS_CardinalityType
<1>2. ASSUME NEW p \in S
      PROVE  IsFiniteSet(pred(p)) /\ Cardinality(pred(p)) \in 0..size - 1
  <2>1. pred(p) \in SUBSET S /\ pred(p) # S
    BY DEF Orders
  <2> HIDE DEF pred
  <2>2. IsFiniteSet(pred(p)) /\ Cardinality(pred(p)) <= size /\ Cardinality(pred(p)) # size
    BY <2>1, FS_Subset
  <2> QED
    BY <1>1, <2>2, FS_CardinalityType
<1>3. ASSUME NEW p \in S, NEW q \in S, <<p, q>> \in R
      PROVE  Cardinality(pred(p)) < Cardinality(pred(q))
  <2>1. pred(p) \in SUBSET pred(q) /\ pred(p) # pred(q)
    BY <1>3 DEF Orders
  <2> HIDE DEF pred
  <2>2. /\ Cardinality(pred(p)) <= Cardinality(pred(q))
        /\ Cardinality(pred(p)) # Cardinality(pred(q))
    BY <1>2, <2>1, FS_Subset
  <2> QED
    BY <1>2, <2>2
<1>4. rank \in Surjection(S, 0..size - 1)
  <2>1. rank \in [S -> 0..size - 1]
    BY <1>2
  <2>2. ASSUME NEW p \in S, NEW q \in S, p # q
        PROVE  rank[p] # rank[q]
    <3>1. <<p, q>> \in R \/ <<q, p>> \in R
      BY <2>2 DEF Orders
    <3> HIDE DEF pred
    <3>2. Cardinality(pred(p)) < Cardinality(pred(q)) \/ Cardinality(pred(q)) < Cardinality(pred(p))
      BY <1>3, <3>1
    <3> QED
      BY <1>2, <3>2
  <2> HIDE DEF rank
  <2>3. rank \in Injection(S, 0..size - 1)
    BY <2>1, <2>2 DEF Injection, IsInjective
  <2>4. IsFiniteSet(0..size - 1) /\ Cardinality(0..size - 1) = size
    BY <1>1, FS_Interval
  <2> QED
    BY <2>3, <2>4, FS_Injection
<1> DEFINE kept == Cut(R, S, n)
           last == (IF size < n THEN size ELSE n) - 1
           part == [p \in kept |-> rank[p]]
<1>5. kept = {p \in S : rank[p] < n}
  BY DEF Cut
<1> HIDE DEF kept, rank
<1>6. part \in Injection(kept, 0..last) /\ part \in Surjection(kept, 0..last)
  <2>1. \A p \in S : rank[p] \in 0..size - 1
    BY <1>4 DEF Surjection
  <2>2. part \in [kept -> 0..last]
    BY <1>1, <1>5, <2>1
  <2>3. \A p, q \in S : rank[p] = rank[q] => p = q
    <3> SUFFICES ASSUME NEW p \in S, NEW q \in S, p # q
                 PROVE  rank[p] # rank[q]
      OBVIOUS
    <3>1. <<p, q>> \in R \/ <<q, p>> \in R
      BY DEF Orders
    <3> HIDE DEF pred
    <3>2. Cardinality(pred(p)) < Cardinality(pred(q)) \/ Cardinality(pred(q)) < Cardinality(pred(p))
      BY <1>3, <3>1
    <3> QED
      BY <1>2, <3>2 DEF rank
  <2>4. \A k \in 0..last : \E p \in kept : rank[p] = k
    <3> SUFFICES ASSUME NEW k \in 0..last
                 PROVE  \E p \in kept : rank[p] = k
      OBVIOUS
    <3>1. k \in 0..size - 1 /\ k < n
      BY <1>1
    <3>2. PICK p \in S : rank[p] = k
      BY <1>4, <3>1 DEF Surjection
    <3> QED
      BY <1>5, <3>1, <3>2
  <2>5. kept \subseteq S
    BY <1>5
  <2>6. part \in Injection(kept, 0..last)
    BY <2>2, <2>3, <2>5 DEF Injection, IsInjective
  <2>7. part \in Surjection(kept, 0..last)
    BY <2>2, <2>4 DEF Surjection
  <2> QED
    BY <2>6, <2>7
<1>7. Cardinality(kept) = last + 1
  <2>1. last \in Int /\ last + 1 \in Nat
    BY <1>1
  <2> HIDE DEF last
  <2>2. IsFiniteSet(0..last) /\ Cardinality(0..last) = last + 1
    BY <2>1, FS_Interval
  <2> HIDE DEF part
  <2> QED
    BY <1>6, <2>2, FS_Injection
<1>8. Cut(R, S, n) = kept
  BY DEF Cut, kept
<1>9. Cardinality(kept) = IF size < n THEN size ELSE n
  BY <1>1, <1>7
<1>10. \A p \in S : Cardinality({q \in S : <<q, p>> \in R}) \in 0..Cardinality(S) - 1
  BY <1>2
<1>11. \A p, q \in S : <<p, q>> \in R =>
         Cardinality({r \in S : <<r, p>> \in R}) < Cardinality({r \in S : <<r, q>> \in R})
  BY <1>3
<1> QED
  BY <1>8, <1>9, <1>10, <1>11

-----------------------------------------------------------------------------
(* Mismatch peers.                                                          *)

\* Records of scans over a table of bindings: a verdict follows from the two
\* stored ids, and both are foreign keys.
Decided(rows, bindings) ==
  /\ Table(rows)
  /\ IsFiniteSet(bindings)
  /\ NoID \notin Nat
  /\ \A b \in bindings : b.binding_id \in Nat
  /\ \A i \in rows :
       /\ i.chip_binding_id \in {b.binding_id : b \in bindings} \cup {NoID}
       /\ i.board_binding_id \in {b.binding_id : b \in bindings} \cup {NoID}
       /\ i.result = Verdict(i.chip_binding_id, i.board_binding_id)

\* MAX(id) of a group of records is the id of one of them.
LEMMA NewestID ==
  ASSUME NEW S, Table(S), S # {}
  PROVE  MaxOf({i.inspection_id : i \in S}) \in Nat
<1> DEFINE ids == {i.inspection_id : i \in S}
<1>1. Cardinality(S) \in Nat /\ 1 <= Cardinality(S)
  BY SubTable, FS_EmptySet DEF Table
<1>2. 1 <= Cardinality(Top(1, S))
  BY <1>1, TopAtLeast
<1>3. PICK i \in Top(1, S) : TRUE
  BY <1>2, FS_EmptySet
<1>4. i \in S /\ Cardinality(Newer(i, S)) < 1
  BY <1>3 DEF Top
<1>5. Newer(i, S) = {}
  <2>1. Newer(i, S) \in SUBSET S /\ Cardinality(Newer(i, S)) = 0
    BY <1>4, NewerCounts
  <2> QED
    BY <2>1, FS_Subset, FS_EmptySet DEF Table
<1>6. \A y \in ids : y <= i.inspection_id
  BY <1>4, <1>5 DEF Newer, Table
<1>7. i.inspection_id \in ids /\ ids \subseteq Nat
  BY <1>4 DEF Table
<1> HIDE DEF ids
<1>8. MaxOf(ids) \in ids
  BY <1>6, <1>7 DEF MaxOf
<1> QED
  BY <1>7, <1>8 DEF ids

\* The groups are the other bindings that share a MISMATCH with the target, and
\* each group is the records they share.
LEMMA Groups ==
  ASSUME NEW rows, NEW bindings, Decided(rows, bindings), NEW t \in Nat
  PROVE  /\ {PeerID(i, t) : i \in Implicating(rows, t)}
              = {p \in {b.binding_id : b \in bindings} \ {t} : Shared(rows, t, p) # {}}
         /\ \A p \in Nat \ {t} :
              {i \in Implicating(rows, t) : PeerID(i, t) = p} = Shared(rows, t, p)
<1> DEFINE ids == {b.binding_id : b \in bindings}
<1>1. ids \subseteq Nat
  BY DEF Decided
<1>2. ASSUME NEW i \in rows, i.result = "MISMATCH"
      PROVE  /\ i.chip_binding_id \in ids
             /\ i.board_binding_id \in ids
             /\ i.chip_binding_id # i.board_binding_id
  <2>1. /\ i.chip_binding_id \in ids \cup {NoID}
        /\ i.board_binding_id \in ids \cup {NoID}
        /\ Verdict(i.chip_binding_id, i.board_binding_id) = "MISMATCH"
    BY <1>2 DEF Decided
  <2> HIDE DEF ids
  <2> QED
    BY <2>1 DEF Verdict
<1> HIDE DEF ids
<1>3. ASSUME NEW i \in Implicating(rows, t)
      PROVE  /\ PeerID(i, t) \in ids \ {t}
             /\ i \in Shared(rows, t, PeerID(i, t))
  BY <1>2 DEF Implicating, PeerID, Shared
<1>4. ASSUME NEW p \in Nat \ {t}, NEW i \in Shared(rows, t, p)
      PROVE  i \in Implicating(rows, t) /\ PeerID(i, t) = p
  BY DEF Implicating, PeerID, Shared
<1>5. {PeerID(i, t) : i \in Implicating(rows, t)} = {p \in ids \ {t} : Shared(rows, t, p) # {}}
  <2>1. ASSUME NEW p \in ids \ {t}, Shared(rows, t, p) # {}
        PROVE  \E i \in Implicating(rows, t) : p = PeerID(i, t)
    <3>1. PICK i \in Shared(rows, t, p) : TRUE
      BY <2>1
    <3>2. p \in Nat \ {t}
      BY <1>1
    <3> QED
      BY <1>4, <3>1, <3>2
  <2>2. ASSUME NEW i \in Implicating(rows, t)
        PROVE  PeerID(i, t) \in ids \ {t} /\ Shared(rows, t, PeerID(i, t)) # {}
    BY <1>3
  <2> QED
    BY <2>1, <2>2
<1>6. \A p \in Nat \ {t} :
        {i \in Implicating(rows, t) : PeerID(i, t) = p} = Shared(rows, t, p)
  BY <1>3, <1>4
<1> QED
  BY <1>5, <1>6 DEF ids

\* ORDER BY and LIMIT over groups with distinct peers: the cut loses no more than
\* it must, and none that is more frequent than one it keeps.
LEMMA CutOfGroups ==
  ASSUME NEW S, IsFiniteSet(S),
         \A r \in S : r.peer \in Nat /\ r.occurrences \in Nat /\ r.last_inspection_id \in Nat,
         \A r, q \in S : r.peer = q.peer => r = q,
         NEW n \in Nat,
         NEW K, K = {p \in S : Cardinality({q \in S : Before(q, p)}) < n}
  PROVE  /\ Cardinality(K) = IF Cardinality(S) < n THEN Cardinality(S) ELSE n
         /\ Cardinality(S) <= n => K = S
         /\ \A r \in K, q \in S \ K : r.occurrences >= q.occurrences
<1> DEFINE R      == {x \in S \X S : Before(x[1], x[2])}
           ahead(p) == Cardinality({q \in S : <<q, p>> \in R})
<1>1. \A p, q \in S : <<p, q>> \in R <=> Before(p, q)
  OBVIOUS
<1> HIDE DEF R
<1>2. Orders(R, S)
  <2>1. \A p \in S : ~ Before(p, p)
    BY DEF Before
  <2>2. \A p, q \in S : p # q => Before(p, q) \/ Before(q, p)
    BY DEF Before
  <2>3. \A p, q, r \in S : Before(p, q) /\ Before(q, r) => Before(p, r)
    BY DEF Before
  <2> QED
    BY <1>1, <2>1, <2>2, <2>3 DEF Orders
<1>3. K = Cut(R, S, n)
  <2>1. \A p \in S : {q \in S : Before(q, p)} = {q \in S : <<q, p>> \in R}
    BY <1>1
  <2> QED
    BY <2>1 DEF Cut
<1>4. /\ Cardinality(K) = IF Cardinality(S) < n THEN Cardinality(S) ELSE n
      /\ \A p \in S : ahead(p) \in 0..Cardinality(S) - 1
      /\ \A p, q \in S : <<p, q>> \in R => ahead(p) < ahead(q)
  <2>1. Cardinality(K) = IF Cardinality(S) < n THEN Cardinality(S) ELSE n
    <3>1. Cardinality(Cut(R, S, n)) = IF Cardinality(S) < n THEN Cardinality(S) ELSE n
      BY <1>2, CutCounts
    <3> QED
      BY <1>3, <3>1
  <2>2. \A p \in S : ahead(p) \in 0..Cardinality(S) - 1
    BY <1>2, CutCounts
  <2>3. \A p, q \in S : <<p, q>> \in R => ahead(p) < ahead(q)
    BY <1>2, CutCounts
  <2> QED
    BY <2>1, <2>2, <2>3
<1>5. Cardinality(S) \in Nat
  BY FS_CardinalityType
<1>6. K = {p \in S : ahead(p) < n}
  BY <1>3 DEF Cut
<1> HIDE DEF ahead
<1>7. ASSUME Cardinality(S) <= n
      PROVE  K = S
  BY <1>4, <1>5, <1>6, <1>7
<1>8. ASSUME NEW r \in K, NEW q \in S \ K
      PROVE  r.occurrences >= q.occurrences
  <2>1. r \in S /\ q \in S /\ ahead(r) < n /\ ~ (ahead(q) < n)
    BY <1>6
  <2>2. <<q, r>> \notin R
    BY <1>4, <1>5, <2>1
  <2>3. ~ Before(q, r)
    BY <1>1, <2>1, <2>2
  <2>4. ~ (q.occurrences > r.occurrences)
    BY <2>3 DEF Before
  <2> QED
    BY <2>1, <2>4
<1> QED
  BY <1>4, <1>7, <1>8

\* What the statement says of one peer.
Group(rows, t, p) ==
  [peer               |-> p,
   occurrences        |-> Cardinality(Shared(rows, t, p)),
   last_inspection_id |-> MaxOf({i.inspection_id : i \in Shared(rows, t, p)}),
   last_occurred_at   |-> MaxOf({i.created_at : i \in Shared(rows, t, p)})]

\* The bindings, and those that share a MISMATCH with the target.
BoundIDs(bindings) == {b.binding_id : b \in bindings}
Implicated(rows, bindings, t) == {p \in BoundIDs(bindings) \ {t} : Shared(rows, t, p) # {}}

\* The statement has one row for each binding that shares a MISMATCH with the target.
LEMMA StatsOfPeers ==
  ASSUME NEW rows, NEW bindings, Decided(rows, bindings), NEW t \in Nat,
         NEW ids, ids = BoundIDs(bindings),
         NEW peers, peers = Implicated(rows, bindings, t),
         NEW stats, stats = PeerStats(rows, t)
  PROVE  /\ ids \subseteq Nat /\ peers \subseteq ids
         /\ IsFiniteSet(stats)
         /\ Cardinality(stats) = Cardinality(peers)
         /\ Cardinality(stats) \in Nat
         /\ Cardinality(bindings) \in Nat
         /\ Cardinality(stats) <= Cardinality(bindings)
         /\ \A r \in stats : /\ r.peer \in peers
                             /\ r.peer \in Nat
                             /\ r.occurrences = Cardinality(Shared(rows, t, r.peer))
                             /\ r.occurrences \in Nat
                             /\ r.last_inspection_id \in Nat
         /\ \A p \in peers : \E r \in stats : r.peer = p
         /\ \A r, q \in stats : r.peer = q.peer => r = q
<1>1. ids \subseteq Nat /\ peers \subseteq ids /\ peers \subseteq Nat \ {t}
  BY DEF Decided, BoundIDs, Implicated
<1>2. stats = {Group(rows, t, p) : p \in peers}
  <2> DEFINE same(p) == {i \in Implicating(rows, t) : PeerID(i, t) = p}
  <2>1. \A p \in peers : same(p) = Shared(rows, t, p)
    BY <1>1, Groups
  <2>2. {PeerID(i, t) : i \in Implicating(rows, t)} = peers
    BY Groups DEF Implicated, BoundIDs
  <2>3. PeerStats(rows, t)
          = {[peer               |-> p,
              occurrences        |-> Cardinality(same(p)),
              last_inspection_id |-> MaxOf({i.inspection_id : i \in same(p)}),
              last_occurred_at   |-> MaxOf({i.created_at : i \in same(p)})] :
               p \in {PeerID(i, t) : i \in Implicating(rows, t)}}
    BY DEF PeerStats
  <2> HIDE DEF same
  <2>4. \A p \in peers :
          [peer               |-> p,
           occurrences        |-> Cardinality(same(p)),
           last_inspection_id |-> MaxOf({i.inspection_id : i \in same(p)}),
           last_occurred_at   |-> MaxOf({i.created_at : i \in same(p)})]
            = Group(rows, t, p)
    BY <2>1 DEF Group
  <2> QED
    BY <2>2, <2>3, <2>4
<1>3. ASSUME NEW p \in peers
      PROVE  /\ Cardinality(Shared(rows, t, p)) \in Nat
             /\ MaxOf({i.inspection_id : i \in Shared(rows, t, p)}) \in Nat
  <2>1. Shared(rows, t, p) \in SUBSET rows /\ Shared(rows, t, p) # {} /\ Table(rows)
    BY DEF Shared, Decided, Implicated
  <2>2. Table(Shared(rows, t, p)) /\ Cardinality(Shared(rows, t, p)) \in Nat
    BY <2>1, SubTable
  <2> QED
    BY <2>1, <2>2, NewestID
<1>4. \A p \in peers : LET g == Group(rows, t, p)
                       IN  /\ g.peer = p /\ p \in Nat
                           /\ g.occurrences = Cardinality(Shared(rows, t, p))
                           /\ g.occurrences \in Nat
                           /\ g.last_inspection_id \in Nat
  BY <1>1, <1>3 DEF Group
<1>5. /\ IsFiniteSet(stats)
      /\ Cardinality(stats) = Cardinality(peers)
      /\ Cardinality(stats) \in Nat
      /\ Cardinality(bindings) \in Nat
      /\ Cardinality(stats) <= Cardinality(bindings)
  <2>1. IsFiniteSet(ids) /\ Cardinality(ids) <= Cardinality(bindings)
    <3>1. [b \in bindings |-> b.binding_id] \in Surjection(bindings, ids)
      BY DEF Surjection, BoundIDs
    <3> QED
      BY <3>1, FS_Surjection DEF Decided
  <2>2. IsFiniteSet(peers) /\ Cardinality(peers) <= Cardinality(ids)
    BY <1>1, <2>1, FS_Subset
  <2>3. [p \in peers |-> Group(rows, t, p)] \in Bijection(peers, stats)
    BY <1>2, <1>4 DEF Bijection, Injection, IsInjective, Surjection
  <2>4. ExistsBijection(peers, stats)
    BY <2>3 DEF ExistsBijection
  <2>5. IsFiniteSet(stats) /\ Cardinality(stats) = Cardinality(peers)
    BY <2>2, <2>4, FS_Bijection
  <2> QED
    BY <2>1, <2>2, <2>5, FS_CardinalityType DEF Decided
<1>6. /\ \A r \in stats : /\ r.peer \in peers
                          /\ r.peer \in Nat
                          /\ r.occurrences = Cardinality(Shared(rows, t, r.peer))
                          /\ r.occurrences \in Nat
                          /\ r.last_inspection_id \in Nat
      /\ \A p \in peers : \E r \in stats : r.peer = p
      /\ \A r, q \in stats : r.peer = q.peer => r = q
  BY <1>2, <1>4
<1> QED
  BY <1>1, <1>5, <1>6

\* The list of peers is exact: the bindings that share a MISMATCH with the target,
\* each with the number of records they share, the most frequent first
\* (store.go:467-474).
THEOREM PeersExact ==
  ASSUME NEW rows, NEW bindings, Decided(rows, bindings),
         NEW t \in Nat, NEW limit \in Nat
  PROVE  ExactPeers(rows, bindings, t, limit)
<1> DEFINE ids   == BoundIDs(bindings)
           peers == Implicated(rows, bindings, t)
           stats == PeerStats(rows, t)
           all   == Peers(rows, bindings, t, Cardinality(bindings))
           cut   == Peers(rows, bindings, t, limit)
<1>1. peers \subseteq ids
  BY DEF Implicated
<1>2. /\ IsFiniteSet(stats)
      /\ Cardinality(stats) = Cardinality(peers)
      /\ Cardinality(stats) \in Nat
      /\ Cardinality(bindings) \in Nat
      /\ Cardinality(stats) <= Cardinality(bindings)
  BY StatsOfPeers
<1>3. /\ \A r \in stats : /\ r.peer \in peers
                          /\ r.peer \in Nat
                          /\ r.occurrences = Cardinality(Shared(rows, t, r.peer))
                          /\ r.occurrences \in Nat
                          /\ r.last_inspection_id \in Nat
      /\ \A p \in peers : \E r \in stats : r.peer = p
      /\ \A r, q \in stats : r.peer = q.peer => r = q
  BY StatsOfPeers
<1> HIDE DEF peers, stats
<1>4. ASSUME NEW n \in Nat
      PROVE  Peers(rows, bindings, t, n)
               = {p \in stats : Cardinality({q \in stats : Before(q, p)}) < n}
  <2>1. \A r \in stats : \E b \in bindings : b.binding_id = r.peer
    BY <1>1, <1>3 DEF BoundIDs
  <2> QED
    BY <2>1 DEF Peers, stats
<1>5. all = stats
  <2>1. Cardinality(bindings) \in Nat
    BY <1>2
  <2>2. all = {p \in stats : Cardinality({q \in stats : Before(q, p)}) < Cardinality(bindings)}
    BY <1>4, <2>1
  <2> HIDE DEF all
  <2> QED
    BY <1>2, <1>3, <2>1, <2>2, CutOfGroups
<1>6. cut = {p \in stats : Cardinality({q \in stats : Before(q, p)}) < limit}
  BY <1>4
<1> HIDE DEF all, cut
<1>7. /\ Cardinality(cut) = IF Cardinality(peers) < limit THEN Cardinality(peers) ELSE limit
      /\ \A r \in cut, q \in stats \ cut : r.occurrences >= q.occurrences
  <2>1. /\ IsFiniteSet(stats)
        /\ \A r \in stats : /\ r.peer \in Nat
                            /\ r.occurrences \in Nat
                            /\ r.last_inspection_id \in Nat
        /\ \A r, q \in stats : r.peer = q.peer => r = q
    BY <1>2, <1>3
  <2>2. /\ Cardinality(cut) = IF Cardinality(stats) < limit THEN Cardinality(stats) ELSE limit
        /\ \A r \in cut, q \in stats \ cut : r.occurrences >= q.occurrences
    BY <1>6, <2>1, CutOfGroups
  <2> QED
    BY <1>2, <2>2
<1>8. cut \subseteq all
  BY <1>5, <1>6
<1>9. {r.peer : r \in all} = peers
  BY <1>3, <1>5
<1>10. \A r \in all : r.occurrences = Cardinality(Shared(rows, t, r.peer))
  BY <1>3, <1>5
<1>11. peers = {p \in {x.binding_id : x \in bindings} \ {t} : Shared(rows, t, p) # {}}
  BY DEF peers, Implicated, BoundIDs
<1> QED
  BY <1>5, <1>7, <1>8, <1>9, <1>10, <1>11 DEF ExactPeers, all, cut
=============================================================================
