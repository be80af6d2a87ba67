-------------------------- MODULE BatchLookupProofs --------------------------
(***************************************************************************)
(* What BatchLookup guarantees for any bound on the batch and any number   *)
(* of bindings.                                                            *)
(***************************************************************************)
EXTENDS BatchLookup, SequenceTheorems, WellFoundedInduction, TLAPS

-----------------------------------------------------------------------------
(* Validation.                                                              *)

\* A batch is a sequence of one item more than the bound at most.
LEMMA BatchType ==
  ASSUME NEW q \in Batches
  PROVE  /\ Len(q) \in 0..MaxBatchQueries + 1
         /\ DOMAIN q = 1..Len(q)
         /\ \A i \in DOMAIN q : q[i] \in Items \cup {Malformed}
         /\ q # <<>> => Len(q) # 0
<1>1. PICK n \in 0..MaxBatchQueries + 1 : q \in [1..n -> Items \cup {Malformed}]
  BY DEF Batches
<1>2. n \in Nat /\ q \in Seq(Items \cup {Malformed})
  BY <1>1, BatchAssumption
<1>3. Len(q) = n /\ DOMAIN q = 1..n
  BY <1>1, <1>2
<1> QED
  BY <1>1, <1>2, <1>3, EmptySeq

\* An item that no error names is legal and repeats no line.
LEMMA UnnamedLegal ==
  ASSUME NEW q \in Batches, DecodeErrors(q) = {},
         q # <<>>, ~ (Len(q) > MaxBatchQueries),
         NEW i \in DOMAIN q, \A e \in BatchErrors(q) : e[1] # i
  PROVE  /\ q[i] \in [line : Lines, type : LookupTypes, value : Values]
         /\ \A j \in 1..i - 1 : q[i].line # q[j].line
<1>1. q[i] \in Items
  <2>1. q[i] # Malformed
    BY DEF DecodeErrors
  <2> QED
    BY <2>1, BatchType
<1>2. \A f \in {"line", "type", "value"} :
        Legal(q[i], f) /\ (f = "line" => ~ Repeats(q, i))
  <2> SUFFICES ASSUME NEW f \in {"line", "type", "value"},
                      ~ Legal(q[i], f) \/ (f = "line" /\ Repeats(q, i))
               PROVE  FALSE
    OBVIOUS
  <2>1. <<i, f>> \in (DOMAIN q) \X {"line", "type", "value"}
    OBVIOUS
  <2>2. <<i, f>> \in BatchErrors(q)
    BY <2>1 DEF BatchErrors
  <2> QED
    BY <2>2
<1>3. q[i].line # NoLine /\ q[i].type # OtherType /\ q[i].value # BadValue
  BY <1>2 DEF Legal
<1>4. q[i] \in [line : Lines, type : LookupTypes, value : Values]
  BY <1>1, <1>3 DEF Items
<1> QED
  BY <1>2, <1>4 DEF Repeats

\* A batch without errors has the right length, legal items and no line twice.
LEMMA NoErrors ==
  ASSUME NEW q \in Batches, FieldErrors(q) = {}
  PROVE  /\ Len(q) \in 1..MaxBatchQueries
         /\ \A i \in DOMAIN q : /\ q[i] \in [line : Lines, type : LookupTypes, value : Values]
                                /\ \A j \in 1..i - 1 : q[i].line # q[j].line
<1>1. DecodeErrors(q) = {} /\ BatchErrors(q) = {}
  BY DEF FieldErrors
<1>2. q # <<>> /\ ~ (Len(q) > MaxBatchQueries)
  BY <1>1 DEF BatchErrors
<1>3. Len(q) \in 1..MaxBatchQueries
  BY <1>2, BatchType, BatchAssumption
<1> QED
  BY <1>1, <1>2, <1>3, UnnamedLegal

\* No line is given twice.
LinesOnce(q) == \A j, k \in DOMAIN q : q[j].line = q[k].line => j = k

\* What the lookup relies on of a batch without errors.
LEMMA AcceptedBatch ==
  ASSUME NEW q \in Batches, FieldErrors(q) = {}
  PROVE  /\ Len(q) \in Nat /\ DOMAIN q = 1..Len(q)
         /\ LinesOnce(q)
         /\ \A i \in DOMAIN q : q[i].type \in LookupTypes
<1>1. Len(q) \in Nat /\ DOMAIN q = 1..Len(q)
  BY BatchType, BatchAssumption
<1>2. \A j, k \in DOMAIN q : k \in 1..j - 1 \/ j \in 1..k - 1 \/ j = k
  BY <1>1
<1>3. LinesOnce(q)
  BY <1>2, NoErrors DEF LinesOnce
<1> QED
  BY <1>1, <1>3, NoErrors

-----------------------------------------------------------------------------
(* The lookup.                                                              *)

\* Of the items of a batch there is a first one.
LEMMA LeastItem ==
  ASSUME NEW S, S \subseteq Nat, S # {}
  PROVE  \E m \in S : \A j \in S : ~ (j < m)
<1>1. PICK m \in S : \A j \in S : ~ (<<j, m>> \in OpToRel(<, Nat))
  BY NatLessThanWellFounded, WFMin
<1>2. \A j \in S : ~ (j < m)
  BY <1>1 DEF OpToRel
<1> QED
  BY <1>2

\* Every item has a first item with its query key, which is the one that is sent.
LEMMA FirstOccurrence ==
  ASSUME NEW q, NEW n \in Nat, DOMAIN q = 1..n, NEW i \in DOMAIN q
  PROVE  \E j \in Distinct(q) : QueryKey(q[j]) = QueryKey(q[i])
<1> DEFINE same == {j \in DOMAIN q : QueryKey(q[j]) = QueryKey(q[i])}
<1>1. same \subseteq Nat /\ same # {}
  OBVIOUS
<1> HIDE DEF same
<1>2. PICK m \in same : \A j \in same : ~ (j < m)
  BY <1>1, LeastItem
<1>3. \A j \in 1..m - 1 : j \in DOMAIN q /\ j \notin same
  BY <1>2 DEF same
<1> QED
  BY <1>2, <1>3 DEF same, Distinct

\* The line of a sent item leads back to its own query key.
LEMMA KeyOfLine ==
  ASSUME NEW q, NEW n \in Nat, DOMAIN q = 1..n, LinesOnce(q), NEW i \in Distinct(q)
  PROVE  KeyByLine(q)[q[i].line] = QueryKey(q[i])
<1>1. \A j, k \in DOMAIN q : q[j].line = q[k].line => j = k
  BY DEF LinesOnce
<1>2. \A j \in Distinct(q) : j \in DOMAIN q /\ j \in Nat
  BY DEF Distinct
<1> DEFINE sent == CHOOSE x \in Distinct(q) :
              /\ q[x].line = q[i].line
              /\ \A j \in Distinct(q) : q[j].line = q[i].line => j <= x
<1>3. \E x \in Distinct(q) : /\ q[x].line = q[i].line
                             /\ \A j \in Distinct(q) : q[j].line = q[i].line => j <= x
  BY <1>1, <1>2
<1>4. sent \in Distinct(q) /\ q[sent].line = q[i].line
  BY <1>3
<1>5. sent = i
  <2> HIDE DEF sent
  <2> QED
    BY <1>1, <1>2, <1>4
<1>6. q[i].line \in {q[j].line : j \in Distinct(q)}
  OBVIOUS
<1>7. KeyByLine(q)[q[i].line] = QueryKey(q[sent])
  BY <1>6 DEF KeyByLine
<1> QED
  BY <1>5, <1>7

\* What is restored of the rows of a one-to-one table are the single lookups.
LEMMA RestoredAreSingles ==
  ASSUME NEW q, NEW n \in Nat, DOMAIN q = 1..n, LinesOnce(q),
         \A i \in DOMAIN q : q[i].type \in LookupTypes, NEW table,
         \A x, y \in table : x = y \/ \A column \in LookupTypes : x[column] # y[column]
  PROVE  Restore(q, Rows(q, table))
           = [i \in DOMAIN q |-> [query |-> q[i], binding |-> Single(q[i], table)]]
<1> DEFINE hits(i)   == {r \in Rows(q, table) : KeyByLine(q)[r[1]] = QueryKey(q[i])}
           direct(i) == {b \in table : b[q[i].type] = q[i].value}
<1>1. ASSUME NEW i \in DOMAIN q
      PROVE  /\ \A r \in hits(i) : r[2] \in direct(i)
             /\ direct(i) # {} => hits(i) # {}
             /\ \A b, c \in direct(i) : b = c
  <2>1. q[i].type \in LookupTypes
    OBVIOUS
  <2>2. ASSUME NEW r \in hits(i)
        PROVE  r[2] \in direct(i)
    <3>1. PICK y \in Distinct(q) \X table :
            y[2][q[y[1]].type] = q[y[1]].value /\ r = <<q[y[1]].line, y[2]>>
      BY <2>2 DEF Rows
    <3>2. r[1] = q[y[1]].line /\ r[2] = y[2] /\ y[1] \in Distinct(q) /\ y[2] \in table
      BY <3>1
    <3>3. KeyByLine(q)[r[1]] = QueryKey(q[y[1]])
      BY <3>2, KeyOfLine
    <3>4. QueryKey(q[y[1]]) = QueryKey(q[i])
      BY <2>2, <3>3
    <3>5. q[y[1]].type = q[i].type /\ q[y[1]].value = q[i].value
      BY <3>4 DEF QueryKey
    <3> QED
      BY <3>1, <3>2, <3>5
  <2>3. ASSUME NEW b \in direct(i)
        PROVE  hits(i) # {}
    <3>1. PICK j \in Distinct(q) : QueryKey(q[j]) = QueryKey(q[i])
      BY FirstOccurrence
    <3>2. q[j].type = q[i].type /\ q[j].value = q[i].value
      BY <3>1 DEF QueryKey
    <3>3. <<j, b>> \in {y \in Distinct(q) \X table : y[2][q[y[1]].type] = q[y[1]].value}
      BY <2>3, <3>2
    <3>4. <<q[j].line, b>> \in Rows(q, table)
      BY <3>3 DEF Rows
    <3>5. KeyByLine(q)[q[j].line] = QueryKey(q[i])
      BY <3>1, KeyOfLine
    <3> QED
      BY <3>4, <3>5
  <2>4. \A b, c \in direct(i) : b = c
    BY <2>1
  <2> QED
    BY <2>2, <2>3, <2>4
<1>2. ASSUME NEW i \in DOMAIN q
      PROVE  (IF hits(i) = {} THEN NoBinding ELSE (CHOOSE r \in hits(i) : TRUE)[2])
               = Single(q[i], table)
  <2>1. CASE direct(i) = {}
    BY <1>1, <2>1 DEF Single
  <2>2. CASE direct(i) # {}
    <3>1. PICK r \in hits(i) : r = CHOOSE x \in hits(i) : TRUE
      BY <1>1, <2>2
    <3>2. r[2] \in direct(i) /\ hits(i) # {}
      BY <1>1, <3>1
    <3>3. (CHOOSE b \in direct(i) : TRUE) \in direct(i)
      BY <2>2
    <3>4. r[2] = CHOOSE b \in direct(i) : TRUE
      BY <1>1, <3>2, <3>3
    <3> QED
      BY <2>2, <3>1, <3>2, <3>4 DEF Single
  <2> QED
    BY <2>1, <2>2
<1> QED
  BY <1>2 DEF Restore

-----------------------------------------------------------------------------
(* Theorems.                                                                *)

\* Nothing has been asked or bound.
LEMMA InitIndInv == Init => IndInv
<1> SUFFICES ASSUME Init
             PROVE  IndInv
  OBVIOUS
<1>1. <<>> \in Batches
  BY BatchAssumption DEF Batches
<1>2. answer.status = 0 /\ answer.field_errors = {}
  BY DEF Init, Answer
<1>3. TypeOK
  BY <1>1, <1>2 DEF Init, TypeOK
<1> QED
  BY <1>2, <1>3 DEF Init, IndInv, BatchEqualsSingles, UnnamedItemsAreLegal

\* Every step keeps the invariant.
LEMMA IndInvStep == IndInv /\ [Next]_vars => IndInv'
<1> SUFFICES ASSUME IndInv, [Next]_vars
             PROVE  IndInv'
  OBVIOUS
<1>1. TypeOK /\ BatchEqualsSingles /\ UnnamedItemsAreLegal
  BY DEF IndInv
<1>2. CASE Book
  <2>1. UNCHANGED <<batch, pc, read, answer>> /\ answer.status = 0
    BY <1>2 DEF Book, IndInv
  <2>2. pc # "idle" => seen \subseteq seen'
    BY <1>2 DEF Book
  <2>3. \A x, y \in bindings' : x = y \/ \A column \in LookupTypes : x[column] # y[column]
    BY <1>2 DEF Book, IndInv
  <2>4. /\ \A table \in seen' : table \subseteq bindings'
        /\ pc' # "idle" => bindings' \in seen'
    BY <1>2, <2>1 DEF Book, IndInv
  <2>5. TypeOK'
    BY <1>1, <2>1 DEF TypeOK
  <2>6. BatchEqualsSingles' /\ UnnamedItemsAreLegal'
    BY <2>1 DEF BatchEqualsSingles, UnnamedItemsAreLegal
  <2>7. /\ pc' # "done" => answer'.status = 0
        /\ pc' \in {"query", "commit"} => FieldErrors(batch') = {}
        /\ pc' = "commit" => \E table \in seen' : read' = Rows(batch', table)
    BY <2>1, <2>2 DEF IndInv
  <2> QED
    BY <2>3, <2>4, <2>5, <2>6, <2>7 DEF IndInv
<1>3. CASE Submit
  <2>1. batch' \in Batches /\ UNCHANGED <<bindings, read>> /\ seen' = {bindings}
    BY <1>3 DEF Submit
  <2>2. CASE FieldErrors(batch') = {} /\ pc' = "query" /\ UNCHANGED answer
    <3>1. Len(batch') \in 1..MaxBatchQueries
      BY <2>1, <2>2, NoErrors
    <3>2. answer'.status = 0
      BY <1>3, <2>2 DEF Submit, IndInv
    <3>3. TypeOK'
      BY <1>1, <2>1, <2>2, <3>1 DEF TypeOK
    <3>4. BatchEqualsSingles' /\ UnnamedItemsAreLegal'
      BY <3>2 DEF BatchEqualsSingles, UnnamedItemsAreLegal
    <3> QED
      BY <2>1, <2>2, <3>2, <3>3, <3>4 DEF IndInv
  <2>3. CASE /\ FieldErrors(batch') # {}
             /\ pc' = "done"
             /\ answer' = Answer(422, FieldErrors(batch'), <<>>)
    <3>1. answer'.status = 422 /\ answer'.field_errors = FieldErrors(batch')
      BY <2>3 DEF Answer
    <3>2. TypeOK'
      BY <2>1, <2>3, <3>1 DEF TypeOK
    <3>3. BatchEqualsSingles'
      BY <3>1 DEF BatchEqualsSingles
    <3>4. UnnamedItemsAreLegal'
      <4> DEFINE named == {e[1] : e \in answer'.field_errors}
      <4>1. SUFFICES ASSUME named \cap {0} = {}, DecodeErrors(batch') = {}
                     PROVE  \A i \in DOMAIN batch' \ named :
                              /\ batch'[i] \in [line : Lines, type : LookupTypes, value : Values]
                              /\ \A j \in 1..i - 1 : batch'[i].line # batch'[j].line
        BY DEF UnnamedItemsAreLegal
      <4>2. answer'.field_errors = BatchErrors(batch')
        BY <3>1, <4>1 DEF FieldErrors
      <4>3. batch' # <<>> /\ ~ (Len(batch') > MaxBatchQueries)
        <5>1. SUFFICES ASSUME BatchErrors(batch') = {<<0, "queries">>}
                       PROVE  FALSE
          BY DEF BatchErrors
        <5>2. <<0, "queries">>[1] \in named
          BY <4>2, <5>1
        <5> QED
          BY <4>1, <5>2
      <4>4. \A i \in DOMAIN batch' \ named : \A e \in BatchErrors(batch') : e[1] # i
        BY <4>2
      <4> QED
        BY <2>1, <4>1, <4>3, <4>4, UnnamedLegal
    <3> QED
      BY <2>1, <2>3, <3>2, <3>3, <3>4 DEF IndInv
  <2> QED
    BY <1>3, <2>2, <2>3 DEF Submit
<1>4. CASE Query
  <2>1. /\ UNCHANGED <<bindings, batch, answer, seen>>
        /\ pc = "query" /\ pc' = "commit" /\ read' = Rows(batch, bindings)
    BY <1>4 DEF Query
  <2>2. TypeOK'
    BY <1>1, <2>1 DEF TypeOK
  <2>3. BatchEqualsSingles' /\ UnnamedItemsAreLegal'
    BY <1>1, <2>1 DEF BatchEqualsSingles, UnnamedItemsAreLegal
  <2> QED
    BY <2>1, <2>2, <2>3 DEF IndInv
<1>5. CASE Commit
  <2>1. /\ UNCHANGED <<bindings, batch, read, seen>>
        /\ pc = "commit" /\ pc' = "done"
        /\ answer' = Answer(200, {}, Restore(batch, read))
    BY <1>5 DEF Commit
  <2>2. /\ answer'.status = 200 /\ answer'.field_errors = {}
        /\ answer'.results = Restore(batch, read)
    BY <2>1 DEF Answer
  <2>3. TypeOK'
    BY <1>1, <2>1, <2>2 DEF TypeOK
  <2>4. PICK table \in seen : read = Rows(batch, table)
    BY <2>1 DEF IndInv
  <2>5. \A x, y \in table : x = y \/ \A column \in LookupTypes : x[column] # y[column]
    BY DEF IndInv
  <2>6. batch \in Batches /\ FieldErrors(batch) = {}
    BY <1>1, <2>1 DEF TypeOK, IndInv
  <2>7. Restore(batch, read)
          = [i \in DOMAIN batch |-> [query |-> batch[i], binding |-> Single(batch[i], table)]]
    BY <2>4, <2>5, <2>6, AcceptedBatch, RestoredAreSingles
  <2>8. BatchEqualsSingles'
    <3>1. table \in seen'
      BY <2>1
    <3>2. answer'.results = [i \in DOMAIN batch' |-> [query |-> batch'[i], binding |-> Single(batch'[i], table)]]
      BY <2>1, <2>2, <2>7
    <3> QED
      BY <3>1, <3>2, Zenon DEF BatchEqualsSingles
  <2>9. UnnamedItemsAreLegal'
    BY <2>2 DEF UnnamedItemsAreLegal
  <2> QED
    BY <2>1, <2>3, <2>8, <2>9 DEF IndInv
<1>6. CASE Fail
  <2>1. /\ UNCHANGED <<bindings, batch, read, seen>>
        /\ pc # "idle" /\ pc' = "done"
        /\ answer'.status = 500 /\ answer'.field_errors = {}
    BY <1>6 DEF Fail, Answer
  <2>2. TypeOK'
    BY <1>1, <2>1 DEF TypeOK
  <2>3. BatchEqualsSingles' /\ UnnamedItemsAreLegal'
    BY <2>1 DEF BatchEqualsSingles, UnnamedItemsAreLegal
  <2> QED
    BY <2>1, <2>2, <2>3 DEF IndInv
<1>7. CASE UNCHANGED vars
  BY <1>7 DEF vars, IndInv, TypeOK, BatchEqualsSingles, UnnamedItemsAreLegal
<1> QED
  BY <1>2, <1>3, <1>4, <1>5, <1>6, <1>7 DEF Next, Answered

\* The inductive invariant holds for every batch and every ledger.
THEOREM IndInvariant == Spec => []IndInv
<1>1. Init => IndInv
  BY InitIndInv
<1>2. IndInv /\ [Next]_vars => IndInv'
  BY IndInvStep
<1> QED
  BY <1>1, <1>2, PTL DEF Spec

\* No batch that is too long or empty reaches the database, and a rejected one
\* says why (validate.go:67-71).
THEOREM TypeInvariant == Spec => []TypeOK
<1>1. IndInv => TypeOK
  BY DEF IndInv
<1> QED
  BY <1>1, IndInvariant, PTL

\* A batch is answered with the single lookups of one instant (store.go:189-199).
THEOREM BatchInvariant == Spec => []BatchEqualsSingles
<1>1. IndInv => BatchEqualsSingles
  BY DEF IndInv
<1> QED
  BY <1>1, IndInvariant, PTL

\* The errors of a batch name every item at fault (validate.go:67-71).
THEOREM ErrorsInvariant == Spec => []UnnamedItemsAreLegal
<1>1. IndInv => UnnamedItemsAreLegal
  BY DEF IndInv
<1> QED
  BY <1>1, IndInvariant, PTL
=============================================================================
