-------------------------- MODULE UniqueJSONProofs --------------------------
(***************************************************************************)
(* The scan of a body keeps one frame for each open container and accepts  *)
(* exactly the bodies without repeated names, for bodies of any length,    *)
(* any depth and any strings.                                              *)
(***************************************************************************)
EXTENDS UniqueJSON, Integers, FiniteSetTheorems, SequenceTheorems, TLAPS

-----------------------------------------------------------------------------
(* The inductive invariant.                                                 *)

\* The opening token of the container that is open at depth d.
Enclosing(doc, d) ==
  {j \in 1..Len(doc) : /\ doc[j] \in Open
                       /\ Depth(doc, j) = d
                       /\ \A k \in j..Len(doc) : Depth(doc, k) >= d}

\* The names and values that stand in the container opened at position j.
Members(doc, j) ==
  {k \in 1..Len(doc) : doc[k] \notin Close /\ Container(doc, k) = {j}}

NamesIn(doc, j) == {doc[k] : k \in {m \in Members(doc, j) : IsName(doc, m)}}

Repeated(doc) ==
  {i \in 1..Len(doc) : Checked(doc, i) /\ \E j \in 1..i - 1 : SameMember(doc, i, j)}

FrameType == [object : BOOLEAN, expectKey : BOOLEAN, keys : SUBSET Strings]

TypeOK == /\ tokens \in Seq(Tokens)
          /\ rootOnly \in BOOLEAN
          /\ stack \in Seq(FrameType)
          /\ consumed \in {0, 1}

\* Frame d of s describes the container that is open at depth d: an object is
\* between two members unless its frame is the innermost one and has read a
\* name, and the frame has kept the names if they are checked.
FrameDescribes(doc, s, d) ==
  \E j \in 1..Len(doc) :
    /\ Enclosing(doc, d) = {j}
    /\ s[d].object <=> doc[j] = "{"
    /\ s[d].object =>
         /\ Cardinality(Members(doc, j)) % 2 = 0 <=> (d < Len(s) \/ s[d].expectKey)
         /\ s[d].keys = IF ~ rootOnly \/ d = 1 THEN NamesIn(doc, j) ELSE {}

Inside == /\ Len(stack) = Depth(tokens, Len(tokens))
          /\ \A i \in 1..Len(tokens) : Depth(tokens, i) > 0
          /\ \A d \in 1..Len(stack) : FrameDescribes(tokens, stack, d)

Completed == stack = <<>> /\ OneValue(tokens, Len(tokens))

\* The stack mirrors the open containers while the value is read; nothing was
\* repeated unless the last token just was.
IInv == /\ TypeOK
        /\ result = "reading" /\ consumed = 0 => Inside
        /\ result = "reading" /\ consumed = 1 => Completed
        /\ result = "unique" => OneValue(tokens, Len(tokens))
        /\ result = "empty" => tokens = <<>>
        /\ result = "cut off" => Len(tokens) > 0 /\ Depth(tokens, Len(tokens)) > 0
        /\ result = "multiple values" => OneValue(tokens, Len(tokens) - 1)
        /\ Repeated(tokens) = IF result = "duplicate" THEN {Len(tokens)} ELSE {}

-----------------------------------------------------------------------------
(* Counting tokens.                                                         *)

\* One token more is counted when it is of the kind.
LEMMA CountStep ==
  ASSUME NEW doc, NEW kind, NEW i \in Nat
  PROVE  /\ Count(doc, kind, i) \in Nat
         /\ Count(doc, kind, 0) = 0
         /\ Count(doc, kind, i + 1) = IF doc[i + 1] \in kind
                                      THEN Count(doc, kind, i) + 1
                                      ELSE Count(doc, kind, i)
<1> DEFINE found(n) == {j \in 1..n : doc[j] \in kind}
<1>1. \A n \in Nat : IsFiniteSet(found(n)) /\ Count(doc, kind, n) = Cardinality(found(n))
  <2> SUFFICES ASSUME NEW n \in Nat
               PROVE  IsFiniteSet(found(n)) /\ Count(doc, kind, n) = Cardinality(found(n))
    OBVIOUS
  <2>1. IsFiniteSet(1..n)
    BY FS_Interval
  <2> QED
    BY <2>1, FS_Subset DEF Count
<1>2. found(0) = {} /\ i + 1 \notin found(i)
  OBVIOUS
<1>3. found(i + 1) = IF doc[i + 1] \in kind THEN found(i) \cup {i + 1} ELSE found(i)
  OBVIOUS
<1> HIDE DEF found
<1>4. Cardinality(found(i)) \in Nat
  BY <1>1, FS_CardinalityType
<1>5. Cardinality(found(i) \cup {i + 1}) = Cardinality(found(i)) + 1
  BY <1>1, <1>2, FS_AddElement
<1>6. Cardinality(found(0)) = 0
  BY <1>2, FS_EmptySet
<1> QED
  BY <1>1, <1>3, <1>4, <1>5, <1>6

\* An opening token raises the depth by one, a closing one lowers it by one.
LEMMA DepthStep ==
  ASSUME NEW doc, NEW i \in Nat
  PROVE  /\ Depth(doc, i) \in Int
         /\ Depth(doc, 0) = 0
         /\ doc[i + 1] \in Open => Depth(doc, i + 1) = Depth(doc, i) + 1
         /\ doc[i + 1] \in Close => Depth(doc, i + 1) = Depth(doc, i) - 1
         /\ doc[i + 1] \notin Open \cup Close => Depth(doc, i + 1) = Depth(doc, i)
<1>1. Open \cap Close = {}
  BY DEF Open, Close
<1>2. \A kind : /\ Count(doc, kind, i) \in Nat
                /\ Count(doc, kind, 0) = 0
                /\ Count(doc, kind, i + 1) = IF doc[i + 1] \in kind
                                             THEN Count(doc, kind, i) + 1
                                             ELSE Count(doc, kind, i)
  BY CountStep
<1> QED
  BY <1>1, <1>2 DEF Depth

-----------------------------------------------------------------------------
(* What is read later changes nothing of what stands before it.             *)

SamePrefix(doc, ext, n) == \A j \in 1..n : ext[j] = doc[j]

LEMMA CountLocal ==
  ASSUME NEW doc, NEW ext, NEW kind, NEW n \in Nat,
         SamePrefix(doc, ext, n),
         NEW i \in 0..n
  PROVE  Count(ext, kind, i) = Count(doc, kind, i)
<1>1. {j \in 1..i : ext[j] \in kind} = {j \in 1..i : doc[j] \in kind}
  BY DEF SamePrefix
<1> QED
  BY <1>1 DEF Count

\* Depths, containers, siblings and name positions are those of the prefix.
LEMMA Local ==
  ASSUME NEW doc, NEW ext, NEW n \in Nat,
         SamePrefix(doc, ext, n)
  PROVE  /\ \A i \in 0..n : Depth(ext, i) = Depth(doc, i)
         /\ \A i \in 1..n + 1 : /\ Container(ext, i) = Container(doc, i)
                                /\ Siblings(ext, i) = Siblings(doc, i)
                                /\ NamePosition(ext, i) <=> NamePosition(doc, i)
         /\ \A i \in 1..n : IsName(ext, i) <=> IsName(doc, i)
<1>1. ASSUME NEW i \in 0..n
      PROVE  Depth(ext, i) = Depth(doc, i)
  <2>1. Count(ext, Open, i) = Count(doc, Open, i)
    BY CountLocal
  <2>2. Count(ext, Close, i) = Count(doc, Close, i)
    BY CountLocal
  <2> QED
    BY <2>1, <2>2 DEF Depth
<1>2. ASSUME NEW i \in 1..n + 1
      PROVE  Container(ext, i) = Container(doc, i)
  <2>1. \A j \in 1..i - 1 : j \in 0..n /\ ext[j] = doc[j] /\ i - 1 \in 0..n
    BY DEF SamePrefix
  <2>2. \A j \in 1..i - 1 : \A k \in j..i - 1 : k \in 0..n
    OBVIOUS
  <2>3. \A j \in 1..i - 1 :
          /\ Depth(ext, j) = Depth(doc, j)
          /\ Depth(ext, i - 1) = Depth(doc, i - 1)
          /\ \A k \in j..i - 1 : Depth(ext, k) = Depth(doc, k)
    BY <1>1, <2>1, <2>2
  <2> QED
    BY <2>1, <2>3 DEF Container
<1>3. ASSUME NEW i \in 1..n + 1
      PROVE  Siblings(ext, i) = Siblings(doc, i)
  <2>1. \A j \in 1..i - 1 : j \in 1..n + 1 /\ ext[j] = doc[j]
    BY DEF SamePrefix
  <2> QED
    BY <1>2, <2>1 DEF Siblings
<1>4. ASSUME NEW i \in 1..n + 1
      PROVE  NamePosition(ext, i) <=> NamePosition(doc, i)
  <2>1. Container(doc, i) \subseteq 1..n
    BY DEF Container
  <2>2. InObject(ext, i) <=> InObject(doc, i)
    BY <1>2, <2>1 DEF InObject, SamePrefix
  <2> QED
    BY <1>3, <2>2 DEF NamePosition
<1>5. \A i \in 1..n : IsName(ext, i) <=> IsName(doc, i)
  BY <1>4 DEF IsName, SamePrefix
<1> QED
  BY <1>1, <1>2, <1>3, <1>4, <1>5

\* A token more after a body.
LEMMA AppendType ==
  ASSUME NEW doc \in Seq(Tokens), NEW t \in Tokens
  PROVE  /\ Append(doc, t) \in Seq(Tokens)
         /\ Len(doc) \in Nat
         /\ Len(Append(doc, t)) = Len(doc) + 1
         /\ Append(doc, t)[Len(doc) + 1] = t
         /\ \A j \in 1..Len(doc) : Append(doc, t)[j] = doc[j]
         /\ SamePrefix(doc, Append(doc, t), Len(doc))
BY DEF SamePrefix

-----------------------------------------------------------------------------
(* Containers.                                                              *)

\* A position lies directly in one container at most.
LEMMA ContainerUnique ==
  ASSUME NEW doc, NEW i \in Nat,
         NEW j \in Container(doc, i), NEW k \in Container(doc, i)
  PROVE  j = k
<1>1. ASSUME NEW p \in Container(doc, i), NEW q \in Container(doc, i), p < q
      PROVE  FALSE
  <2>1. /\ p \in Nat /\ q \in Nat /\ q - 1 \in Nat /\ q - 1 \in p..i - 1
        /\ doc[q] \in Open /\ Depth(doc, q) = Depth(doc, p)
    BY <1>1 DEF Container
  <2>2. Depth(doc, q - 1) >= Depth(doc, p)
    BY <2>1 DEF Container
  <2>3. Depth(doc, q - 1) \in Int /\ Depth(doc, q) = Depth(doc, q - 1) + 1
    <3> DEFINE m == q - 1
    <3>1. m \in Nat /\ m + 1 = q
      BY <2>1
    <3> HIDE DEF m
    <3>2. Depth(doc, m) \in Int /\ Depth(doc, q) = Depth(doc, m) + 1
      BY <2>1, <3>1, DepthStep
    <3> QED
      BY <3>2 DEF m
  <2> QED
    BY <2>1, <2>2, <2>3
<1>2. j \in Nat /\ k \in Nat
  BY DEF Container
<1> QED
  BY <1>1, <1>2

\* The container of the next position is the innermost open one.
LEMMA NextContainer ==
  ASSUME NEW doc, Len(doc) \in Nat
  PROVE  Container(doc, Len(doc) + 1) = Enclosing(doc, Depth(doc, Len(doc)))
<1>1. Len(doc) + 1 - 1 = Len(doc)
  OBVIOUS
<1> QED
  BY <1>1 DEF Container, Enclosing

\* A token more opens a container of its own or leaves those that stay open.
LEMMA EnclosingStep ==
  ASSUME NEW doc \in Seq(Tokens), NEW t \in Tokens, NEW d \in Nat,
         d <= Depth(doc, Len(doc)),
         d <= Depth(Append(doc, t), Len(doc) + 1)
  PROVE  Enclosing(Append(doc, t), d) = Enclosing(doc, d)
<1> DEFINE n == Len(doc)  ext == Append(doc, t)
<1>1. /\ n \in Nat /\ Len(ext) = n + 1
      /\ \A j \in 1..n : ext[j] = doc[j]
      /\ \A i \in 0..n : Depth(ext, i) = Depth(doc, i)
  BY AppendType, Local
<1>2. ~ (ext[n + 1] \in Open /\ Depth(ext, n + 1) = d)
  <2>1. Depth(ext, n) \in Int /\ Depth(ext, n) = Depth(doc, n)
    BY <1>1, DepthStep
  <2>2. ext[n + 1] \in Open => Depth(ext, n + 1) = Depth(ext, n) + 1
    BY <1>1, DepthStep
  <2> QED
    BY <2>1, <2>2
<1>3. \A i \in 0..n : Depth(doc, i) \in Int
  BY <1>1, DepthStep
<1>4. Depth(ext, n + 1) >= d
  OBVIOUS
<1>5. ASSUME NEW j \in 1..n
      PROVE  (\A k \in j..n + 1 : Depth(ext, k) >= d) <=> (\A k \in j..n : Depth(doc, k) >= d)
  <2>1. j..n + 1 = (j..n) \cup {n + 1}
    BY <1>1
  <2>2. \A k \in j..n : Depth(ext, k) = Depth(doc, k)
    BY <1>1
  <2> QED
    BY <1>4, <2>1, <2>2
<1>6. 1..n + 1 = (1..n) \cup {n + 1} /\ \A j \in 1..n : j \in 0..n
  BY <1>1
<1> HIDE DEF n, ext
<1>7. ASSUME NEW j
      PROVE  j \in Enclosing(ext, d) <=> j \in Enclosing(doc, d)
  <2>1. CASE j \in 1..n
    BY <1>1, <1>5, <1>6, <2>1 DEF Enclosing, n
  <2>2. CASE j = n + 1
    BY <1>1, <1>2, <2>2 DEF Enclosing, n
  <2>3. CASE j \notin 1..n + 1
    BY <1>1, <1>6, <2>3 DEF Enclosing, n
  <2> QED
    BY <1>6, <2>1, <2>2, <2>3
<1> QED
  BY <1>7 DEF ext

\* What has just been opened is the innermost container.
LEMMA EnclosingOpened ==
  ASSUME NEW doc \in Seq(Tokens), NEW t \in Open
  PROVE  Enclosing(Append(doc, t), Depth(doc, Len(doc)) + 1) = {Len(doc) + 1}
<1> DEFINE n == Len(doc)  ext == Append(doc, t)  d == Depth(doc, n) + 1
<1>0. t \in Tokens
  BY DEF Tokens
<1>1. /\ n \in Nat /\ Len(ext) = n + 1 /\ ext[n + 1] = t
      /\ \A i \in 0..n : Depth(ext, i) = Depth(doc, i)
  BY <1>0, AppendType, Local
<1>2. Depth(ext, n) = Depth(doc, n) /\ Depth(doc, n) \in Int
  BY <1>1, DepthStep
<1>3. Depth(ext, n + 1) = d
  BY <1>1, <1>2, DepthStep
<1>4. \A j \in 1..n : n \in j..n + 1 /\ ~ (Depth(ext, n) >= d)
  BY <1>1, <1>2
<1> HIDE DEF n, ext, d
<1>5. \A j \in Enclosing(ext, d) : j = n + 1
  BY <1>1, <1>4 DEF Enclosing
<1>6. n + 1 \in Enclosing(ext, d)
  <2>1. \A k \in n + 1..n + 1 : k = n + 1
    BY <1>1
  <2>2. Depth(ext, n + 1) >= d
    BY <1>2, <1>3 DEF d
  <2> QED
    BY <1>1, <1>3, <2>1, <2>2 DEF Enclosing
<1>7. Enclosing(ext, d) = {n + 1}
  BY <1>5, <1>6
<1> QED
  BY <1>7 DEF n, ext, d

-----------------------------------------------------------------------------
(* Members and names.                                                       *)

\* A token that does not close becomes a member of the innermost container.
LEMMA MembersStep ==
  ASSUME NEW doc \in Seq(Tokens), NEW t \in Tokens, NEW j
  PROVE  /\ Members(Append(doc, t), j)
              = IF t \notin Close /\ Container(doc, Len(doc) + 1) = {j}
                THEN Members(doc, j) \cup {Len(doc) + 1} ELSE Members(doc, j)
         /\ IsFiniteSet(Members(doc, j))
         /\ Len(doc) + 1 \notin Members(doc, j)
<1> DEFINE n == Len(doc)  ext == Append(doc, t)
<1>1. /\ n \in Nat /\ Len(ext) = n + 1 /\ ext[n + 1] = t
      /\ \A k \in 1..n : ext[k] = doc[k]
      /\ \A k \in 1..n + 1 : Container(ext, k) = Container(doc, k)
  BY AppendType, Local
<1>2. 1..n + 1 = (1..n) \cup {n + 1} /\ n + 1 \notin 1..n
  BY <1>1
<1>3. IsFiniteSet(Members(doc, j))
  <2>1. IsFiniteSet(1..n)
    BY <1>1, FS_Interval
  <2>2. Members(doc, j) \subseteq 1..n
    BY DEF Members
  <2> QED
    BY <2>1, <2>2, FS_Subset
<1> HIDE DEF n, ext
<1>4. Members(ext, j) = IF t \notin Close /\ Container(doc, n + 1) = {j}
                        THEN Members(doc, j) \cup {n + 1} ELSE Members(doc, j)
  <2>1. \A k \in 1..n : k \in Members(ext, j) <=> k \in Members(doc, j)
    BY <1>1, <1>2 DEF Members, n
  <2>2. n + 1 \in Members(ext, j) <=> t \notin Close /\ Container(doc, n + 1) = {j}
    BY <1>1, <1>2 DEF Members
  <2>3. Members(ext, j) \subseteq (1..n) \cup {n + 1} /\ Members(doc, j) \subseteq 1..n
    BY <1>1, <1>2 DEF Members, n
  <2>4. CASE t \notin Close /\ Container(doc, n + 1) = {j}
    <3>1. n + 1 \in Members(ext, j)
      BY <2>2, <2>4
    <3>2. Members(ext, j) = Members(doc, j) \cup {n + 1}
      BY <2>1, <2>3, <3>1
    <3> QED
      BY <2>4, <3>2
  <2>5. CASE ~ (t \notin Close /\ Container(doc, n + 1) = {j})
    <3>1. n + 1 \notin Members(ext, j)
      BY <2>2, <2>5
    <3>2. Members(ext, j) = Members(doc, j)
      BY <2>1, <2>3, <3>1
    <3> QED
      BY <2>5, <3>2
  <2> QED
    BY <2>4, <2>5
<1>5. n + 1 \notin Members(doc, j)
  BY <1>2 DEF Members, n
<1> QED
  BY <1>3, <1>4, <1>5 DEF n, ext

\* A container has one member more, and an even number of them an odd one.
LEMMA MemberCount ==
  ASSUME NEW doc \in Seq(Tokens), NEW t \in Tokens \ Close, NEW j,
         Container(doc, Len(doc) + 1) = {j}
  PROVE  Cardinality(Members(Append(doc, t), j)) % 2 = 0
           <=> ~ (Cardinality(Members(doc, j)) % 2 = 0)
<1>1. Members(Append(doc, t), j) = Members(doc, j) \cup {Len(doc) + 1}
  BY MembersStep
<1>2. IsFiniteSet(Members(doc, j)) /\ Len(doc) + 1 \notin Members(doc, j)
  BY MembersStep
<1> DEFINE c == Cardinality(Members(doc, j))
<1>3. Cardinality(Members(Append(doc, t), j)) = c + 1 /\ c \in Nat
  BY <1>1, <1>2, FS_AddElement, FS_CardinalityType
<1> HIDE DEF c
<1>4. (c + 1) % 2 = 0 <=> ~ (c % 2 = 0)
  BY <1>3
<1> QED
  BY <1>3, <1>4 DEF c

\* The next token is a name when the innermost container is an object with
\* an even number of names and values.
LEMMA NextNamePosition ==
  ASSUME NEW doc \in Seq(Tokens), NEW j, Container(doc, Len(doc) + 1) = {j}
  PROVE  NamePosition(doc, Len(doc) + 1)
           <=> doc[j] = "{" /\ Cardinality(Members(doc, j)) % 2 = 0
<1>1. Len(doc) + 1 - 1 = Len(doc)
  OBVIOUS
<1>2. Siblings(doc, Len(doc) + 1) = Members(doc, j)
  <2> DEFINE inner == Container(doc, Len(doc) + 1)
  <2>1. Siblings(doc, Len(doc) + 1)
          = {k \in 1..Len(doc) : doc[k] \notin Close /\ Container(doc, k) = inner}
    BY <1>1 DEF Siblings
  <2>2. Members(doc, j)
          = {k \in 1..Len(doc) : doc[k] \notin Close /\ Container(doc, k) = {j}}
    BY DEF Members
  <2> QED
    BY <2>1, <2>2
<1>3. InObject(doc, Len(doc) + 1) <=> doc[j] = "{"
  BY DEF InObject
<1> QED
  BY <1>2, <1>3 DEF NamePosition

\* Only a name adds to the names of a container.
LEMMA NamesStep ==
  ASSUME NEW doc \in Seq(Tokens), NEW t \in Tokens, NEW j
  PROVE  NamesIn(Append(doc, t), j)
           = IF /\ t \in Strings /\ NamePosition(doc, Len(doc) + 1)
                /\ Container(doc, Len(doc) + 1) = {j}
             THEN NamesIn(doc, j) \cup {t} ELSE NamesIn(doc, j)
<1> DEFINE n == Len(doc)  ext == Append(doc, t)
           names(d) == {m \in Members(d, j) : IsName(d, m)}
<1>1. /\ n \in Nat /\ ext[n + 1] = t
      /\ \A k \in 1..n : ext[k] = doc[k]
      /\ \A k \in 1..n : IsName(ext, k) <=> IsName(doc, k)
      /\ NamePosition(ext, n + 1) <=> NamePosition(doc, n + 1)
  BY AppendType, Local
<1>2. IsName(ext, n + 1) <=> t \in Strings /\ NamePosition(doc, n + 1)
  BY <1>1 DEF IsName
<1>3. t \in Strings => t \notin Close
  BY StringsAssumption
<1>4. Members(doc, j) \subseteq 1..n
  BY DEF Members
<1>5. n + 1 \notin 1..n
  BY <1>1
<1> DEFINE new == /\ t \in Strings /\ NamePosition(doc, n + 1)
                  /\ Container(doc, n + 1) = {j}
<1>6. names(ext) = IF new THEN names(doc) \cup {n + 1} ELSE names(doc)
  BY <1>1, <1>2, <1>3, <1>4, <1>5, MembersStep
<1>7. names(doc) \subseteq 1..n
  BY <1>4
<1>8. NamesIn(ext, j) = {ext[k] : k \in names(ext)} /\ NamesIn(doc, j) = {doc[k] : k \in names(doc)}
  BY DEF NamesIn
<1> HIDE DEF names, n, ext
<1>9. CASE new
  BY <1>1, <1>6, <1>7, <1>8, <1>9 DEF n, ext
<1>10. CASE ~ new
  BY <1>1, <1>6, <1>7, <1>8, <1>10 DEF n, ext
<1> QED
  BY <1>9, <1>10

\* What has just been opened has no members.
LEMMA MembersOpened ==
  ASSUME NEW doc \in Seq(Tokens), NEW t \in Open
  PROVE  /\ Members(Append(doc, t), Len(doc) + 1) = {}
         /\ NamesIn(Append(doc, t), Len(doc) + 1) = {}
<1>1. Len(doc) \in Nat /\ Len(Append(doc, t)) = Len(doc) + 1
  BY AppendType DEF Tokens
<1>2. \A k \in 1..Len(doc) + 1 : Len(doc) + 1 \notin Container(Append(doc, t), k)
  BY <1>1 DEF Container
<1>3. Members(Append(doc, t), Len(doc) + 1) = {}
  BY <1>1, <1>2 DEF Members
<1> QED
  BY <1>3 DEF NamesIn

\* A token that is no name repeats nothing.
LEMMA RepeatedWithoutName ==
  ASSUME NEW doc \in Seq(Tokens), NEW t \in Tokens,
         ~ (t \in Strings /\ NamePosition(doc, Len(doc) + 1))
  PROVE  Repeated(Append(doc, t)) = Repeated(doc)
<1> DEFINE n == Len(doc)  ext == Append(doc, t)
<1>1. /\ n \in Nat /\ Len(ext) = n + 1 /\ ext[n + 1] = t
      /\ \A k \in 1..n : ext[k] = doc[k]
      /\ \A k \in 0..n : Depth(ext, k) = Depth(doc, k)
      /\ \A k \in 1..n + 1 : /\ Container(ext, k) = Container(doc, k)
                             /\ NamePosition(ext, k) <=> NamePosition(doc, k)
      /\ \A k \in 1..n : IsName(ext, k) <=> IsName(doc, k)
  BY AppendType, Local
<1>2. ~ IsName(ext, n + 1)
  BY <1>1 DEF IsName
<1>3. 1..n + 1 = (1..n) \cup {n + 1} /\ \A k \in 1..n : k \in 0..n /\ 1..k - 1 \subseteq 1..n
  BY <1>1
<1> HIDE DEF n, ext
<1>4. \A i \in 1..n : Checked(ext, i) <=> Checked(doc, i)
  BY <1>1, <1>3 DEF Checked
<1>5. \A i, j \in 1..n : SameMember(ext, i, j) <=> SameMember(doc, i, j)
  BY <1>1, <1>3 DEF SameMember
<1>6. \A i \in 1..n : i \in Repeated(ext) <=> i \in Repeated(doc)
  BY <1>1, <1>3, <1>4, <1>5 DEF Repeated, n
<1>7. n + 1 \notin Repeated(ext)
  BY <1>2 DEF Repeated, SameMember
<1>8. Repeated(ext) \subseteq 1..n + 1 /\ Repeated(doc) \subseteq 1..n
  BY <1>1 DEF Repeated, n
<1>9. Repeated(ext) = Repeated(doc)
  BY <1>3, <1>6, <1>7, <1>8
<1> QED
  BY <1>9 DEF ext

\* A name repeats one when names are checked and the container has it already.
LEMMA RepeatedName ==
  ASSUME NEW doc \in Seq(Tokens), NEW t \in Strings, NEW j,
         NamePosition(doc, Len(doc) + 1),
         Container(doc, Len(doc) + 1) = {j}
  PROVE  Repeated(Append(doc, t))
           = IF (rootOnly => Depth(doc, Len(doc)) = 1) /\ t \in NamesIn(doc, j)
             THEN Repeated(doc) \cup {Len(doc) + 1} ELSE Repeated(doc)
<1> DEFINE n == Len(doc)  ext == Append(doc, t)
<1>0. t \in Tokens /\ t \notin Open \cup Close
  BY StringsAssumption DEF Tokens
<1>1. /\ n \in Nat /\ Len(ext) = n + 1 /\ ext[n + 1] = t
      /\ \A k \in 1..n : ext[k] = doc[k]
      /\ \A k \in 0..n : Depth(ext, k) = Depth(doc, k)
      /\ \A k \in 1..n + 1 : /\ Container(ext, k) = Container(doc, k)
                             /\ NamePosition(ext, k) <=> NamePosition(doc, k)
      /\ \A k \in 1..n : IsName(ext, k) <=> IsName(doc, k)
  BY <1>0, AppendType, Local
<1>2. IsName(ext, n + 1)
  BY <1>1 DEF IsName
<1>3. /\ 1..n + 1 = (1..n) \cup {n + 1} /\ \A k \in 1..n : k \in 0..n /\ 1..k - 1 \subseteq 1..n
      /\ n + 1 \notin 1..n /\ (n + 1) - 1 = n /\ n \in 0..n
  BY <1>1
<1> HIDE DEF n, ext
<1>4. \A i \in 1..n : Checked(ext, i) <=> Checked(doc, i)
  BY <1>1, <1>3 DEF Checked
<1>5. \A i, k \in 1..n : SameMember(ext, i, k) <=> SameMember(doc, i, k)
  BY <1>1, <1>3 DEF SameMember
<1>6. \A i \in 1..n : i \in Repeated(ext) <=> i \in Repeated(doc)
  BY <1>1, <1>3, <1>4, <1>5 DEF Repeated, n
<1>7. Depth(ext, n + 1) = Depth(doc, n)
  BY <1>0, <1>1, <1>3, DepthStep
<1>8. Checked(ext, n + 1) <=> (rootOnly => Depth(doc, n) = 1)
  BY <1>7 DEF Checked
<1>9. (\E k \in 1..n : SameMember(ext, n + 1, k)) <=> t \in NamesIn(doc, j)
  <2>1. \A k \in 1..n : SameMember(ext, n + 1, k)
                          <=> IsName(doc, k) /\ Container(doc, k) = {j} /\ doc[k] = t
    BY <1>1, <1>2, <1>3 DEF SameMember, n
  <2>2. \A k \in 1..n : IsName(doc, k) => doc[k] \notin Close
    BY StringsAssumption DEF IsName
  <2>3. \A k \in 1..n : k \in Members(doc, j) <=> doc[k] \notin Close /\ Container(doc, k) = {j}
    BY DEF Members, n
  <2>4. Members(doc, j) \subseteq 1..n
    BY DEF Members, n
  <2> QED
    BY <2>1, <2>2, <2>3, <2>4 DEF NamesIn
<1>10. n + 1 \in Repeated(ext) <=> (rootOnly => Depth(doc, n) = 1) /\ t \in NamesIn(doc, j)
  BY <1>1, <1>3, <1>8, <1>9 DEF Repeated
<1>11. Repeated(ext) \subseteq 1..n + 1 /\ Repeated(doc) \subseteq 1..n
  BY <1>1 DEF Repeated, n
<1>12. Repeated(ext) = IF (rootOnly => Depth(doc, n) = 1) /\ t \in NamesIn(doc, j)
                       THEN Repeated(doc) \cup {n + 1} ELSE Repeated(doc)
  <2>1. CASE n + 1 \in Repeated(ext)
    <3>1. Repeated(ext) = Repeated(doc) \cup {n + 1}
      BY <1>3, <1>6, <1>11, <2>1
    <3> QED
      BY <1>10, <2>1, <3>1
  <2>2. CASE n + 1 \notin Repeated(ext)
    <3>1. Repeated(ext) = Repeated(doc)
      BY <1>3, <1>6, <1>11, <2>2
    <3> QED
      BY <1>10, <2>2, <3>1
  <2> QED
    BY <2>1, <2>2
<1> QED
  BY <1>12 DEF n, ext

-----------------------------------------------------------------------------
(* What a token does to the frames.                                         *)

\* The innermost open container is the one that the top frame describes.
LEMMA TopContainer ==
  ASSUME NEW doc \in Seq(Tokens), NEW s \in Seq(FrameType), s # <<>>,
         Len(s) = Depth(doc, Len(doc)), FrameDescribes(doc, s, Len(s))
  PROVE  \E j \in 1..Len(doc) :
           /\ Enclosing(doc, Len(s)) = {j}
           /\ Container(doc, Len(doc) + 1) = {j}
           /\ s[Len(s)].object <=> doc[j] = "{"
           /\ s[Len(s)].object =>
                /\ Cardinality(Members(doc, j)) % 2 = 0 <=> s[Len(s)].expectKey
                /\ s[Len(s)].keys = IF ~ rootOnly \/ Len(s) = 1 THEN NamesIn(doc, j) ELSE {}
<1>1. Len(doc) \in Nat /\ Len(s) \in Nat /\ ~ (Len(s) < Len(s))
  OBVIOUS
<1>2. Container(doc, Len(doc) + 1) = Enclosing(doc, Len(s))
  BY <1>1, NextContainer
<1> QED
  BY <1>1, <1>2 DEF FrameDescribes

\* A container below the innermost one is not touched.
LEMMA LowerFrame ==
  ASSUME NEW doc \in Seq(Tokens), NEW t \in Tokens,
         NEW s \in Seq(FrameType), NEW r \in Seq(FrameType),
         NEW d \in 1..Len(s), d < Len(s), d <= Len(r),
         Len(s) = Depth(doc, Len(doc)),
         Len(r) = Depth(Append(doc, t), Len(doc) + 1),
         FrameDescribes(doc, s, d),
         r[d].object = s[d].object, r[d].keys = s[d].keys,
         r[d].object => d < Len(r) \/ r[d].expectKey
  PROVE  FrameDescribes(Append(doc, t), r, d)
<1> DEFINE n == Len(doc)  ext == Append(doc, t)
<1>1. PICK j \in 1..n :
        /\ Enclosing(doc, d) = {j}
        /\ s[d].object <=> doc[j] = "{"
        /\ s[d].object =>
             /\ Cardinality(Members(doc, j)) % 2 = 0 <=> (d < Len(s) \/ s[d].expectKey)
             /\ s[d].keys = IF ~ rootOnly \/ d = 1 THEN NamesIn(doc, j) ELSE {}
  BY DEF FrameDescribes
<1>2. n \in Nat /\ Len(ext) = n + 1 /\ \A k \in 1..n : ext[k] = doc[k]
  BY AppendType
<1>3. Enclosing(ext, d) = {j}
  <2>1. d \in Nat /\ d <= Depth(doc, n) /\ d <= Depth(ext, n + 1)
    OBVIOUS
  <2> QED
    BY <1>1, <2>1, EnclosingStep
<1>4. Container(doc, n + 1) # {j}
  <2>1. Container(doc, n + 1) = Enclosing(doc, Len(s))
    BY <1>2, NextContainer
  <2>2. \A k \in Enclosing(doc, Len(s)) : Depth(doc, k) = Len(s)
    BY DEF Enclosing
  <2>3. Depth(doc, j) = d
    BY <1>1 DEF Enclosing
  <2> QED
    BY <2>1, <2>2, <2>3
<1>5. Members(ext, j) = Members(doc, j)
  BY <1>4, MembersStep
<1>6. NamesIn(ext, j) = NamesIn(doc, j)
  BY <1>4, NamesStep
<1>7. j \in 1..Len(ext) /\ ext[j] = doc[j]
  BY <1>2
<1> QED
  BY <1>1, <1>3, <1>5, <1>6, <1>7 DEF FrameDescribes

\* A value, or the opening token of one, completes a member of an object.
LEMMA TopFrameValue ==
  ASSUME NEW doc \in Seq(Tokens), NEW t \in Tokens \ Close,
         NEW s \in Seq(FrameType), NEW r \in Seq(FrameType), s # <<>>,
         Len(s) <= Len(r),
         Len(s) = Depth(doc, Len(doc)),
         Len(r) = Depth(Append(doc, t), Len(doc) + 1),
         FrameDescribes(doc, s, Len(s)),
         ~ NamePosition(doc, Len(doc) + 1),
         r[Len(s)].object = s[Len(s)].object, r[Len(s)].keys = s[Len(s)].keys,
         r[Len(s)].object => Len(s) < Len(r) \/ r[Len(s)].expectKey
  PROVE  FrameDescribes(Append(doc, t), r, Len(s))
<1> DEFINE n == Len(doc)  ext == Append(doc, t)  d == Len(s)
<1>1. PICK j \in 1..n :
        /\ Enclosing(doc, d) = {j}
        /\ Container(doc, n + 1) = {j}
        /\ s[d].object <=> doc[j] = "{"
        /\ s[d].object =>
             s[d].keys = IF ~ rootOnly \/ d = 1 THEN NamesIn(doc, j) ELSE {}
  BY TopContainer
<1>2. n \in Nat /\ Len(ext) = n + 1 /\ \A k \in 1..n : ext[k] = doc[k]
  BY AppendType
<1>3. Enclosing(ext, d) = {j}
  <2>1. d \in Nat /\ d <= Depth(doc, n) /\ d <= Depth(ext, n + 1)
    OBVIOUS
  <2> QED
    BY <1>1, <2>1, EnclosingStep
<1>4. doc[j] = "{" => ~ (Cardinality(Members(doc, j)) % 2 = 0)
  BY <1>1, NextNamePosition
<1>5. doc[j] = "{" => Cardinality(Members(ext, j)) % 2 = 0
  BY <1>1, <1>4, MemberCount
<1>6. NamesIn(ext, j) = NamesIn(doc, j)
  BY NamesStep
<1>7. j \in 1..Len(ext) /\ ext[j] = doc[j]
  BY <1>2
<1> QED
  BY <1>1, <1>3, <1>5, <1>6, <1>7 DEF FrameDescribes

\* After a name the frame has it, where names are checked, and waits for a value.
LEMMA TopFrameName ==
  ASSUME NEW doc \in Seq(Tokens), NEW t \in Strings,
         NEW s \in Seq(FrameType), NEW r \in Seq(FrameType), s # <<>>,
         Len(r) = Len(s),
         Len(s) = Depth(doc, Len(doc)),
         Len(r) = Depth(Append(doc, t), Len(doc) + 1),
         FrameDescribes(doc, s, Len(s)),
         s[Len(s)].object, s[Len(s)].expectKey,
         r[Len(s)].object, ~ r[Len(s)].expectKey,
         r[Len(s)].keys = IF ~ rootOnly \/ Len(s) = 1 THEN s[Len(s)].keys \cup {t}
                          ELSE s[Len(s)].keys
  PROVE  FrameDescribes(Append(doc, t), r, Len(s))
<1> DEFINE n == Len(doc)  ext == Append(doc, t)  d == Len(s)
<1>0. t \in Tokens \ Close
  BY StringsAssumption DEF Tokens
<1>1. PICK j \in 1..n :
        /\ Enclosing(doc, d) = {j}
        /\ Container(doc, n + 1) = {j}
        /\ doc[j] = "{"
        /\ Cardinality(Members(doc, j)) % 2 = 0
        /\ s[d].keys = IF ~ rootOnly \/ d = 1 THEN NamesIn(doc, j) ELSE {}
  BY TopContainer
<1>2. n \in Nat /\ Len(ext) = n + 1 /\ \A k \in 1..n : ext[k] = doc[k]
  BY <1>0, AppendType
<1>3. Enclosing(ext, d) = {j}
  <2>1. d \in Nat /\ d <= Depth(doc, n) /\ d <= Depth(ext, n + 1)
    OBVIOUS
  <2> QED
    BY <1>0, <1>1, <2>1, EnclosingStep
<1>4. NamePosition(doc, n + 1)
  BY <1>1, NextNamePosition
<1>5. ~ (Cardinality(Members(ext, j)) % 2 = 0)
  BY <1>0, <1>1, MemberCount
<1>6. NamesIn(ext, j) = NamesIn(doc, j) \cup {t}
  BY <1>0, <1>1, <1>4, NamesStep
<1>7. j \in 1..Len(ext) /\ ext[j] = doc[j] /\ ~ (d < Len(r))
  BY <1>2
<1> QED
  BY <1>1, <1>3, <1>5, <1>6, <1>7 DEF FrameDescribes

\* A frame that has just been pushed describes the empty container.
LEMMA NewFrame ==
  ASSUME NEW doc \in Seq(Tokens), NEW t \in Open, NEW s \in Seq(FrameType),
         Len(s) = Depth(doc, Len(doc))
  PROVE  FrameDescribes(Append(doc, t), Append(s, Frame(t)), Len(s) + 1)
<1> DEFINE n == Len(doc)  ext == Append(doc, t)  r == Append(s, Frame(t))
<1>1. n \in Nat /\ Len(ext) = n + 1 /\ ext[n + 1] = t
  BY AppendType DEF Tokens
<1>2. Enclosing(ext, Len(s) + 1) = {n + 1}
  BY EnclosingOpened
<1>3. Members(ext, n + 1) = {} /\ NamesIn(ext, n + 1) = {}
  BY MembersOpened
<1>4. Cardinality(Members(ext, n + 1)) % 2 = 0
  <2>1. Cardinality({}) = 0
    BY FS_EmptySet
  <2>2. 0 % 2 = 0
    OBVIOUS
  <2> QED
    BY <1>3, <2>1, <2>2
<1>5. r[Len(s) + 1] = Frame(t)
  <2>1. Frame(t) \in FrameType
    BY DEF Frame, FrameType
  <2>2. \A f \in FrameType : Append(s, f)[Len(s) + 1] = f
    OBVIOUS
  <2> QED
    BY <2>1, <2>2
<1>6. n + 1 \in 1..Len(ext)
  BY <1>1
<1>7. /\ r[Len(s) + 1].object <=> ext[n + 1] = "{"
      /\ r[Len(s) + 1].expectKey = TRUE
      /\ r[Len(s) + 1].keys = {}
  <2>1. /\ Frame(t).object <=> t = "{"
        /\ Frame(t).expectKey = TRUE
        /\ Frame(t).keys = {}
    BY DEF Frame
  <2> QED
    BY <1>1, <1>5, <2>1
<1> HIDE DEF ext, r
<1>8. FrameDescribes(ext, r, Len(s) + 1)
  BY <1>2, <1>3, <1>4, <1>6, <1>7 DEF FrameDescribes
<1> QED
  BY <1>8 DEF ext, r

-----------------------------------------------------------------------------
(* The steps of the scan.                                                   *)

\* A token that is read comes after the others; no action changes rootOnly.
LEMMA TokenRead ==
  ASSUME TypeOK, NEW t \in Tokens, Token(t)
  PROVE  /\ tokens' = Append(tokens, t) /\ tokens' \in Seq(Tokens)
         /\ Len(tokens) \in Nat /\ Len(tokens') = Len(tokens) + 1
         /\ result = "reading" /\ rootOnly' = rootOnly
         /\ \A i \in 0..Len(tokens) : Depth(tokens', i) = Depth(tokens, i)
<1>1. tokens \in Seq(Tokens) /\ tokens' = Append(tokens, t)
  BY DEF TypeOK, Token
<1>2. \A i \in 0..Len(tokens) : Depth(Append(tokens, t), i) = Depth(tokens, i)
  BY <1>1, AppendType, Local
<1>3. /\ Append(tokens, t) \in Seq(Tokens)
      /\ Len(tokens) \in Nat /\ Len(Append(tokens, t)) = Len(tokens) + 1
  BY <1>1, AppendType
<1> QED
  BY <1>1, <1>2, <1>3 DEF Token

\* What the invariant says of the next state, in terms of the present rootOnly.
LEMMA SameRootOnly ==
  ASSUME rootOnly' = rootOnly, NEW d
  PROVE  /\ Repeated(tokens)' = Repeated(tokens')
         /\ FrameDescribes(tokens, stack, d)' <=> FrameDescribes(tokens', stack', d)
<1>1. Repeated(tokens)' = Repeated(tokens')
  BY DEF Repeated, Checked
<1>2. FrameDescribes(tokens, stack, d)' <=> FrameDescribes(tokens', stack', d)
  BY DEF FrameDescribes
<1> QED
  BY <1>1, <1>2

\* Which tokens may follow.
LEMMA FollowsFacts ==
  ASSUME NEW doc, NEW t, Follows(doc, t)
  PROVE  /\ t \in Open \cup {Scalar} => ~ NamePosition(doc, Len(doc) + 1)
         /\ t \in Close => Container(doc, Len(doc) + 1) # {}
<1>1. CASE t \in Open \cup {Scalar}
  <2>1. t # "}" /\ t # "]" /\ t \notin Strings /\ t \notin Close
    BY <1>1, StringsAssumption DEF Open, Close, Scalar
  <2> QED
    BY <1>1, <2>1 DEF Follows
<1>2. CASE t = "}"
  <2>1. NamePosition(doc, Len(doc) + 1)
    BY <1>2, StringsAssumption DEF Follows, Open, Close, Scalar
  <2> QED
    BY <1>2, <2>1 DEF NamePosition, InObject, Open, Scalar
<1>3. CASE t = "]"
  <2>1. Container(doc, Len(doc) + 1) # {}
    BY <1>3, StringsAssumption DEF Follows, Open, Close, Scalar
  <2> QED
    BY <1>3, <2>1 DEF Open, Scalar
<1> QED
  BY <1>1, <1>2, <1>3 DEF Close

\* Outside of every container there is nothing to close.
LEMMA NothingOpen ==
  ASSUME TypeOK,
         \/ tokens = <<>>
         \/ Completed
  PROVE  Container(tokens, Len(tokens) + 1) = {}
<1>1. tokens \in Seq(Tokens) /\ Len(tokens) \in Nat
  BY DEF TypeOK
<1>2. CASE tokens = <<>>
  <2>1. 1..Len(tokens) + 1 - 1 = {}
    BY <1>2
  <2> QED
    BY <2>1 DEF Container
<1>3. CASE Completed
  <2> SUFFICES ASSUME NEW j \in Enclosing(tokens, 0)
               PROVE  FALSE
    BY <1>1, <1>3, NextContainer DEF Completed, OneValue
  <2> DEFINE m == j - 1
  <2>1. /\ j \in 1..Len(tokens) /\ tokens[j] \in Open /\ Depth(tokens, j) = 0
        /\ m \in Nat /\ m + 1 = j /\ (m = 0 \/ m \in 1..Len(tokens) - 1)
    BY <1>1 DEF Enclosing
  <2> HIDE DEF m
  <2>2. Depth(tokens, m) \in Int /\ Depth(tokens, j) = Depth(tokens, m) + 1
    BY <2>1, DepthStep
  <2>3. Depth(tokens, m) >= 0
    BY <1>3, <2>1, <2>2, DepthStep DEF Completed, OneValue
  <2> QED
    BY <2>1, <2>2, <2>3
<1> QED
  BY <1>2, <1>3

\* While no container is open and no value is complete, nothing has been read.
LEMMA NothingRead ==
  ASSUME TypeOK, Inside, stack = <<>>
  PROVE  tokens = <<>> /\ Len(tokens) = 0
<1>1. tokens \in Seq(Tokens) /\ Len(tokens) \in Nat
  BY DEF TypeOK
<1>2. Depth(tokens, Len(tokens)) = 0
  BY DEF Inside
<1>3. Len(tokens) \notin 1..Len(tokens)
  BY <1>2 DEF Inside
<1> QED
  BY <1>1, <1>3

\* The top frame tells whether the next string is a name (json.go:89).
LEMMA TopNamePosition ==
  ASSUME TypeOK, Inside, stack # <<>>
  PROVE  NamePosition(tokens, Len(tokens) + 1) <=> Top.object /\ Top.expectKey
<1>1. Len(stack) \in 1..Len(stack) /\ tokens \in Seq(Tokens) /\ stack \in Seq(FrameType)
  BY DEF TypeOK
<1>2. PICK j \in 1..Len(tokens) :
        /\ Container(tokens, Len(tokens) + 1) = {j}
        /\ Top.object <=> tokens[j] = "{"
        /\ Top.object => (Cardinality(Members(tokens, j)) % 2 = 0 <=> Top.expectKey)
  BY <1>1, TopContainer DEF Inside, Top
<1> QED
  BY <1>1, <1>2, NextNamePosition

\* The value is not complete as long as a container is open.
LEMMA InsideNext ==
  ASSUME TypeOK, Inside, NEW t \in Tokens, Token(t),
         stack' # <<>>, stack' \in Seq(FrameType),
         Len(stack') = Depth(tokens', Len(tokens) + 1),
         \A d \in 1..Len(stack') : FrameDescribes(tokens', stack', d)
  PROVE  Inside'
<1>1. Len(stack') > 0
  OBVIOUS
<1>2. \A i \in 1..Len(tokens') : Depth(tokens', i) > 0
  <2>1. \A i \in 1..Len(tokens') : i \in 1..Len(tokens) \/ i = Len(tokens) + 1
    BY TokenRead
  <2>2. \A i \in 1..Len(tokens) : Depth(tokens', i) > 0
    BY TokenRead DEF Inside
  <2> QED
    BY <1>1, <2>1, <2>2
<1>3. \A d \in 1..Len(stack') : FrameDescribes(tokens, stack, d)'
  BY TokenRead, SameRootOnly
<1>4. Len(stack') = Depth(tokens', Len(tokens'))
  BY TokenRead
<1> QED
  BY <1>2, <1>3, <1>4 DEF Inside

\* The value is complete when no container is open any more.
LEMMA CompleteNext ==
  ASSUME TypeOK, Inside, NEW t \in Tokens, Token(t),
         stack' = <<>>, Depth(tokens', Len(tokens) + 1) = 0
  PROVE  Completed'
<1>1. \A i \in 1..Len(tokens') - 1 : i \in 1..Len(tokens)
  BY TokenRead
<1>2. \A i \in 1..Len(tokens) : Depth(tokens', i) > 0
  BY TokenRead DEF Inside
<1> QED
  BY <1>1, <1>2, TokenRead DEF Completed, OneValue

-----------------------------------------------------------------------------
(* Every action preserves the invariant.                                    *)

\* While the scan goes on, only this much is to be shown.
LEMMA StillReading ==
  ASSUME TypeOK', result' = "reading", Repeated(tokens)' = {},
         (consumed' = 0 /\ Inside') \/ (consumed' = 1 /\ Completed')
  PROVE  IInv'
BY DEF IInv

LEMMA ReadOpenStep ==
  ASSUME IInv, ReadOpen
  PROVE  IInv'
<1> DEFINE n == Len(tokens)
<1>1. PICK t \in Open : Token(t) /\ stack' = Append(stack, Frame(t))
  BY DEF ReadOpen
<1>2. t \in Tokens \ Close /\ t \in Tokens /\ t \notin Strings
  BY StringsAssumption DEF Tokens, Open, Close
<1>3. /\ TypeOK /\ result = "reading" /\ consumed = 0 /\ Inside /\ Repeated(tokens) = {}
      /\ result' = "reading" /\ consumed' = 0
  BY <1>1 DEF IInv, ReadOpen, Token
<1>4. /\ tokens' = Append(tokens, t) /\ tokens' \in Seq(Tokens) /\ tokens \in Seq(Tokens)
      /\ n \in Nat /\ Len(tokens') = n + 1 /\ rootOnly' = rootOnly
      /\ tokens'[n + 1] = t /\ Depth(tokens', n) = Depth(tokens, n)
  BY <1>1, <1>2, <1>3, TokenRead, AppendType DEF TypeOK
<1>5. /\ stack \in Seq(FrameType) /\ Len(stack) \in Nat
      /\ Frame(t) \in FrameType
  BY <1>3 DEF TypeOK, Frame, FrameType
<1>6. /\ stack' \in Seq(FrameType) /\ Len(stack') = Len(stack) + 1 /\ stack' # <<>>
      /\ \A d \in 1..Len(stack) : stack'[d] = stack[d]
  BY <1>1, <1>5
<1>7. /\ Len(stack) = Depth(tokens, n)
      /\ Depth(tokens', n + 1) = Len(stack) + 1
  <2>1. Depth(tokens', n + 1) = Depth(tokens', n) + 1
    BY <1>4, DepthStep
  <2> QED
    BY <1>3, <1>4, <2>1 DEF Inside
<1>8. ~ NamePosition(tokens, n + 1)
  BY <1>1, FollowsFacts DEF Token
<1>9. ASSUME NEW d \in 1..Len(stack')
      PROVE  FrameDescribes(tokens', stack', d)
  <2>1. CASE d < Len(stack)
    <3>1. d \in 1..Len(stack) /\ FrameDescribes(tokens, stack, d)
      BY <1>3, <1>5, <2>1 DEF Inside
    <3> QED
      BY <1>2, <1>4, <1>5, <1>6, <1>7, <2>1, <3>1, LowerFrame
  <2>2. CASE d = Len(stack)
    <3>1. d \in 1..Len(stack) /\ FrameDescribes(tokens, stack, Len(stack)) /\ stack # <<>>
      BY <1>3, <1>5, <2>2 DEF Inside
    <3>2. stack'[Len(stack)] = stack[Len(stack)]
      BY <1>6, <2>2, <3>1
    <3> QED
      BY <1>2, <1>4, <1>5, <1>6, <1>7, <1>8, <2>2, <3>1, <3>2, TopFrameValue
  <2>3. CASE d = Len(stack) + 1
    BY <1>1, <1>4, <1>5, <1>7, <2>3, NewFrame
  <2> QED
    BY <1>5, <1>6, <2>1, <2>2, <2>3
<1>10. Inside'
  BY <1>1, <1>2, <1>3, <1>4, <1>6, <1>7, <1>9, InsideNext
<1>11. Repeated(tokens)' = {}
  BY <1>2, <1>3, <1>4, RepeatedWithoutName, SameRootOnly
<1>12. TypeOK'
  BY <1>3, <1>4, <1>6 DEF TypeOK
<1> QED
  BY <1>3, <1>10, <1>11, <1>12 DEF IInv

\* A token that completes a value of the innermost container.
LEMMA ValueStep ==
  ASSUME IInv, NEW t \in Tokens \ (Open \cup Close), Token(t), consumed = 0,
         ~ NamePosition(tokens, Len(tokens) + 1),
         Complete(stack)
  PROVE  IInv'
<1> DEFINE n == Len(tokens)
<1>1. /\ TypeOK /\ result = "reading" /\ Inside /\ Repeated(tokens) = {}
      /\ result' = "reading"
  BY DEF IInv, Complete, Token
<1>2. /\ tokens' = Append(tokens, t) /\ tokens' \in Seq(Tokens) /\ tokens \in Seq(Tokens)
      /\ n \in Nat /\ Len(tokens') = n + 1 /\ rootOnly' = rootOnly
      /\ tokens'[n + 1] = t /\ Depth(tokens', n) = Depth(tokens, n)
  BY <1>1, TokenRead, AppendType DEF TypeOK
<1>3. stack \in Seq(FrameType) /\ Len(stack) \in Nat
  BY <1>1 DEF TypeOK
<1>4. Len(stack) = Depth(tokens, n) /\ Depth(tokens', n + 1) = Len(stack)
  BY <1>1, <1>2, DepthStep DEF Inside
<1>5. Repeated(tokens)' = {}
  BY <1>1, <1>2, RepeatedWithoutName, SameRootOnly
<1>6. CASE stack = <<>>
  <2>1. stack' = <<>> /\ consumed' = 1
    BY <1>6 DEF Complete
  <2>2. Completed'
    BY <1>1, <1>4, <1>6, <2>1, CompleteNext
  <2>3. TypeOK'
    BY <1>1, <1>2, <1>6, <2>1 DEF TypeOK
  <2> QED
    BY <1>1, <1>5, <2>1, <2>2, <2>3 DEF IInv
<1>7. CASE stack # <<>>
  <2>0. Len(stack) \in 1..Len(stack)
    BY <1>3, <1>7
  <2>1. stack' = IF stack[Len(stack)].object
                 THEN [stack EXCEPT ![Len(stack)].expectKey = TRUE] ELSE stack
    BY <1>7 DEF Complete
  <2>2. consumed' = 0
    BY <1>7 DEF Complete
  <2>3. stack[Len(stack)] \in FrameType
    BY <1>3, <2>0
  <2>4. [stack[Len(stack)] EXCEPT !.expectKey = TRUE] \in FrameType
    BY <2>3 DEF FrameType
  <2>5. /\ stack' \in Seq(FrameType) /\ Len(stack') = Len(stack)
        /\ \A d \in 1..Len(stack) : d < Len(stack) => stack'[d] = stack[d]
    BY <1>3, <2>0, <2>1, <2>3, <2>4
  <2>6. /\ stack'[Len(stack)].object = stack[Len(stack)].object
        /\ stack'[Len(stack)].keys = stack[Len(stack)].keys
        /\ stack'[Len(stack)].object => stack'[Len(stack)].expectKey
    BY <1>3, <2>0, <2>1, <2>3 DEF FrameType
  <2>7. ASSUME NEW d \in 1..Len(stack')
        PROVE  FrameDescribes(tokens', stack', d)
    <3>1. CASE d < Len(stack)
      <4>1. d \in 1..Len(stack) /\ FrameDescribes(tokens, stack, d) /\ stack'[d] = stack[d]
        BY <1>1, <2>5, <3>1 DEF Inside
      <4> QED
        BY <1>2, <1>3, <1>4, <2>5, <3>1, <4>1, LowerFrame
    <3>2. CASE d = Len(stack)
      <4>1. FrameDescribes(tokens, stack, Len(stack))
        BY <1>1, <2>0 DEF Inside
      <4> QED
        BY <1>2, <1>3, <1>4, <1>7, <2>5, <2>6, <3>2, <4>1, TopFrameValue
    <3> QED
      BY <1>3, <2>5, <3>1, <3>2
  <2>8. stack' # <<>>
    BY <1>3, <1>7, <2>5
  <2>9. Inside'
    BY <1>1, <1>4, <2>5, <2>7, <2>8, InsideNext
  <2>10. TypeOK'
    BY <1>1, <1>2, <2>2, <2>5 DEF TypeOK
  <2> QED
    BY <1>1, <1>5, <2>2, <2>9, <2>10 DEF IInv
<1> QED
  BY <1>6, <1>7

LEMMA ReadScalarStep ==
  ASSUME IInv, ReadScalar
  PROVE  IInv'
<1>1. Scalar \in Tokens \ (Open \cup Close)
  BY DEF Tokens, Open, Close, Scalar
<1>2. ~ NamePosition(tokens, Len(tokens) + 1)
  BY FollowsFacts DEF ReadScalar, Token
<1> QED
  BY <1>1, <1>2, ValueStep DEF ReadScalar

LEMMA ReadStringStep ==
  ASSUME IInv, ReadString
  PROVE  IInv'
<1>1. PICK t \in Strings : Token(t)
  BY DEF ReadString
<1>2. t \in Tokens \ (Open \cup Close)
  BY StringsAssumption DEF Tokens
<1>3. TypeOK /\ Inside /\ consumed = 0 /\ Complete(stack)
  BY <1>1 DEF IInv, ReadString, Token
<1>4. ~ NamePosition(tokens, Len(tokens) + 1)
  <2>1. CASE stack = <<>>
    <3>1. Container(tokens, Len(tokens) + 1) = {}
      BY <1>3, <2>1, NothingRead, NothingOpen
    <3> QED
      BY <3>1 DEF NamePosition, InObject
  <2>2. CASE stack # <<>>
    BY <1>3, <2>2, TopNamePosition DEF ReadString
  <2> QED
    BY <2>1, <2>2
<1> QED
  BY <1>1, <1>2, <1>3, <1>4, ValueStep

LEMMA ReadCloseStep ==
  ASSUME IInv, ReadClose
  PROVE  IInv'
<1> DEFINE n == Len(tokens)  D == Len(stack)  s == Pop(stack)
<1>1. PICK t \in Close : Token(t)
  BY DEF ReadClose
<1>2. /\ t \in Tokens /\ t \notin Open /\ t \notin Strings
      /\ TypeOK /\ result = "reading" /\ Repeated(tokens) = {}
  BY <1>1, StringsAssumption DEF Tokens, Open, Close, IInv, Token
<1>3. Container(tokens, n + 1) # {}
  BY <1>1, FollowsFacts DEF Token
<1>4. consumed = 0 /\ Inside
  <2>1. consumed # 1
    BY <1>2, <1>3, NothingOpen DEF IInv
  <2> QED
    BY <1>2, <2>1 DEF IInv, TypeOK
<1>5. stack # <<>>
  BY <1>2, <1>3, <1>4, NothingRead, NothingOpen
<1>6. /\ tokens' = Append(tokens, t) /\ tokens' \in Seq(Tokens) /\ tokens \in Seq(Tokens)
      /\ n \in Nat /\ Len(tokens') = n + 1 /\ rootOnly' = rootOnly
      /\ tokens'[n + 1] = t /\ Depth(tokens', n) = Depth(tokens, n)
  BY <1>1, <1>2, TokenRead, AppendType DEF TypeOK
<1>7. stack \in Seq(FrameType) /\ D \in Nat /\ D # 0 /\ D \in 1..D /\ D - 1 \in Nat
  BY <1>2, <1>5 DEF TypeOK
<1>8. D = Depth(tokens, n) /\ Depth(tokens', n + 1) = D - 1
  <2>1. Depth(tokens', n + 1) = Depth(tokens', n) - 1
    BY <1>6, DepthStep
  <2> QED
    BY <1>4, <1>6, <2>1 DEF Inside
<1>9. Repeated(tokens)' = {}
  BY <1>2, <1>6, RepeatedWithoutName, SameRootOnly
<1>10. /\ s \in Seq(FrameType) /\ Len(s) = D - 1
       /\ \A d \in 1..D - 1 : s[d] = stack[d]
  <2>1. \A i \in 1..D - 1 : stack[i] \in FrameType
    BY <1>7
  <2>2. 1 \in Int /\ D - 1 \in Int
    BY <1>7
  <2>3. /\ SubSeq(stack, 1, D - 1) \in Seq(FrameType)
        /\ Len(SubSeq(stack, 1, D - 1)) = IF 1 <= D - 1 THEN D - 1 - 1 + 1 ELSE 0
        /\ \A i \in 1..D - 1 - 1 + 1 : SubSeq(stack, 1, D - 1)[i] = stack[1 + i - 1]
    BY <2>1, <2>2, SubSeqProperties
  <2>4. D - 1 - 1 + 1 = D - 1 /\ \A i \in 1..D - 1 : 1 + i - 1 = i
    BY <1>7
  <2> QED
    BY <1>7, <2>3, <2>4 DEF Pop
<1>11. result' = "reading"
  BY <1>2 DEF ReadClose, Complete
<1>12. CASE D = 1
  <2>1. s = <<>>
    BY <1>10, <1>12
  <2>2. stack' = <<>> /\ consumed' = 1
    BY <1>4, <2>1 DEF ReadClose, Complete
  <2>3. Completed'
    BY <1>1, <1>2, <1>4, <1>8, <1>12, <2>2, CompleteNext
  <2>4. TypeOK'
    BY <1>2, <1>6, <2>2 DEF TypeOK
  <2> QED
    BY <1>9, <1>11, <2>2, <2>3, <2>4, StillReading
<1>13. CASE D # 1
  <2>1. D - 1 \in 1..D - 1 /\ s # <<>>
    BY <1>7, <1>10, <1>13
  <2> HIDE DEF s
  <2>2. /\ stack' = IF s[D - 1].object
                    THEN [s EXCEPT ![D - 1].expectKey = TRUE] ELSE s
        /\ consumed' = 0
    BY <1>4, <1>10, <2>1 DEF ReadClose, Complete, s
  <2>3. s[D - 1] \in FrameType
    BY <1>10, <2>1
  <2>4. [s[D - 1] EXCEPT !.expectKey = TRUE] \in FrameType
    BY <2>3 DEF FrameType
  <2>5. /\ stack' \in Seq(FrameType) /\ Len(stack') = D - 1
        /\ \A d \in 1..D - 1 : d < D - 1 => stack'[d] = s[d]
    BY <1>7, <1>10, <2>1, <2>2, <2>3, <2>4
  <2>6. /\ stack'[D - 1].object = s[D - 1].object
        /\ stack'[D - 1].keys = s[D - 1].keys
        /\ stack'[D - 1].object => stack'[D - 1].expectKey
    BY <1>7, <1>10, <2>1, <2>2, <2>3 DEF FrameType
  <2>7. ASSUME NEW d \in 1..Len(stack')
        PROVE  FrameDescribes(tokens', stack', d)
    <3>1. d \in 1..D - 1 /\ d \in 1..D /\ d < D /\ d <= D - 1
      BY <1>7, <2>5
    <3>2. FrameDescribes(tokens, stack, d)
      BY <1>4, <3>1 DEF Inside
    <3>3. /\ stack'[d].object = stack[d].object /\ stack'[d].keys = stack[d].keys
          /\ stack'[d].object => d < D - 1 \/ stack'[d].expectKey
      BY <1>7, <1>10, <2>5, <2>6, <3>1
    <3> QED
      BY <1>2, <1>6, <1>7, <1>8, <2>5, <3>1, <3>2, <3>3, LowerFrame
  <2>8. stack' # <<>>
    BY <2>1, <2>5
  <2>9. Inside'
    BY <1>1, <1>2, <1>4, <1>8, <2>5, <2>7, <2>8, InsideNext
  <2>10. TypeOK'
    BY <1>2, <1>6, <2>2, <2>5 DEF TypeOK
  <2> QED
    BY <1>9, <1>11, <2>2, <2>9, <2>10, StillReading
<1> QED
  BY <1>12, <1>13

LEMMA ReadNameStep ==
  ASSUME IInv, ReadName
  PROVE  IInv'
<1> DEFINE n == Len(tokens)  D == Len(stack)
           checked == ~ rootOnly \/ D = 1
<1>1. PICK t \in Strings :
        /\ Token(t)
        /\ stack # <<>> /\ Top.object /\ Top.expectKey
        /\ IF checked /\ t \in Top.keys
           THEN result' = "duplicate" /\ UNCHANGED stack
           ELSE /\ SetTop([Top EXCEPT !.expectKey = FALSE,
                                     !.keys = IF checked THEN @ \cup {t} ELSE @])
                /\ UNCHANGED result
        /\ UNCHANGED consumed
  BY DEF ReadName
<1>2. /\ t \in Tokens /\ t \notin Open \cup Close
      /\ TypeOK /\ result = "reading" /\ Repeated(tokens) = {}
  BY <1>1, StringsAssumption DEF Tokens, IInv, Token
<1>3. consumed = 0 /\ Inside /\ consumed' = 0
  BY <1>1, <1>2 DEF IInv, TypeOK, Completed
<1>4. /\ tokens' = Append(tokens, t) /\ tokens' \in Seq(Tokens) /\ tokens \in Seq(Tokens)
      /\ n \in Nat /\ Len(tokens') = n + 1 /\ rootOnly' = rootOnly
      /\ tokens'[n + 1] = t /\ Depth(tokens', n) = Depth(tokens, n)
  BY <1>1, <1>2, TokenRead, AppendType DEF TypeOK
<1>5. stack \in Seq(FrameType) /\ D \in Nat /\ D \in 1..D
  BY <1>1, <1>2 DEF TypeOK
<1>6. D = Depth(tokens, n) /\ Depth(tokens', n + 1) = D
  <2>1. Depth(tokens', n + 1) = Depth(tokens', n)
    BY <1>2, <1>4, DepthStep
  <2> QED
    BY <1>3, <1>4, <2>1 DEF Inside
<1>7. FrameDescribes(tokens, stack, D)
  BY <1>3, <1>5 DEF Inside
<1>8. PICK j \in 1..n :
        /\ Container(tokens, n + 1) = {j}
        /\ Top.keys = IF checked THEN NamesIn(tokens, j) ELSE {}
  BY <1>1, <1>3, <1>4, <1>5, <1>6, <1>7, TopContainer DEF Top
<1>9. NamePosition(tokens, n + 1)
  BY <1>1, <1>2, <1>3, TopNamePosition
<1>10. Repeated(tokens)' = IF checked /\ t \in NamesIn(tokens, j) THEN {n + 1} ELSE {}
  <2>1. Repeated(tokens') = IF (rootOnly => Depth(tokens, n) = 1) /\ t \in NamesIn(tokens, j)
                            THEN Repeated(tokens) \cup {n + 1} ELSE Repeated(tokens)
    BY <1>4, <1>8, <1>9, RepeatedName
  <2>2. (rootOnly => Depth(tokens, n) = 1) <=> checked
    BY <1>6
  <2>3. Repeated(tokens)' = Repeated(tokens')
    BY <1>4, SameRootOnly
  <2> HIDE DEF checked
  <2> QED
    BY <1>2, <2>1, <2>2, <2>3
<1>11. CASE checked /\ t \in Top.keys
  <2>1. result' = "duplicate" /\ stack' = stack
    BY <1>1, <1>11
  <2>2. Repeated(tokens)' = {Len(tokens')}
    BY <1>4, <1>8, <1>10, <1>11
  <2>3. TypeOK'
    BY <1>2, <1>3, <1>4, <2>1 DEF TypeOK
  <2> QED
    BY <2>1, <2>2, <2>3 DEF IInv
<1>12. CASE ~ (checked /\ t \in Top.keys)
  <2> DEFINE f == [Top EXCEPT !.expectKey = FALSE,
                              !.keys = IF checked THEN @ \cup {t} ELSE @]
  <2>1. result' = "reading" /\ stack' = [stack EXCEPT ![D] = f]
    BY <1>1, <1>2, <1>12 DEF SetTop
  <2>2. Repeated(tokens)' = {}
    BY <1>8, <1>10, <1>12
  <2>3. Top \in FrameType
    BY <1>5 DEF Top
  <2>4. /\ f \in FrameType /\ f.object = Top.object /\ ~ f.expectKey
        /\ f.keys = IF checked THEN Top.keys \cup {t} ELSE Top.keys
    BY <2>3 DEF FrameType
  <2> HIDE DEF f
  <2>5. /\ stack' \in Seq(FrameType) /\ Len(stack') = D /\ stack'[D] = f
        /\ \A d \in 1..D : d < D => stack'[d] = stack[d]
    BY <1>5, <2>1, <2>4
  <2>6. ASSUME NEW d \in 1..Len(stack')
        PROVE  FrameDescribes(tokens', stack', d)
    <3>1. CASE d < D
      <4>1. d \in 1..D /\ FrameDescribes(tokens, stack, d) /\ stack'[d] = stack[d]
        BY <1>3, <2>5, <3>1 DEF Inside
      <4>2. /\ d < Len(stack) /\ d <= Len(stack') /\ d < Len(stack')
            /\ Len(stack') = Depth(Append(tokens, t), n + 1)
        BY <1>4, <1>5, <1>6, <2>5, <3>1
      <4>3. t \in Tokens
        BY <1>2
      <4> QED
        BY <1>4, <1>5, <1>6, <2>5, <4>1, <4>2, <4>3, LowerFrame
    <3>2. CASE d = D
      <4>1. /\ stack[D].object /\ stack[D].expectKey
            /\ stack'[D].object /\ ~ stack'[D].expectKey
            /\ stack'[D].keys = IF checked THEN stack[D].keys \cup {t} ELSE stack[D].keys
        BY <1>1, <2>4, <2>5 DEF Top
      <4> QED
        BY <1>1, <1>4, <1>5, <1>6, <1>7, <2>5, <3>2, <4>1, TopFrameName
    <3> QED
      BY <1>5, <2>5, <3>1, <3>2
  <2>7. stack' # <<>>
    BY <1>5, <2>5
  <2>8. Inside'
    BY <1>1, <1>2, <1>3, <1>6, <2>5, <2>6, <2>7, InsideNext
  <2>9. TypeOK'
    BY <1>2, <1>3, <1>4, <2>5 DEF TypeOK
  <2> QED
    BY <1>3, <2>1, <2>2, <2>8, <2>9, StillReading
<1> QED
  BY <1>11, <1>12

LEMMA ValueCounted ==
  ASSUME TypeOK, consumed > 0
  PROVE  consumed = 1
BY DEF TypeOK

\* A token after a complete value is no name, and the value before it stays whole.
LEMMA SecondValueStep ==
  ASSUME IInv, SecondValue
  PROVE  IInv'
<1> DEFINE n == Len(tokens)
<1>1. PICK t \in Tokens : Token(t)
  BY DEF SecondValue
<1>2. /\ TypeOK /\ Completed /\ Repeated(tokens) = {} /\ tokens \in Seq(Tokens)
      /\ result' = "multiple values" /\ UNCHANGED <<stack, consumed>>
  <2>1. result = "reading" /\ consumed > 0 /\ result' = "multiple values"
    BY <1>1 DEF SecondValue, Token
  <2>2. TypeOK /\ Repeated(tokens) = {} /\ (consumed = 1 => Completed)
    BY <2>1 DEF IInv
  <2>3. TypeOK /\ consumed > 0
    BY <2>1, <2>2
  <2>4. consumed = 1 /\ tokens \in Seq(Tokens)
    BY <2>3, ValueCounted DEF TypeOK
  <2> QED
    BY <2>1, <2>2, <2>4 DEF SecondValue
<1>3. /\ tokens' = Append(tokens, t) /\ tokens' \in Seq(Tokens) /\ rootOnly' = rootOnly
      /\ n \in Nat /\ Len(tokens') = n + 1
      /\ \A k \in 0..n : Depth(tokens', k) = Depth(tokens, k)
  BY <1>1, <1>2, TokenRead, AppendType, Local DEF TypeOK
<1>4. ~ NamePosition(tokens, n + 1)
  BY <1>2, NothingOpen DEF NamePosition, InObject
<1>5. Repeated(tokens)' = {}
  BY <1>2, <1>3, <1>4, RepeatedWithoutName, SameRootOnly
<1>6. OneValue(tokens', Len(tokens') - 1)
  <2>1. Len(tokens') - 1 = n /\ n \in 0..n /\ 1..n - 1 \subseteq 0..n
    BY <1>3
  <2> QED
    BY <1>2, <1>3, <2>1 DEF Completed, OneValue
<1>7. TypeOK'
  BY <1>2, <1>3 DEF TypeOK
<1> QED
  BY <1>2, <1>5, <1>6, <1>7 DEF IInv

\* Where the body ends, the frames and the count tell how far its value got.
LEMMA EndStep ==
  ASSUME IInv, EndOfBody \/ SyntaxError
  PROVE  IInv'
<1>1. UNCHANGED <<tokens, rootOnly, stack, consumed>> /\ result = "reading"
  BY DEF EndOfBody, SyntaxError
<1>2. TypeOK /\ consumed \in {0, 1} /\ Repeated(tokens) = {}
  BY <1>1 DEF IInv, TypeOK
<1>3. TypeOK' /\ Repeated(tokens)' = {}
  BY <1>1, <1>2 DEF TypeOK, Repeated, Checked
<1>4. CASE SyntaxError
  BY <1>1, <1>3, <1>4 DEF IInv, SyntaxError
<1>5. CASE EndOfBody /\ stack # <<>>
  <2>1. Inside /\ result' = "cut off"
    BY <1>1, <1>2, <1>5 DEF IInv, Completed, EndOfBody
  <2>2. Len(tokens) > 0 /\ Depth(tokens, Len(tokens)) > 0
    <3>1. Len(stack) > 0 /\ Len(tokens) \in Nat
      BY <1>2, <1>5 DEF TypeOK
    <3>2. Len(stack) = Depth(tokens, Len(tokens)) /\ Depth(tokens, 0) = 0
      BY <1>2, <2>1, DepthStep DEF Inside, TypeOK
    <3> QED
      BY <3>1, <3>2
  <2> QED
    BY <1>1, <1>3, <2>1, <2>2 DEF IInv
<1>6. CASE EndOfBody /\ stack = <<>> /\ consumed = 0
  <2>1. Inside /\ result' = "empty"
    BY <1>1, <1>6 DEF IInv, EndOfBody
  <2> QED
    BY <1>1, <1>2, <1>3, <1>6, <2>1, NothingRead DEF IInv
<1>7. CASE EndOfBody /\ stack = <<>> /\ consumed = 1
  <2>1. Completed /\ result' = "unique"
    BY <1>1, <1>7 DEF IInv, EndOfBody
  <2> QED
    BY <1>1, <1>3, <2>1 DEF IInv, Completed
<1> QED
  BY <1>2, <1>4, <1>5, <1>6, <1>7

LEMMA StutterStep ==
  ASSUME IInv, UNCHANGED vars
  PROVE  IInv'
BY DEF IInv, vars, TypeOK, Inside, Completed, OneValue, FrameDescribes, Repeated, Checked

LEMMA InitInv ==
  ASSUME Init
  PROVE  IInv
<1>1. Len(tokens) = 0 /\ Len(stack) = 0 /\ Depth(tokens, 0) = 0
  BY DepthStep DEF Init
<1>2. TypeOK
  BY DEF Init, TypeOK
<1>3. Inside
  BY <1>1 DEF Inside
<1>4. Repeated(tokens) = {}
  BY <1>1 DEF Repeated
<1> QED
  BY <1>2, <1>3, <1>4 DEF Init, IInv

\* The stack of frames mirrors the body that has been read (json.go:37-110).
THEOREM InvariantHolds == Spec => []IInv
<1>1. Init => IInv
  BY InitInv
<1>2. IInv /\ [Next]_vars => IInv'
  <2> SUFFICES ASSUME IInv, [Next]_vars
               PROVE  IInv'
    OBVIOUS
  <2>1. CASE SecondValue
    BY <2>1, SecondValueStep
  <2>2. CASE ReadOpen
    BY <2>2, ReadOpenStep
  <2>3. CASE ReadClose
    BY <2>3, ReadCloseStep
  <2>4. CASE ReadScalar
    BY <2>4, ReadScalarStep
  <2>5. CASE ReadName
    BY <2>5, ReadNameStep
  <2>6. CASE ReadString
    BY <2>6, ReadStringStep
  <2>7. CASE EndOfBody \/ SyntaxError
    BY <2>7, EndStep
  <2>8. CASE Returned \/ UNCHANGED vars
    BY <2>8, StutterStep DEF Returned
  <2> QED
    BY <2>1, <2>2, <2>3, <2>4, <2>5, <2>6, <2>7, <2>8 DEF Next
<1> QED
  BY <1>1, <1>2, PTL DEF Spec

-----------------------------------------------------------------------------
(* What the scan promises.                                                  *)

LEMMA FramesFollow ==
  ASSUME IInv
  PROVE  FramesAreContainers
<1> SUFFICES ASSUME result = "reading", consumed = 0
             PROVE  /\ Len(stack) = Depth(tokens, Len(tokens))
                    /\ \A d \in 1..Len(stack) :
                         \E j \in 1..Len(tokens) :
                           /\ Depth(tokens, j) = d
                           /\ \A k \in j..Len(tokens) : Depth(tokens, k) >= d
                           /\ stack[d].object <=> tokens[j] = "{"
                    /\ stack # <<>> /\ Top.object =>
                         (Top.expectKey <=> NamePosition(tokens, Len(tokens) + 1))
  BY DEF FramesAreContainers
<1>1. TypeOK /\ Inside
  BY DEF IInv
<1>2. ASSUME NEW d \in 1..Len(stack)
      PROVE  \E j \in 1..Len(tokens) :
               /\ Depth(tokens, j) = d
               /\ \A k \in j..Len(tokens) : Depth(tokens, k) >= d
               /\ stack[d].object <=> tokens[j] = "{"
  <2>1. PICK j \in 1..Len(tokens) :
          /\ Enclosing(tokens, d) = {j}
          /\ stack[d].object <=> tokens[j] = "{"
    BY <1>1 DEF Inside, FrameDescribes
  <2>2. j \in Enclosing(tokens, d)
    BY <2>1
  <2>3. Depth(tokens, j) = d /\ \A k \in j..Len(tokens) : Depth(tokens, k) >= d
    BY <2>2 DEF Enclosing
  <2> QED
    BY <2>1, <2>3
<1>3. Len(stack) = Depth(tokens, Len(tokens))
  BY <1>1 DEF Inside
<1>4. stack # <<>> /\ Top.object =>
        (Top.expectKey <=> NamePosition(tokens, Len(tokens) + 1))
  BY <1>1, TopNamePosition
<1> QED
  BY <1>2, <1>3, <1>4

\* The frames are the open containers of the body read so far, whatever its
\* length and depth, and the innermost object's frame knows whether a name is
\* due (json.go:40-45, 89).
THEOREM FramesMirrorContainers == Spec => []FramesAreContainers
<1>1. IInv => FramesAreContainers
  BY FramesFollow
<1> QED
  BY <1>1, InvariantHolds, PTL

\* The scan calls a body ended or malformed when the decoder does, and only then.
EndsWithDecoder ==
  /\ last = "EOF" <=> result \in {"unique", "empty", "cut off"}
  /\ last = "error" <=> result = "malformed"

LEMMA EndsWithDecoderHolds == Spec => []EndsWithDecoder
<1>1. Init => EndsWithDecoder
  BY DEF Init, EndsWithDecoder
<1>2. EndsWithDecoder /\ [Next]_vars => EndsWithDecoder'
  <2> SUFFICES ASSUME EndsWithDecoder, [Next]_vars
               PROVE  EndsWithDecoder'
    OBVIOUS
  <2>1. CASE ReadOpen \/ ReadClose \/ ReadScalar \/ ReadString
    BY <2>1 DEF ReadOpen, ReadClose, ReadScalar, ReadString, Complete, Token, EndsWithDecoder
  <2>2. CASE SecondValue
    BY <2>2 DEF SecondValue, Token, EndsWithDecoder
  <2>3. CASE ReadName
    <3>1. /\ last' = last /\ result = "reading"
          /\ result' = result \/ result' = "duplicate"
      BY <2>3 DEF ReadName, Token
    <3> QED
      BY <3>1 DEF EndsWithDecoder
  <2>4. CASE EndOfBody
    <3>1. last' = "EOF" /\ result' \in {"unique", "empty", "cut off"}
      BY <2>4 DEF EndOfBody
    <3> QED
      BY <3>1 DEF EndsWithDecoder
  <2>5. CASE SyntaxError
    BY <2>5 DEF SyntaxError, EndsWithDecoder
  <2>6. CASE Returned \/ UNCHANGED vars
    BY <2>6 DEF Returned, vars, EndsWithDecoder
  <2> QED
    BY <2>1, <2>2, <2>3, <2>4, <2>5, <2>6 DEF Next
<1> QED
  BY <1>1, <1>2, PTL DEF Spec

LEMMA AcceptsFollows ==
  ASSUME IInv, EndsWithDecoder
  PROVE  AcceptsExactlyUnique
<1> DEFINE n == Len(tokens)
<1>1. Repeated(tokens) = {i \in 1..n : /\ Checked(tokens, i)
                                       /\ \E j \in 1..i - 1 : SameMember(tokens, i, j)}
  BY DEF Repeated
<1>2. result = "unique" <=> last = "EOF" /\ OneValue(tokens, n)
  <2>1. result = "empty" => ~ OneValue(tokens, n)
    <3>1. result = "empty" => n = 0
      BY DEF IInv
    <3> HIDE DEF n
    <3> QED
      BY <3>1 DEF OneValue
  <2>2. result = "cut off" => ~ OneValue(tokens, n)
    <3>1. result = "cut off" => Depth(tokens, n) > 0
      BY DEF IInv
    <3>2. Depth(tokens, n) > 0 => Depth(tokens, n) # 0
      OBVIOUS
    <3> QED
      BY <3>1, <3>2 DEF OneValue
  <2> QED
    BY <2>1, <2>2 DEF IInv, EndsWithDecoder
<1>3. Repeated(tokens) = IF result = "duplicate" THEN {n} ELSE {}
  BY DEF IInv
<1>4. /\ result = "cut off"         => n > 0 /\ Depth(tokens, n) > 0
      /\ result = "multiple values" => OneValue(tokens, n - 1)
      /\ result = "malformed"       => last = "error"
  BY DEF IInv, EndsWithDecoder
<1>5. result = "empty" => n = 0
  BY DEF IInv
<1> HIDE DEF n
<1> QED
  BY <1>1, <1>2, <1>3, <1>4, <1>5 DEF AcceptsExactlyUnique, n

\* A body that is read to its end is accepted exactly when it is one whole value and
\* no token repeated a name; a body that is refused is refused for a reason that it
\* has, a repeated name at the very token that repeats it (json.go:28-36, 50-64).
THEOREM AcceptanceIsExact == Spec => []AcceptsExactlyUnique
<1>1. IInv /\ EndsWithDecoder => AcceptsExactlyUnique
  BY AcceptsFollows
<1> QED
  BY <1>1, InvariantHolds, EndsWithDecoderHolds, PTL
=============================================================================
